---------------------------- MODULE DfsPlacement ----------------------------
(***************************************************************************)
(* The pure part of PUT in the distributed file system's client            *)
(* (PA4/client.c): how a file is cut into four pieces, how its digest      *)
(* selects one of four layouts, and which two pieces each server is sent   *)
(* under each layout.                                                      *)
(***************************************************************************)
EXTENDS Integers, Sequences

CONSTANTS
    IntSpan,    \* number of values of a C int (2^32 in the build)
    LongMax     \* largest C long (2^63 - 1 in the build)

ASSUME WidthAssumption ==
    /\ IntSpan \in Nat \ {0}
    /\ IntSpan % 8 = 0
    /\ LongMax \in Nat
    /\ (LongMax + 1) % IntSpan = 0

Servers == 0..3     \* indices into sockfds[4]
Parts   == 1..4     \* piece numbers

-----------------------------------------------------------------------------
(* Choosing the layout: atoi(str2md5(...)) % 4.                            *)

\* Storing a long in an int keeps the low bits, read as two's complement.
ToInt(v) ==
    LET low == v % IntSpan
    IN  IF low >= IntSpan \div 2 THEN low - IntSpan ELSE low

\* glibc's atoi is (int) strtol: the long saturates, then is narrowed.  v is
\* the value of the decimal digits that the hexadecimal digest starts with.
Atoi(v) == ToInt(IF v > LongMax THEN LongMax ELSE v)

\* C's remainder takes the sign of the dividend.
CRem(a, b) == IF a >= 0 THEN a % b ELSE -((-a) % b)

PutHash(v) == CRem(Atoi(v), 4)

-----------------------------------------------------------------------------
(* The four branches of PUT: LayoutH[s + 1] lists the pieces written to    *)
(* server s, in the order they are written.                                *)

\* Mutants: a block has the number of the next piece; servers next to each
\* other are sent the same pieces.
Layout1Slip  == << <<4, 1>>, <<1, 2>>, <<2, 4>>, <<3, 4>> >>
Layout1Pairs == << <<4, 1>>, <<4, 1>>, <<2, 3>>, <<2, 3>> >>

Layout0 == << <<1, 2>>, <<2, 3>>, <<3, 4>>, <<4, 1>> >>
Layout1 == << <<4, 1>>, <<1, 2>>, <<2, 3>>, <<3, 4>> >>
Layout2 == << <<3, 4>>, <<4, 1>>, <<1, 2>>, <<2, 3>> >>
Layout3 == << <<2, 3>>, <<3, 4>>, <<4, 1>>, <<1, 2>> >>

\* No branch handles a negative hash: then nothing at all is written.
Uploads(h, s) ==
    CASE h = 0 -> Layout0[s + 1]
      [] h = 1 -> Layout1[s + 1]
      [] h = 2 -> Layout2[s + 1]
      [] h = 3 -> Layout3[s + 1]
      [] OTHER -> <<>>

\* The pieces server s holds under layout h.
Holds(h, s) == {Uploads(h, s)[i] : i \in DOMAIN Uploads(h, s)}

-----------------------------------------------------------------------------
(* Cutting the file: four reads of piece_size bytes, the last of which     *)
(* also takes the remainder.                                               *)

PieceSize(n) == n \div 4
Extra(n)     == n % 4

\* Mutant: the remainder is lost.
PartLenFlat(n, p) == PieceSize(n)

PartLen(n, p) == IF p = 4 THEN PieceSize(n) + Extra(n) ELSE PieceSize(n)

\* The bytes of piece p of the file whose bytes are d.
PartOf(d, p) ==
    LET start == (p - 1) * PieceSize(Len(d))
    IN  SubSeq(d, start + 1, start + PartLen(Len(d), p))

\* GET appends the four pieces to the output file in order.
Join(q) == q[1] \o q[2] \o q[3] \o q[4]

-----------------------------------------------------------------------------
(* Reference definitions.                                                  *)

\* Servers are on a ring: under layout h, server s holds the piece numbered
\* by its distance from h, and the next piece.
RingUploads(h, s) == << ((s - h) % 4) + 1, ((s - h + 1) % 4) + 1 >>

\* The pieces that can be fetched when only the servers in up are reachable.
Reachable(h, up) == UNION {Holds(h, s) : s \in up}

\* Two unreachable servers next to each other on the ring.
AdjacentDown(up) == \E s \in Servers : s \notin up /\ (s + 1) % 4 \notin up
=============================================================================
