------------------------ MODULE DfsPlacement_proofs ------------------------
(***************************************************************************)
(* What MCDfsPlacement checks on small inputs, proved for every file, every *)
(* layout and every set of reachable servers.                              *)
(***************************************************************************)
EXTENDS DfsPlacement, SequenceTheorems, TLAPS

\* The four copies of the upload blocks in PUT (client.c:299-563) are one
\* layout, rotated by the hash.
THEOREM LayoutRing ==
    ASSUME NEW h \in 0..3, NEW s \in Servers
    PROVE  Uploads(h, s) = RingUploads(h, s)
<1>1. h \in {0, 1, 2, 3} /\ s \in {0, 1, 2, 3}
    BY DEF Servers
<1>2. CASE h = 0
    BY <1>1, <1>2 DEF Uploads, RingUploads, Layout0
<1>3. CASE h = 1
    BY <1>1, <1>3 DEF Uploads, RingUploads, Layout1
<1>4. CASE h = 2
    BY <1>1, <1>4 DEF Uploads, RingUploads, Layout2
<1>5. CASE h = 3
    BY <1>1, <1>5 DEF Uploads, RingUploads, Layout3
<1>6. QED
    BY <1>1, <1>2, <1>3, <1>4, <1>5

\* The pieces a server holds, from its distance to the hash.
LEMMA HoldsRing ==
    ASSUME NEW h \in 0..3, NEW s \in Servers
    PROVE  Holds(h, s) = {((s - h) % 4) + 1, ((s - h + 1) % 4) + 1}
<1>1. DOMAIN RingUploads(h, s) = {1, 2}
    BY DEF RingUploads
<1>2. QED
    BY <1>1, LayoutRing DEF Holds, RingUploads

\* Every piece is on exactly two servers, which are neighbours on the ring:
\* the redundancy PUT provides (README:6).
LEMMA PieceOnNeighbours ==
    ASSUME NEW h \in 0..3, NEW p \in Parts
    PROVE  \E t \in Servers :
              \A s \in Servers : p \in Holds(h, s) <=> s = t \/ s = (t + 1) % 4
<1> DEFINE t == (p + h + 2) % 4
<1>1. t \in Servers
    BY DEF Parts, Servers
<1>2. ASSUME NEW s \in Servers
      PROVE  p \in Holds(h, s) <=> s = t \/ s = (t + 1) % 4
    <2>1. p = ((s - h) % 4) + 1 <=> s = (t + 1) % 4
        BY DEF Parts, Servers
    <2>2. p = ((s - h + 1) % 4) + 1 <=> s = t
        BY DEF Parts, Servers
    <2>3. QED
        BY <2>1, <2>2, HoldsRing
<1>3. QED
    BY <1>1, <1>2

\* Conversely every pair of neighbours holds a piece nobody else has.
LEMMA NeighboursShare ==
    ASSUME NEW h \in 0..3, NEW t \in Servers
    PROVE  \E p \in Parts :
              \A s \in Servers : p \in Holds(h, s) <=> s = t \/ s = (t + 1) % 4
<1> DEFINE p == ((t - h + 1) % 4) + 1
<1>1. p \in Parts
    BY DEF Parts, Servers
<1>2. ASSUME NEW s \in Servers
      PROVE  p \in Holds(h, s) <=> s = t \/ s = (t + 1) % 4
    <2>1. p = ((s - h) % 4) + 1 <=> s = (t + 1) % 4
        BY DEF Servers
    <2>2. p = ((s - h + 1) % 4) + 1 <=> s = t
        BY DEF Servers
    <2>3. QED
        BY <2>1, <2>2, HoldsRing
<1>3. QED
    BY <1>1, <1>2

\* Whatever the layout, the reachable servers hold the whole file exactly when
\* no two neighbours are unreachable; in particular when at most one is.
THEOREM CoverTheorem ==
    ASSUME NEW h \in 0..3, NEW up \in SUBSET Servers
    PROVE  Parts \subseteq Reachable(h, up) <=> ~AdjacentDown(up)
<1>1. ASSUME NEW s \in Servers
      PROVE  (s + 1) % 4 \in Servers
    BY DEF Servers
<1>2. ASSUME ~AdjacentDown(up), NEW p \in Parts
      PROVE  p \in Reachable(h, up)
    <2>1. PICK t \in Servers :
             \A s \in Servers : p \in Holds(h, s) <=> s = t \/ s = (t + 1) % 4
        BY PieceOnNeighbours
    <2>2. t \in up \/ (t + 1) % 4 \in up
        BY <1>2 DEF AdjacentDown
    <2>3. QED
        BY <1>1, <2>1, <2>2 DEF Reachable
<1>3. ASSUME AdjacentDown(up), Parts \subseteq Reachable(h, up)
      PROVE  FALSE
    <2>1. PICK t \in Servers : t \notin up /\ (t + 1) % 4 \notin up
        BY <1>3 DEF AdjacentDown
    <2>2. PICK p \in Parts :
             \A s \in Servers : p \in Holds(h, s) <=> s = t \/ s = (t + 1) % 4
        BY NeighboursShare
    <2>3. PICK s \in up : p \in Holds(h, s)
        BY <1>3 DEF Reachable
    <2>4. QED
        BY <2>1, <2>2, <2>3
<1>4. QED
    BY <1>2, <1>3

\* Nothing but the four pieces can be fetched.
LEMMA ReachableAreParts ==
    ASSUME NEW h \in 0..3, NEW up \in SUBSET Servers
    PROVE  Reachable(h, up) \subseteq Parts
<1>1. ASSUME NEW s \in Servers
      PROVE  ((s - h) % 4) + 1 \in Parts /\ ((s - h + 1) % 4) + 1 \in Parts
    BY DEF Servers, Parts
<1>2. QED
    BY <1>1, HoldsRing DEF Reachable

-----------------------------------------------------------------------------
\* The cut points of a file of n bytes are in order, and the last is n.
LEMMA CutPoints ==
    ASSUME NEW n \in Nat
    PROVE  /\ PieceSize(n) \in Nat
           /\ Extra(n) \in 0..3
           /\ n = 4 * PieceSize(n) + Extra(n)
    BY DEF PieceSize, Extra

\* The pieces, cut at k, 2k and 3k.
LEMMA PieceBounds ==
    ASSUME NEW S, NEW d \in Seq(S), NEW k, k = PieceSize(Len(d))
    PROVE  /\ k \in Nat /\ Len(d) \in Nat /\ 4 * k <= Len(d)
           /\ PartOf(d, 1) = SubSeq(d, 1, k)
           /\ PartOf(d, 2) = SubSeq(d, k + 1, 2 * k)
           /\ PartOf(d, 3) = SubSeq(d, 2 * k + 1, 3 * k)
           /\ PartOf(d, 4) = SubSeq(d, 3 * k + 1, Len(d))
<1>1. Len(d) \in Nat
    BY LenProperties
<1>2. k \in Nat /\ Extra(Len(d)) \in 0..3 /\ Len(d) = 4 * k + Extra(Len(d))
    BY <1>1, CutPoints
<1>3. /\ PartOf(d, 1) = SubSeq(d, (1 - 1) * k + 1, (1 - 1) * k + k)
      /\ PartOf(d, 2) = SubSeq(d, (2 - 1) * k + 1, (2 - 1) * k + k)
      /\ PartOf(d, 3) = SubSeq(d, (3 - 1) * k + 1, (3 - 1) * k + k)
    BY <1>2 DEF PartOf, PartLen
<1>4. PartOf(d, 4) = SubSeq(d, (4 - 1) * k + 1, (4 - 1) * k + (k + Extra(Len(d))))
    BY <1>2 DEF PartOf, PartLen
<1>5. /\ (1 - 1) * k + 1 = 1         /\ (1 - 1) * k + k = k
      /\ (2 - 1) * k + 1 = k + 1     /\ (2 - 1) * k + k = 2 * k
      /\ (3 - 1) * k + 1 = 2 * k + 1 /\ (3 - 1) * k + k = 3 * k
      /\ (4 - 1) * k + 1 = 3 * k + 1
      /\ (4 - 1) * k + (k + Extra(Len(d))) = Len(d)
    BY <1>2
<1>6. 4 * k <= Len(d)
    BY <1>2
<1>7. PartOf(d, 1) = SubSeq(d, 1, k)
    BY <1>3, <1>5
<1>8. PartOf(d, 2) = SubSeq(d, k + 1, 2 * k)
    BY <1>3, <1>5
<1>9. PartOf(d, 3) = SubSeq(d, 2 * k + 1, 3 * k)
    BY <1>3, <1>5
<1>10. PartOf(d, 4) = SubSeq(d, 3 * k + 1, Len(d))
    BY <1>4, <1>5
<1>11. QED
    BY <1>1, <1>2, <1>6, <1>7, <1>8, <1>9, <1>10, Zenon

\* Cutting a file into pieces and joining them in order gives the file back,
\* whatever its length: GET of what PUT stored is what PUT read
\* (client.c:282-296, 644-687).
THEOREM SplitTheorem ==
    ASSUME NEW S, NEW d \in Seq(S)
    PROVE  Join([p \in Parts |-> PartOf(d, p)]) = d
<1>1. PICK k : k = PieceSize(Len(d))
    OBVIOUS
<1>2. /\ k \in Nat /\ Len(d) \in Nat /\ 4 * k <= Len(d)
      /\ PartOf(d, 1) = SubSeq(d, 1, k)
      /\ PartOf(d, 2) = SubSeq(d, k + 1, 2 * k)
      /\ PartOf(d, 3) = SubSeq(d, 2 * k + 1, 3 * k)
      /\ PartOf(d, 4) = SubSeq(d, 3 * k + 1, Len(d))
    BY <1>1, PieceBounds
<1>3. SubSeq(d, 1, k) \o SubSeq(d, k + 1, 2 * k) = SubSeq(d, 1, 2 * k)
    <2>1. 1 \in 1..Len(d) + 1 /\ k \in (1 - 1)..Len(d) /\ 2 * k \in k..Len(d)
        BY <1>2
    <2>2. QED
        BY <2>1, ConcatAdjacentSubSeq
<1>4. SubSeq(d, 1, 2 * k) \o SubSeq(d, 2 * k + 1, 3 * k) = SubSeq(d, 1, 3 * k)
    <2>1. 1 \in 1..Len(d) + 1 /\ 2 * k \in (1 - 1)..Len(d) /\ 3 * k \in 2 * k..Len(d)
        BY <1>2
    <2>2. QED
        BY <2>1, ConcatAdjacentSubSeq
<1>5. SubSeq(d, 1, 3 * k) \o SubSeq(d, 3 * k + 1, Len(d)) = SubSeq(d, 1, Len(d))
    <2>1. /\ 1 \in 1..Len(d) + 1
          /\ 3 * k \in (1 - 1)..Len(d)
          /\ Len(d) \in 3 * k..Len(d)
        BY <1>2
    <2>2. QED
        BY <2>1, ConcatAdjacentSubSeq
<1>6. SubSeq(d, 1, Len(d)) = d
    BY SubSeqFull
<1>7. Join([p \in Parts |-> PartOf(d, p)])
        = PartOf(d, 1) \o PartOf(d, 2) \o PartOf(d, 3) \o PartOf(d, 4)
    BY DEF Join, Parts
<1>8. QED
    BY <1>2, <1>3, <1>4, <1>5, <1>6, <1>7, Zenon

\* Any stretch of a sequence over S is a sequence over S.
LEMMA SubSeqType ==
    ASSUME NEW S, NEW d \in Seq(S), NEW m \in Int, NEW n \in Int,
           1 <= m, n <= Len(d)
    PROVE  SubSeq(d, m, n) \in Seq(S)
<1>1. Len(d) \in Nat
    BY LenProperties
<1>2. \A i \in m..n : d[i] \in S
    BY <1>1, ElementOfSeq
<1>3. QED
    BY <1>2, SubSeqProperties

\* Every piece of a file of bytes is a sequence of its bytes.
LEMMA PartOfType ==
    ASSUME NEW S, NEW d \in Seq(S), NEW p \in Parts
    PROVE  PartOf(d, p) \in Seq(S)
<1>1. PICK k : k = PieceSize(Len(d))
    OBVIOUS
<1>2. /\ k \in Nat /\ Len(d) \in Nat /\ 4 * k <= Len(d)
      /\ PartOf(d, 1) = SubSeq(d, 1, k)
      /\ PartOf(d, 2) = SubSeq(d, k + 1, 2 * k)
      /\ PartOf(d, 3) = SubSeq(d, 2 * k + 1, 3 * k)
      /\ PartOf(d, 4) = SubSeq(d, 3 * k + 1, Len(d))
    BY <1>1, PieceBounds
<1>3. /\ SubSeq(d, 1, k) \in Seq(S)
      /\ SubSeq(d, k + 1, 2 * k) \in Seq(S)
      /\ SubSeq(d, 2 * k + 1, 3 * k) \in Seq(S)
      /\ SubSeq(d, 3 * k + 1, Len(d)) \in Seq(S)
    BY <1>2, SubSeqType
<1>4. p = 1 \/ p = 2 \/ p = 3 \/ p = 4
    BY DEF Parts
<1>5. QED
    BY <1>2, <1>3, <1>4

-----------------------------------------------------------------------------
\* What the client computes from the digest is between -3 and 3, whatever the
\* digest and the widths of int and long: one of the four branches, or a
\* negative number that has none (client.c:280).
THEOREM PutHashRange ==
    ASSUME NEW v \in Nat
    PROVE  PutHash(v) \in -3..3
<1>1. Atoi(v) \in Int
    BY WidthAssumption DEF Atoi, ToInt
<1>2. ASSUME NEW a \in Int
      PROVE  CRem(a, 4) \in -3..3
    BY DEF CRem
<1>3. QED
    BY <1>1, <1>2 DEF PutHash
-----------------------------------------------------------------------------
(* The same, as invariants of the specification that enumerates the inputs: *)
(* they hold whatever bounds it is given.                                   *)

Inputs(v, n, h, up, MaxDigest, MaxFile) == INSTANCE MCDfsPlacement

\* The inputs that are enumerated.
Enumerated(n, h, up) == n \in Nat /\ h \in 0..3 /\ up \in SUBSET Servers

\* No step changes an input.
LEMMA InputsStay ==
    ASSUME NEW VARIABLE v, NEW VARIABLE n, NEW VARIABLE h, NEW VARIABLE up,
           NEW MaxDigest \in Nat, NEW MaxFile \in Nat
    PROVE  Inputs(v, n, h, up, MaxDigest, MaxFile)!Spec => []Enumerated(n, h, up)
<1>1. Inputs(v, n, h, up, MaxDigest, MaxFile)!Init => Enumerated(n, h, up)
    BY DEF Inputs!Init, Inputs!Servers, Servers, Enumerated
<1>2. /\ Enumerated(n, h, up)
      /\ [Inputs(v, n, h, up, MaxDigest, MaxFile)!Next]_(Inputs(v, n, h, up, MaxDigest, MaxFile)!vars)
      => Enumerated(n, h, up)'
    BY DEF Inputs!Next, Inputs!vars, Enumerated
<1>3. QED
    BY <1>1, <1>2, PTL DEF Inputs!Spec

\* The copies of the upload blocks have no wrong piece number (client.c:299-563).
THEOREM LayoutsAreRings ==
    ASSUME NEW VARIABLE v, NEW VARIABLE n, NEW VARIABLE h, NEW VARIABLE up,
           NEW MaxDigest \in Nat, NEW MaxFile \in Nat
    PROVE  Inputs(v, n, h, up, MaxDigest, MaxFile)!Spec
                => []Inputs(v, n, h, up, MaxDigest, MaxFile)!LayoutIsRing
<1>1. Enumerated(n, h, up) => Inputs(v, n, h, up, MaxDigest, MaxFile)!LayoutIsRing
    <2>1. \A i, s : Inputs(v, n, h, up, MaxDigest, MaxFile)!Uploads(i, s) = Uploads(i, s)
        BY Zenon DEF Inputs!Uploads, Inputs!Layout0, Inputs!Layout1, Inputs!Layout2, Inputs!Layout3,
            Uploads, Layout0, Layout1, Layout2, Layout3
    <2>2. \A i, s : Inputs(v, n, h, up, MaxDigest, MaxFile)!RingUploads(i, s) = RingUploads(i, s)
        BY DEF Inputs!RingUploads, RingUploads
    <2>3. QED
        BY <2>1, <2>2, LayoutRing DEF Inputs!LayoutIsRing, Inputs!Servers, Servers, Enumerated
<1>2. QED
    BY <1>1, InputsStay, PTL

\* With any two servers that are not neighbours unreachable, or fewer, every
\* piece can be fetched; with two neighbours, some piece cannot (README:6).
THEOREM CoverIsExact ==
    ASSUME NEW VARIABLE v, NEW VARIABLE n, NEW VARIABLE h, NEW VARIABLE up,
           NEW MaxDigest \in Nat, NEW MaxFile \in Nat
    PROVE  Inputs(v, n, h, up, MaxDigest, MaxFile)!Spec
                => []Inputs(v, n, h, up, MaxDigest, MaxFile)!CoverIffNoAdjacentDown
<1>1. Enumerated(n, h, up) => Inputs(v, n, h, up, MaxDigest, MaxFile)!CoverIffNoAdjacentDown
    <2>1. \A i, s : Inputs(v, n, h, up, MaxDigest, MaxFile)!Uploads(i, s) = Uploads(i, s)
        BY Zenon DEF Inputs!Uploads, Inputs!Layout0, Inputs!Layout1, Inputs!Layout2, Inputs!Layout3,
            Uploads, Layout0, Layout1, Layout2, Layout3
    <2>2. \A i, s : Inputs(v, n, h, up, MaxDigest, MaxFile)!Holds(i, s) = Holds(i, s)
        BY <2>1, Zenon DEF Inputs!Holds, Holds
    <2>3. \A i, u : Inputs(v, n, h, up, MaxDigest, MaxFile)!Reachable(i, u) = Reachable(i, u)
        BY <2>2, Zenon DEF Inputs!Reachable, Reachable
    <2>4. \A u : Inputs(v, n, h, up, MaxDigest, MaxFile)!AdjacentDown(u) <=> AdjacentDown(u)
        BY DEF Inputs!AdjacentDown, AdjacentDown, Inputs!Servers, Servers
    <2>5. Enumerated(n, h, up) => (Reachable(h, up) = Parts <=> ~AdjacentDown(up))
        BY CoverTheorem, ReachableAreParts DEF Enumerated
    <2>6. QED
        BY <2>3, <2>4, <2>5 DEF Inputs!CoverIffNoAdjacentDown, Inputs!Parts, Parts
<1>2. QED
    BY <1>1, InputsStay, PTL

\* Cutting and joining gives the file back, for every size
\* (client.c:282-296, 644-687).
THEOREM SplitIsLossless ==
    ASSUME NEW VARIABLE v, NEW VARIABLE n, NEW VARIABLE h, NEW VARIABLE up,
           NEW MaxDigest \in Nat, NEW MaxFile \in Nat
    PROVE  Inputs(v, n, h, up, MaxDigest, MaxFile)!Spec
                => []Inputs(v, n, h, up, MaxDigest, MaxFile)!SplitLossless
<1>1. Enumerated(n, h, up) => Inputs(v, n, h, up, MaxDigest, MaxFile)!SplitLossless
    <2>1. SUFFICES ASSUME n \in Nat
                   PROVE  Inputs(v, n, h, up, MaxDigest, MaxFile)!SplitLossless
        BY DEF Enumerated
    <2>2. [i \in 1..n |-> i] \in Seq(Nat)
        BY <2>1
    <2>3. PICK d \in Seq(Nat) : d = [i \in 1..n |-> i]
        BY <2>2
    <2>4. \A p : Inputs(v, n, h, up, MaxDigest, MaxFile)!PartOf(d, p) = PartOf(d, p)
        BY DEF Inputs!PartOf, PartOf, Inputs!PartLen, PartLen, Inputs!PieceSize, PieceSize,
            Inputs!Extra, Extra
    <2>5. Join([p \in Parts |-> PartOf(d, p)]) = d
        BY SplitTheorem
    <2>6. QED
        BY <2>3, <2>4, <2>5, Zenon DEF Inputs!SplitLossless, Inputs!File, Inputs!Join, Join, Inputs!Parts, Parts
<1>2. QED
    BY <1>1, InputsStay, PTL
=============================================================================
