--------------------------- MODULE MCDfsPlacement ---------------------------
(***************************************************************************)
(* Enumerates the inputs of the definitions of DfsPlacement: a digest      *)
(* value v, a file of n bytes, a layout h and a set of reachable servers.  *)
(***************************************************************************)
EXTENDS DfsPlacement

CONSTANTS MaxDigest, MaxFile    \* bounds on the inputs

VARIABLES v, n, h, up

vars == <<v, n, h, up>>

Init ==
    /\ \/ v \in 0..MaxDigest /\ n = 0
       \/ v = 0 /\ n \in 0..MaxFile
    /\ h \in 0..3
    /\ up \in SUBSET Servers

Next == UNCHANGED vars

Spec == Init /\ [][Next]_vars

-----------------------------------------------------------------------------
\* A file of n distinguishable bytes.
File == [i \in 1..n |-> i]

\* The written-out branches of PUT (client.c:299-563) are one ring layout
\* rotated by the hash: no copy of the 16 blocks has a wrong piece number.
LayoutIsRing == \A s \in Servers : Uploads(h, s) = RingUploads(h, s)

\* "reliability through redundancy" (README:6): the reachable servers hold
\* every piece exactly when no two neighbours are unreachable.
CoverIffNoAdjacentDown ==
    Reachable(h, up) = Parts <=> ~AdjacentDown(up)

\* Cutting loses and repeats no byte, whatever the size modulo 4: putting the
\* four pieces together gives the file back (client.c:282-296, 644-687).
SplitLossless == Join([p \in Parts |-> PartOf(File, p)]) = File

\* The hash selects one of the four branches that exist (client.c:299, 365,
\* 431, 497): some branch is always taken.
HashSelectsBranch == PutHash(v) \in 0..3
=============================================================================
