-------------------------------- MODULE MCDfs --------------------------------
(***************************************************************************)
(* Values for the constants of Dfs.                                        *)
(***************************************************************************)
EXTENDS Dfs

CONSTANTS a, b, x, xy    \* clients a and b, names x and xy

\* The file of name f with n distinguishable bytes.
Bytes(f, n) == [i \in 1..n |-> <<"byte", <<f, i>>>>]

\* Five bytes: pieces of 1, 1, 1 and 2.
FiveBytes == [f \in Names |-> Bytes(f, 5)]

\* Each client has every file in its directory; or only b has them.
AllLocal  == [c \in Clients |-> Names]
BHasAll   == [c \in Clients |-> IF c = b THEN Names ELSE {}]

\* Five bytes, of which the second, a piece of its own, is the word NO.
SecondIsNo == [f \in Names |-> [Bytes(f, 5) EXCEPT ![2] = Text("NO")]]

\* xy contains x.
XInXY == [f \in Names |-> IF f = x THEN Names ELSE {f}]

\* No name contains another one.
NoOverlap == [f \in Names |-> {f}]

\* Which servers a client reaches: two opposite ones; one, two or three.
TwoUp  == {{0, 2}}
SomeUp == {{3}, {0, 1}, {0, 1, 2}}

\* What earlier sessions left of each file: nothing; the whole file; of x
\* nothing, or the file less at most one piece, and of xy all but the second.
Absent  == [layout |-> -1, lost |-> {}]
Nothing == {[f \in Names |-> Absent]}
Whole   == {[f \in Names |-> [layout |-> 1, lost |-> {}]]}
SomeRest == {[f \in Names |-> IF f = x THEN rest ELSE [layout |-> 1, lost |-> {2}]] :
    rest \in {Absent} \cup [layout : {1}, lost : {{}} \cup {{p} : p \in Parts}]}
=============================================================================
