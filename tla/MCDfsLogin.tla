----------------------------- MODULE MCDfsLogin -----------------------------
(***************************************************************************)
(* Values for the constants of DfsLogin.                                   *)
(***************************************************************************)
EXTENDS DfsLogin

CONSTANTS julia, denver, ghost

\* The accounts of src/PA4/dfs.conf, without the last.
ConfLines == <<<<"Julia", "Juliapwd">>, <<"Denver", "Denverpwd">>>>

\* denver has the password right, julia, too; ghost has the one of another.
Users  == [c \in Clients |-> IF c = julia THEN "Julia" ELSE "Denver"]
Passes == [c \in Clients |-> IF c = denver THEN "Denverpwd" ELSE "Juliapwd"]

\* denver uses both servers, the other only the first.  Without connections of
\* earlier clients both can log in to it at once and one can GET; with two of
\* them only one can read dfs.conf.  The second has none left for a GET.
BothOrFirst == [c \in Clients |-> IF c = denver THEN Servers ELSE {1}]
Limits      == [s \in Servers |-> IF s = 1 THEN 5 ELSE 2]
Earlier     == [s \in Servers |-> IF s = 1 THEN {0, 2} ELSE {0}]
=============================================================================
