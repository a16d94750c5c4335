----------------------------- MODULE PageCache -----------------------------
(***************************************************************************)
(* What the page cache of the web proxy promises: the page of a URL is     *)
(* filled at most once, by one request, from the start and in order; a     *)
(* filling may stop early, and then the page stays as it is for ever.      *)
(***************************************************************************)
EXTENDS SequencesExt

CONSTANTS
    Urls,
    Page        \* the response to each URL, as a sequence of chunks

VARIABLES
    state,      \* of each page: not asked for yet, being filled, settled
    bytes       \* what the cache holds of it

pvars == <<state, bytes>>

Init ==
    /\ state = [u \in Urls |-> "unasked"]
    /\ bytes = [u \in Urls |-> <<>>]

\* A request that finds nothing of the page takes it upon itself to fill it.
Claim(u) ==
    /\ state[u] = "unasked"
    /\ state' = [state EXCEPT ![u] = "filling"]
    /\ UNCHANGED bytes

\* More of the page arrives; the filling may end with it.
Fill(u) ==
    /\ state[u] = "filling"
    /\ \E q \in Prefixes(Page[u]) :
        /\ IsPrefix(bytes[u], q)
        /\ bytes' = [bytes EXCEPT ![u] = q]
    /\ state' \in {state, [state EXCEPT ![u] = "settled"]}

\* The fillings of some pages are given up.
Stop(S) ==
    /\ \A u \in S : state[u] = "filling"
    /\ state' = [u \in Urls |-> IF u \in S THEN "settled" ELSE state[u]]
    /\ UNCHANGED bytes

Next ==
    \/ \E u \in Urls : Claim(u) \/ Fill(u)
    \/ \E S \in SUBSET Urls : Stop(S)

Spec == Init /\ [][Next]_pvars
=============================================================================
