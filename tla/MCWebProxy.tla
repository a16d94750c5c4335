----------------------------- MODULE MCWebProxy -----------------------------
(***************************************************************************)
(* Values for the constants of WebProxy.                                   *)
(***************************************************************************)
EXTENDS WebProxy

CONSTANTS p1, p2, g, h, a, b

\* Two pages, of two chunks and of one.
TwoPages == [w \in Urls |-> IF w = p1 THEN <<"c1", "c2">> ELSE <<"c3">>]

\* The pages are on two hosts.
EachItsHost == [w \in Urls |-> IF w = p1 THEN g ELSE h]

\* The resolver gives g either address; h is the name of no host.
SomeAnswers == [n \in Hosts |-> IF n = g THEN {a, b} ELSE {}]
=============================================================================
