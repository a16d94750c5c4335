----------------------------- MODULE MCUdpEcho -----------------------------
(***************************************************************************)
(* Values for the constants of UdpEcho.                                    *)
(***************************************************************************)
EXTENDS UdpEcho

CONSTANTS a, b, stranger    \* three clients, one without a name

\* Client c types nothing (EOF), a short line and a longer one, no two of
\* whose bytes are the same.
OwnLines == [c \in Clients |-> {<<>>, <<<<c, 1>>>>, <<<<c, 2>>, <<c, 3>>>>}]
=============================================================================
