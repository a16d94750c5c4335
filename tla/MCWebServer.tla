---------------------------- MODULE MCWebServer ----------------------------
(***************************************************************************)
(* Values for the constants of WebServer.                                  *)
(***************************************************************************)
EXTENDS WebServer

CONSTANTS root, plain, dir, lost, bare, wide, vast

\* GET / without a version, GET /inside/a HTTP, GET /css HTTP, GET /b without
\* a version, GET alone, and GET /b and GET / with long words for a version.
Lines == [r \in Requests |->
    CASE r = root  -> <<"GET", " ", "/", "\n">>
      [] r = plain -> <<"GET", " ", "/", "inside/", "a", " ", "HTTP", "\n">>
      [] r = dir   -> <<"GET", " ", "/", "css", " ", "HTTP", "\n">>
      [] r = lost  -> <<"GET", " ", "/", "b", "\n">>
      [] r = bare  -> <<"GET", "\n">>
      [] r = wide  -> <<"GET", " ", "/", "b", " ", "long", "\n">>
      [] r = vast  -> <<"GET", " ", "/", " ", "huge", "\n">>]

Targets == [r \in Requests |->
    CASE r = root  -> Index
      [] r = plain -> "a"
      [] r = dir   -> "css"
      [] r = lost  -> Absent
      [] r = bare  -> NoFile
      [] r = wide  -> Absent
      [] r = vast  -> Index]

\* a takes three blocks, the index one; css is a directory.
Bytes(w, n) == [i \in 1..n |-> <<w, i>>]
Pages == [w \in Names |-> Bytes(w, CASE w = "a" -> 3 [] w = Index -> 1 [] OTHER -> 0)]
=============================================================================
