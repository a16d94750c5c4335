------------------------------- MODULE Strtok -------------------------------
(***************************************************************************)
(* strtok of the C library, which the threads of serv.c, of webproxy.c and *)
(* of server.c call to cut the strings they received.  It keeps one cursor *)
(* for the whole process: the place where the last call, of any thread,    *)
(* stopped.  A call is one atomic step here.                               *)
(*                                                                         *)
(* mem maps each buffer to its bytes.  A pointer is a buffer and an index. *)
(* Bytes are scaled: a word without separators is one byte, a separator is *)
(* another.                                                                *)
(***************************************************************************)
EXTENDS Naturals, Sequences, FiniteSetsExt

NUL  == "nul"       \* the byte that ends a string
NULL == <<>>        \* the null pointer

\* Past its last byte a buffer is zero.
ByteAt(q, i) == IF i \in DOMAIN q THEN q[i] ELSE NUL

\* The first index from i on whose byte is in D; the first whose byte is not.
FirstIn(q, i, D)    == Min({j \in i..(i + Len(q)) : ByteAt(q, j) \in D})
FirstNotIn(q, i, D) == Min({j \in i..(i + Len(q)) : ByteAt(q, j) \notin D})

\* The string that p points to.
StringAt(mem, p) ==
    SubSeq(mem[p[1]], p[2], FirstIn(mem[p[1]], p[2], {NUL}) - 1)

\* strtok(p, D), where p is the cursor if the program passes NULL: the token
\* found, the cursor after the call, and the memory, in which the separator
\* behind the token was overwritten.
Cut(mem, p, D) ==
    LET b == p[1]
        i == FirstNotIn(mem[b], p[2], D)
        j == FirstIn(mem[b], i, D \cup {NUL})
    IN  IF ByteAt(mem[b], i) = NUL
        THEN [tok |-> NULL, cur |-> <<b, i>>, mem |-> mem]
        ELSE IF ByteAt(mem[b], j) = NUL
        THEN [tok |-> <<b, i>>, cur |-> <<b, j>>, mem |-> mem]
        ELSE [tok |-> <<b, i>>, cur |-> <<b, j + 1>>,
              mem |-> [mem EXCEPT ![b][j] = NUL]]
=============================================================================
