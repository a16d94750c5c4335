------------------------------- MODULE MCUftp -------------------------------
(***************************************************************************)
(* Values for the constants of Uftp.                                       *)
(***************************************************************************)
EXTENDS Uftp

CONSTANTS a, b, stranger, x, tools, sub, lib   \* three clients; four names

\* Files of 2 and of 3 bytes, of which the first 2 fill a buffer; and one whose
\* first buffer ends with the byte 255.
Two       == <<Data(1), Data(2)>>
Three     == <<Data(1), Data(2), Data(3)>>
EndInside == <<Data(1), End, Data(3)>>

\* tools contains the word ls; sub is in a directory that clients lack, and lib
\* in one that the server lacks; the address of stranger has no name.
ToolsIsLs == [f \in Names |-> IF f = tools THEN {"ls"} ELSE {}]
SubOnly   == {sub}
LibOnly   == {lib}
Stranger  == {stranger}

\* Client a types every command for every file, and all other lines; b the
\* commands for x and lib; the stranger ls, or a put.
SomeLines ==
    [c \in Clients |->
        CASE c = a -> ({"get", "put"} \X Names)
                        \cup ({"delete", "puts", "forget"} \X {x}) \cup (Bare \X {NoName})
          [] c = b -> ({"get", "put"} \X {x, lib}) \cup {<<"delete", x>>, <<"ls", NoName>>}
          [] OTHER -> {<<"ls", NoName>>, <<"put", x>>}]
AllLines == [c \in Clients |-> Commands]

\* Client a and the server have x or not, in two versions, and b one of them; all
\* clients have lib, and the server has the other files.
Starts1 ==
    {[local |-> [c \in Clients |-> [f \in Names |->
                    IF f = lib THEN Two ELSE IF f = x THEN l[c] ELSE NoFile]],
      dir |-> [f \in Names |-> IF f = lib THEN NoFile ELSE IF f = x THEN d ELSE Three]] :
        l \in {k \in [Clients -> {NoFile, Two, Three}] : k[stranger] = Two /\ k[b] # Three},
        d \in {NoFile, Two, Three}}

\* Client a has x, with the byte 255 in it.
Starts2 ==
    {[local |-> [c \in Clients |-> [f \in Names |-> EndInside]],
      dir |-> [f \in Names |-> NoFile]]}
=============================================================================
