------------------------------ MODULE UdpEcho ------------------------------
(***************************************************************************)
(* The echo programs of PA1 (udp_example/udp_server.c, upd_client.c), of   *)
(* which uftp_server.c and uftp_client.c are drafts that only add a menu   *)
(* text.  A client sends a line and prints what comes back; the server     *)
(* sends every datagram back to where it came from.  Nothing is numbered   *)
(* or repeated.                                                            *)
(*                                                                         *)
(* A buffer is the bytes before its first zero.                            *)
(***************************************************************************)
EXTENDS Naturals, SequencesExt

CONSTANTS
    Clients,
    Lines,          \* the lines that each client may type; an empty one at EOF
    Unnamed,        \* the clients whose address has no name
    BUFSIZE,
    MaxLines,       \* bound: lines typed by all clients
    MaxFaults       \* bound: faults of the network

ASSUME LinesAssumption ==
    /\ BUFSIZE \in Nat \ {0}
    /\ Lines \in [Clients -> SUBSET Seq(Clients \X Nat)]
    /\ \A c \in Clients : \A q \in Lines[c] : Len(q) < BUFSIZE
    /\ Unnamed \subseteq Clients
    /\ {MaxLines, MaxFaults} \subseteq Nat

VARIABLES
    serving,    \* the server runs
    sbuf,       \* its buffer
    waits,      \* is the client in recvfrom, or at its prompt?
    cbuf,       \* its buffer
    c2s, s2c,   \* the datagrams in flight
    typed,      \* history: the lines each client sent
    faults      \* faults so far

vars == <<serving, sbuf, waits, cbuf, c2s, s2c, typed, faults>>

-----------------------------------------------------------------------------
\* The port may be taken, or the server not be started at all.
Init ==
    /\ serving \in BOOLEAN
    /\ sbuf = <<>>
    /\ waits = [c \in Clients |-> FALSE]
    /\ cbuf = [c \in Clients |-> <<>>]
    /\ c2s = [c \in Clients |-> <<>>]
    /\ s2c = [c \in Clients |-> <<>>]
    /\ typed = [c \in Clients |-> <<>>]
    /\ faults = 0

\* Mutant: what was in the buffer stays behind q.
IntoAppend(b, q) == q \o b

\* recvfrom puts q at the start of buffer b.
Into(b, q) == q \o SubSeq(b, Len(q) + 1, Len(b))

\* bzero, fgets, and sendto of the line.  When the server does not run the
\* datagram is gone.
Ask(c, q) ==
    /\ ~waits[c]
    /\ FoldFunction(LAMBDA l, n : Len(l) + n, 0, typed) < MaxLines
    /\ waits' = [waits EXCEPT ![c] = TRUE]
    /\ cbuf' = [cbuf EXCEPT ![c] = q]
    /\ c2s' = IF serving THEN [c2s EXCEPT ![c] = Append(@, q)] ELSE c2s
    /\ typed' = [typed EXCEPT ![c] = Append(@, q)]
    /\ UNCHANGED <<serving, sbuf, s2c, faults>>

\* recvfrom takes up to n bytes of the reply, into the line that is still there,
\* and printf prints it.
Receive(c, n) ==
    /\ waits[c]
    /\ s2c[c] # <<>>
    /\ waits' = [waits EXCEPT ![c] = FALSE]
    /\ cbuf' = [cbuf EXCEPT ![c] =
                  Into(@, SubSeq(Head(s2c[c]), 1, Min({n, Len(Head(s2c[c]))})))]
    /\ s2c' = [s2c EXCEPT ![c] = Tail(@)]
    /\ UNCHANGED <<serving, sbuf, c2s, typed, faults>>

\* Mutant: n is BUFSIZE.
ShowAll(c) == Receive(c, BUFSIZE)

\* n is strlen(buf).
Show(c) == Receive(c, Len(cbuf[c]))

-----------------------------------------------------------------------------
\* recvfrom into a buffer that holds b, and sendto of the text that is then in it.
Return(c, b) ==
    /\ serving
    /\ c2s[c] # <<>>
    /\ c \notin Unnamed
    /\ sbuf' = Into(b, Head(c2s[c]))
    /\ c2s' = [c2s EXCEPT ![c] = Tail(@)]
    /\ s2c' = [s2c EXCEPT ![c] = Append(@, sbuf')]
    /\ UNCHANGED <<serving, waits, cbuf, typed, faults>>

\* Mutant: the buffer is not cleared.
EchoStale(c) == Return(c, sbuf)

\* Mutant: an empty datagram is not answered.
EchoText(c) == c2s[c] # <<>> /\ Head(c2s[c]) # <<>> /\ Return(c, <<>>)

\* bzero comes first.
Echo(c) == Return(c, <<>>)

\* gethostbyaddr finds no name for the address of a client: the server ends,
\* and so do the datagrams in its socket.
EndServer(c) ==
    /\ serving
    /\ c2s[c] # <<>>
    /\ c \in Unnamed
    /\ serving' = FALSE
    /\ sbuf' = Into(<<>>, Head(c2s[c]))
    /\ c2s' = [d \in Clients |-> <<>>]
    /\ UNCHANGED <<waits, cbuf, s2c, typed, faults>>

-----------------------------------------------------------------------------
\* What a fault of the network makes of the datagrams Q: one is lost, comes
\* twice, or is overtaken by the next.
Disturbed(Q) ==
    {RemoveAt(Q, i) : i \in DOMAIN Q}
        \cup {InsertAt(Q, i, Q[i]) : i \in DOMAIN Q}
        \cup {InsertAt(RemoveAt(Q, i), i + 1, Q[i]) : i \in 1..(Len(Q) - 1)}

Fault ==
    /\ faults < MaxFaults
    /\ faults' = faults + 1
    /\ \E c \in Clients :
        \/ \E Q \in Disturbed(c2s[c]) : c2s' = [c2s EXCEPT ![c] = Q] /\ UNCHANGED s2c
        \/ \E Q \in Disturbed(s2c[c]) : s2c' = [s2c EXCEPT ![c] = Q] /\ UNCHANGED c2s
    /\ UNCHANGED <<serving, sbuf, waits, cbuf, typed>>

Next ==
    \/ \E c \in Clients :
        \/ \E q \in Lines[c] : Ask(c, q)
        \/ Show(c)
        \/ Echo(c)
        \/ EndServer(c)
    \/ Fault

\* The programs are scheduled for ever; who types a line may not.
Fairness == \A c \in Clients : WF_vars(Show(c)) /\ WF_vars(Echo(c) \/ EndServer(c))

Spec == Init /\ [][Next]_vars /\ Fairness

-----------------------------------------------------------------------------
(* Properties.                                                             *)

Text == Seq(Clients \X Nat)

\* Every variable has its type, and no text leaves its buffer.
TypeOK ==
    /\ serving \in BOOLEAN
    /\ sbuf \in Text /\ Len(sbuf) < BUFSIZE
    /\ waits \in [Clients -> BOOLEAN]
    /\ cbuf \in [Clients -> Text] /\ \A c \in Clients : Len(cbuf[c]) < BUFSIZE
    /\ c2s \in [Clients -> Seq(Text)]
    /\ s2c \in [Clients -> Seq(Text)]
    /\ typed \in [Clients -> Seq(Text)]
    /\ faults \in 0..MaxFaults

\* At its prompt a client has just printed something.
HasPrinted(c) == ~waits[c] /\ typed[c] # <<>>

\* As long as the network has delivered every datagram once and in order, what
\* is under way for a client is nothing, or, while it waits, its line or the
\* unchanged echo of it, whatever the others send meanwhile: question and
\* answer stay in step, and a line prints as it was typed (udp_server.c:87-111).
EchoExact ==
    faults = 0 =>
        \A c \in Clients :
            /\ c2s[c] \o s2c[c] \in {<<>>} \cup (IF waits[c] THEN {<<Last(typed[c])>>} ELSE {})
            /\ HasPrinted(c) => cbuf[c] = Last(typed[c])

\* Even after faults, when a reply may belong to an earlier line, a client
\* prints as many bytes as it typed last, and each is the byte at that place
\* of some line of its own (upd_client.c:61-75).
OwnBytes ==
    \A c \in Clients : HasPrinted(c) =>
        /\ Len(cbuf[c]) = Len(Last(typed[c]))
        /\ \A i \in DOMAIN cbuf[c] :
            \E k \in DOMAIN typed[c] :
                i \in DOMAIN typed[c][k] /\ typed[c][k][i] = cbuf[c][i]

\* Without faults every line is answered, an empty one too, unless the server
\* has ended (udp_server.c:82-114).
Answered ==
    \A c \in Clients : waits[c] ~> ~waits[c] \/ ~serving \/ faults > 0
=============================================================================
