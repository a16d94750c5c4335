-------------------------------- MODULE Uftp --------------------------------
(***************************************************************************)
(* The UDP file transfer of PA1 (Client/uftp_client.c, Server/             *)
(* uftp_server.c).  A file travels as datagrams of BUFSIZE bytes and a     *)
(* shorter last one, with no acknowledgement, number or timeout, and the   *)
(* server takes the next datagram from whichever client sent it.           *)
(*                                                                         *)
(* A datagram and a file are sequences of bytes, of which one stands for   *)
(* the whole text of a command or of a reply: shorter than BUFSIZE, like   *)
(* these texts.  A datagram is a command by what it says; no file of the   *)
(* model spells a command.  Lines end with a newline and fit their buffer, *)
(* but for "cut", and so does the listing of ls.                           *)
(***************************************************************************)
EXTENDS Naturals, SequencesExt

CONSTANTS
    Clients,
    Names,          \* file names
    Starts,         \* the directories at the start: of each client, of the server
    Words,          \* the words of the menu that each name contains
    NoDirectory,    \* the names that a client cannot create
    Refused,        \* the names that the server cannot create or write
    Unnamed,        \* the clients whose address has no name
    Lines,          \* bound: the lines that each client may type
    BUFSIZE,
    MaxPipes,       \* how many pipes the server can leave open
    MaxCommands,    \* bound: commands of all clients
    MaxFaults       \* bound: faults of the network

Data(n)   == <<"byte", n>>
End       == <<"byte", 255>>        \* the byte that equals EOF
Reply(w)  == <<"reply", w>>
NoFile    == <<<<"none", 0>>>>      \* what a name refers to when there is no file

\* What may be typed: the menu, with puts and forget for other words that have
\* put or get in them, noput and noget for such a line of one word; end for the
\* end of the input, and cut for a last line that is the word delete and no newline.
NoName    == CHOOSE f \in Names : TRUE      \* where a command has no file
Filed     == {"get", "put", "delete", "puts", "forget"}
Bare      == {"ls", "exit", "other", "noput", "noget", "end", "cut"}
Commands  == (Filed \X Names) \cup (Bare \X {NoName})
Answers   == {"listing", "written", "not created", "deleted", "not deleted",
              "not there", "read", "get", "unknown"}
Byte      == ({"byte"} \X (0..255)) \cup Commands \cup ({"reply"} \X Answers)

File      == Seq(Byte) \cup {NoFile}

ASSUME FilesAssumption ==
    /\ Names # {}
    /\ Words \in [Names -> SUBSET {"exit", "ls", "delete", "put", "get"}]
    /\ Lines \in [Clients -> SUBSET Commands]
    /\ NoDirectory \subseteq Names /\ Refused \subseteq Names /\ Unnamed \subseteq Clients
    /\ Starts \subseteq [local : [Clients -> [Names -> File]], dir : [Names -> File]]

ASSUME BoundsAssumption ==
    /\ BUFSIZE \in Nat \ {0, 1}
    /\ {MaxPipes, MaxCommands, MaxFaults} \subseteq Nat

VARIABLES
    client,     \* where each client is in its loop, and its command
    local,      \* the files in its directory
    server,     \* where the server is in its loop, and the file it writes
    dir,        \* the files in its directory
    pipes,      \* the pipes that ls left open
    c2s, s2c,   \* the datagrams in flight
    commands,   \* commands so far, for the bound
    faults,     \* faults so far, for the bound
    trouble     \* history: what happened that the protocol does not provide for

vars == <<client, local, server, dir, pipes, c2s, s2c, commands, faults, trouble>>

-----------------------------------------------------------------------------
\* Mutant: the loop ends with the file, not with a short read.
ChunksToEnd(q) ==
    [i \in 1..((Len(q) + BUFSIZE - 1) \div BUFSIZE) |->
        SubSeq(q, (i - 1) * BUFSIZE + 1, IF i * BUFSIZE < Len(q) THEN i * BUFSIZE ELSE Len(q))]

\* What the fread loop sends of a file: full buffers, then a short or empty one.
Chunks(q) ==
    [i \in 1..((Len(q) \div BUFSIZE) + 1) |->
        SubSeq(q, (i - 1) * BUFSIZE + 1, IF i * BUFSIZE < Len(q) THEN i * BUFSIZE ELSE Len(q))]

\* What is written of a datagram: a last byte that equals EOF is dropped.  An
\* empty one has none; the byte before the buffer is then looked at, which in
\* both builds is the end of an address, 0.
Written(q) == IF q # <<>> /\ Last(q) = End THEN Front(q) ELSE q

\* Does the line that was typed contain the word?
HasWord(cmd, w) ==
    \/ cmd[1] = w
    \/ cmd[1] \in {"puts", "noput"} /\ w = "put"
    \/ cmd[1] \in {"forget", "noget"} /\ w = "get"
    \/ cmd[1] = "cut" /\ w = "delete"
    \/ cmd[1] \in Filed /\ w \in Words[cmd[2]]

\* What the client takes the line for: the first of these tests that holds.
Class(cmd) ==
    IF HasWord(cmd, "exit") THEN "exit"
    ELSE IF HasWord(cmd, "ls") \/ HasWord(cmd, "delete") THEN "send"
    ELSE IF HasWord(cmd, "put") THEN "put"
    ELSE IF HasWord(cmd, "get") THEN "get" ELSE "send"

\* The two programs take the line for different commands, or the client for
\* one whose file is not named or cannot be created.
Misread(cmd) ==
    \/ cmd[1] \in {"puts", "forget", "noput", "noget"}
    \/ Class(cmd) # (IF cmd[1] \in {"exit", "put", "get"} THEN cmd[1] ELSE "send")
    \/ cmd[1] = "get" /\ cmd[2] \in NoDirectory

\* What the client sends of the line: at the end of the input its buffer is empty.
Line(cmd) == IF cmd[1] = "end" THEN <<>> ELSE <<cmd>>

\* The full buffer that a put without a file name sends.
NoFileText == [i \in 1..BUFSIZE |-> Data(0)]

Init ==
    /\ client = [c \in Clients |-> [pc |-> "menu", cmd |-> <<"other", NoName>>]]
    /\ server = [pc |-> "cmd", file |-> NoName]
    /\ \E s \in Starts : local = s.local /\ dir = s.dir
    /\ pipes = 0
    /\ c2s = [c \in Clients |-> <<>>]
    /\ s2c = [c \in Clients |-> <<>>]
    /\ commands = 0
    /\ faults = 0
    /\ trouble = {}

-----------------------------------------------------------------------------
(* The client.                                                             *)

\* A put overlaps with a command of another client.
Overlaps(c, cmd) ==
    \E d \in Clients \ {c} :
        client[d].pc \in {"get", "reply"} /\ "put" \in {cmd[1], client[d].cmd[1]}

\* At the prompt, a line is typed that the client takes for k.
Typed(c, cmd, k) ==
    /\ client[c].pc = "menu"
    /\ commands < MaxCommands
    /\ Class(cmd) = k
    /\ commands' = commands + 1
    /\ trouble' = trouble \cup (IF Overlaps(c, cmd) THEN {"overlap"} ELSE {})
                          \cup (IF Misread(cmd) THEN {"line"} ELSE {})
                          \cup (IF cmd[1] \in {"end", "cut"} THEN {"end"} ELSE {})
    /\ UNCHANGED <<server, dir, pipes, s2c, faults>>

Wait(c, cmd, pc) == client' = [client EXCEPT ![c] = [pc |-> pc, cmd |-> cmd]]
Send(c, Q)       == c2s' = [c2s EXCEPT ![c] = @ \o Q]

\* exit: the client ends, without a word to the server.
Exit(c, cmd) ==
    /\ Typed(c, cmd, "exit")
    /\ Wait(c, cmd, "gone")
    /\ UNCHANGED <<local, c2s>>

\* ls, delete, or none of the commands, which the end of the input is: what
\* fgets left in the buffer is sent as it is.
SendLine(c, cmd) ==
    /\ Typed(c, cmd, "send")
    /\ Wait(c, cmd, "reply")
    /\ Send(c, <<Line(cmd)>>)
    /\ UNCHANGED local

\* Mutant: the client does not wait for the reply to a put.
PutNoWait(c, cmd) ==
    /\ Typed(c, cmd, "put")
    /\ local[c][cmd[2]] # NoFile
    /\ Send(c, <<<<cmd>>>> \o Chunks(local[c][cmd[2]]))
    /\ UNCHANGED <<local, client>>

\* put: the line and the whole file are sent, or nothing when there is no file.
\* Without a name a full buffer is, which says so.
Put(c, cmd) ==
    LET q == local[c][cmd[2]]
    IN  /\ Typed(c, cmd, "put")
        /\ \/ /\ cmd[1] # "noput" /\ q # NoFile
              /\ Wait(c, cmd, "reply")
              /\ Send(c, <<<<cmd>>>> \o Chunks(q))
           \/ /\ cmd[1] # "noput" /\ q = NoFile
              /\ UNCHANGED <<client, c2s>>
           \/ /\ cmd[1] = "noput"
              /\ Wait(c, cmd, "reply")
              /\ Send(c, <<NoFileText>>)
        /\ UNCHANGED local

\* get: the line is sent and the file created, empty; if it cannot be, the
\* datagrams of the file remain to be taken for replies.  Without a name the
\* client writes through NULL.
Get(c, cmd) ==
    /\ Typed(c, cmd, "get")
    /\ Send(c, <<<<cmd>>>>)
    /\ \/ /\ cmd[1] # "noget" /\ cmd[2] \notin NoDirectory
          /\ Wait(c, cmd, "get")
          /\ local' = [local EXCEPT ![c][cmd[2]] = <<>>]
       \/ /\ cmd[1] # "noget" /\ cmd[2] \in NoDirectory
          /\ Wait(c, cmd, "reply")
          /\ UNCHANGED local
       \/ /\ cmd[1] = "noget"
          /\ Wait(c, cmd, "gone")
          /\ UNCHANGED local

\* The next datagram goes to the file; a short one is the last.
GetChunk(c) ==
    LET q == Written(Head(s2c[c]))
    IN  /\ client[c].pc = "get"
        /\ s2c[c] # <<>>
        /\ local' = [local EXCEPT ![c][client[c].cmd[2]] = @ \o q]
        /\ client' = [client EXCEPT ![c].pc = IF Len(q) = BUFSIZE THEN "get" ELSE "reply"]
        /\ s2c' = [s2c EXCEPT ![c] = Tail(@)]
        /\ UNCHANGED <<server, dir, pipes, c2s, commands, faults, trouble>>

\* The next datagram is printed as the reply of the server.
GetReply(c) ==
    /\ client[c].pc = "reply"
    /\ s2c[c] # <<>>
    /\ client' = [client EXCEPT ![c].pc = "menu"]
    /\ s2c' = [s2c EXCEPT ![c] = Tail(@)]
    /\ UNCHANGED <<local, server, dir, pipes, c2s, commands, faults, trouble>>

-----------------------------------------------------------------------------
(* The server.                                                             *)

\* At the top of the loop, the next datagram of client c is the command op, and
\* the client's address has a name.
Command(c, op) ==
    /\ server.pc = "cmd"
    /\ c2s[c] # <<>>
    /\ c \notin Unnamed
    /\ Head(c2s[c]) # <<>>
    /\ Head(c2s[c])[1][1] = op
    /\ c2s' = [c2s EXCEPT ![c] = Tail(@)]
    /\ UNCHANGED <<client, local, commands, faults>>

Answer(c, Q) == s2c' = [s2c EXCEPT ![c] = @ \o Q]

Named(c) == Head(c2s[c])[1][2]

\* fopen and popen fail once the pipes have used up the descriptors.
CanOpen == pipes < MaxPipes
Limit   == trouble' = trouble \cup (IF CanOpen THEN {} ELSE {"limit"})

\* Mutant: one pipe more than there are descriptors.
LsLeaky(c) ==
    /\ Command(c, "ls")
    /\ pipes' = pipes + 1
    /\ Answer(c, <<<<Reply("listing")>>>>)
    /\ Limit
    /\ UNCHANGED <<server, dir>>

\* ls: the pipe is never closed.  Without one the server reads from NULL.
Ls(c) ==
    /\ Command(c, "ls")
    /\ \/ /\ CanOpen
          /\ pipes' = pipes + 1
          /\ Answer(c, <<<<Reply("listing")>>>>)
          /\ UNCHANGED server
       \/ /\ ~CanOpen
          /\ server' = [server EXCEPT !.pc = "down"]
          /\ UNCHANGED <<pipes, s2c>>
    /\ Limit
    /\ UNCHANGED dir

\* Mutant: the file is opened to be appended to.
StartPutAppend(c) ==
    /\ Command(c, "put")
    /\ CanOpen /\ Named(c) \notin Refused
    /\ server' = [pc |-> "put", file |-> Named(c)]
    /\ dir' = [dir EXCEPT ![Named(c)] = IF @ = NoFile THEN <<>> ELSE @]
    /\ Limit
    /\ UNCHANGED <<pipes, s2c>>

\* put: the file is created, empty; if it cannot be, its datagrams remain to
\* be taken for commands.
StartPut(c) ==
    LET opens == CanOpen /\ Named(c) \notin Refused
    IN  /\ Command(c, "put")
        /\ \/ /\ opens
              /\ server' = [pc |-> "put", file |-> Named(c)]
              /\ dir' = [dir EXCEPT ![Named(c)] = <<>>]
              /\ UNCHANGED s2c
           \/ /\ ~opens
              /\ Answer(c, <<<<Reply("not created")>>>>)
              /\ UNCHANGED <<server, dir>>
        /\ trouble' = trouble \cup (IF CanOpen THEN {} ELSE {"limit"})
                              \cup (IF Named(c) \in Refused THEN {"refused"} ELSE {})
        /\ UNCHANGED pipes

\* Mutant: the first datagram is taken for the last.
PutChunkOnce(c) ==
    LET q == Written(Head(c2s[c]))
    IN  /\ server.pc = "put"
        /\ c2s[c] # <<>>
        /\ c2s' = [c2s EXCEPT ![c] = Tail(@)]
        /\ dir' = [dir EXCEPT ![server.file] = @ \o q]
        /\ server' = [server EXCEPT !.pc = "cmd"]
        /\ Answer(c, <<<<Reply("written")>>>>)
        /\ UNCHANGED <<client, local, pipes, commands, faults, trouble>>

\* The next datagram, of any client, goes to the file.  A short one is the
\* last: the reply goes to who sent it.
PutChunk(c) ==
    LET q == Written(Head(c2s[c]))
    IN  /\ server.pc = "put"
        /\ c2s[c] # <<>>
        /\ c2s' = [c2s EXCEPT ![c] = Tail(@)]
        /\ dir' = [dir EXCEPT ![server.file] = @ \o q]
        /\ \/ Len(q) = BUFSIZE /\ UNCHANGED <<server, s2c>>
           \/ /\ Len(q) # BUFSIZE
              /\ server' = [server EXCEPT !.pc = "cmd"]
              /\ Answer(c, <<<<Reply("written")>>>>)
        /\ UNCHANGED <<client, local, pipes, commands, faults, trouble>>

\* delete: a file that can be opened is removed, unless the system refuses.
Delete(c) ==
    /\ Command(c, "delete")
    /\ \/ /\ CanOpen /\ dir[Named(c)] # NoFile
          /\ \/ /\ dir' = [dir EXCEPT ![Named(c)] = NoFile]
                /\ Answer(c, <<<<Reply("deleted")>>>>)
             \/ /\ Answer(c, <<<<Reply("not deleted")>>>>)
                /\ UNCHANGED dir
       \/ /\ ~CanOpen \/ dir[Named(c)] = NoFile
          /\ Answer(c, <<<<Reply("not there")>>>>)
          /\ UNCHANGED dir
    /\ Limit
    /\ UNCHANGED <<server, pipes>>

\* get: the whole file is sent, and a reply; without the file only what is left
\* in the buffer, the word get.
ServeGet(c) ==
    LET q     == dir[Named(c)]
        there == CanOpen /\ q # NoFile
    IN  /\ Command(c, "get")
        /\ Answer(c, IF there THEN Append(Chunks(q), <<Reply("read")>>) ELSE <<<<Reply("get")>>>>)
        /\ trouble' = trouble \cup (IF q = NoFile THEN {"missing"} ELSE {})
                              \cup (IF CanOpen THEN {} ELSE {"limit"})
        /\ UNCHANGED <<server, dir, pipes>>

\* Anything else: a command it does not know, or a piece of some file.
Unknown(c) ==
    \E op \in {"other", "puts", "forget", "noget", "byte", "reply"} :
        /\ Command(c, op)
        /\ Answer(c, <<<<Reply("unknown")>>>>)
        /\ UNCHANGED <<server, dir, pipes, trouble>>

\* An empty datagram has no first word, and delete without a newline no name:
\* strcmp, or strlen, is given NULL.
Crash(c) ==
    /\ server.pc = "cmd"
    /\ c2s[c] # <<>>
    /\ c \notin Unnamed
    /\ Head(c2s[c]) \in {<<>>, <<<<"cut", NoName>>>>}
    /\ c2s' = [c2s EXCEPT ![c] = Tail(@)]
    /\ server' = [server EXCEPT !.pc = "down"]
    /\ UNCHANGED <<client, local, dir, pipes, s2c, commands, faults, trouble>>

\* gethostbyaddr finds no name for the address a command comes from: error ends
\* the server.  The datagrams of a put are not looked up.
EndServer(c) ==
    /\ server.pc = "cmd"
    /\ c2s[c] # <<>>
    /\ c \in Unnamed
    /\ c2s' = [c2s EXCEPT ![c] = Tail(@)]
    /\ server' = [server EXCEPT !.pc = "down"]
    /\ trouble' = trouble \cup {"nameless"}
    /\ UNCHANGED <<client, local, dir, pipes, s2c, commands, faults>>

-----------------------------------------------------------------------------
\* The network loses a datagram, duplicates it, or lets it overtake another.
Disturbed(Q) ==
    {RemoveAt(Q, i) : i \in DOMAIN Q}
    \cup {InsertAt(Q, i, Q[i]) : i \in DOMAIN Q}
    \cup {[Q EXCEPT ![i] = Q[i + 1], ![i + 1] = Q[i]] : i \in 1..(Len(Q) - 1)}

Fault ==
    /\ faults < MaxFaults
    /\ faults' = faults + 1
    /\ \E c \in Clients :
        \/ \E Q \in Disturbed(c2s[c]) : c2s' = [c2s EXCEPT ![c] = Q] /\ UNCHANGED s2c
        \/ \E Q \in Disturbed(s2c[c]) : s2c' = [s2c EXCEPT ![c] = Q] /\ UNCHANGED c2s
    /\ trouble' = trouble \cup {"fault"}
    /\ UNCHANGED <<client, local, server, dir, pipes, commands>>

Serve(c) ==
    \/ Ls(c)
    \/ StartPut(c)
    \/ PutChunk(c)
    \/ Delete(c)
    \/ ServeGet(c)
    \/ Unknown(c)
    \/ Crash(c)
    \/ EndServer(c)

Next ==
    \/ \E c \in Clients : \E cmd \in Lines[c] :
        \/ Exit(c, cmd)
        \/ SendLine(c, cmd)
        \/ Put(c, cmd)
        \/ Get(c, cmd)
    \/ \E c \in Clients : GetChunk(c) \/ GetReply(c) \/ Serve(c)
    \/ Fault

\* The processes are scheduled for ever, and the datagrams of all clients wait
\* in one queue of the server's socket.
Fairness ==
    \A c \in Clients : WF_vars(GetChunk(c) \/ GetReply(c)) /\ WF_vars(Serve(c))

Spec == Init /\ [][Next]_vars /\ Fairness

-----------------------------------------------------------------------------
(* Properties.                                                             *)

ClientState == [pc : {"menu", "get", "reply", "gone"}, cmd : Commands]
ServerState == [pc : {"cmd", "put", "down"}, file : Names]
Troubles    == {"fault", "overlap", "missing", "line", "end", "refused", "limit", "nameless"}

\* Every variable has its type.
TypeOK ==
    /\ client \in [Clients -> ClientState]
    /\ local \in [Clients -> [Names -> File]]
    /\ server \in ServerState
    /\ dir \in [Names -> File]
    /\ pipes \in 0..MaxPipes
    /\ c2s \in [Clients -> Seq(Seq(Byte))]
    /\ s2c \in [Clients -> Seq(Seq(Byte))]
    /\ commands \in Nat
    /\ faults \in Nat
    /\ trouble \in SUBSET Troubles

\* Nothing has happened for which the protocol has no provision, but perhaps a
\* get of a file that is not there: no fault of the network; no put together
\* with a command of another client; no line that the client misreads or cannot
\* create the file of, nor the end of its input; no put of a file that the server
\* cannot create; no want of descriptors; no command from a nameless address.
Calm == trouble \subseteq {"missing"}

\* Client c has got what it takes for the reply to its command.
Replied(c) == client[c].pc = "reply" /\ client'[c].pc = "menu"

\* "write the same data to it" (README:16-17): when the reply to a put or a get
\* has come the two files are the same, whatever their size modulo BUFSIZE;
\* only a delete of another client may have come in between.
Delivered ==
    [][\A c \in Clients :
        Replied(c) /\ Calm /\ client[c].cmd[1] \in {"put", "get"} =>
            dir[client[c].cmd[2]] \in {local[c][client[c].cmd[2]], NoFile}]_vars

\* The replies to a command.
AnswersTo(op) ==
    CASE op = "put" -> {"written"}
      [] op = "get" -> {"read"}
      [] op = "ls" -> {"listing"}
      [] op = "delete" -> {"deleted", "not deleted", "not there"}
      [] OTHER -> {"unknown"}

\* A client takes no other datagram for the reply to its command than that
\* reply, and then there is none left: not a piece of a file, nor the reply to
\* an earlier command (uftp_client.c:166, uftp_server.c:198).
OwnAnswer ==
    [][\A c \in Clients :
        Replied(c) /\ Calm =>
            /\ \E w \in AnswersTo(client[c].cmd[1]) : Head(s2c[c]) = <<Reply(w)>>
            /\ Len(s2c[c]) = 1]_vars

\* A command of one client cannot bring the server down: this takes one of the
\* troubles above; or a file in which a full buffer ends with the byte 255, of
\* which there is none here (uftp_server.c:96, 107, 112, 124, 135).
ServerStaysUp == server.pc = "down" => ~Calm

\* The client asked for a file that is not there: the reply went into the file,
\* and it waits for another one.
Stuck(c) ==
    /\ client[c].pc = "reply"
    /\ client[c].cmd[1] = "get"
    /\ local[c][client[c].cmd[2]] = <<Reply("get")>>

\* Every command is answered, but for a get of a file that is not there, which
\* stops only the client that asked; unless something else happens for which
\* the protocol has no provision (uftp_client.c:148, 167; no timeout).
Answered ==
    \A c \in Clients :
        client[c].pc \in {"get", "reply"} ~> client[c].pc = "menu" \/ Stuck(c) \/ ~Calm
=============================================================================
