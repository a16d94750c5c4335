-------------------------------- MODULE Dfs --------------------------------
(***************************************************************************)
(* The distributed file system of PA4 after login: clients (client.c main, *)
(* List) and, in each of the four servers, one thread per client           *)
(* (server.c server).  A client and a thread are joined by one TCP         *)
(* connection, modelled as the two streams of bytes it carries, because    *)
(* what a read returns depends on its length and not on how the bytes were *)
(* written: a peer that is out of step reads half of one message and half  *)
(* of the next.                                                            *)
(*                                                                         *)
(* Bytes are scaled.  A command or a text field fills MaxLine bytes, its   *)
(* text in the first one and NUL in the others; an int, a name inside a    *)
(* length-prefixed message and a decimal number take one byte each.  Every *)
(* write arrives whole; a read returns the bytes that are there, up to the *)
(* length it asks for, and waits only when there are none.                 *)
(***************************************************************************)
EXTENDS DfsPlacement, FiniteSets, SequencesExt

CONSTANTS
    Clients,        \* the running dfc processes, all of the same user
    Names,          \* file names with exactly one dot
    Contents,       \* the bytes of the file a name refers to
    Local,          \* the files that exist in each client's directory
    Within,         \* the names that contain a name as a substring
    Hashes,         \* the values PutHash can take
    ConnSets,       \* the sets of servers a client may have reached
    Preloads,       \* what earlier sessions left of each file
    MaxLine,        \* MAXLINE
    ListCap,        \* the capacity of files[100] and uniq[100] in List
    MaxPuts,        \* bound: PUT commands per name
    MaxGets,        \* bound: GET commands per client and name
    MaxLists        \* bound: LIST commands per client

Text(w)  == <<"text", w>>       \* a word of the protocol
Num(n)   == <<"num", n>>        \* a number in decimal digits
Bin(n)   == <<"int", n>>        \* a binary int
Name(f)  == <<"name", f>>       \* a file name
Piece(k) == <<"piece", k>>      \* the file name of piece k = <<name, number>>
NUL      == <<"nul", 0>>        \* padding
Junk     == <<"junk", 0>>       \* what an array held before

FileByte == ({"byte"} \X (Names \X Nat)) \cup {Text("NO")}
Keys     == Names \X (0..9)
Words    == {"LIST", "PUT", "GET", "DONE", "YES", "NO", "NEED", "DN"}
Byte     == FileByte \cup ({"text"} \X Words) \cup ({"num"} \X (0..9))
            \cup ({"int"} \X Nat) \cup ({"name"} \X Names)
            \cup ({"piece"} \X Keys) \cup {NUL, Junk}

ASSUME NamesAssumption ==
    /\ IsFiniteSet(Names) /\ Names # {}
    /\ Contents \in [Names -> Seq(FileByte)]
    /\ \A f \in Names : PartLen(Len(Contents[f]), 4) <= 9
    \* a piece fits the MAXLINE bytes that bzero clears of a buffer
    /\ \A f \in Names : PartLen(Len(Contents[f]), 4) <= MaxLine
    /\ Within \in [Names -> SUBSET Names]
    /\ \A f \in Names : f \in Within[f]

ASSUME ClientsAssumption ==
    /\ Local \in [Clients -> SUBSET Names]
    /\ ConnSets \subseteq (SUBSET Servers) \ {{}}
    /\ Hashes \subseteq -3..3
    /\ Preloads \subseteq [Names -> [layout : -1..3, lost : SUBSET Parts]]

ASSUME BoundsAssumption ==
    /\ MaxLine \in Nat \ {0, 1}
    /\ {ListCap, MaxPuts, MaxGets, MaxLists} \subseteq Nat

VARIABLES
    conn,       \* the servers whose socket client c has (never changes)
    client,     \* main's locals in each client, and what it printed or wrote
    thread,     \* the server threads: thread[c][s]
    c2s, s2c,   \* the streams of each connection
    files,      \* the piece files in the user's directory of each server
    store,      \* and their bytes
    puts, gets, lists,  \* commands issued, for the bounds
    sent,       \* history: the pieces written to each server by a PUT
    due         \* history: the pieces of f that GET was to fetch when c last asked

hvars == <<puts, gets, lists, sent, due>>
vars  == <<conn, client, thread, c2s, s2c, files, store, hvars>>
-----------------------------------------------------------------------------
(* Byte streams.                                                           *)

\* A field of MAXLINE bytes (bzero, strcpy, write(fd, buf, MAXLINE)).
Block(b) == [i \in 1..MaxLine |-> IF i = 1 THEN b ELSE NUL]

\* A length and that many bytes, written one after the other.
Prefixed(q) == <<Bin(Len(q))>> \o q

\* The first n bytes of a stream, or what there is.
Taken(q, n) == SubSeq(q, 1, IF n < Len(q) THEN n ELSE Len(q))
Left(q, n)  == SubSeq(q, (IF n < Len(q) THEN n ELSE Len(q)) + 1, Len(q))

\* What the string functions see of a buffer: the bytes before the first NUL.
TextOf(q) ==
    SubSeq(q, 1, Cardinality({n \in DOMAIN q : \A i \in 1..n : q[i] # NUL}))

\* strstr(buf, w) != NULL.
Says(q, w) == \E i \in 1..Len(TextOf(q)) : TextOf(q)[i] = Text(w)

\* atoi(buf).
Number(q) == IF q # <<>> /\ q[1][1] = "num" THEN q[1][2] ELSE 0

\* A length-prefixed message is there in full: its reads do not wait.
HasMessage(q) ==
    q # <<>> /\ q[1][1] = "int" /\ Len(q) > q[1][2]
Message(q)     == SubSeq(q, 2, q[1][2] + 1)
AfterMessage(q) == SubSeq(q, q[1][2] + 2, Len(q))

-----------------------------------------------------------------------------
(* What is written by each command and each reply.                         *)

\* Mutant: the remainder is left out of the size of the last piece.
UploadFlat(f, p) ==
    Block(Num(PieceSize(Len(Contents[f])))) \o PartOf(Contents[f], p) \o <<Num(p)>>

\* Mutant: one of the sixteen blocks has the number of the next piece.
UploadSlip(f, p) ==
    Block(Num(PartLen(Len(Contents[f]), p))) \o PartOf(Contents[f], p)
        \o <<Num((p % 4) + 1)>>

\* The three writes that carry piece p: its size, its bytes, its number.
Upload(f, p) ==
    Block(Num(PartLen(Len(Contents[f]), p))) \o PartOf(Contents[f], p) \o <<Num(p)>>

\* All that PUT writes to server s after the file name.
Uploaded(f, h, s) ==
    IF Uploads(h, s) = <<>> THEN <<>>
    ELSE Upload(f, Uploads(h, s)[1]) \o Upload(f, Uploads(h, s)[2])

\* LIST: one block per file of the directory, in the order of ls.
Listing(K) ==
    LET ls == SetToSeq(K)
    IN  [i \in 1..Len(ls) * MaxLine |->
            IF i % MaxLine = 1 THEN Piece(ls[(i \div MaxLine) + 1]) ELSE NUL]
        \o Block(Text("DONE"))

\* Mutant: no DONE after the piece numbers.
NumbersEndless(K) ==
    LET ls == SetToSeq(K)
    IN  [i \in 1..2 * Len(ls) |->
            IF i % 2 = 1 THEN Bin(1) ELSE Num(ls[i \div 2][2])]

\* GET: the piece number of every file whose name contains the one asked.
Numbers(K) ==
    LET ls == SetToSeq(K)
    IN  [i \in 1..2 * Len(ls) |->
            IF i % 2 = 1 THEN Bin(1) ELSE Num(ls[i \div 2][2])]
        \o Prefixed(<<Text("DONE")>>)

\* The loops over sockfds[] skip the servers that were not reached.
FirstFrom(c, s) ==
    IF \E t \in conn[c] : t >= s
    THEN CHOOSE t \in conn[c] : t >= s /\ \A u \in conn[c] : u >= s => t <= u
    ELSE 4

\* Client c writes q to every server it reached.
WriteAll(c, q) ==
    c2s' = [c2s EXCEPT ![c] = [s \in Servers |->
                IF s \in conn[c] THEN c2s[c][s] \o q ELSE c2s[c][s]]]

\* The pieces of f that the servers in S were sent.
SentParts(f, S) == {p \in Parts : \E s \in S : <<s, <<f, p>>>> \in sent}

\* Mutant: the loop that adds up complete[] stops at the third piece.
SummaryThree(q) ==
    LET seen == {k \in Keys : Piece(k) \in Range(q)}
        uniq == {k[1] : k \in seen}
        full == {f \in uniq : \A p \in 1..3 : <<f, p>> \in seen}
    IN  [full |-> full, partial |-> uniq \ full]

\* What List prints for the entries it read: a name is complete when its
\* four numbers were seen, and [incomplete] otherwise.
Summary(q) ==
    LET seen == {k \in Keys : Piece(k) \in Range(q)}
        uniq == {k[1] : k \in seen}
        full == {f \in uniq : \A p \in Parts : <<f, p>> \in seen}
    IN  [full |-> full, partial |-> uniq \ full]

-----------------------------------------------------------------------------
AnyName == CHOOSE f \in Names : TRUE

AtMenu == [pc |-> "menu", file |-> AnyName, at |-> 0, part |-> 1, marks |-> {},
           entries |-> <<>>, shown |-> [full |-> {}, partial |-> {}],
           out |-> [f \in Names |-> <<>>]]

Idle == [pc |-> "cmd", name |-> AnyName, round |-> 0, size |-> 0,
         data |-> <<>>, num |-> 0]

\* Earlier sessions may have left files on the servers, under a layout (-1 is
\* none) and less the pieces deleted by hand (README, step 4 of its test), and
\* each new client reaches some of the servers.
Init ==
    /\ conn \in [Clients -> ConnSets]
    /\ client = [c \in Clients |-> AtMenu]
    /\ thread = [c \in Clients |-> [s \in Servers |-> Idle]]
    /\ c2s = [c \in Clients |-> [s \in Servers |-> <<>>]]
    /\ s2c = [c \in Clients |-> [s \in Servers |-> <<>>]]
    /\ \E old \in Preloads :
        /\ files = [s \in Servers |-> {k \in Names \X Parts :
                        k[2] \in Holds(old[k[1]].layout, s) \ old[k[1]].lost}]
        /\ puts = [f \in Names |-> IF old[f].layout = -1 THEN 0 ELSE 1]
    /\ store = [s \in Servers |-> [k \in Keys |->
                  IF k \in files[s] THEN PartOf(Contents[k[1]], k[2]) ELSE <<>>]]
    /\ gets = [c \in Clients |-> [f \in Names |-> 0]]
    /\ lists = [c \in Clients |-> 0]
    /\ sent = {e \in Servers \X (Names \X Parts) : e[2] \in files[e[1]]}
    /\ due = [c \in Clients |-> [f \in Names |-> {}]]

-----------------------------------------------------------------------------
(* The client.                                                             *)

\* LIST: the command goes to every server, then List reads their answers.
List(c) ==
    /\ client[c].pc = "menu"
    /\ lists[c] < MaxLists
    /\ WriteAll(c, Block(Text("LIST")))
    /\ client' = [client EXCEPT ![c] =
                    [@ EXCEPT !.pc = "list", !.at = FirstFrom(c, 0), !.entries = <<>>]]
    /\ lists' = [lists EXCEPT ![c] = @ + 1]
    /\ UNCHANGED <<conn, thread, s2c, files, store, puts, gets, sent, due>>

\* One iteration of List's loop: a block from server at is a file name or
\* DONE; the entry after the last slot of files[] is written out of bounds.
\* After the last DONE it prints what it read.
ListRead(c) ==
    LET me   == client[c]
        q    == Taken(s2c[c][me.at], MaxLine)
        next == FirstFrom(c, me.at + 1)
    IN  /\ me.pc = "list"
        /\ s2c[c][me.at] # <<>>
        /\ s2c' = [s2c EXCEPT ![c][me.at] = Left(@, MaxLine)]
        /\ client' = [client EXCEPT ![c] =
              IF ~Says(q, "DONE")
              THEN IF Len(me.entries) < ListCap
                   THEN [me EXCEPT !.entries = Append(@, q[1])]
                   ELSE [me EXCEPT !.pc = "ub"]
              ELSE IF next # 4
                   THEN [me EXCEPT !.at = next]
                   ELSE [me EXCEPT !.pc = "menu", !.shown = Summary(me.entries)]]
        /\ UNCHANGED <<conn, thread, c2s, files, store, hvars>>

\* PUT: the command and the name go out before the file is opened; when it
\* does not exist, or its hash has no branch, nothing follows them.
Put(c, f, h) ==
    LET found == f \in Local[c]
    IN  /\ client[c].pc = "menu"
        /\ puts[f] < MaxPuts
        /\ c2s' = [c2s EXCEPT ![c] = [s \in Servers |->
                    IF s \in conn[c]
                    THEN c2s[c][s] \o Block(Text("PUT")) \o Block(Name(f))
                         \o (IF found THEN Uploaded(f, h, s) ELSE <<>>)
                    ELSE c2s[c][s]]]
        /\ puts' = [puts EXCEPT ![f] = @ + 1]
        /\ sent' = sent \cup {e \in conn[c] \X ({f} \X Parts) :
                                found /\ e[2][2] \in Holds(h, e[1])}
        /\ UNCHANGED <<conn, client, thread, s2c, files, store, gets, lists, due>>

\* GET: the command and the name go to every server.
Get(c, f) ==
    /\ client[c].pc = "menu"
    /\ gets[c][f] < MaxGets
    /\ WriteAll(c, Block(Text("GET")) \o Prefixed(<<Name(f)>>))
    /\ client' = [client EXCEPT ![c] =
                    [@ EXCEPT !.pc = "collect", !.file = f, !.at = FirstFrom(c, 0),
                              !.marks = {}]]
    /\ gets' = [gets EXCEPT ![c][f] = @ + 1]
    /\ due' = [due EXCEPT ![c][f] =
                    IF Parts \subseteq UNION {SentParts(g, conn[c]) : g \in Within[f]}
                    THEN SentParts(f, conn[c]) ELSE {}]
    /\ UNCHANGED <<conn, thread, s2c, files, store, puts, lists, sent>>

\* One message of the piece numbers, which mark complete[]; after the last
\* server's DONE the client answers YES when it saw all four, and NO otherwise.
Collect(c) ==
    LET me   == client[c]
        q    == Message(s2c[c][me.at])
        done == q = <<Text("DONE")>>
        next == FirstFrom(c, me.at + 1)
    IN  /\ me.pc = "collect"
        /\ HasMessage(s2c[c][me.at])
        /\ s2c' = [s2c EXCEPT ![c][me.at] = AfterMessage(@)]
        /\ \/ /\ ~done
              /\ Number(q) \in Parts
              /\ client' = [client EXCEPT ![c].marks = @ \cup {Number(q)}]
              /\ UNCHANGED c2s
           \/ /\ ~done
              /\ Number(q) \notin Parts      \* complete[] out of bounds
              /\ client' = [client EXCEPT ![c].pc = "ub"]
              /\ UNCHANGED c2s
           \/ /\ done
              /\ next # 4
              /\ client' = [client EXCEPT ![c].at = next]
              /\ UNCHANGED c2s
           \/ /\ done
              /\ next = 4
              /\ me.marks = Parts
              /\ WriteAll(c, Prefixed(<<Text("YES")>>))
              /\ client' = [client EXCEPT ![c] =
                              [@ EXCEPT !.pc = "fetch", !.at = FirstFrom(c, 0),
                                        !.part = 1, !.marks = {}]]
           \/ /\ done
              /\ next = 4
              /\ me.marks # Parts
              /\ WriteAll(c, Prefixed(<<Text("NO")>>))
              /\ client' = [client EXCEPT ![c].pc = "menu"]
        /\ UNCHANGED <<conn, thread, files, store, hvars>>

\* Mutants: the loop over the pieces runs three times, or five.
AfterAskThree(c, me) ==
    LET next == FirstFrom(c, me.at + 1)
    IN  IF next # 4 THEN [me EXCEPT !.pc = "fetch", !.at = next]
        ELSE IF me.part < 3
             THEN [me EXCEPT !.pc = "fetch", !.at = FirstFrom(c, 0), !.part = @ + 1]
             ELSE [me EXCEPT !.pc = "menu"]

AfterAskFive(c, me) ==
    LET next == FirstFrom(c, me.at + 1)
    IN  IF next # 4 THEN [me EXCEPT !.pc = "fetch", !.at = next]
        ELSE IF me.part < 5
             THEN [me EXCEPT !.pc = "fetch", !.at = FirstFrom(c, 0), !.part = @ + 1]
             ELSE [me EXCEPT !.pc = "menu"]

\* The end of an iteration of the loop over servers inside the loop over
\* pieces; after the fourth piece the output file is closed.
AfterAsk(c, me) ==
    LET next == FirstFrom(c, me.at + 1)
    IN  IF next # 4 THEN [me EXCEPT !.pc = "fetch", !.at = next]
        ELSE IF me.part < 4
             THEN [me EXCEPT !.pc = "fetch", !.at = FirstFrom(c, 0), !.part = @ + 1]
             ELSE [me EXCEPT !.pc = "menu"]

\* A piece that was already fetched is declined ...
Decline(c) ==
    LET me == client[c]
    IN  /\ me.pc = "fetch"
        /\ me.part \in me.marks
        /\ c2s' = [c2s EXCEPT ![c][me.at] = @ \o Prefixed(<<Text("DN")>>)]
        /\ client' = [client EXCEPT ![c] = AfterAsk(c, me)]
        /\ UNCHANGED <<conn, thread, s2c, files, store, hvars>>

\* ... and the others are asked for by the name of their piece file.
Ask(c) ==
    LET me == client[c]
    IN  /\ me.pc = "fetch"
        /\ me.part \notin me.marks
        /\ c2s' = [c2s EXCEPT ![c][me.at] =
                    @ \o Prefixed(<<Text("NEED")>>) \o Prefixed(<<Piece(<<me.file, me.part>>)>>)]
        /\ client' = [client EXCEPT ![c].pc = "reply"]
        /\ UNCHANGED <<conn, thread, s2c, files, store, hvars>>

\* The answer is NO or the bytes of the piece, appended to the output file.
Received(me, q) ==
    IF q = <<Text("NO")>> THEN me
    ELSE [me EXCEPT !.marks = @ \cup {me.part},
                    !.out[me.file] = @ \o q]

Reply(c) ==
    LET me == client[c]
    IN  /\ me.pc = "reply"
        /\ HasMessage(s2c[c][me.at])
        /\ s2c' = [s2c EXCEPT ![c][me.at] = AfterMessage(@)]
        /\ client' = [client EXCEPT ![c] =
                        AfterAsk(c, Received(me, Message(s2c[c][me.at])))]
        /\ UNCHANGED <<conn, thread, c2s, files, store, hvars>>

\* The user stops the client at its prompt, which closes its connections.
Quit(c) ==
    /\ client[c].pc = "menu"
    /\ client' = [client EXCEPT ![c].pc = "gone"]
    /\ UNCHANGED <<conn, thread, c2s, s2c, files, store, hvars>>

ClientStep(c) == ListRead(c) \/ Collect(c) \/ Decline(c) \/ Ask(c) \/ Reply(c)

-----------------------------------------------------------------------------
(* The server thread of client c in server s.                              *)

\* read(connfd, buf, n) returns: there is something to read, nothing was
\* asked for, or the peer has closed the connection (and it returns 0).
CanRead(c, s, n) == n = 0 \/ c2s[c][s] # <<>> \/ client[c].pc = "gone"
Buf(c, s, n) == Taken(c2s[c][s], n)

\* The reads consume n bytes and the thread's locals become t.
Consume(c, s, n, t) ==
    /\ c2s' = [c2s EXCEPT ![c][s] = Left(@, n)]
    /\ thread' = [thread EXCEPT ![c][s] = t]

\* The top of the loop: which command is it?  Anything else is ignored.
Command(c, s) ==
    LET th == thread[c][s]
        q  == Buf(c, s, MaxLine)
    IN  /\ th.pc = "cmd"
        /\ c2s[c][s] # <<>>
        /\ \/ /\ Says(q, "LIST")
              /\ s2c' = [s2c EXCEPT ![c][s] = @ \o Listing(files[s])]
              /\ Consume(c, s, MaxLine, th)
           \/ /\ ~Says(q, "LIST")
              /\ Consume(c, s, MaxLine, [th EXCEPT !.pc =
                    IF Says(q, "PUT") THEN "name"
                    ELSE IF Says(q, "GET") THEN "file" ELSE "cmd"])
              /\ UNCHANGED s2c
        /\ UNCHANGED <<conn, client, files, store, hvars>>

\* Mutant: the thread stops as soon as the client has gone, with data unread.
SpinEarly(c, s) ==
    /\ thread[c][s].pc \in {"cmd", "spin"}
    /\ client[c].pc = "gone"
    /\ thread' = [thread EXCEPT ![c][s].pc = "spin"]
    /\ UNCHANGED <<conn, client, c2s, s2c, files, store, hvars>>

\* Once the client has gone, read returns 0 and leaves the last buffer in
\* place, which is no command: the loop goes round for ever.
Spin(c, s) ==
    /\ thread[c][s].pc \in {"cmd", "spin"}
    /\ c2s[c][s] = <<>>
    /\ client[c].pc = "gone"
    /\ thread' = [thread EXCEPT ![c][s].pc = "spin"]
    /\ UNCHANGED <<conn, client, c2s, s2c, files, store, hvars>>

\* PUT: the file name.  A stream that is out of step has none here; what the
\* thread then does is not modelled.
PutName(c, s) ==
    LET th == thread[c][s]
        q  == Buf(c, s, MaxLine)
    IN  /\ th.pc = "name"
        /\ CanRead(c, s, MaxLine)
        /\ Consume(c, s, MaxLine,
              IF q # <<>> /\ q[1][1] = "name"
              THEN [th EXCEPT !.pc = "size", !.name = q[1][2], !.round = 1]
              ELSE [th EXCEPT !.pc = "astray"])
        /\ UNCHANGED <<conn, client, s2c, files, store, hvars>>

\* The size of a piece, ...
PutSize(c, s) ==
    LET th == thread[c][s]
    IN  /\ th.pc = "size"
        /\ CanRead(c, s, MaxLine)
        /\ Consume(c, s, MaxLine,
              [th EXCEPT !.pc = "data", !.size = Number(Buf(c, s, MaxLine))])
        /\ UNCHANGED <<conn, client, s2c, files, store, hvars>>

\* ... that many bytes, of which strcpy keeps those before a NUL; what the
\* array held before takes the place of the others, ...
PutData(c, s) ==
    LET th == thread[c][s]
        t  == TextOf(Buf(c, s, th.size))
    IN  /\ th.pc = "data"
        /\ CanRead(c, s, th.size)
        /\ Consume(c, s, th.size,
              [th EXCEPT !.pc = "num",
                         !.data = t \o [i \in 1..(th.size - Len(t)) |-> Junk]])
        /\ UNCHANGED <<conn, client, s2c, files, store, hvars>>

\* Mutant: the piece file is opened with "wb", which truncates it.
PutNumOver(c, s) ==
    LET th == thread[c][s]
        p  == Number(Buf(c, s, 1))
    IN  /\ th.pc = "num"
        /\ CanRead(c, s, 1)
        /\ Consume(c, s, 1, [th EXCEPT !.pc = "flush", !.num = p])
        /\ files' = [files EXCEPT ![s] = @ \cup {<<th.name, p>>}]
        /\ store' = [store EXCEPT ![s][<<th.name, p>>] = <<>>]
        /\ UNCHANGED <<conn, client, s2c, hvars>>

\* ... and its number, one character, which completes the name of the piece
\* file: fopen in append mode creates it.
PutNum(c, s) ==
    LET th == thread[c][s]
        p  == Number(Buf(c, s, 1))
    IN  /\ th.pc = "num"
        /\ CanRead(c, s, 1)
        /\ Consume(c, s, 1, [th EXCEPT !.pc = "flush", !.num = p])
        /\ files' = [files EXCEPT ![s] = @ \cup {<<th.name, p>>}]
        /\ UNCHANGED <<conn, client, s2c, store, hvars>>

\* The bytes reach the end of the file when fclose flushes them.  There are
\* two pieces to a PUT.
PutFlush(c, s) ==
    LET th == thread[c][s]
    IN  /\ th.pc = "flush"
        /\ store' = [store EXCEPT ![s][<<th.name, th.num>>] = @ \o th.data]
        /\ thread' = [thread EXCEPT ![c][s] =
                        IF th.round = 1 THEN [th EXCEPT !.pc = "size", !.round = 2]
                                        ELSE [th EXCEPT !.pc = "cmd", !.round = 0]]
        /\ UNCHANGED <<conn, client, c2s, s2c, files, hvars>>

\* GET: the name asked for, answered by the piece numbers of the files whose
\* name contains it.  The strtok calls that cut the numbers out are taken to be
\* undisturbed: DfsLogin has the cursor they share with other threads.
GetFile(c, s) ==
    LET th == thread[c][s]
        q  == c2s[c][s]
        f  == Message(q)[1][2]
    IN  /\ th.pc = "file"
        /\ HasMessage(q)
        /\ s2c' = [s2c EXCEPT ![c][s] =
                    @ \o Numbers({k \in files[s] : k[1] \in Within[f]})]
        /\ Consume(c, s, q[1][2] + 1, [th EXCEPT !.pc = "answer"])
        /\ UNCHANGED <<conn, client, files, store, hvars>>

\* YES starts the retrieval loop of four rounds, anything else ends GET.
GetAnswer(c, s) ==
    LET th == thread[c][s]
        q  == c2s[c][s]
    IN  /\ th.pc = "answer"
        /\ HasMessage(q)
        /\ Consume(c, s, q[1][2] + 1,
              IF Message(q) = <<Text("YES")>>
              THEN [th EXCEPT !.pc = "need", !.round = 1]
              ELSE [th EXCEPT !.pc = "cmd"])
        /\ UNCHANGED <<conn, client, s2c, files, store, hvars>>

\* Mutant: the thread makes five rounds.
NextRoundFive(th) ==
    IF th.round < 5 THEN [th EXCEPT !.round = @ + 1]
                    ELSE [th EXCEPT !.pc = "cmd", !.round = 0]

\* The thread after a round of the retrieval loop.
NextRound(th) ==
    IF th.round < 4 THEN [th EXCEPT !.round = @ + 1]
                    ELSE [th EXCEPT !.pc = "cmd", !.round = 0]

\* A round in which the client needs nothing.
GetDeclined(c, s) ==
    LET th == thread[c][s]
        q  == c2s[c][s]
    IN  /\ th.pc = "need"
        /\ HasMessage(q)
        /\ Message(q) # <<Text("NEED")>>
        /\ Consume(c, s, q[1][2] + 1, NextRound(th))
        /\ UNCHANGED <<conn, client, s2c, files, store, hvars>>

\* A round in which it names a piece file: if it can be opened, at most its
\* first MAXLINE bytes are sent.
GetPiece(c, s) ==
    LET th == thread[c][s]
        q  == c2s[c][s]
        r  == AfterMessage(q)
        k  == Message(r)[1][2]
    IN  /\ th.pc = "need"
        /\ HasMessage(q)
        /\ Message(q) = <<Text("NEED")>>
        /\ HasMessage(r)
        /\ s2c' = [s2c EXCEPT ![c][s] =
                    @ \o Prefixed(IF k \in files[s] THEN Taken(store[s][k], MaxLine)
                                  ELSE <<Text("NO")>>)]
        /\ Consume(c, s, q[1][2] + 1 + r[1][2] + 1, NextRound(th))
        /\ UNCHANGED <<conn, client, files, store, hvars>>

ThreadStep(c, s) ==
    \/ Command(c, s)
    \/ Spin(c, s)
    \/ PutName(c, s)
    \/ PutSize(c, s)
    \/ PutData(c, s)
    \/ PutNum(c, s)
    \/ PutFlush(c, s)
    \/ GetFile(c, s)
    \/ GetAnswer(c, s)
    \/ GetDeclined(c, s)
    \/ GetPiece(c, s)

-----------------------------------------------------------------------------
Next ==
    \/ \E c \in Clients :
        \/ List(c)
        \/ \E f \in Names, h \in Hashes : Put(c, f, h)
        \/ \E f \in Names : Get(c, f)
        \/ Quit(c)
        \/ ClientStep(c)
    \/ \E c \in Clients, s \in Servers : s \in conn[c] /\ ThreadStep(c, s)

\* What the user types is up to the user; the client's own steps and the
\* threads are scheduled for ever.
Fairness ==
    /\ \A c \in Clients : WF_vars(ClientStep(c))
    /\ \A c \in Clients, s \in Servers :
        WF_vars(s \in conn[c] /\ ThreadStep(c, s))

Spec == Init /\ [][Next]_vars /\ Fairness

-----------------------------------------------------------------------------
(* Properties.                                                             *)

ClientPcs == {"menu", "list", "collect", "fetch", "reply", "gone", "ub"}
ThreadPcs == {"cmd", "name", "size", "data", "num", "flush", "file", "answer",
              "need", "spin", "astray"}

Client == [pc : ClientPcs, file : Names, at : Servers, part : Parts,
           marks : SUBSET Parts, entries : Seq(Byte),
           shown : [full : SUBSET Names, partial : SUBSET Names],
           out : [Names -> Seq(Byte)]]

Thread == [pc : ThreadPcs, name : Names, round : 0..4, size : 0..9,
           data : Seq(Byte), num : 0..9]

\* Every variable has its type: the streams hold bytes the two programs
\* write, the stores hold files of bytes.
TypeOK ==
    /\ conn \in [Clients -> (SUBSET Servers) \ {{}}]
    /\ client \in [Clients -> Client]
    /\ thread \in [Clients -> [Servers -> Thread]]
    /\ c2s \in [Clients -> [Servers -> Seq(Byte)]]
    /\ s2c \in [Clients -> [Servers -> Seq(Byte)]]
    /\ files \in [Servers -> SUBSET Keys]
    /\ store \in [Servers -> [Keys -> Seq(Byte)]]
    /\ puts \in [Names -> Nat]
    /\ gets \in [Clients -> [Names -> Nat]]
    /\ lists \in [Clients -> Nat]
    /\ sent \in SUBSET (Servers \X (Names \X Parts))
    /\ due \in [Clients -> [Names -> SUBSET Parts]]

\* The two ends of a connection agree on the protocol: when the client is at
\* its prompt and nothing is in flight, the thread is at the top of its loop,
\* ready for the next command (client.c:246, server.c:122), whatever the other
\* clients do; provided its own PUTs name files it has.
InStep ==
    \A c \in Clients : \A s \in conn[c] :
        /\ Local[c] = Names
        /\ client[c].pc = "menu" /\ c2s[c][s] = <<>> /\ thread[c][s].pc # "flush"
        => thread[c][s].pc = "cmd" /\ s2c[c][s] = <<>>

\* Nothing is being sent to or written by server s.
AtRest(s) ==
    \A c \in Clients :
        c2s[c][s] = <<>> /\ thread[c][s].pc \in {"cmd", "spin"}

\* What PUT wrote is what the server keeps: at rest it has exactly the piece
\* files it was sent, each with the bytes of that piece (server.c:145-178).
StoredExactly ==
    \A s \in Servers :
        AtRest(s) =>
            /\ files[s] = {k \in Names \X Parts : <<s, k>> \in sent}
            /\ \A k \in files[s] : store[s][k] = PartOf(Contents[k[1]], k[2])

\* GET fetches a file if the servers that the client reached were sent all the
\* numbers 1 to 4, of pieces of that file or of one whose name contains its name,
\* and then every piece of that file that they were sent; otherwise it writes
\* nothing.  So a file whose name is in no other is written in full, or not at
\* all when a server or a piece is missing (client.c:595-699, server.c:193,
\* README "reliability through redundancy").
GetIffDue ==
    \A c \in Clients, f \in Names :
        client[c].pc = "menu" =>
            client[c].out[f] = Join([p \in Parts |->
                IF p \in due[c][f] THEN PartOf(Contents[f], p) ELSE <<>>])

\* GET of a file leaves that file in Gotten_files, or nothing.
GotIntact ==
    \A c \in Clients, f \in Names :
        client[c].pc = "menu" => client[c].out[f] \in {<<>>, Contents[f]}

\* The sequence q, n times over.
Repeated(q, n) == [i \in 1..n * Len(q) |-> q[((i - 1) % Len(q)) + 1]]

\* Whatever PUTs a GET overlaps, its output is made of the pieces of that file
\* in their order, each as many times as a PUT had stored it by then, be it
\* none, and cut off after MAXLINE bytes (client.c:644-687, server.c:175-177,
\* 234-235).
GotInOrder ==
    \A c \in Clients, f \in Names :
        \E n \in [Parts -> 0..MaxPuts] :
            client[c].out[f] = Join([p \in Parts |->
                Taken(Repeated(PartOf(Contents[f], p), n[p]), MaxLine)])

\* The names of which client c's servers hold a piece, and all four.
Listed(c, f)   == \E k \in UNION {files[s] : s \in conn[c]} : k[1] = f
Complete(c, f) == \A p \in Parts : \E s \in conn[c] : <<f, p>> \in files[s]

\* LIST prints the files the reached servers hold, and calls [incomplete]
\* those that GET would refuse (client.c:92-196).
ListTruthful ==
    [][\A c \in Clients :
        client[c].pc = "list" /\ client'[c].pc = "menu" =>
            client'[c].shown = [full |-> {f \in Names : Complete(c, f)},
                         partial |-> {f \in Names : Listed(c, f) /\ ~Complete(c, f)}]
      ]_vars

\* Nothing a server has stored is ever lost or overwritten: a piece file only
\* grows, and none is removed (server.c:175 opens in append mode).
PiecesGrow ==
    [][\A s \in Servers :
        /\ files[s] \subseteq files'[s]
        /\ \A k \in Keys : IsPrefix(store[s][k], store'[s][k])]_<<files, store>>

\* Every command comes back to the prompt (client.c:245): no client waits for
\* ever for a server, and none writes past files[100] or complete[4] on the way.
CommandReturns ==
    \A c \in Clients :
        client[c].pc \in {"list", "collect", "fetch", "reply"} ~> client[c].pc = "menu"

\* A PUT reaches the disks even if the client is stopped right after it: time
\* and again everything that was sent is stored (server.c:145-178).
PutDurable ==
    []<>(\A e \in sent :
            /\ e[2] \in files[e[1]]
            /\ store[e[1]][e[2]] = PartOf(Contents[e[2][1]], e[2][2]))
=============================================================================
