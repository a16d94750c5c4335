----------------------------- MODULE WebServer -----------------------------
(***************************************************************************)
(* The web server of PA2 (www/serv.c): main accepts connections and runs   *)
(* echo() for each in a thread of its own, which reads one request, cuts   *)
(* it with strtok, sends the file it names or an error, and closes the     *)
(* connection.  The threads share the cursor of strtok and the table of    *)
(* descriptors, and a signal or a null pointer in one of them ends them    *)
(* all.                                                                    *)
(*                                                                         *)
(* A request is the scaled bytes of its first line.  A reply is its        *)
(* header, reduced to the Content-Length, or an error, and the bytes of a  *)
(* file.  Clients may leave at any time.                                   *)
(***************************************************************************)
EXTENDS Integers, FiniteSets, SequencesExt, Strtok

CONSTANTS
    Threads,        \* the calls of accept, and the threads they start
    Requests,       \* what a client may ask for
    Line,           \* the first line of each request, in scaled bytes
    Target,         \* the file a request means, Absent, or NoFile
    Names,          \* the files of the directory of the server, with ...
    Page,           \* ... their bytes
    Dirs,           \* the names that are directories
    NoFile,         \* no file at all
    Absent,         \* a file that is not there
    Long,           \* the words for which an error has no room, of which ...
    Huge,           \* ... these are too long for a header as well
    MaxLine,        \* MAXLINE
    MaxFds,         \* how many descriptors connections and files can have
    MaxLeaves       \* bound: how many clients leave early

Index == "index.html"

ASSUME FilesAssumption ==
    /\ Names \subseteq STRING
    /\ Page \in [Names -> Seq(STRING \X Nat)]
    /\ Dirs \subseteq Names \ {Index}
    /\ \A w \in Dirs : Page[w] = <<>>
    /\ {NoFile, Absent} \cap Names = {}
    /\ NoFile # Absent

ASSUME RequestsAssumption ==
    /\ Line \in [Requests -> Seq(STRING)]
    /\ Target \in [Requests -> Names \cup {NoFile, Absent}]
    /\ NoFile \notin Requests

ASSUME BoundsAssumption ==
    /\ MaxLine \in Nat \ {0}
    /\ {MaxFds, MaxLeaves} \subseteq Nat

VARIABLES
    up,         \* the process runs
    listening,  \* open_listenfd gave main a socket (never changes)
    th,         \* each thread's locals, and what its client received
    mem,        \* the buffer of each thread
    cur,        \* the cursor of strtok
    fds,        \* the descriptors in use, besides those of main
    gone,       \* the clients that have closed their connection
    asked,      \* history: the request of each client
    trouble     \* history: what has befallen each thread

vars == <<up, listening, th, mem, cur, fds, gone, asked, trouble>>

-----------------------------------------------------------------------------
\* What a reply is made of besides the bytes of a file.
Header(n) == <<"Content-Length", n>>
Error500  == <<"500 Internal Server Error", 0>>

\* The text of the error, of which echo leaves a copy in the buffer.
ErrorText == <<"HTTP500", " ", "Internal", " ", "Server", "\n">>

\* No word of echo's own is long.
ASSUME WordsAssumption ==
    /\ Huge \subseteq Long
    /\ Long \cap ({NUL, "GET"} \cup Range(ErrorText)) = {}

Idle == [pc |-> "idle", conn |-> FALSE, get |-> NULL, path |-> NULL,
         type |-> NULL, file |-> NoFile, index |-> FALSE, fs |-> 0,
         pos |-> 0, out |-> <<>>]

\* When the port is taken open_listenfd returns -1, which main does not check.
Init ==
    /\ up = TRUE
    /\ listening \in BOOLEAN
    /\ th = [t \in Threads |-> Idle]
    /\ mem = [t \in Threads |-> <<>>]
    /\ cur = NULL
    /\ fds = 0
    /\ gone = {}
    /\ asked = [t \in Threads |-> NoFile]
    /\ trouble = [t \in Threads |-> {}]

\* Thread t of the running process is at pc; it goes on with the locals r.
At(t, pc)      == up /\ th[t].pc = pc
Become(t, r)   == th' = [th EXCEPT ![t] = r]
Goto(t, pc, r) == At(t, pc) /\ Become(t, r)

Befalls(S, what) == [t \in Threads |-> trouble[t] \cup IF t \in S THEN {what} ELSE {}]

-----------------------------------------------------------------------------
(* Connections.                                                            *)

\* A client connects, and accept finds a descriptor for it.
Accept(t) ==
    /\ listening
    /\ fds < MaxFds
    /\ Goto(t, "idle", [Idle EXCEPT !.pc = "read", !.conn = TRUE])
    /\ fds' = fds + 1
    /\ UNCHANGED <<up, listening, mem, cur, gone, asked, trouble>>

\* accept fails, at once and again and again, without a listening socket or
\* a free descriptor: main starts a thread for the connection -1.
AcceptFails(t) ==
    /\ ~listening \/ fds = MaxFds
    /\ Goto(t, "idle", [Idle EXCEPT !.pc = "read"])
    /\ trouble' = Befalls({t}, "short")
    /\ UNCHANGED <<up, listening, mem, cur, fds, gone, asked>>

\* The client of t closes its connection before it has the whole reply.
Leave(t) ==
    /\ th[t].conn
    /\ Cardinality(gone) < MaxLeaves
    /\ gone' = gone \cup {t}
    /\ trouble' = Befalls({t}, "left")
    /\ UNCHANGED <<up, listening, th, mem, cur, fds, asked>>

-----------------------------------------------------------------------------
(* echo: the request.                                                      *)

\* The result of strtok(p, D) in memory m; NULL stands for the cursor.
Token(m, p, D) == Cut(m, IF p = NULL THEN cur ELSE p, D)

\* A call of strtok by t moves the cursor, and a thread between two calls of
\* its own will go on from there.
Shares(t, k) ==
    /\ mem' = k.mem
    /\ cur' = k.cur
    /\ trouble' = Befalls({r \in Threads \ {t} : th[r].pc \in {"method", "path", "type"}},
                          "mixed")

\* What an uninitialised buffer holds: zeros, or what an earlier thread with the
\* same stack has left, a request that it cut or the text of an error.
Leftovers == {<<>>, <<"GET">>, ErrorText}

\* read, and strtok(buf, "\n").  Without a connection, or when the client
\* closed it, read leaves the buffer as it is.
Read(t) ==
    /\ At(t, "read")
    /\ \E r \in Requests, q \in Leftovers :
        LET full == th[t].conn /\ t \notin gone
            m    == [mem EXCEPT ![t] = IF full THEN Line[r] ELSE q]
        IN  \E k \in {Token(m, <<t, 1>>, {"\n"})} :
            /\ Become(t, [th[t] EXCEPT !.pc = "method", !.get = k.tok])
            /\ Shares(t, k)
            /\ asked' = IF full THEN [asked EXCEPT ![t] = r] ELSE asked
            /\ UNCHANGED <<up, listening, fds, gone>>

\* t at from called strtok, with the result k, and goes on with the locals r.
Cuts(t, from, k, r) ==
    /\ At(t, from)
    /\ Become(t, r)
    /\ Shares(t, k)
    /\ UNCHANGED <<up, listening, fds, gone, asked>>

\* strtok(get, " "): the method, which is not looked at.
CutMethod(t) ==
    Cuts(t, "method", Token(mem, th[t].get, {" "}), [th[t] EXCEPT !.pc = "path"])

\* strtok(NULL, " "), twice: request and type.
CutPath(t) ==
    LET k == Token(mem, NULL, {" "})
    IN  Cuts(t, "path", k, [th[t] EXCEPT !.pc = "type", !.path = k.tok])

CutType(t) ==
    LET k == Token(mem, NULL, {" "})
    IN  Cuts(t, "type", k, [th[t] EXCEPT !.pc = "open", !.type = k.tok])

-----------------------------------------------------------------------------
(* echo: the file.                                                         *)

\* memmove(p, p + 1, strlen(p)), in scaled bytes.
Moved(m, p) ==
    [m EXCEPT ![p[1]] = [i \in DOMAIN @ |->
        IF i >= p[2] /\ NUL \notin {@[j] : j \in p[2]..i} THEN ByteAt(@, i + 1)
                                                         ELSE @[i]]]

\* Mutant: the prefix inside/ is left on the name.
StrippedOnce(m, p) == m

\* The prefix inside/ is removed, too, if it is there.
Stripped(m, p) == IF "inside/" \in Range(StringAt(m, p)) THEN Moved(m, p) ELSE m

\* The file that string q names: in scaled bytes a name is one byte.
Named(q) == IF Len(q) = 1 THEN q[1] ELSE Absent

IsRoot(p) == StringAt(mem, p) \in {<<"/">>, <<"/", "inside/">>}

\* ftell at the end of the file; of a directory it is LONG_MAX, -1 as an int.
Size(w) == IF w \in Dirs THEN -1 ELSE Len(Page[w])

\* No path: the connection is closed without a reply.
Ignore(t) ==
    /\ th[t].path = NULL
    /\ Goto(t, "open", [th[t] EXCEPT !.pc = "close"])
    /\ UNCHANGED <<up, listening, mem, cur, fds, gone, asked, trouble>>

\* The word at p in memory m is one of W: copied, it overruns the stack.
Overruns(m, p, W) == p # NULL /\ Range(StringAt(m, p)) \cap W # {}

\* fopen(w): file w is open in thread t, its size is known, and sprintf puts
\* type, the file's kind and the size together, if there is room.  The path is
\* no part of type: it does not matter whether its first byte is gone by now.
Opens(t, w, index) ==
    /\ w \in Names
    /\ fds < MaxFds
    /\ fds' = fds + 1
    /\ Goto(t, "open", [th[t] EXCEPT !.pc = "header", !.file = w, !.index = index,
                                     !.fs = Size(w)])
    /\ up' = ~Overruns(mem, th[t].type, Huge)
    /\ UNCHANGED trouble

\* fopen fails, and the process goes on or not.
FailsToOpen(t, w, goesOn) ==
    /\ w \notin Names \/ fds = MaxFds
    /\ Goto(t, "open", [th[t] EXCEPT !.pc = "error"])
    /\ up' = goesOn
    /\ trouble' = Befalls(IF w \in Names THEN {t} ELSE {}, "short")
    /\ UNCHANGED fds

\* Mutant: the result of fopen is not checked.
OpenFailsUnseen(t, w) == FailsToOpen(t, w, FALSE)

\* The text of the reply starts with a copy of type, and copying from a null
\* pointer, or a word that is too long, ends the process.
OpenFails(t, w) ==
    FailsToOpen(t, w, th[t].type # NULL /\ ~Overruns(mem, th[t].type, Long))

\* A request for / or /inside/ ...
OpenIndex(t) ==
    /\ th[t].path # NULL
    /\ IsRoot(th[t].path)
    /\ Opens(t, Index, TRUE) \/ OpenFails(t, Index)
    /\ UNCHANGED <<listening, mem, cur, gone, asked>>

\* ... or for the file of that name, which is cut out of it in place: the
\* leading / goes first.
OpenNamed(t) ==
    /\ At(t, "open")
    /\ th[t].path # NULL
    /\ ~IsRoot(th[t].path)
    /\ \E m \in {Moved(mem, th[t].path)} : mem' = Stripped(m, th[t].path)
    /\ \E w \in {Named(StringAt(mem', th[t].path))} :
        Opens(t, w, FALSE) \/ OpenFails(t, w)
    /\ UNCHANGED <<listening, cur, gone, asked>>

-----------------------------------------------------------------------------
(* The reply.                                                              *)

\* write(connfd, data): on a connection that the client has closed it may
\* raise SIGPIPE; on the connection -1 it just fails.
Write(t, pc, r, data) ==
    /\ Goto(t, pc, IF th[t].conn /\ t \notin gone
                   THEN [r EXCEPT !.out = @ \o data] ELSE r)
    /\ \/ UNCHANGED up
       \/ t \in gone /\ up' = FALSE
    /\ UNCHANGED <<listening, cur, fds, gone, asked, trouble>>

\* The error 500, by way of the buffer, of which nobody takes notice: a thread
\* that was mixed up and moves a path in this buffer comes before or after.
SendError(t) ==
    /\ Write(t, "error", [th[t] EXCEPT !.pc = "close"], <<Error500>>)
    /\ mem' = [mem EXCEPT ![t] = ErrorText]

\* The header, with the Content-Length.
SendHeader(t) ==
    /\ Write(t, "header", [th[t] EXCEPT !.pc = "body"], <<Header(th[t].fs)>>)
    /\ UNCHANGED mem

\* fread of up to n bytes of the file of t.
Fread(t, n) ==
    SubSeq(Page[th[t].file], th[t].pos + 1,
           IF th[t].pos + n < Len(Page[th[t].file]) THEN th[t].pos + n
                                                    ELSE Len(Page[th[t].file]))

\* q goes out, and the thread goes on at pc.
SendPart(t, from, q, pc) ==
    /\ Write(t, from, [th[t] EXCEPT !.pc = pc, !.pos = @ + Len(q), !.fs = @ - Len(q)], q)
    /\ UNCHANGED mem

\* Mutant: while(fs != 0).
SendBlockToZero(t) ==
    LET q == Fread(t, MaxLine)
    IN  SendPart(t, "body", q, IF th[t].fs - Len(q) # 0 THEN "body" ELSE "rest")

\* The do-while loop: a block, until no more than one is left.
SendBlock(t) ==
    LET q == Fread(t, MaxLine)
    IN  SendPart(t, "body", q, IF th[t].fs - Len(q) > MaxLine THEN "body" ELSE "rest")

\* Mutant: if(fs > 1).
SendRestButOne(t) ==
    SendPart(t, "rest", IF th[t].fs > 1 THEN Fread(t, th[t].fs) ELSE <<>>, "close")

\* if(fs > 0): the last block.
SendRest(t) ==
    SendPart(t, "rest", IF th[t].fs > 0 THEN Fread(t, th[t].fs) ELSE <<>>, "close")

\* The thread returns, and its locals are gone; what remains of them here is
\* which file it sent.
Ended(t) == [Idle EXCEPT !.pc = "done", !.file = th[t].file, !.index = th[t].index,
                         !.out = th[t].out]

\* n descriptors are given back.
Returns(t, n) ==
    /\ Goto(t, "close", Ended(t))
    /\ fds' = fds - n
    /\ UNCHANGED <<up, listening, mem, cur, gone, asked, trouble>>

Connections(t) == IF th[t].conn THEN 1 ELSE 0
Files(t)       == IF th[t].file # NoFile /\ ~th[t].index THEN 1 ELSE 0

\* Mutant: fclose is missing in the other branch, too.
CloseNone(t) == Returns(t, Connections(t))

\* Mutant: echo closes the connection, and the thread again.
CloseTwice(t) == Returns(t, 2 * Connections(t) + Files(t))

\* fclose, which the branch of the index does not have, and the thread's close.
Close(t) == Returns(t, Connections(t) + Files(t))

-----------------------------------------------------------------------------
\* What a thread does without waiting for anybody.
ThreadStep(t) ==
    \/ CutMethod(t)
    \/ CutPath(t)
    \/ CutType(t)
    \/ Ignore(t)
    \/ OpenIndex(t)
    \/ OpenNamed(t)
    \/ SendError(t)
    \/ SendHeader(t)
    \/ SendBlock(t)
    \/ SendRest(t)
    \/ Close(t)

Next ==
    \E t \in Threads :
        \/ Accept(t)
        \/ AcceptFails(t)
        \/ Leave(t)
        \/ Read(t)
        \/ ThreadStep(t)

\* Threads are scheduled for ever, and clients take what they are sent; when
\* they connect and send their request is up to them.
Fairness == \A t \in Threads : WF_vars(ThreadStep(t))

Spec == Init /\ [][Next]_vars /\ Fairness

-----------------------------------------------------------------------------
(* Reference: what a line means to a thread that nobody interrupts.  The   *)
(* four calls of strtok are made in one buffer, here buffer 0.             *)

LineCut(q) == Cut([b \in {0} |-> q], <<0, 1>>, {"\n"})
MethodCut(q) ==
    LET k == LineCut(q) IN Cut(k.mem, IF k.tok = NULL THEN k.cur ELSE k.tok, {" "})
PathCut(q) == LET k == MethodCut(q) IN Cut(k.mem, k.cur, {" "})
TypeCut(q) == LET k == PathCut(q) IN Cut(k.mem, k.cur, {" "})

\* The path goes without its first byte, and without the next if it contains
\* inside/.
FileOf(path) ==
    IF path \in {<<"/">>, <<"/", "inside/">>} THEN Index
    ELSE LET w == Tail(path) IN Named(IF "inside/" \in Range(w) THEN Tail(w) ELSE w)

Meant(q) ==
    IF PathCut(q).tok = NULL THEN NoFile
    ELSE IF FileOf(StringAt(PathCut(q).mem, PathCut(q).tok)) \in Names
    THEN FileOf(StringAt(PathCut(q).mem, PathCut(q).tok))
    ELSE Absent

\* The target of a request is what its line means.
ASSUME TargetAssumption == \A r \in Requests : Target[r] = Meant(Line[r])

-----------------------------------------------------------------------------
(* Properties.                                                             *)

Pcs == {"idle", "read", "method", "path", "type", "open", "header", "body",
        "rest", "error", "close", "done"}

Pointer == {NULL} \cup (Threads \X (Nat \ {0}))

\* What can be in a buffer, and in a reply.
Text  == {NUL, "GET"} \cup Range(ErrorText) \cup UNION {Range(Line[r]) : r \in Requests}
Parts == {Error500} \cup {Header(Size(w)) : w \in Names}
             \cup UNION {Range(Page[w]) : w \in Names}

Thread == [pc : Pcs, conn : BOOLEAN, get : Pointer, path : Pointer,
           type : Pointer, file : Names \cup {NoFile}, index : BOOLEAN,
           fs : Int, pos : Nat, out : Seq(Parts)]

\* Every variable has its type, buffers and replies are made of what the
\* requests, the files and echo put into them, and the table of descriptors is
\* never overdrawn (serv.c:82-176).
TypeOK ==
    /\ {up, listening} \subseteq BOOLEAN
    /\ th \in [Threads -> Thread]
    /\ mem \in [Threads -> Seq(Text)]
    /\ cur \in Pointer
    /\ fds \in 0..MaxFds
    /\ gone \subseteq Threads
    /\ asked \in [Threads -> Requests \cup {NoFile}]
    /\ trouble \in [Threads -> SUBSET {"mixed", "left", "short"}]

\* File w with its header.
Whole(w) == <<Header(Size(w))>> \o Page[w]

\* What the client that asks for r should receive.
Reply(r) ==
    CASE Target[r] \in Names  -> Whole(Target[r])
      [] Target[r] = Absent   -> <<Error500>>
      [] Target[r] = NoFile   -> <<>>

\* The memory of the threads is apart: a later thread gets the stack of one that
\* has ended, where a thread that was mixed up may still point to.
Separate == Cardinality(Threads) <= 2 \/ \A t \in Threads : "mixed" \notin trouble[t]

\* A client receives the file it asked for, in full and nobody else's, or the
\* error it has earned, if only no other thread called strtok while its own
\* request was being cut, it stayed, and there were descriptors: whatever else
\* the other threads do, of two, or of any number that all were not mixed up
\* (serv.c:104-176).
OwnReply ==
    Separate => \A t \in Threads :
        th[t].pc = "done" /\ asked[t] # NoFile /\ trouble[t] = {} =>
            th[t].out = Reply(asked[t])

\* Even a reply that is not to one's own request is an error or one whole
\* file with the length of that file (write_packet, serv.c:46-78).
InFull ==
    \A t \in Threads :
        th[t].pc = "done" /\ "left" \notin trouble[t] =>
            th[t].out \in {<<>>, <<Error500>>} \cup {Whole(w) : w \in Names}

\* The process ends only after a client left before its reply was complete,
\* requests were mixed up, a request without a third word, or one too long for
\* the error's text, met an error, or a request's third word was too long for a
\* header: no other request, order or shortage brings it down (serv.c:50, 52,
\* 63, 122-125, 142-145).
DownHasCause ==
    ~up => \E t \in Threads :
        \/ trouble[t] \cap {"left", "mixed"} # {}
        \/ /\ asked[t] # NoFile
           /\ \E k \in {TypeCut(Line[asked[t]])} :
                \/ /\ k.tok = NULL \/ Overruns(k.mem, k.tok, Long)
                   /\ Target[asked[t]] = Absent \/ "short" \in trouble[t]
                \/ /\ Overruns(k.mem, k.tok, Huge)
                   /\ Target[asked[t]] \in Names

\* When all threads have ended, the descriptors that are still in use are
\* those of the index, one for each time it was sent: nothing else is lost, on
\* no path through echo (serv.c:113-119, 175, 88).
OnlyIndexLeaks ==
    up /\ (\A t \in Threads : th[t].pc \in {"idle", "done"}) =>
        fds = Cardinality({t \in Threads : th[t].index})

\* Every request that was read is dealt with and its connection closed, unless
\* the process ends (serv.c:82-90).
Served ==
    \A t \in Threads :
        th[t].pc \notin {"idle", "read"} ~> th[t].pc = "done" \/ ~up
=============================================================================
