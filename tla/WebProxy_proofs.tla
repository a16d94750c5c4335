--------------------------- MODULE WebProxy_proofs ---------------------------
(***************************************************************************)
(* Proofs about WebProxy, for any number of requests, any pages, hosts and *)
(* blacklist, any number of descriptors and of kills: no two threads fetch *)
(* the same page; a host keeps its address; the page files are the page    *)
(* cache of PageCache, and a page that is cached in full is served in      *)
(* full; and what is left of the descriptors.                              *)
(***************************************************************************)
EXTENDS WebProxy, SequenceTheorems, FiniteSetTheorems, TLAPS

-----------------------------------------------------------------------------
(* Type correctness.                                                       *)

\* The record of a request, field by field.
LEMMA RequestFacts ==
    ASSUME TypeOK, NEW t \in Threads
    PROVE  /\ req[t] \in Request
           /\ req[t].url \in Urls
           /\ Host(t) \in Hosts
           /\ req[t].out \in Seq(Chunks \cup Replies)
           /\ req[t].buf \in Seq(Chunks)
           /\ store[req[t].url] \in Seq(Chunks)
           /\ Page[req[t].url] \in Seq(Chunks)
<1>1. req[t] \in Request
    BY DEF TypeOK
<1>2. req[t].url \in Urls
    BY <1>1 DEF Request
<1>3. QED
    BY <1>1, <1>2, RequestsAssumption DEF Request, Host, TypeOK

\* A thread whose record becomes another request.
LEMMA GotoType ==
    ASSUME TypeOK, NEW t \in Threads, NEW pc, NEW r \in Request, Goto(t, pc, r)
    PROVE  req' \in [Threads -> Request]
    BY DEF TypeOK, Goto

\* The idle request.
LEMMA IdleType == Idle \in Request
<1>1. (CHOOSE u \in Urls : TRUE) \in Urls
    BY RequestsAssumption
<1>2. QED
    BY <1>1 DEF Idle, Request, Pcs

\* The record of a request whose process ended, and of one that arrives.
LEMMA KilledType ==
    /\ [Idle EXCEPT !.pc = "killed"] \in Request
    /\ [Idle EXCEPT !.pc = "killed"].pc = "killed"
    BY IdleType DEF Request, Pcs

LEMMA ArrivedType ==
    ASSUME NEW u \in Urls
    PROVE  /\ [Idle EXCEPT !.pc = "parse", !.url = u] \in Request
           /\ [Idle EXCEPT !.pc = "parse", !.url = u].pc = "parse"
           /\ [Idle EXCEPT !.pc = "parse", !.url = u].url = u
    BY IdleType DEF Request, Pcs

\* The replies.
LEMMA AnsweredType ==
    ASSUME TypeOK, NEW t \in Threads, NEW q \in {Error500, NotFound, Forbidden}
    PROVE  Answered(t, q) \in Request
<1>1. PICK e \in Replies : q = <<e>>
    BY DEF Error500, NotFound, Forbidden, Replies
<1>2. e \in Chunks \cup Replies
    OBVIOUS
<1>3. <<e>> \in Seq(Chunks \cup Replies)
    BY <1>2
<1>4. q \in Seq(Chunks \cup Replies)
    BY <1>1, <1>3
<1>5. QED
    BY <1>4, RequestFacts DEF Answered, Request, Pcs

\* A new place in the program.
LEMMA MoveType ==
    ASSUME TypeOK, NEW t \in Threads, NEW pc \in Pcs
    PROVE  [req[t] EXCEPT !.pc = pc] \in Request
    BY RequestFacts DEF Request

\* ... and an empty buffer.
LEMMA EndedType ==
    ASSUME TypeOK, NEW t \in Threads, NEW pc \in Pcs
    PROVE  [req[t] EXCEPT !.pc = pc, !.buf = <<>>] \in Request
<1>1. <<>> \in Seq(Chunks)
    OBVIOUS
<1>2. QED
    BY <1>1, RequestFacts DEF Request

\* Descriptors are taken, given back, or left alone.
LEMMA FdsType ==
    ASSUME TypeOK, \/ Take(1) \/ Take(2) \/ Give(1) \/ Give(2) \/ fds' \in {0, fds}
    PROVE  fds' \in Int /\ fds' <= MaxFds
<1>1. MaxFds \in Nat
    BY ConstantsAssumption
<1>2. fds \in Int /\ fds <= MaxFds
    BY DEF TypeOK
<1>3. QED
    BY <1>1, <1>2 DEF Take, Give

\* The process ends and is started again.
LEMMA RestartType ==
    ASSUME TypeOK, NEW S, Restart(S)
    PROVE  /\ req' \in [Threads -> Request]
           /\ lock' \in [Locks -> Threads \cup {Free}]
           /\ fds' \in Int /\ fds' <= MaxFds
           /\ UNCHANGED <<names, pages, saved, store, torn, whole>>
<1>1. [Idle EXCEPT !.pc = "killed"] \in Request
    BY KilledType
<1>2. req' \in [Threads -> Request]
    BY <1>1 DEF Restart, TypeOK
<1>3. lock' \in [Locks -> Threads \cup {Free}]
    BY DEF Restart
<1>4. fds' = 0
    BY DEF Restart
<1>5. QED
    BY <1>2, <1>3, <1>4, FdsType DEF Restart, files

\* Taking a mutex.
LEMMA AcquireType ==
    ASSUME TypeOK, NEW t \in Threads, NEW l \in Locks, NEW from, NEW to \in Pcs,
           Acquire(t, l, from, to)
    PROVE  TypeOK'
<1>1. req' \in [Threads -> Request]
    BY MoveType, GotoType DEF Acquire
<1>2. lock' \in [Locks -> Threads \cup {Free}]
    BY DEF Acquire, TypeOK
<1>3. QED
    BY <1>1, <1>2 DEF Acquire, TypeOK, files

\* Giving it back.
LEMMA ReleaseType ==
    ASSUME TypeOK, NEW l \in Locks, Release(l)
    PROVE  lock' \in [Locks -> Threads \cup {Free}]
    BY DEF Release, TypeOK
-----------------------------------------------------------------------------
\* Initially.
LEMMA InitTypes ==
    ASSUME Init
    PROVE  TypeOK
<1>1. <<>> \in Seq(Hosts \X Addresses) /\ <<>> \in Seq(Chunks)
    OBVIOUS
<1>2. QED
    BY <1>1, IdleType, ConstantsAssumption DEF Init, TypeOK

\* The first of the strtok calls.
LEMMA CutsType ==
    ASSUME TypeOK, NEW t \in Threads, Cuts(t)
    PROVE  torn' \in SUBSET Threads
    BY DEF TypeOK, Cuts, Cutting

\* A request arrives, ...
LEMMA AcceptStep ==
    ASSUME TypeOK, NEW t \in Threads, NEW u \in Urls, Accept(t, u)
    PROVE  TypeOK'
<1> DEFINE r == [Idle EXCEPT !.pc = "parse", !.url = u]
<1>1. r \in Request
    BY ArrivedType
<1>2. Goto(t, "idle", r)
    BY DEF Accept
<1> HIDE DEF r
<1>3. req' \in [Threads -> Request]
    BY <1>1, <1>2, GotoType
<1>4. whole' \in [Threads -> BOOLEAN]
    BY DEF Accept, TypeOK
<1>5. fds' \in Int /\ fds' <= MaxFds
    BY FdsType DEF Accept
<1>6. torn' \in SUBSET Threads
    BY CutsType DEF Accept
<1>7. QED
    BY <1>3, <1>4, <1>5, <1>6 DEF Accept, TypeOK, files

\* ... is cut into its parts, ...
LEMMA ParseStep ==
    ASSUME TypeOK, NEW t \in Threads, Parse(t)
    PROVE  TypeOK'
<1>1. PICK u \in Urls : Goto(t, "parse", [req[t] EXCEPT !.pc = "lock ip", !.url = u])
    BY DEF Parse
<1>2. [req[t] EXCEPT !.pc = "lock ip", !.url = u] \in Request
    BY RequestFacts DEF Request, Pcs
<1>3. req' \in [Threads -> Request]
    BY <1>1, <1>2, GotoType
<1>4. QED
    BY <1>3 DEF Parse, TypeOK, files

\* ... and may be no GET.
LEMMA IgnoreStep ==
    ASSUME TypeOK, NEW t \in Threads, Ignore(t)
    PROVE  TypeOK'
<1>1. req' \in [Threads -> Request]
    BY MoveType, GotoType DEF Ignore, Pcs
<1>2. fds' \in Int /\ fds' <= MaxFds
    BY FdsType DEF Ignore
<1>3. whole' \in [Threads -> BOOLEAN]
    BY DEF Ignore, TypeOK
<1>4. QED
    BY <1>1, <1>2, <1>3 DEF Ignore, TypeOK, files

\* A request, a missing token or a missing descriptor ends the process.
LEMMA EndStep ==
    ASSUME TypeOK, NEW t \in Threads, NoRequest(t) \/ NoToken(t) \/ NoFile(t)
    PROVE  TypeOK'
<1>1. PICK S : Restart(S)
    BY DEF NoRequest, NoToken, NoFile
<1>2. QED
    BY <1>1, RestartType DEF TypeOK

\* The three mutexes are taken.
LEMMA LockStep ==
    ASSUME TypeOK, NEW t \in Threads, LockNames(t) \/ LockBlacklist(t) \/ LockPages(t)
    PROVE  TypeOK'
<1>1. {"ip", "black", "pg"} \subseteq Locks /\ {"open names", "check", "scan pages"} \subseteq Pcs
    BY DEF Locks, Pcs
<1>2. QED
    BY <1>1, AcquireType DEF LockNames, LockBlacklist, LockPages

\* The file of names is opened, ...
LEMMA OpenNamesStep ==
    ASSUME TypeOK, NEW t \in Threads, OpenNames(t)
    PROVE  TypeOK'
<1>1. req' \in [Threads -> Request]
    BY MoveType, GotoType DEF OpenNames, Pcs
<1>2. fds' \in Int /\ fds' <= MaxFds
    BY FdsType DEF OpenNames
<1>3. torn' \in SUBSET Threads
    BY CutsType DEF OpenNames
<1>4. QED
    BY <1>1, <1>2, <1>3 DEF OpenNames, TypeOK, files

\* What is found in it is an address.
LEMMA FoundType ==
    ASSUME TypeOK, NEW t \in Threads
    PROVE  Found(t) \subseteq Addresses
<1>1. ASSUME NEW i \in Matching(Host(t))
      PROVE  names[i][2] \in Addresses
    <2>1. names \in Seq(Hosts \X Addresses) /\ i \in 1..Len(names)
        BY LenProperties DEF Matching, TypeOK
    <2>2. names[i] \in Hosts \X Addresses
        BY <2>1, ElementOfSeq
    <2>3. QED
        BY <2>2
<1>2. QED
    BY <1>1 DEF Found

\* ... the host is looked up in it ...
LEMMA ScanNamesStep ==
    ASSUME TypeOK, NEW t \in Threads, ScanNames(t)
    PROVE  TypeOK'
<1>1. CASE /\ Goto(t, "scan names", [req[t] EXCEPT !.pc = "resolve"])
           /\ UNCHANGED <<lock, fds>>
    <2>1. "resolve" \in Pcs
        BY DEF Pcs
    <2>2. req' \in [Threads -> Request]
        BY <1>1, <2>1, MoveType, GotoType
    <2>3. QED
        BY <1>1, <2>2 DEF ScanNames, TypeOK, files
<1>2. CASE \E a \in Found(t) :
              /\ Goto(t, "scan names", [req[t] EXCEPT !.pc = "lock black", !.addr = a])
              /\ Release("ip")
              /\ Give(1)
    <2>1. PICK a \in Found(t) :
              /\ Goto(t, "scan names", [req[t] EXCEPT !.pc = "lock black", !.addr = a])
              /\ Release("ip")
              /\ Give(1)
        BY <1>2
    <2>2. a \in Addresses
        BY FoundType
    <2>3. [req[t] EXCEPT !.pc = "lock black", !.addr = a] \in Request
        BY <2>2, RequestFacts DEF Request, Pcs
    <2>4. req' \in [Threads -> Request]
        BY <2>1, <2>3, GotoType
    <2>5. lock' \in [Locks -> Threads \cup {Free}]
        BY <2>1, ReleaseType DEF Locks
    <2>6. fds' \in Int /\ fds' <= MaxFds
        BY <2>1, FdsType
    <2>7. QED
        BY <2>4, <2>5, <2>6 DEF ScanNames, TypeOK, files
<1>3. QED
    BY <1>1, <1>2 DEF ScanNames

\* ... or resolved.
LEMMA ResolveStep ==
    ASSUME TypeOK, NEW t \in Threads, Resolve(t)
    PROVE  TypeOK'
<1>1. CASE /\ Goto(t, "resolve", Answered(t, NotFound))
           /\ Release("ip")
           /\ Give(2)
           /\ UNCHANGED <<files, torn, whole>>
    <2>1. req' \in [Threads -> Request]
        BY <1>1, AnsweredType, GotoType
    <2>2. lock' \in [Locks -> Threads \cup {Free}]
        BY <1>1, ReleaseType DEF Locks
    <2>3. fds' \in Int /\ fds' <= MaxFds
        BY <1>1, FdsType
    <2>4. QED
        BY <1>1, <2>1, <2>2, <2>3 DEF TypeOK, files
<1>2. CASE \E a \in Answers[Host(t)] :
            /\ Goto(t, "resolve", [req[t] EXCEPT !.pc = "lock black", !.addr = a])
            /\ names' = Append(names, <<Host(t), a>>)
            /\ Release("ip")
            /\ Give(1)
            /\ UNCHANGED <<pages, saved, store, torn, whole>>
    <2>1. PICK a \in Answers[Host(t)] :
            /\ Goto(t, "resolve", [req[t] EXCEPT !.pc = "lock black", !.addr = a])
            /\ names' = Append(names, <<Host(t), a>>)
            /\ Release("ip")
            /\ Give(1)
            /\ UNCHANGED <<pages, saved, store, torn, whole>>
        BY <1>2
    <2>2. Host(t) \in Hosts /\ a \in Addresses
        BY RequestFacts, RequestsAssumption
    <2>3. [req[t] EXCEPT !.pc = "lock black", !.addr = a] \in Request
        BY <2>2, RequestFacts DEF Request, Pcs
    <2>4. req' \in [Threads -> Request]
        BY <2>1, <2>3, GotoType
    <2>5. names' \in Seq(Hosts \X Addresses)
        <3>1. names \in Seq(Hosts \X Addresses) /\ <<Host(t), a>> \in Hosts \X Addresses
            BY <2>2 DEF TypeOK
        <3>2. QED
            BY <2>1, <3>1, AppendProperties
    <2>6. lock' \in [Locks -> Threads \cup {Free}]
        BY <2>1, ReleaseType DEF Locks
    <2>7. fds' \in Int /\ fds' <= MaxFds
        BY <2>1, FdsType
    <2>8. QED
        BY <2>1, <2>4, <2>5, <2>6, <2>7 DEF TypeOK
<1>3. QED
    BY <1>1, <1>2 DEF Resolve

\* The blacklist is searched.
LEMMA CheckBlacklistStep ==
    ASSUME TypeOK, NEW t \in Threads, CheckBlacklist(t)
    PROVE  TypeOK'
<1>1. "lock pg" \in Pcs /\ "black" \in Locks
    BY DEF Pcs, Locks
<1>2. req' \in [Threads -> Request]
    BY <1>1, AnsweredType, MoveType, GotoType DEF CheckBlacklist
<1>3. lock' \in [Locks -> Threads \cup {Free}]
    BY <1>1, ReleaseType DEF CheckBlacklist, TypeOK
<1>4. fds' \in Int /\ fds' <= MaxFds
    BY FdsType DEF CheckBlacklist
<1>5. whole' \in [Threads -> BOOLEAN]
    BY DEF CheckBlacklist, TypeOK
<1>6. QED
    BY <1>2, <1>3, <1>4, <1>5 DEF CheckBlacklist, TypeOK, files

\* The list of pages is searched and extended.
LEMMA ScanPagesStep ==
    ASSUME TypeOK, NEW t \in Threads, ScanPages(t)
    PROVE  TypeOK'
<1>1. [req[t] EXCEPT !.pc = "mark", !.found = req[t].url \in pages] \in Request
    <2>1. (req[t].url \in pages) \in BOOLEAN
        OBVIOUS
    <2>2. QED
        BY <2>1, RequestFacts DEF Request, Pcs
<1>2. req' \in [Threads -> Request]
    BY <1>1, GotoType DEF ScanPages
<1>3. fds' \in Int /\ fds' <= MaxFds
    BY FdsType DEF ScanPages
<1>4. QED
    BY <1>2, <1>3 DEF ScanPages, TypeOK, files

LEMMA MarkPageStep ==
    ASSUME TypeOK, NEW t \in Threads, MarkPage(t)
    PROVE  TypeOK'
<1>1. (IF req[t].found THEN "open" ELSE "connect") \in Pcs /\ "pg" \in Locks
    BY DEF Pcs, Locks
<1>2. req' \in [Threads -> Request]
    BY <1>1, MoveType, GotoType DEF MarkPage
<1>3. lock' \in [Locks -> Threads \cup {Free}]
    BY <1>1, ReleaseType DEF MarkPage
<1>4. pages' \in SUBSET Urls
    BY RequestFacts DEF MarkPage, TypeOK
<1>5. fds' \in Int /\ fds' <= MaxFds
    BY FdsType DEF MarkPage
<1>6. QED
    BY <1>2, <1>3, <1>4, <1>5 DEF MarkPage, TypeOK

\* The page is sent from the cache.
LEMMA OpenCachedStep ==
    ASSUME TypeOK, NEW t \in Threads, OpenCached(t)
    PROVE  TypeOK'
<1>1. "send" \in Pcs
    BY DEF Pcs
<1>2. req' \in [Threads -> Request]
    BY <1>1, MoveType, AnsweredType, GotoType DEF OpenCached
<1>3. fds' \in Int /\ fds' <= MaxFds
    BY FdsType DEF OpenCached
<1>4. whole' \in [Threads -> BOOLEAN]
    BY DEF OpenCached, TypeOK
<1>5. QED
    BY <1>2, <1>3, <1>4 DEF OpenCached, TypeOK, files

\* A chunk of a sequence is added to what the client was sent.
LEMMA SendType ==
    ASSUME TypeOK, NEW t \in Threads, NEW q \in Seq(Chunks), Len(req[t].out) < Len(q)
    PROVE  /\ q[Len(req[t].out) + 1] \in Chunks
           /\ Append(req[t].out, q[Len(req[t].out) + 1]) \in Seq(Chunks \cup Replies)
<1>1. Len(req[t].out) \in Nat /\ Len(q) \in Nat
    BY RequestFacts, LenProperties
<1>2. Len(req[t].out) + 1 \in 1..Len(q)
    BY <1>1
<1>3. q[Len(req[t].out) + 1] \in Chunks
    BY <1>2, ElementOfSeq
<1>4. QED
    BY <1>3, RequestFacts, AppendProperties

LEMMA SendCachedStep ==
    ASSUME TypeOK, NEW t \in Threads, SendCached(t)
    PROVE  TypeOK'
<1> DEFINE q == store[req[t].url]
           o == Append(req[t].out, q[Len(req[t].out) + 1])
<1>1. fds' \in Int /\ fds' <= MaxFds
    BY FdsType DEF SendCached
<1>2. CASE Unsent(t) /\ Goto(t, "send", [req[t] EXCEPT !.out = o])
    <2>1. o \in Seq(Chunks \cup Replies)
        BY <1>2, RequestFacts, SendType DEF Unsent
    <2> HIDE DEF o
    <2>2. [req[t] EXCEPT !.out = o] \in Request
        BY <2>1, RequestFacts DEF Request
    <2>3. req' \in [Threads -> Request]
        BY <1>2, <2>2, GotoType
    <2>4. QED
        BY <1>1, <2>3 DEF SendCached, TypeOK, files
<1>3. CASE Goto(t, "send", [req[t] EXCEPT !.pc = "done"])
    <2>1. req' \in [Threads -> Request]
        BY <1>3, MoveType, GotoType DEF Pcs
    <2>2. QED
        BY <1>1, <2>1 DEF SendCached, TypeOK, files
<1>4. [req[t] EXCEPT !.out = Append(@, store[req[t].url][Len(@) + 1])]
        = [req[t] EXCEPT !.out = o]
    BY RequestFacts DEF Request
<1>5. QED
    BY <1>2, <1>3, <1>4 DEF SendCached

\* The page is fetched.
LEMMA FetchFailsStep ==
    ASSUME TypeOK, NEW t \in Threads, FetchFails(t)
    PROVE  TypeOK'
<1>1. req' \in [Threads -> Request]
    BY AnsweredType, GotoType DEF FetchFails
<1>2. fds' \in Int /\ fds' <= MaxFds
    BY FdsType DEF FetchFails
<1>3. QED
    BY <1>1, <1>2 DEF FetchFails, TypeOK, files

LEMMA ConnectStep ==
    ASSUME TypeOK, NEW t \in Threads, Connect(t)
    PROVE  TypeOK'
<1>1. "fetch" \in Pcs
    BY DEF Pcs
<1>2. req' \in [Threads -> Request]
    BY <1>1, MoveType, GotoType DEF Connect
<1>3. saved' \in SUBSET Urls
    BY RequestFacts DEF Connect, TypeOK
<1>4. fds' \in Int /\ fds' <= MaxFds
    BY FdsType DEF Connect
<1>5. QED
    BY <1>2, <1>3, <1>4 DEF Connect, TypeOK

LEMMA ReceiveStep ==
    ASSUME TypeOK, NEW t \in Threads, Receive(t)
    PROVE  TypeOK'
<1> DEFINE u == req[t].url
           n == Len(req[t].out)
           q == Append(req[t].buf, Page[u][n + 1])
           o == Append(req[t].out, Page[u][n + 1])
<1>1. /\ o \in Seq(Chunks \cup Replies)
      /\ Page[u][n + 1] \in Chunks
    BY RequestFacts, SendType DEF Receive
<1>2. q \in Seq(Chunks) /\ Len(q) \in Nat
    BY <1>1, RequestFacts, AppendProperties, LenProperties
<1>3. PICK i \in 0..Len(q) :
        /\ Goto(t, "fetch", [req[t] EXCEPT !.out = o, !.buf = SubSeq(q, i + 1, Len(q))])
        /\ store' = [store EXCEPT ![u] = @ \o SubSeq(q, 1, i)]
    BY DEF Receive
<1> HIDE DEF q, o
<1>4. SubSeq(q, i + 1, Len(q)) \in Seq(Chunks) /\ SubSeq(q, 1, i) \in Seq(Chunks)
    <2>1. i + 1 \in 1..Len(q) + 1 /\ i \in 0..Len(q)
        BY <1>2
    <2>2. \A j \in 1..Len(q) : q[j] \in Chunks
        BY <1>2, ElementOfSeq
    <2>3. \A j \in (i + 1)..Len(q) : q[j] \in Chunks
        BY <1>2, <2>1, <2>2
    <2>4. \A j \in 1..i : q[j] \in Chunks
        BY <1>2, <2>1, <2>2
    <2>5. QED
        BY <1>2, <2>3, <2>4, SubSeqProperties
<1>5. [req[t] EXCEPT !.out = o, !.buf = SubSeq(q, i + 1, Len(q))] \in Request
    BY <1>1, <1>4, RequestFacts DEF Request
<1>6. req' \in [Threads -> Request]
    BY <1>3, <1>5, GotoType
<1>7. store[u] \o SubSeq(q, 1, i) \in Seq(Chunks)
    BY <1>4, RequestFacts, ConcatProperties
<1>8. store' \in [Urls -> Seq(Chunks)]
    BY <1>3, <1>7 DEF TypeOK
<1>9. QED
    BY <1>6, <1>8 DEF Receive, TypeOK

LEMMA OriginClosesStep ==
    ASSUME TypeOK, NEW t \in Threads, OriginCloses(t)
    PROVE  TypeOK'
<1>1. [req[t] EXCEPT !.pc = "done", !.buf = <<>>] \in Request
    BY EndedType DEF Pcs
<1>2. req' \in [Threads -> Request]
    BY <1>1, GotoType DEF OriginCloses
<1>3. store[req[t].url] \o req[t].buf \in Seq(Chunks)
    BY RequestFacts, ConcatProperties
<1>4. store' \in [Urls -> Seq(Chunks)]
    BY <1>3 DEF OriginCloses, TypeOK
<1>5. fds' \in Int /\ fds' <= MaxFds
    BY FdsType DEF OriginCloses
<1>6. QED
    BY <1>2, <1>4, <1>5 DEF OriginCloses, TypeOK

\* The process is killed.
LEMMA KillStep ==
    ASSUME TypeOK, Kill
    PROVE  TypeOK'
<1>1. Restart({})
    BY DEF Kill
<1>2. QED
    BY <1>1, RestartType DEF TypeOK

\* Every step.
LEMMA NextTypes ==
    ASSUME TypeOK, [Next]_vars
    PROVE  TypeOK'
<1>1. ASSUME NEW t \in Threads, ThreadStep(t)
      PROVE  TypeOK'
    BY <1>1, ParseStep, LockStep, EndStep, OpenNamesStep, ScanNamesStep, ResolveStep, CheckBlacklistStep, ScanPagesStep,
       MarkPageStep, OpenCachedStep, SendCachedStep, FetchFailsStep, ConnectStep,
       ReceiveStep, OriginClosesStep DEF ThreadStep
<1>2. CASE UNCHANGED vars
    BY <1>2 DEF TypeOK, vars, files
<1>3. QED
    BY <1>1, <1>2, AcceptStep, IgnoreStep, EndStep, KillStep DEF Next

\* Every variable of the proxy keeps its type, kills included.
THEOREM TypeCorrect == Spec => []TypeOK
<1>1. Init => TypeOK
    BY InitTypes
<1>2. TypeOK /\ [Next]_vars => TypeOK'
    BY NextTypes
<1>3. QED
    BY <1>1, <1>2, PTL DEF Spec
-----------------------------------------------------------------------------
(* One thread fetches a page.                                              *)

\* The searches of page_avail.txt are made under pg_lock; while a thread is at
\* it, what it found remains so; and a page that is fetched is listed.
PageInv ==
    /\ \A t \in Threads : req[t].pc \in {"scan pages", "mark"} => lock["pg"] = t
    /\ \A t \in Threads :
        req[t].pc = "mark" /\ ~req[t].found => req[t].url \notin pages
    /\ \A t \in Threads : Fetching(t) => req[t].url \in pages
    /\ OneFetch

\* What a step of thread t does to the records of the requests.
LEMMA GotoFacts ==
    ASSUME TypeOK, NEW t \in Threads, NEW pc, NEW r, Goto(t, pc, r)
    PROVE  /\ req[t].pc = pc
           /\ req'[t] = r
           /\ \A s \in Threads \ {t} : req'[s] = req[s]
    BY DEF Goto, TypeOK

\* A step of thread t that does not concern the pages.
LEMMA ElsewhereKeeps ==
    ASSUME TypeOK, PageInv, NEW t \in Threads,
           \A s \in Threads \ {t} : req'[s] = req[s],
           req'[t].pc \notin {"scan pages", "mark"},
           req'[t].pc \in {"connect", "fetch"} => Fetching(t) /\ req'[t].url = req[t].url,
           lock'["pg"] = lock["pg"], pages' = pages
    PROVE  PageInv'
<1>1. \A s \in Threads : Fetching(s)' => Fetching(s) /\ req'[s].url = req[s].url
    BY DEF Fetching
<1>2. OneFetch'
    BY <1>1 DEF PageInv, OneFetch
<1>3. \A s \in Threads : Fetching(s)' => req'[s].url \in pages'
    BY <1>1 DEF PageInv
<1>4. \A s \in Threads : req'[s].pc \in {"scan pages", "mark"} => s # t /\ req'[s] = req[s]
    OBVIOUS
<1>5. \A s \in Threads : req'[s].pc \in {"scan pages", "mark"} => lock'["pg"] = s
    BY <1>4 DEF PageInv
<1>6. \A s \in Threads :
        req'[s].pc = "mark" /\ ~req'[s].found => req'[s].url \notin pages'
    BY <1>4 DEF PageInv
<1>7. QED
    BY <1>2, <1>3, <1>5, <1>6 DEF PageInv

\* pg_lock is taken, ...
LEMMA LockPagesKeeps ==
    ASSUME TypeOK, PageInv, NEW t \in Threads, LockPages(t)
    PROVE  PageInv'
<1>1. /\ req'[t] = [req[t] EXCEPT !.pc = "scan pages"]
      /\ \A s \in Threads \ {t} : req'[s] = req[s]
      /\ lock["pg"] = Free /\ lock'["pg"] = t /\ pages' = pages
    BY DEF LockPages, Acquire, Goto, TypeOK, Locks, files
<1>2. req'[t].pc = "scan pages"
    BY <1>1, RequestFacts DEF Request
<1>3. \A s \in Threads \ {t} : req[s].pc \notin {"scan pages", "mark"}
    BY <1>1, ConstantsAssumption DEF PageInv
<1>4. \A s \in Threads : Fetching(s)' => Fetching(s) /\ req'[s].url = req[s].url
    BY <1>1, <1>2 DEF Fetching
<1>5. QED
    BY <1>1, <1>2, <1>3, <1>4 DEF PageInv, OneFetch, Fetching

\* ... the list is searched, ...
LEMMA ScanPagesKeeps ==
    ASSUME TypeOK, PageInv, NEW t \in Threads, ScanPages(t)
    PROVE  PageInv'
<1>1. /\ req'[t] = [req[t] EXCEPT !.pc = "mark", !.found = req[t].url \in pages]
      /\ \A s \in Threads \ {t} : req'[s] = req[s]
      /\ req[t].pc = "scan pages" /\ lock' = lock /\ pages' = pages
    BY DEF ScanPages, Goto, TypeOK, files
<1>2. /\ req'[t].pc = "mark" /\ req'[t].url = req[t].url
      /\ req'[t].found = (req[t].url \in pages)
    BY <1>1, RequestFacts DEF Request
<1>3. \A s \in Threads : Fetching(s)' => Fetching(s) /\ req'[s].url = req[s].url
    BY <1>1, <1>2 DEF Fetching
<1>4. QED
    BY <1>1, <1>2, <1>3 DEF PageInv, OneFetch, Fetching

\* ... and the page is listed: the only step after which another thread fetches
\* a page, which nobody fetched before because it was not listed.
LEMMA MarkPageKeeps ==
    ASSUME TypeOK, PageInv, NEW t \in Threads, MarkPage(t)
    PROVE  PageInv'
<1> DEFINE u == req[t].url
<1>1. /\ req'[t] = [req[t] EXCEPT !.pc = IF req[t].found THEN "open" ELSE "connect"]
      /\ \A s \in Threads \ {t} : req'[s] = req[s]
      /\ req[t].pc = "mark"
      /\ pages' = pages \cup (IF req[t].found THEN {} ELSE {u})
    BY DEF MarkPage, Goto, TypeOK
<1>2. /\ req'[t].pc = IF req[t].found THEN "open" ELSE "connect"
      /\ req'[t].url = u
    BY <1>1, RequestFacts DEF Request
<1>3. \A s \in Threads \ {t} : req[s].pc \notin {"scan pages", "mark"}
    BY <1>1 DEF PageInv
<1>4. \A s \in Threads \ {t} : Fetching(s)' => Fetching(s) /\ req'[s].url = req[s].url
    BY <1>1 DEF Fetching
<1>5. CASE req[t].found
    BY <1>1, <1>2, <1>3, <1>4, <1>5 DEF PageInv, OneFetch, Fetching
<1>6. CASE ~req[t].found
    <2>1. u \notin pages
        BY <1>1, <1>6 DEF PageInv
    <2>2. \A s \in Threads \ {t} : Fetching(s)' => req'[s].url # u
        BY <1>4, <2>1 DEF PageInv
    <2>3. OneFetch'
        BY <1>2, <1>4, <2>2 DEF PageInv, OneFetch
    <2>4. pages' = pages \cup {u}
        BY <1>1, <1>6
    <2>5. \A s \in Threads : Fetching(s)' => req'[s].url \in pages'
        BY <1>2, <1>4, <2>4 DEF PageInv
    <2>6. \A s \in Threads : req'[s].pc \notin {"scan pages", "mark"}
        BY <1>1, <1>2, <1>3, <1>6
    <2>7. QED
        BY <2>3, <2>5, <2>6 DEF PageInv
<1>7. QED
    BY <1>5, <1>6

\* The process ends: nobody fetches anything any more.
LEMMA RestartKeeps ==
    ASSUME TypeOK, PageInv, NEW S, Restart(S)
    PROVE  PageInv'
<1>1. ASSUME NEW s \in Threads
      PROVE  req'[s].pc \in {"idle", "done", "killed"}
    <2>1. CASE s \notin S /\ req[s].pc \in {"idle", "done"}
        BY <2>1 DEF Restart
    <2>2. CASE ~(s \notin S /\ req[s].pc \in {"idle", "done"})
        <3>1. req'[s] = [Idle EXCEPT !.pc = "killed"]
            BY <2>2 DEF Restart
        <3>2. QED
            BY <3>1, KilledType
    <2>3. QED
        BY <2>1, <2>2
<1>2. QED
    BY <1>1 DEF PageInv, OneFetch, Fetching

\* The other steps of a thread.
LEMMA OtherStepsKeep ==
    ASSUME TypeOK, PageInv, NEW t \in Threads,
           \/ \E u \in Urls : Accept(t, u)
           \/ Parse(t) \/ Ignore(t)
           \/ LockNames(t) \/ OpenNames(t) \/ ScanNames(t) \/ Resolve(t)
           \/ LockBlacklist(t) \/ CheckBlacklist(t)
           \/ OpenCached(t) \/ SendCached(t)
           \/ FetchFails(t) \/ Connect(t) \/ Receive(t) \/ OriginCloses(t)
    PROVE  PageInv'
<1>1. lock'["pg"] = lock["pg"] /\ pages' = pages
    BY DEF Accept, Parse, Ignore, LockNames, OpenNames, ScanNames, Resolve,
           LockBlacklist, CheckBlacklist, OpenCached, SendCached, FetchFails, Connect, Receive, OriginCloses, Acquire,
           Release, TypeOK, Locks, files
<1>2. \A s \in Threads \ {t} : req'[s] = req[s]
    BY DEF Accept, Parse, Ignore, LockNames, OpenNames, ScanNames, Resolve,
           LockBlacklist, CheckBlacklist, OpenCached, SendCached, FetchFails, Connect, Receive, OriginCloses, Acquire,
           Goto, TypeOK
<1>3. ASSUME req'[t].pc \notin {"scan pages", "mark", "connect", "fetch"}
      PROVE  PageInv'
    BY <1>1, <1>2, <1>3, ElsewhereKeeps
<1>4. req[t] \in Request
    BY RequestFacts
<1>5. ASSUME NEW pc, NEW r \in Request, Goto(t, pc, r),
             r.pc \notin {"scan pages", "mark", "connect", "fetch"}
      PROVE  PageInv'
    BY <1>3, <1>5, GotoFacts
<1>6. ASSUME NEW pc, NEW to \in Pcs \ {"scan pages", "mark", "connect", "fetch"},
             Goto(t, pc, [req[t] EXCEPT !.pc = to])
      PROVE  PageInv'
    BY <1>4, <1>5, <1>6 DEF Request
<1>7. CASE \E u \in Urls : Accept(t, u)
    <2>1. PICK u \in Urls : Goto(t, "idle", [Idle EXCEPT !.pc = "parse", !.url = u])
        BY <1>7 DEF Accept
    <2>2. QED
        BY <1>5, <2>1, ArrivedType
<1>8. CASE Ignore(t)
    BY <1>6, <1>8 DEF Ignore, Pcs
<1>9. CASE LockNames(t)
    BY <1>6, <1>9 DEF LockNames, Acquire, Pcs
<1>10. ASSUME NEW a \in Addresses, NEW pc,
              Goto(t, pc, [req[t] EXCEPT !.pc = "lock black", !.addr = a])
       PROVE  PageInv'
    <2>1. /\ [req[t] EXCEPT !.pc = "lock black", !.addr = a] \in Request
          /\ [req[t] EXCEPT !.pc = "lock black", !.addr = a].pc = "lock black"
        BY <1>4 DEF Request, Pcs
    <2>2. QED
        BY <1>5, <1>10, <2>1
<1>11. CASE ScanNames(t)
    BY <1>6, <1>10, <1>11, FoundType DEF ScanNames, Pcs
<1>12. ASSUME NEW reply \in {Error500, NotFound, Forbidden}, NEW pc,
              Goto(t, pc, Answered(t, reply))
       PROVE  PageInv'
    <2>1. Answered(t, reply).pc = "done"
        BY <1>4 DEF Answered, Request
    <2>2. QED
        BY <1>5, <1>12, <2>1, AnsweredType
<1>13. CASE Resolve(t)
    <2>1. Answers[Host(t)] \subseteq Addresses
        BY <1>4, RequestsAssumption DEF Host, Request
    <2>2. QED
        BY <1>10, <1>12, <1>13, <2>1 DEF Resolve
<1>14. CASE LockBlacklist(t)
    BY <1>6, <1>14 DEF LockBlacklist, Acquire, Pcs
<1>15. CASE CheckBlacklist(t)
    BY <1>6, <1>12, <1>15 DEF CheckBlacklist, Pcs
<1>16. CASE OpenCached(t)
    BY <1>6, <1>12, <1>16 DEF OpenCached, Pcs
<1>17. CASE SendCached(t)
    <2>1. PICK r : /\ Goto(t, "send", r)
                   /\ \/ \E e : r = [req[t] EXCEPT !.out = e]
                      \/ r = [req[t] EXCEPT !.pc = "done"]
        BY <1>17 DEF SendCached
    <2>2. req[t].pc = "send" /\ req'[t] = r
        BY <2>1, GotoFacts
    <2>3. req'[t].pc \in {"send", "done"}
        BY <1>4, <2>1, <2>2 DEF Request
    <2>4. QED
        BY <1>3, <2>3
<1>18. CASE FetchFails(t)
    BY <1>12, <1>18 DEF FetchFails
<1>19. ASSUME NEW r, Goto(t, "connect", r) \/ Goto(t, "fetch", r),
              r.pc \in {"connect", "fetch", "done"}, r.url = req[t].url
       PROVE  PageInv'
    <2>1. Fetching(t) /\ req'[t] = r
        BY <1>19, GotoFacts DEF Fetching
    <2>2. req'[t].pc \in {"connect", "fetch", "done"} /\ req'[t].url = req[t].url
        BY <1>19, <2>1
    <2>3. QED
        BY <1>1, <1>2, <2>1, <2>2, ElsewhereKeeps
<1>20. CASE Connect(t)
    <2>1. /\ [req[t] EXCEPT !.pc = "fetch"].pc = "fetch"
          /\ [req[t] EXCEPT !.pc = "fetch"].url = req[t].url
        BY <1>4 DEF Request
    <2>2. QED
        BY <1>19, <1>20, <2>1 DEF Connect
<1>21. CASE Receive(t)
    <2>1. PICK e, q : Goto(t, "fetch", [req[t] EXCEPT !.out = e, !.buf = q])
        BY <1>21 DEF Receive
    <2>2. /\ [req[t] EXCEPT !.out = e, !.buf = q].pc = req[t].pc
          /\ [req[t] EXCEPT !.out = e, !.buf = q].url = req[t].url
        BY <1>4 DEF Request
    <2>3. req[t].pc = "fetch"
        BY <2>1, GotoFacts
    <2>4. QED
        BY <1>19, <2>1, <2>2, <2>3
<1>22. CASE OriginCloses(t)
    <2>1. /\ [req[t] EXCEPT !.pc = "done", !.buf = <<>>].pc = "done"
          /\ [req[t] EXCEPT !.pc = "done", !.buf = <<>>].url = req[t].url
        BY <1>4 DEF Request
    <2>2. QED
        BY <1>19, <1>22, <2>1 DEF OriginCloses
<1>23. CASE Parse(t)
    <2>1. PICK u \in Urls : Goto(t, "parse", [req[t] EXCEPT !.pc = "lock ip", !.url = u])
        BY <1>23 DEF Parse
    <2>2. /\ [req[t] EXCEPT !.pc = "lock ip", !.url = u] \in Request
          /\ [req[t] EXCEPT !.pc = "lock ip", !.url = u].pc = "lock ip"
        BY <1>4 DEF Request, Pcs
    <2>3. QED
        BY <1>5, <2>1, <2>2
<1>24. CASE OpenNames(t)
    BY <1>6, <1>24 DEF OpenNames, Pcs
<1>25. QED
    BY <1>7, <1>8, <1>9, <1>11, <1>13, <1>14, <1>15, <1>16, <1>17, <1>18, <1>20, <1>21, <1>22,
       <1>23, <1>24

\* Every step keeps the discipline of the list of pages.
LEMMA NextKeepsPageInv ==
    ASSUME TypeOK, PageInv, [Next]_vars
    PROVE  PageInv'
<1>1. ASSUME NEW S, Restart(S)
      PROVE  PageInv'
    BY <1>1, RestartKeeps
<1>2. CASE UNCHANGED vars
    BY <1>2 DEF PageInv, OneFetch, Fetching, vars, files
<1>3. ASSUME NEW t \in Threads, ThreadStep(t)
      PROVE  PageInv'
    BY <1>1, <1>3, LockPagesKeeps, ScanPagesKeeps, MarkPageKeeps, OtherStepsKeep
    DEF ThreadStep, NoFile, NoToken
<1>4. QED
    BY <1>1, <1>2, <1>3, OtherStepsKeep DEF Next, NoRequest, Kill

\* However the requests for a page overlap, and whenever the process is killed,
\* no two threads fetch the same page.
THEOREM FetchedOnce == Spec => []OneFetch
<1>1. Init => PageInv
    <2>1. ASSUME Init, NEW t \in Threads
          PROVE  req[t].pc = "idle"
        BY <2>1 DEF Init, Idle
    <2>2. QED
        BY <2>1 DEF PageInv, OneFetch, Fetching
<1>2. TypeOK /\ PageInv /\ [Next]_vars => PageInv'
    BY NextKeepsPageInv
<1>3. PageInv => OneFetch
    BY DEF PageInv
<1>4. QED
    BY <1>1, <1>2, <1>3, TypeCorrect, PTL DEF Spec

-----------------------------------------------------------------------------
(* What the steps do to the record of a request.                           *)

\* The other threads' records.
Others(t) == \A s \in Threads \ {t} : req'[s] = req[s]

\* Thread t moves to pc, and keeps its locals.
Moves(t, pc) ==
    /\ req'[t].pc = pc /\ req'[t].url = req[t].url /\ req'[t].addr = req[t].addr
    /\ req'[t].found = req[t].found /\ req'[t].out = req[t].out
    /\ req'[t].buf = req[t].buf

\* Thread t ends with this reply.
Replied(t, reply) ==
    /\ req'[t].pc = "done" /\ req'[t].url = req[t].url /\ req'[t].addr = req[t].addr
    /\ req'[t].found = req[t].found /\ req'[t].out = reply
    /\ req'[t].buf = req[t].buf

\* Thread t has the address of its host.
Addressed(t, a) ==
    /\ req'[t].pc = "lock black" /\ req'[t].url = req[t].url /\ req'[t].addr = a
    /\ req'[t].found = req[t].found /\ req'[t].out = req[t].out
    /\ req'[t].buf = req[t].buf

\* What a new place in the program, a reply and an address do to the record.
LEMMA MoveFacts ==
    ASSUME TypeOK, NEW t \in Threads, NEW from, NEW to,
           Goto(t, from, [req[t] EXCEPT !.pc = to])
    PROVE  Others(t) /\ Moves(t, to) /\ req[t].pc = from
<1>1. Others(t) /\ req[t].pc = from /\ req'[t] = [req[t] EXCEPT !.pc = to]
    BY GotoFacts DEF Others
<1>2. QED
    BY <1>1, RequestFacts DEF Moves, Request

LEMMA ReplyFacts ==
    ASSUME TypeOK, NEW t \in Threads, NEW from, NEW reply,
           Goto(t, from, Answered(t, reply))
    PROVE  Others(t) /\ Replied(t, reply) /\ req[t].pc = from
<1>1. Others(t) /\ req[t].pc = from /\ req'[t] = Answered(t, reply)
    BY GotoFacts DEF Others
<1>2. QED
    BY <1>1, RequestFacts DEF Replied, Answered, Request

\* A thread that was torn remains so.
LEMMA CutsFacts ==
    ASSUME NEW t \in Threads, Cuts(t)
    PROVE  torn \subseteq torn'
    BY DEF Cuts

\* A request arrives, ...
LEMMA AcceptFacts ==
    ASSUME TypeOK, NEW t \in Threads, NEW u \in Urls, Accept(t, u)
    PROVE  /\ Others(t) /\ req[t].pc = "idle" /\ torn \subseteq torn'
           /\ req'[t].pc = "parse" /\ req'[t].url = u /\ req'[t].addr = NoAddress
           /\ req'[t].found = FALSE /\ req'[t].out = <<>> /\ req'[t].buf = <<>>
<1>1. /\ Others(t) /\ req[t].pc = "idle" /\ torn \subseteq torn'
      /\ req'[t] = [Idle EXCEPT !.pc = "parse", !.url = u]
    BY GotoFacts, CutsFacts DEF Accept, Others
<1>2. QED
    BY <1>1 DEF Idle

\* ... is parsed, ...
LEMMA ParseFacts ==
    ASSUME TypeOK, NEW t \in Threads, Parse(t)
    PROVE  /\ Others(t) /\ UNCHANGED <<lock, names, pages, saved, store, fds, torn, whole>>
           /\ req[t].pc = "parse" /\ req'[t].pc = "lock ip" /\ req'[t].url \in Urls
           /\ t \in torn \/ req'[t].url = req[t].url
           /\ req'[t].addr = req[t].addr /\ req'[t].found = req[t].found
           /\ req'[t].out = req[t].out /\ req'[t].buf = req[t].buf
<1>1. PICK u \in Urls : /\ t \in torn \/ u = req[t].url
                        /\ Goto(t, "parse", [req[t] EXCEPT !.pc = "lock ip", !.url = u])
    BY DEF Parse
<1>2. /\ Others(t) /\ req[t].pc = "parse"
      /\ req'[t] = [req[t] EXCEPT !.pc = "lock ip", !.url = u]
    BY <1>1, GotoFacts DEF Others
<1>3. /\ req'[t].pc = "lock ip" /\ req'[t].url = u
      /\ req'[t].addr = req[t].addr /\ req'[t].found = req[t].found
      /\ req'[t].out = req[t].out /\ req'[t].buf = req[t].buf
    BY <1>2, RequestFacts DEF Request
<1>4. UNCHANGED <<lock, names, pages, saved, store, fds, torn, whole>>
    BY DEF Parse, files
<1>5. QED
    BY <1>1, <1>2, <1>3, <1>4

\* ... and may be none.
LEMMA IgnoreFacts ==
    ASSUME TypeOK, NEW t \in Threads, Ignore(t)
    PROVE  /\ Others(t) /\ UNCHANGED <<lock, names, pages, saved, store, torn>>
           /\ req[t].pc = "parse" /\ Moves(t, "done") /\ Give(1)
           /\ whole' = [whole EXCEPT ![t] = FALSE]
    BY MoveFacts DEF Ignore, files

\* An address is found.
LEMMA AddressFacts ==
    ASSUME TypeOK, NEW t \in Threads, NEW from, NEW a,
           Goto(t, from, [req[t] EXCEPT !.pc = "lock black", !.addr = a])
    PROVE  Others(t) /\ Addressed(t, a) /\ req[t].pc = from
<1>1. /\ Others(t) /\ req[t].pc = from
      /\ req'[t] = [req[t] EXCEPT !.pc = "lock black", !.addr = a]
    BY GotoFacts DEF Others
<1>2. QED
    BY <1>1, RequestFacts DEF Addressed, Request

\* The page is looked up.
LEMMA FoundFacts ==
    ASSUME TypeOK, NEW t \in Threads, ScanPages(t)
    PROVE  /\ Others(t) /\ req[t].pc = "scan pages"
           /\ req'[t].pc = "mark" /\ req'[t].url = req[t].url /\ req'[t].addr = req[t].addr
           /\ req'[t].found = (req[t].url \in pages) /\ req'[t].out = req[t].out
           /\ req'[t].buf = req[t].buf
<1>1. PICK r : /\ r = [req[t] EXCEPT !.pc = "mark", !.found = req[t].url \in pages]
               /\ Goto(t, "scan pages", r)
    BY Zenon DEF ScanPages
<1>2. Goto(t, "scan pages", r)
    BY <1>1, Zenon
<1>3. Others(t) /\ req[t].pc = "scan pages" /\ req'[t] = r
    BY <1>2, GotoFacts DEF Others
<1>4. r.pc = "mark" /\ r.url = req[t].url /\ r.addr = req[t].addr
      /\ r.found = (req[t].url \in pages) /\ r.out = req[t].out /\ r.buf = req[t].buf
    BY <1>1, RequestFacts DEF Request
<1>5. QED
    BY <1>3, <1>4, Zenon

\* A chunk of the cached page is sent.
LEMMA SentFacts ==
    ASSUME TypeOK, NEW t \in Threads, SendCached(t)
    PROVE  /\ Others(t) /\ req[t].pc = "send"
           /\ \/ /\ Unsent(t) /\ fds' = fds
                 /\ req'[t].pc = "send" /\ req'[t].url = req[t].url
                 /\ req'[t].addr = req[t].addr /\ req'[t].found = req[t].found
                 /\ req'[t].out = Append(req[t].out, store[req[t].url][Len(req[t].out) + 1])
                 /\ req'[t].buf = req[t].buf
              \/ ~Unsent(t) /\ Give(2) /\ Moves(t, "done")
<1>1. CASE Unsent(t) /\ fds' = fds
            /\ Goto(t, "send", [req[t] EXCEPT !.out =
                                    Append(@, store[req[t].url][Len(@) + 1])])
    <2>1. /\ Others(t) /\ req[t].pc = "send"
          /\ req'[t] = [req[t] EXCEPT !.out = Append(@, store[req[t].url][Len(@) + 1])]
        BY <1>1, GotoFacts DEF Others
    <2>2. QED
        BY <1>1, <2>1, RequestFacts DEF Request
<1>2. CASE ~Unsent(t) /\ Goto(t, "send", [req[t] EXCEPT !.pc = "done"]) /\ Give(2)
    BY <1>2, MoveFacts
<1>3. QED
    BY <1>1, <1>2 DEF SendCached

\* The buffer with the next chunk of the page.
Buffer(t) == Append(req[t].buf, Page[req[t].url][Len(req[t].out) + 1])

\* What goes to the file when i chunks of the buffer are written, and what does
\* not.
Written(q, i) == SubSeq(q, 1, i)
Kept(q, i) == SubSeq(q, i + 1, Len(q))

\* A chunk of the response is received, and some of the buffer written.
LEMMA ReceivedFacts ==
    ASSUME TypeOK, NEW t \in Threads, Receive(t)
    PROVE  /\ Others(t) /\ req[t].pc = "fetch"
           /\ Len(req[t].out) < Len(Page[req[t].url])
           /\ req'[t].pc = "fetch" /\ req'[t].url = req[t].url
           /\ req'[t].addr = req[t].addr /\ req'[t].found = req[t].found
           /\ req'[t].out = Append(req[t].out, Page[req[t].url][Len(req[t].out) + 1])
           /\ \E i \in 0..Len(Buffer(t)) :
                /\ req'[t].buf = Kept(Buffer(t), i)
                /\ store' = [store EXCEPT ![req[t].url] =
                                store[req[t].url] \o Written(Buffer(t), i)]
<1> DEFINE u == req[t].url
           n == Len(req[t].out)
           q == Append(req[t].buf, Page[u][n + 1])
           o == Append(req[t].out, Page[u][n + 1])
<1>1. /\ n < Len(Page[u])
      /\ \E i \in 0..Len(q) :
            /\ Goto(t, "fetch", [req[t] EXCEPT !.out = o, !.buf = SubSeq(q, i + 1, Len(q))])
            /\ store' = [store EXCEPT ![u] = @ \o SubSeq(q, 1, i)]
    BY DEF Receive
<1>2. q = Buffer(t)
    BY DEF Buffer
<1> HIDE DEF q, o
<1>3. PICK i \in 0..Len(q) :
        /\ Goto(t, "fetch", [req[t] EXCEPT !.out = o, !.buf = SubSeq(q, i + 1, Len(q))])
        /\ store' = [store EXCEPT ![u] = @ \o SubSeq(q, 1, i)]
    BY <1>1
<1>4. /\ Others(t) /\ req[t].pc = "fetch"
      /\ req'[t] = [req[t] EXCEPT !.out = o, !.buf = SubSeq(q, i + 1, Len(q))]
    BY <1>3, GotoFacts DEF Others
<1>5. /\ req'[t].pc = "fetch" /\ req'[t].url = u /\ req'[t].addr = req[t].addr
      /\ req'[t].found = req[t].found /\ req'[t].out = o
      /\ req'[t].buf = SubSeq(q, i + 1, Len(q))
    BY <1>4, RequestFacts DEF Request
<1>6. req'[t].buf = Kept(q, i) /\ store' = [store EXCEPT ![u] = store[u] \o Written(q, i)]
    BY <1>3, <1>5 DEF Kept, Written
<1>7. \E j \in 0..Len(Buffer(t)) :
        /\ req'[t].buf = Kept(Buffer(t), j)
        /\ store' = [store EXCEPT ![u] = store[u] \o Written(Buffer(t), j)]
    BY <1>2, <1>6
<1>8. QED
    BY <1>1, <1>4, <1>5, <1>7 DEF o

\* The response is over.
LEMMA ClosedFacts ==
    ASSUME TypeOK, NEW t \in Threads, OriginCloses(t)
    PROVE  /\ Others(t) /\ req[t].pc = "fetch"
           /\ req'[t].pc = "done" /\ req'[t].url = req[t].url /\ req'[t].addr = req[t].addr
           /\ req'[t].found = req[t].found /\ req'[t].out = req[t].out
           /\ req'[t].buf = <<>>
<1>1. /\ Others(t) /\ req[t].pc = "fetch"
      /\ req'[t] = [req[t] EXCEPT !.pc = "done", !.buf = <<>>]
    BY GotoFacts DEF OriginCloses, Others
<1>2. QED
    BY <1>1, RequestFacts DEF Request

\* The process ends.
LEMMA RestartFacts ==
    ASSUME TypeOK, NEW S, Restart(S)
    PROVE  \A t \in Threads :
            \/ t \notin S /\ req[t].pc \in {"idle", "done"} /\ req'[t] = req[t]
            \/ /\ t \in S \/ req[t].pc \notin {"idle", "done"}
               /\ req'[t].pc = "killed" /\ req'[t].addr = NoAddress
               /\ req'[t].found = FALSE /\ req'[t].out = <<>> /\ req'[t].buf = <<>>
<1>1. ASSUME NEW t \in Threads, ~(t \notin S /\ req[t].pc \in {"idle", "done"})
      PROVE  /\ req'[t].pc = "killed" /\ req'[t].addr = NoAddress
             /\ req'[t].found = FALSE /\ req'[t].out = <<>> /\ req'[t].buf = <<>>
    <2>1. req'[t] = [Idle EXCEPT !.pc = "killed"]
        BY <1>1 DEF Restart
    <2>2. QED
        BY <2>1 DEF Idle
<1>2. QED
    BY <1>1 DEF Restart

\* A mutex is taken.
LEMMA LockFacts ==
    ASSUME TypeOK, NEW t \in Threads, LockNames(t) \/ LockBlacklist(t) \/ LockPages(t)
    PROVE  /\ Others(t) /\ UNCHANGED <<names, pages, saved, store, fds, torn, whole>>
           /\ \/ req[t].pc = "lock ip" /\ Moves(t, "open names")
              \/ req[t].pc = "lock black" /\ Moves(t, "check")
              \/ req[t].pc = "lock pg" /\ Moves(t, "scan pages")
    BY MoveFacts DEF LockNames, LockBlacklist, LockPages, Acquire, files

\* The file of names is opened ...
LEMMA OpenNamesFacts ==
    ASSUME TypeOK, NEW t \in Threads, OpenNames(t)
    PROVE  /\ Others(t) /\ UNCHANGED <<lock, names, pages, saved, store, whole>>
           /\ req[t].pc = "open names" /\ Moves(t, "scan names") /\ Take(1)
           /\ torn \subseteq torn'
    BY MoveFacts, CutsFacts DEF OpenNames, files

\* ... and searched.
LEMMA ScanNamesFacts ==
    ASSUME TypeOK, NEW t \in Threads, ScanNames(t)
    PROVE  /\ Others(t) /\ UNCHANGED <<names, pages, saved, store, torn, whole>>
           /\ req[t].pc = "scan names"
           /\ \/ /\ t \in torn \/ Matching(Host(t)) = {}
                 /\ Moves(t, "resolve") /\ fds' = fds /\ lock' = lock
              \/ \E a \in Found(t) : Addressed(t, a) /\ Give(1) /\ Release("ip")
<1>1. UNCHANGED <<names, pages, saved, store, torn, whole>>
    BY DEF ScanNames, files
<1>2. CASE /\ t \in torn \/ Matching(Host(t)) = {}
           /\ Goto(t, "scan names", [req[t] EXCEPT !.pc = "resolve"])
           /\ UNCHANGED <<lock, fds>>
    BY <1>1, <1>2, MoveFacts
<1>3. CASE \E a \in Found(t) :
              /\ Goto(t, "scan names", [req[t] EXCEPT !.pc = "lock black", !.addr = a])
              /\ Release("ip")
              /\ Give(1)
    <2>1. PICK a \in Found(t) :
              /\ Goto(t, "scan names", [req[t] EXCEPT !.pc = "lock black", !.addr = a])
              /\ Release("ip")
              /\ Give(1)
        BY <1>3
    <2>2. Others(t) /\ req[t].pc = "scan names" /\ Addressed(t, a)
        BY <2>1, AddressFacts
    <2>3. QED
        BY <1>1, <2>1, <2>2
<1>4. QED
    BY <1>2, <1>3 DEF ScanNames

\* The resolver is asked.
LEMMA ResolveFacts ==
    ASSUME TypeOK, NEW t \in Threads, Resolve(t)
    PROVE  /\ Others(t) /\ UNCHANGED <<pages, saved, store, torn, whole>>
           /\ req[t].pc = "resolve"
           /\ \/ Replied(t, NotFound) /\ Give(2) /\ names' = names
              \/ \E a \in Answers[Host(t)] :
                    /\ Addressed(t, a) /\ Give(1)
                    /\ names' = Append(names, <<Host(t), a>>)
<1>1. CASE /\ Goto(t, "resolve", Answered(t, NotFound))
           /\ Give(2)
           /\ UNCHANGED <<files, torn, whole>>
    BY <1>1, ReplyFacts DEF files
<1>2. ASSUME NEW a \in Answers[Host(t)],
             Goto(t, "resolve", [req[t] EXCEPT !.pc = "lock black", !.addr = a])
      PROVE  Others(t) /\ req[t].pc = "resolve" /\ Addressed(t, a)
    BY <1>2, AddressFacts
<1>3. QED
    BY <1>1, <1>2 DEF Resolve

\* The blacklist is searched.
LEMMA CheckFacts ==
    ASSUME TypeOK, NEW t \in Threads, CheckBlacklist(t)
    PROVE  /\ Others(t) /\ UNCHANGED <<names, pages, saved, store, torn>>
           /\ req[t].pc = "check"
           /\ \/ Replied(t, Forbidden) /\ Give(1) /\ whole' = [whole EXCEPT ![t] = FALSE]
              \/ /\ Replied(t, Forbidden) /\ UNCHANGED <<fds, whole>>
                 /\ {Host(t), req[t].addr} \cap Blacklist # {}
              \/ /\ Moves(t, "lock pg") /\ UNCHANGED <<fds, whole>>
                 /\ {Host(t), req[t].addr} \cap Blacklist = {}
<1>1. UNCHANGED <<names, pages, saved, store, torn>>
    BY DEF CheckBlacklist, files
<1>2. QED
    BY <1>1, MoveFacts, ReplyFacts DEF CheckBlacklist

\* The list of pages is extended.
LEMMA MarkFacts ==
    ASSUME TypeOK, NEW t \in Threads, MarkPage(t)
    PROVE  /\ Others(t) /\ UNCHANGED <<names, saved, store, torn, whole>>
           /\ req[t].pc = "mark" /\ Give(1)
           /\ \/ req[t].found /\ Moves(t, "open") /\ pages' = pages
              \/ /\ ~req[t].found /\ Moves(t, "connect")
                 /\ pages' = pages \cup {req[t].url}
<1>1. /\ Others(t) /\ Moves(t, IF req[t].found THEN "open" ELSE "connect")
      /\ req[t].pc = "mark"
    BY MoveFacts DEF MarkPage
<1>2. QED
    BY <1>1 DEF MarkPage

\* The page file is opened.
LEMMA OpenFacts ==
    ASSUME TypeOK, NEW t \in Threads, OpenCached(t)
    PROVE  /\ Others(t) /\ UNCHANGED <<names, pages, saved, store, torn>>
           /\ req[t].pc = "open"
           /\ \/ /\ Full \/ req[t].url \notin saved
                 /\ Replied(t, Error500) /\ Give(1)
                 /\ whole' = [whole EXCEPT ![t] = FALSE]
              \/ Moves(t, "send") /\ Take(1) /\ UNCHANGED whole
<1>1. UNCHANGED <<names, pages, saved, store, torn>>
    BY DEF OpenCached, files
<1>2. QED
    BY <1>1, MoveFacts, ReplyFacts DEF OpenCached

\* The origin is asked.
LEMMA FailsFacts ==
    ASSUME TypeOK, NEW t \in Threads, FetchFails(t)
    PROVE  /\ Others(t) /\ UNCHANGED <<names, pages, saved, store, torn, whole>>
           /\ req[t].pc = "connect" /\ Replied(t, Error500)
           /\ Give(1) \/ UNCHANGED fds
    BY ReplyFacts DEF FetchFails, files

LEMMA ConnectFacts ==
    ASSUME TypeOK, NEW t \in Threads, Connect(t)
    PROVE  /\ Others(t) /\ UNCHANGED <<names, pages, store, torn, whole>>
           /\ req[t].pc = "connect" /\ Moves(t, "fetch")
           /\ saved' = saved \cup {req[t].url} /\ Take(2)
    BY MoveFacts DEF Connect
-----------------------------------------------------------------------------
(* A host keeps its address.                                               *)

\* The first line of hostname_ip.txt that matches n has this address.
FirstLine(n, adr) ==
    \E i \in Matching(n) : names[i][2] = adr /\ \A j \in Matching(n) : i <= j

\* The file is searched and extended under ip_lock; while a thread that is not
\* torn asks the resolver, no line matches its host; and what it took for the
\* address of its host is what every other such thread finds.
NamesInv ==
    /\ \A t \in Threads :
        req[t].pc \in {"open names", "scan names", "resolve"} => lock["ip"] = t
    /\ \A t \in Threads \ torn : req[t].pc = "resolve" => Matching(Host(t)) = {}
    /\ \A t \in Threads \ torn :
        req[t].addr # NoAddress => FirstLine(Host(t), req[t].addr)

\* What a thread that is not torn finds is the first line.
LEMMA FoundFirst ==
    ASSUME NEW t \in Threads \ torn, NEW a \in Found(t)
    PROVE  FirstLine(Host(t), a)
    BY DEF Found, FirstLine

\* There is one first line.
LEMMA FirstLineUnique ==
    ASSUME TypeOK, NEW n, NEW a, NEW b, FirstLine(n, a), FirstLine(n, b)
    PROVE  a = b
<1>1. PICK i \in Matching(n) : names[i][2] = a /\ \A j \in Matching(n) : i <= j
    BY DEF FirstLine
<1>2. PICK k \in Matching(n) : names[k][2] = b /\ \A j \in Matching(n) : k <= j
    BY DEF FirstLine
<1>3. i \in Int /\ k \in Int /\ i <= k /\ k <= i
    BY <1>1, <1>2, LenProperties DEF Matching, TypeOK
<1>4. QED
    BY <1>1, <1>2, <1>3

\* A line at the end of the file changes nothing for a name that had one, and
\* is the line of a host that had none.
LEMMA AppendedLine ==
    ASSUME TypeOK, NEW h \in Hosts, NEW a \in Addresses,
           names' = Append(names, <<h, a>>)
    PROVE  /\ \A n, b : FirstLine(n, b) => FirstLine(n, b)'
           /\ Matching(h) = {} => FirstLine(h, a)'
<1> DEFINE m == Len(names)
<1>1. /\ names \in Seq(Hosts \X Addresses) /\ <<h, a>> \in Hosts \X Addresses
      /\ m \in Nat /\ DOMAIN names = 1..m
    BY LenProperties DEF TypeOK
<1>2. /\ DOMAIN names' = 1..(m + 1)
      /\ \A i \in 1..m : names'[i] = names[i]
      /\ names'[m + 1] = <<h, a>>
    BY <1>1, AppendProperties
<1>3. ASSUME NEW n
      PROVE  Matching(n)' = Matching(n) \cup (IF n \in {h, a} THEN {m + 1} ELSE {})
    BY <1>1, <1>2 DEF Matching
<1>4. ASSUME NEW n, NEW b, FirstLine(n, b)
      PROVE  FirstLine(n, b)'
    <2>1. PICK i \in Matching(n) : names[i][2] = b /\ \A j \in Matching(n) : i <= j
        BY <1>4 DEF FirstLine
    <2>2. i \in 1..m
        BY <1>1, <2>1 DEF Matching
    <2>3. i \in Matching(n)' /\ names'[i][2] = b
        BY <1>2, <1>3, <2>1, <2>2
    <2>4. ASSUME NEW j \in Matching(n)'
          PROVE  i <= j
        <3>1. j \in Matching(n) \/ j = m + 1
            BY <1>3
        <3>2. Matching(n) \subseteq 1..m
            BY <1>1 DEF Matching
        <3>3. QED
            BY <1>1, <2>1, <2>2, <3>1, <3>2
    <2>5. QED
        BY <2>3, <2>4 DEF FirstLine
<1>5. ASSUME Matching(h) = {}
      PROVE  FirstLine(h, a)'
    <2>1. Matching(h)' = {m + 1}
        BY <1>3, <1>5
    <2>2. names'[m + 1][2] = a /\ m + 1 <= m + 1
        BY <1>1, <1>2
    <2>3. QED
        BY <2>1, <2>2 DEF FirstLine
<1>6. QED
    BY <1>4, <1>5

\* A step of thread t that leaves the file and its mutex alone.
LEMMA AwayFromNames ==
    ASSUME NamesInv, NEW t \in Threads, Others(t), torn \subseteq torn',
           lock'["ip"] = lock["ip"], names' = names,
           req'[t].pc \notin {"open names", "scan names", "resolve"},
           \/ t \in torn \/ req'[t].addr = NoAddress
           \/ req'[t].addr = req[t].addr /\ req'[t].url = req[t].url
    PROVE  NamesInv'
<1>1. \A n, a : FirstLine(n, a)' <=> FirstLine(n, a)
    BY DEF FirstLine, Matching
<1>2. \A n : Matching(n)' = Matching(n)
    BY DEF Matching
<1>3. ASSUME NEW s \in Threads, s # t
      PROVE  /\ req'[s].pc \in {"open names", "scan names", "resolve"} => lock'["ip"] = s
             /\ s \notin torn' /\ req'[s].pc = "resolve" => Matching(Host(s))' = {}
             /\ s \notin torn' /\ req'[s].addr # NoAddress
                    => FirstLine(Host(s), req[s].addr)'
    <2>1. req'[s] = req[s] /\ Host(s)' = Host(s)
        BY <1>3 DEF Others, Host
    <2>2. QED
        BY <1>1, <1>2, <2>1 DEF NamesInv
<1>4. t \notin torn' /\ req'[t].addr # NoAddress => FirstLine(Host(t), req[t].addr)'
    BY <1>1 DEF NamesInv, Host
<1>5. QED
    BY <1>3, <1>4 DEF NamesInv

\* What every step does that leaves the file alone.
LEMMA SameNames ==
    ASSUME NamesInv, names' = names, torn \subseteq torn',
           NEW s \in Threads, s \notin torn', req'[s].addr = req[s].addr,
           req'[s].url = req[s].url
    PROVE  /\ req'[s].addr # NoAddress => FirstLine(Host(s), req[s].addr)'
           /\ Matching(Host(s))' = Matching(Host(s))
<1>1. Host(s)' = Host(s) /\ s \notin torn
    BY DEF Host
<1>2. QED
    BY <1>1 DEF NamesInv, FirstLine, Matching

\* ip_lock is taken, ...
LEMMA LockNamesKeeps ==
    ASSUME TypeOK, NamesInv, NEW t \in Threads, LockNames(t)
    PROVE  NamesInv'
<1>1. /\ Others(t) /\ Moves(t, "open names") /\ names' = names /\ torn' = torn
      /\ lock["ip"] = Free /\ lock'["ip"] = t
    BY MoveFacts DEF LockNames, Acquire, files, TypeOK, Locks
<1>2. \A s \in Threads \ {t} : req'[s].pc \notin {"open names", "scan names", "resolve"}
    BY <1>1, ConstantsAssumption DEF NamesInv, Others
<1>3. req'[t].pc = "open names"
    BY <1>1 DEF Moves
<1>4. ASSUME NEW s \in Threads, s \notin torn', req'[s].addr # NoAddress
      PROVE  FirstLine(Host(s), req[s].addr)'
    <2>1. req'[s].addr = req[s].addr /\ req'[s].url = req[s].url
        BY <1>1 DEF Others, Moves
    <2>2. QED
        BY <1>1, <1>4, <2>1, SameNames
<1>5. QED
    BY <1>1, <1>2, <1>3, <1>4 DEF NamesInv

\* ... the file is opened ...
LEMMA OpenNamesKeeps ==
    ASSUME TypeOK, NamesInv, NEW t \in Threads, OpenNames(t)
    PROVE  NamesInv'
<1>1. /\ Others(t) /\ Moves(t, "scan names") /\ names' = names /\ lock' = lock
      /\ req[t].pc = "open names" /\ torn \subseteq torn'
    BY OpenNamesFacts
<1>2. lock["ip"] = t
    BY <1>1 DEF NamesInv
<1>3. \A s \in Threads \ {t} : req'[s].pc \notin {"open names", "scan names", "resolve"}
    BY <1>1, <1>2 DEF NamesInv, Others
<1>4. req'[t].pc = "scan names"
    BY <1>1 DEF Moves
<1>5. ASSUME NEW s \in Threads, s \notin torn', req'[s].addr # NoAddress
      PROVE  FirstLine(Host(s), req[s].addr)'
    <2>1. req'[s].addr = req[s].addr /\ req'[s].url = req[s].url
        BY <1>1 DEF Others, Moves
    <2>2. QED
        BY <1>1, <1>5, <2>1, SameNames
<1>6. QED
    BY <1>1, <1>2, <1>3, <1>4, <1>5 DEF NamesInv

\* ... and searched, ...
LEMMA ScanNamesKeeps ==
    ASSUME TypeOK, NamesInv, NEW t \in Threads, ScanNames(t)
    PROVE  NamesInv'
<1>1. /\ Others(t) /\ names' = names /\ torn' = torn /\ req[t].pc = "scan names"
    BY ScanNamesFacts
<1>2. lock["ip"] = t
    BY <1>1 DEF NamesInv
<1>3. \A s \in Threads \ {t} : req'[s].pc \notin {"open names", "scan names", "resolve"}
    BY <1>1, <1>2 DEF NamesInv, Others
<1>4. ASSUME NEW s \in Threads \ {t}, s \notin torn', req'[s].addr # NoAddress
      PROVE  FirstLine(Host(s), req[s].addr)'
    BY <1>1, <1>4, SameNames DEF Others
<1>5. CASE (t \in torn \/ Matching(Host(t)) = {}) /\ Moves(t, "resolve") /\ lock' = lock
    <2>1. /\ req'[t].url = req[t].url /\ req'[t].addr = req[t].addr /\ lock'["ip"] = t
          /\ req'[t].pc = "resolve"
        BY <1>2, <1>5 DEF Moves
    <2>2. t \notin torn' => Matching(Host(t))' = {}
        BY <1>1, <1>5, <2>1, SameNames
    <2>3. t \notin torn' /\ req'[t].addr # NoAddress => FirstLine(Host(t), req[t].addr)'
        BY <1>1, <2>1, SameNames
    <2>4. QED
        BY <1>3, <1>4, <2>1, <2>2, <2>3 DEF NamesInv
<1>6. ASSUME NEW a \in Found(t), Addressed(t, a)
      PROVE  NamesInv'
    <2>1. req'[t].pc = "lock black" /\ req'[t].addr = a /\ Host(t)' = Host(t)
        BY <1>6 DEF Addressed, Host
    <2>2. t \notin torn' => FirstLine(Host(t), a)
        BY <1>1, <1>6, FoundFirst
    <2>3. \A n, b : FirstLine(n, b)' <=> FirstLine(n, b)
        BY <1>1 DEF FirstLine, Matching
    <2>4. t \notin torn' => FirstLine(Host(t), req[t].addr)'
        BY <2>1, <2>2, <2>3
    <2>5. QED
        BY <1>3, <1>4, <2>1, <2>4 DEF NamesInv
<1>7. QED
    BY <1>5, <1>6, ScanNamesFacts

\* ... and extended: the only step that changes it, and no thread has another
\* address for the host.
LEMMA ResolveKeeps ==
    ASSUME TypeOK, NamesInv, NEW t \in Threads, Resolve(t)
    PROVE  NamesInv'
<1>1. Others(t) /\ req[t].pc = "resolve" /\ torn' = torn
    BY ResolveFacts
<1>2. lock["ip"] = t /\ (t \notin torn => Matching(Host(t)) = {})
    BY <1>1 DEF NamesInv
<1>3. \A s \in Threads \ {t} : req'[s].pc \notin {"open names", "scan names", "resolve"}
    BY <1>1, <1>2 DEF NamesInv, Others
<1>4. CASE Replied(t, NotFound) /\ names' = names
    <2>1. \A s \in Threads : req'[s].addr = req[s].addr /\ req'[s].url = req[s].url
        BY <1>1, <1>4 DEF Others, Replied
    <2>2. \A s \in Threads \ torn' :
            req'[s].addr # NoAddress => FirstLine(Host(s), req[s].addr)'
        BY <1>1, <1>4, <2>1, SameNames
    <2>3. req'[t].pc = "done"
        BY <1>4 DEF Replied
    <2>4. QED
        BY <1>3, <2>2, <2>3 DEF NamesInv
<1>5. ASSUME NEW a \in Answers[Host(t)], Addressed(t, a),
             names' = Append(names, <<Host(t), a>>)
      PROVE  NamesInv'
    <2>1. Host(t) \in Hosts /\ a \in Addresses
        BY RequestFacts, RequestsAssumption
    <2>2. PICK h \in Hosts : h = Host(t) /\ names' = Append(names, <<h, a>>)
        BY <1>5, <2>1
    <2>3. /\ req'[t].pc = "lock black" /\ req'[t].addr = a /\ Host(t)' = h
        BY <1>5, <2>2 DEF Addressed, Host
    <2>4. t \notin torn => FirstLine(h, a)'
        BY <1>2, <2>1, <2>2, AppendedLine
    <2>5. t \notin torn' => FirstLine(Host(t), req[t].addr)'
        BY <1>1, <2>3, <2>4 DEF FirstLine, Matching
    <2>6. ASSUME NEW s \in Threads \ {t}, s \notin torn', req'[s].addr # NoAddress
          PROVE  FirstLine(Host(s), req[s].addr)'
        <3>1. req'[s] = req[s] /\ Host(s)' = Host(s)
            BY <1>1 DEF Others, Host
        <3>2. FirstLine(Host(s), req[s].addr)
            BY <1>1, <2>6, <3>1 DEF NamesInv
        <3>3. QED
            BY <2>1, <2>2, <3>1, <3>2, AppendedLine
    <2>7. QED
        BY <1>3, <2>3, <2>5, <2>6 DEF NamesInv
<1>6. QED
    BY <1>4, <1>5, ResolveFacts

\* The process ends, and the file is what it was.
LEMMA RestartKeepsNames ==
    ASSUME TypeOK, NamesInv, NEW S, Restart(S)
    PROVE  NamesInv'
<1>1. names' = names /\ torn' = torn
    BY DEF Restart, files
<1>2. ASSUME NEW s \in Threads
      PROVE  /\ req'[s].pc \in {"idle", "done", "killed"}
             /\ \/ req'[s].addr = NoAddress
                \/ req'[s].addr = req[s].addr /\ req'[s].url = req[s].url
    BY RestartFacts
<1>3. \A s \in Threads \ torn' : req'[s].addr # NoAddress => FirstLine(Host(s), req[s].addr)'
    BY <1>1, <1>2, SameNames
<1>4. QED
    BY <1>2, <1>3 DEF NamesInv

\* The other steps of a thread.
LEMMA OthersKeepNames ==
    ASSUME TypeOK, NamesInv, NEW t \in Threads,
           \/ \E u \in Urls : Accept(t, u)
           \/ Parse(t) \/ Ignore(t) \/ LockBlacklist(t) \/ CheckBlacklist(t)
           \/ LockPages(t) \/ ScanPages(t) \/ MarkPage(t)
           \/ OpenCached(t) \/ SendCached(t)
           \/ FetchFails(t) \/ Connect(t) \/ Receive(t) \/ OriginCloses(t)
    PROVE  NamesInv'
<1>1. lock'["ip"] = lock["ip"] /\ names' = names /\ torn \subseteq torn'
    BY DEF Accept, Parse, Ignore, LockBlacklist, CheckBlacklist, LockPages, ScanPages,
           MarkPage, OpenCached, SendCached, FetchFails, Connect, Receive, OriginCloses,
           Acquire, Release, Cuts, TypeOK, Locks, files
<1>2. ASSUME Others(t), NEW pc \in Pcs \ {"open names", "scan names", "resolve"},
             Moves(t, pc)
      PROVE  NamesInv'
    BY <1>1, <1>2, AwayFromNames DEF Moves
<1>3. ASSUME Others(t), NEW q, Replied(t, q)
      PROVE  NamesInv'
    BY <1>1, <1>3, AwayFromNames DEF Replied
<1>4. CASE \E u \in Urls : Accept(t, u)
    BY <1>1, <1>4, AcceptFacts, AwayFromNames
<1>5. CASE Ignore(t)
    BY <1>2, <1>5, IgnoreFacts DEF Pcs
<1>6. CASE LockBlacklist(t)
    BY <1>2, <1>6, MoveFacts DEF LockBlacklist, Acquire, Pcs
<1>7. CASE CheckBlacklist(t)
    BY <1>2, <1>3, <1>7, MoveFacts, ReplyFacts DEF CheckBlacklist, Pcs
<1>8. CASE LockPages(t)
    BY <1>2, <1>8, MoveFacts DEF LockPages, Acquire, Pcs
<1>9. CASE ScanPages(t)
    BY <1>1, <1>9, FoundFacts, AwayFromNames
<1>10. CASE MarkPage(t)
    BY <1>2, <1>10, MoveFacts DEF MarkPage, Pcs
<1>11. CASE OpenCached(t)
    BY <1>2, <1>3, <1>11, MoveFacts, ReplyFacts DEF OpenCached, Pcs
<1>12. CASE SendCached(t)
    BY <1>1, <1>2, <1>12, SentFacts, AwayFromNames DEF Pcs
<1>13. CASE FetchFails(t)
    BY <1>3, <1>13, ReplyFacts DEF FetchFails
<1>14. CASE Connect(t)
    BY <1>2, <1>14, MoveFacts DEF Connect, Pcs
<1>15. CASE Receive(t)
    BY <1>1, <1>15, ReceivedFacts, AwayFromNames
<1>16. CASE OriginCloses(t)
    BY <1>1, <1>16, ClosedFacts, AwayFromNames
<1>17. CASE Parse(t)
    BY <1>1, <1>17, ParseFacts, AwayFromNames
<1>18. QED
    BY <1>4, <1>5, <1>6, <1>7, <1>8, <1>9, <1>10, <1>11, <1>12, <1>13, <1>14, <1>15, <1>16,
       <1>17

\* Every step.
LEMMA NextKeepsNames ==
    ASSUME TypeOK, NamesInv, [Next]_vars
    PROVE  NamesInv'
<1>1. ASSUME NEW S, Restart(S)
      PROVE  NamesInv'
    BY <1>1, RestartKeepsNames
<1>2. CASE UNCHANGED vars
    BY <1>2 DEF NamesInv, FirstLine, Matching, Host, vars, files
<1>3. ASSUME NEW t \in Threads, ThreadStep(t)
      PROVE  NamesInv'
    BY <1>1, <1>3, LockNamesKeeps, OpenNamesKeeps, ScanNamesKeeps, ResolveKeeps,
       OthersKeepNames
    DEF ThreadStep, NoToken, NoFile
<1>4. QED
    BY <1>1, <1>2, <1>3, OthersKeepNames DEF Next, NoRequest, Kill

\* Initially nobody has an address.
LEMMA InitNames ==
    ASSUME Init
    PROVE  NamesInv
<1>1. ASSUME NEW t \in Threads
      PROVE  req[t].pc = "idle" /\ req[t].addr = NoAddress
    BY DEF Init, Idle
<1>2. QED
    BY <1>1 DEF NamesInv

\* The names are always in order.
LEMMA NamesCorrect == Spec => []NamesInv
<1>1. TypeOK /\ NamesInv /\ [Next]_vars => NamesInv'
    BY NextKeepsNames
<1>2. QED
    BY <1>1, InitNames, TypeCorrect, PTL DEF Spec

\* However the requests overlap, whatever the resolver says, whatever torn
\* threads write into hostname_ip.txt, and whenever the process is killed: two
\* requests for a host whose strtok calls were not mixed with those of another
\* use one address.
THEOREM OneAddress == Spec => []AddressStable
<1>1. TypeOK /\ NamesInv => AddressStable
    BY FirstLineUnique DEF NamesInv, AddressStable
<1>2. QED
    BY <1>1, NamesCorrect, TypeCorrect, PTL
-----------------------------------------------------------------------------
(* The files of cache/.                                                    *)

\* t begins with s.
StartOf(s, t) == Len(s) <= Len(t) /\ \A i \in 1..Len(s) : s[i] = t[i]

\* The places where nothing was sent yet.
Early == {"idle", "parse", "lock ip", "open names", "scan names", "resolve",
          "lock black", "check", "lock pg", "scan pages", "mark", "open", "connect"}

\* What a thread has sent, buffered and written of its page.
FetchInv(t) ==
    /\ req[t].pc \in Early => req[t].out = <<>>
    /\ req[t].pc # "fetch" => req[t].buf = <<>>
    /\ req[t].pc = "connect" => store[req[t].url] = <<>>
    /\ req[t].pc = "fetch" =>
        /\ req[t].out = store[req[t].url] \o req[t].buf
        /\ StartOf(req[t].out, Page[req[t].url])

\* A page file is the start of the page, one that is not listed is empty, and
\* the thread that fetches a page has sent what is in its file and its buffer.
PagesInv ==
    /\ \A u \in Urls : StartOf(store[u], Page[u])
    /\ \A u \in Urls \ pages : store[u] = <<>>
    /\ \A t \in Threads : FetchInv(t)

LEMMA StartOfConcat ==
    ASSUME NEW S, NEW s \in Seq(S), NEW q \in Seq(S), NEW t \in Seq(S),
           StartOf(s \o q, t)
    PROVE  StartOf(s, s \o q) /\ StartOf(s, t)
<1>1. /\ Len(s) \in Nat /\ Len(q) \in Nat /\ Len(t) \in Nat
      /\ Len(s \o q) = Len(s) + Len(q)
      /\ \A i \in 1..Len(s) : (s \o q)[i] = s[i]
    BY ConcatProperties, LenProperties
<1>2. QED
    BY <1>1 DEF StartOf

LEMMA StartOfItself ==
    ASSUME NEW S, NEW s \in Seq(S)
    PROVE  StartOf(s, s) /\ StartOf(<<>>, s)
<1>1. Len(s) \in Nat /\ Len(<<>>) = 0
    BY LenProperties, EmptySeq
<1>2. QED
    BY <1>1 DEF StartOf

LEMMA StartOfAppend ==
    ASSUME NEW S, NEW s \in Seq(S), NEW t \in Seq(S),
           StartOf(s, t), Len(s) < Len(t)
    PROVE  StartOf(Append(s, t[Len(s) + 1]), t)
<1>1. Len(s) \in Nat /\ Len(t) \in Nat
    BY LenProperties
<1>2. t[Len(s) + 1] \in S
    BY <1>1, ElementOfSeq
<1>3. /\ Len(Append(s, t[Len(s) + 1])) = Len(s) + 1
      /\ \A i \in 1..Len(s) : Append(s, t[Len(s) + 1])[i] = s[i]
      /\ Append(s, t[Len(s) + 1])[Len(s) + 1] = t[Len(s) + 1]
    BY <1>2, AppendProperties
<1>4. QED
    BY <1>1, <1>3 DEF StartOf

\* What is as long as the whole is the whole.
LEMMA StartOfWhole ==
    ASSUME NEW S, NEW s \in Seq(S), NEW t \in Seq(S), StartOf(s, t),
           Len(t) <= Len(s)
    PROVE  s = t
<1>1. Len(s) = Len(t) /\ \A i \in 1..Len(s) : s[i] = t[i]
    BY LenProperties DEF StartOf
<1>2. QED
    BY <1>1, SeqEqual

\* This is the prefix of SequencesExt.
LEMMA StartIsPrefix ==
    ASSUME NEW S, NEW s \in Seq(S), NEW t \in Seq(S), StartOf(s, t)
    PROVE  IsPrefix(s, t) /\ s \in Prefixes(t)
<1>1. Len(s) \in 0..Len(t) /\ Len(s) \in Nat /\ Len(t) \in Nat
    BY LenProperties DEF StartOf
<1>2. SubSeq(s, 1, Len(s)) = s
    BY SubSeqFull
<1>3. \A i \in 1..Len(s) : t[i] \in S
    BY <1>1, ElementOfSeq
<1>4. /\ SubSeq(t, 1, Len(s)) \in Seq(S)
      /\ Len(SubSeq(t, 1, Len(s))) = Len(s)
      /\ \A i \in 1..Len(s) : SubSeq(t, 1, Len(s))[i] = t[i]
    BY <1>1, <1>3, SubSeqProperties
<1>5. SubSeq(t, 1, Len(s)) = s
    BY <1>4, SeqEqual DEF StartOf
<1>6. IsPrefix(s, t)
    BY <1>1, <1>2, <1>5 DEF IsPrefix
<1>7. \E l \in 0..Len(t) : s = SubSeq(t, 1, l)
    BY <1>1, <1>5
<1>8. s \in Prefixes(t)
    BY <1>7, Zenon DEF Prefixes
<1>9. QED
    BY <1>6, <1>8

\* Writing some of the buffer moves it from the buffer to the file.
LEMMA Flushed ==
    ASSUME NEW S, NEW q \in Seq(S), NEW i \in 0..Len(q)
    PROVE  /\ Written(q, i) \in Seq(S) /\ Kept(q, i) \in Seq(S)
           /\ Written(q, i) \o Kept(q, i) = q
<1>1. Len(q) \in Nat /\ \A j \in 1..Len(q) : q[j] \in S
    BY LenProperties, ElementOfSeq
<1>2. SubSeq(q, 1, i) \in Seq(S)
    BY <1>1, SubSeqProperties
<1>3. SubSeq(q, i + 1, Len(q)) \in Seq(S)
    BY <1>1, SubSeqProperties
<1>4. /\ 1 \in 1..Len(q) + 1 /\ i \in (1 - 1)..Len(q) /\ Len(q) \in i..Len(q)
    BY <1>1
<1>5. SubSeq(q, 1, i) \o SubSeq(q, i + 1, Len(q)) = SubSeq(q, 1, Len(q))
    BY <1>4, ConcatAdjacentSubSeq
<1>6. SubSeq(q, 1, Len(q)) = q
    BY SubSeqFull
<1>7. QED
    BY <1>2, <1>3, <1>5, <1>6 DEF Written, Kept

\* What is added to the buffer is added to file and buffer.
LEMMA Buffered ==
    ASSUME NEW S, NEW f \in Seq(S), NEW b \in Seq(S), NEW e \in S
    PROVE  Append(b, e) \in Seq(S) /\ f \o Append(b, e) = Append(f \o b, e)
<1>1. Append(b, e) = b \o <<e>> /\ <<e>> \in Seq(S) /\ Append(b, e) \in Seq(S)
    BY AppendIsConcat, AppendProperties
<1>2. f \o b \in Seq(S)
    BY ConcatProperties
<1>3. Append(f \o b, e) = (f \o b) \o <<e>>
    BY <1>2, AppendIsConcat
<1>4. (f \o b) \o <<e>> = f \o (b \o <<e>>)
    BY <1>1, ConcatAssociative
<1>5. QED
    BY <1>1, <1>3, <1>4

\* Some of the buffer q goes to the file f: both together are what was sent,
\* and the file goes on being the start of the page p.
LEMMA FlushedStarts ==
    ASSUME NEW S, NEW f \in Seq(S), NEW q \in Seq(S), NEW p \in Seq(S),
           NEW i \in 0..Len(q), StartOf(f \o q, p)
    PROVE  /\ f \o Written(q, i) \in Seq(S)
           /\ StartOf(f, f \o Written(q, i))
           /\ StartOf(f \o Written(q, i), p)
           /\ (f \o Written(q, i)) \o Kept(q, i) = f \o q
<1>1. PICK x \in Seq(S), y \in Seq(S) :
        x = Written(q, i) /\ y = Kept(q, i) /\ x \o y = q
    BY Flushed
<1>2. PICK g \in Seq(S) : g = f \o x
    BY ConcatProperties
<1>3. g \o y = f \o q
    <2>1. (f \o x) \o y = f \o (x \o y)
        BY ConcatAssociative
    <2>2. QED
        BY <1>1, <1>2, <2>1
<1>4. StartOf(g, g)
    BY StartOfItself
<1>5. StartOf(f, g)
    BY <1>2, <1>4, StartOfConcat
<1>6. StartOf(g \o y, p)
    BY <1>3
<1>7. StartOf(g, p)
    BY <1>6, StartOfConcat
<1>8. QED
    BY <1>1, <1>2, <1>3, <1>5, <1>7

\* A step of thread t that changes neither the list of pages nor their files.
LEMMA AwayFromPages ==
    ASSUME PagesInv, NEW t \in Threads, Others(t), store' = store, pages' = pages,
           FetchInv(t)'
    PROVE  PagesInv'
<1>1. ASSUME NEW s \in Threads, s # t
      PROVE  FetchInv(s)'
    BY <1>1 DEF PagesInv, FetchInv, Others
<1>2. \A u \in Urls : StartOf(store'[u], Page[u])
    BY DEF PagesInv
<1>3. \A u \in Urls \ pages' : store'[u] = <<>>
    BY DEF PagesInv
<1>4. QED
    BY <1>1, <1>2, <1>3 DEF PagesInv

\* A page is listed, and fetched from there on: its file is empty.
LEMMA MarkPageKeepsPages ==
    ASSUME TypeOK, PageInv, PagesInv, NEW t \in Threads, MarkPage(t)
    PROVE  PagesInv'
<1>1. /\ Others(t) /\ store' = store /\ req[t].pc = "mark" /\ pages \subseteq pages'
      /\ \/ Moves(t, "open")
         \/ ~req[t].found /\ Moves(t, "connect")
    BY MarkFacts
<1>2. ~req[t].found => store[req[t].url] = <<>>
    BY <1>1, RequestFacts DEF PageInv, PagesInv
<1>3. FetchInv(t)'
    BY <1>1, <1>2 DEF PagesInv, FetchInv, Moves, Early
<1>4. ASSUME NEW s \in Threads, s # t
      PROVE  FetchInv(s)'
    BY <1>1, <1>4 DEF PagesInv, FetchInv, Others
<1>5. \A u \in Urls : StartOf(store'[u], Page[u])
    BY <1>1 DEF PagesInv
<1>6. \A u \in Urls \ pages' : store'[u] = <<>>
    BY <1>1 DEF PagesInv
<1>7. QED
    BY <1>3, <1>4, <1>5, <1>6 DEF PagesInv

\* The file of t's page alone is changed, by what t fetches.
LEMMA FillKeepsPages ==
    ASSUME TypeOK, PageInv, PagesInv, NEW t \in Threads, Others(t), Fetching(t),
           req'[t].url = req[t].url, pages' = pages,
           store' \in [Urls -> Seq(Chunks)],
           \A v \in Urls \ {req[t].url} : store'[v] = store[v],
           StartOf(store'[req[t].url], Page[req[t].url]),
           FetchInv(t)'
    PROVE  PagesInv'
<1> DEFINE u == req[t].url
<1>1. ASSUME NEW s \in Threads, s # t
      PROVE  FetchInv(s)'
    <2>1. req'[s] = req[s] /\ FetchInv(s) /\ req[s].url \in Urls
        BY <1>1, RequestFacts DEF PagesInv, Others
    <2>2. Fetching(s) => store'[req[s].url] = store[req[s].url]
        BY <1>1, <2>1 DEF PageInv, OneFetch
    <2>3. QED
        BY <2>1, <2>2 DEF FetchInv, Fetching
<1>2. u \in pages
    BY DEF PageInv
<1>3. QED
    BY <1>1, <1>2 DEF PagesInv

\* A chunk is received.
LEMMA ReceiveEffect ==
    ASSUME TypeOK, PagesInv, NEW t \in Threads, Receive(t)
    PROVE  /\ Others(t) /\ req[t].pc = "fetch"
           /\ req'[t].pc = "fetch" /\ req'[t].url = req[t].url
           /\ req'[t].addr = req[t].addr /\ req'[t].found = req[t].found
           /\ store' \in [Urls -> Seq(Chunks)]
           /\ \A v \in Urls \ {req[t].url} : store'[v] = store[v]
           /\ StartOf(store[req[t].url], store'[req[t].url])
           /\ StartOf(store'[req[t].url], Page[req[t].url])
           /\ req'[t].out = store'[req[t].url] \o req'[t].buf
           /\ StartOf(req'[t].out, Page[req[t].url])
<1>1. /\ Others(t) /\ req[t].pc = "fetch" /\ Len(req[t].out) < Len(Page[req[t].url])
      /\ req'[t].pc = "fetch" /\ req'[t].url = req[t].url
      /\ req'[t].addr = req[t].addr /\ req'[t].found = req[t].found
      /\ req'[t].out = Append(req[t].out, Page[req[t].url][Len(req[t].out) + 1])
    BY ReceivedFacts
<1>2. PICK u \in Urls, f \in Seq(Chunks), b \in Seq(Chunks), p \in Seq(Chunks),
           o \in Seq(Chunks \cup Replies) :
        u = req[t].url /\ f = store[u] /\ b = req[t].buf /\ p = Page[u] /\ o = req[t].out
    BY RequestFacts
<1>3. o = f \o b /\ StartOf(o, p) /\ Len(o) < Len(p)
    BY <1>1, <1>2 DEF PagesInv, FetchInv
<1>4. o \in Seq(Chunks)
    BY <1>3, ConcatProperties
<1>5. PICK e \in Chunks : e = p[Len(o) + 1]
    <2>1. Len(o) + 1 \in 1..Len(p)
        BY <1>3, <1>4, LenProperties
    <2>2. QED
        BY <2>1, ElementOfSeq
<1>6. StartOf(Append(o, e), p)
    BY <1>3, <1>4, <1>5, StartOfAppend
<1>7. Buffer(t) = Append(b, e)
    BY <1>2, <1>5 DEF Buffer
<1>8. Buffer(t) \in Seq(Chunks) /\ f \o Buffer(t) = Append(o, e)
    BY <1>3, <1>7, Buffered
<1>9. PICK q \in Seq(Chunks) :
        /\ f \o q = Append(o, e)
        /\ \E i \in 0..Len(q) : /\ req'[t].buf = Kept(q, i)
                                /\ store' = [store EXCEPT ![u] = f \o Written(q, i)]
    BY <1>2, <1>8, ReceivedFacts
<1>10. PICK i \in 0..Len(q) : /\ req'[t].buf = Kept(q, i)
                              /\ store' = [store EXCEPT ![u] = f \o Written(q, i)]
    BY <1>9
<1>11. StartOf(f \o q, p)
    BY <1>6, <1>9
<1>12. /\ f \o Written(q, i) \in Seq(Chunks)
       /\ StartOf(f, f \o Written(q, i))
       /\ StartOf(f \o Written(q, i), p)
       /\ (f \o Written(q, i)) \o Kept(q, i) = f \o q
    BY <1>11, FlushedStarts
<1>13. /\ store' \in [Urls -> Seq(Chunks)] /\ store'[u] = f \o Written(q, i)
       /\ \A v \in Urls \ {u} : store'[v] = store[v]
    BY <1>10, <1>12 DEF TypeOK
<1>14. req'[t].out = store'[u] \o req'[t].buf /\ StartOf(req'[t].out, p)
    BY <1>1, <1>2, <1>5, <1>6, <1>9, <1>10, <1>12, <1>13
<1>15. QED
    BY <1>1, <1>2, <1>12, <1>13, <1>14

\* The response ends.
LEMMA CloseEffect ==
    ASSUME TypeOK, PagesInv, NEW t \in Threads, OriginCloses(t)
    PROVE  /\ Others(t) /\ req[t].pc = "fetch"
           /\ req'[t].pc = "done" /\ req'[t].url = req[t].url
           /\ store' \in [Urls -> Seq(Chunks)]
           /\ \A v \in Urls \ {req[t].url} : store'[v] = store[v]
           /\ StartOf(store[req[t].url], store'[req[t].url])
           /\ StartOf(store'[req[t].url], Page[req[t].url])
           /\ req'[t].buf = <<>>
<1> DEFINE u == req[t].url
<1>1. /\ Others(t) /\ req[t].pc = "fetch"
      /\ req'[t].pc = "done" /\ req'[t].url = u /\ req'[t].buf = <<>>
    BY ClosedFacts
<1>2. /\ req[t].out = store[u] \o req[t].buf
      /\ StartOf(req[t].out, Page[u])
      /\ u \in Urls /\ store[u] \in Seq(Chunks) /\ req[t].buf \in Seq(Chunks)
      /\ Page[u] \in Seq(Chunks)
    BY <1>1, RequestFacts DEF PagesInv, FetchInv
<1>3. store' = [store EXCEPT ![u] = store[u] \o req[t].buf]
    BY DEF OriginCloses
<1>4. /\ store'[u] = store[u] \o req[t].buf
      /\ \A v \in Urls \ {u} : store'[v] = store[v]
    BY <1>2, <1>3 DEF TypeOK
<1>5. store[u] \o req[t].buf \in Seq(Chunks)
    BY <1>2, ConcatProperties
<1>6. store' \in [Urls -> Seq(Chunks)]
    BY <1>3, <1>5 DEF TypeOK
<1>7. StartOf(store[u], store'[u])
    BY <1>2, <1>4, StartOfConcat
<1>8. StartOf(store'[u], Page[u])
    BY <1>2, <1>4
<1>9. QED
    BY <1>1, <1>4, <1>6, <1>7, <1>8

LEMMA FetchKeepsPages ==
    ASSUME TypeOK, PageInv, PagesInv, NEW t \in Threads,
           Receive(t) \/ OriginCloses(t)
    PROVE  PagesInv'
<1>1. pages' = pages
    BY DEF Receive, OriginCloses
<1>2. CASE Receive(t)
    <2>1. FetchInv(t)'
        BY <1>2, ReceiveEffect DEF FetchInv, Early
    <2>2. Fetching(t)
        BY <1>2, ReceiveEffect DEF Fetching
    <2>3. QED
        BY <1>1, <1>2, <2>1, <2>2, ReceiveEffect, FillKeepsPages
<1>3. CASE OriginCloses(t)
    <2>1. FetchInv(t)'
        BY <1>3, CloseEffect DEF FetchInv, Early
    <2>2. Fetching(t)
        BY <1>3, CloseEffect DEF Fetching
    <2>3. QED
        BY <1>1, <1>3, <2>1, <2>2, CloseEffect, FillKeepsPages
<1>4. QED
    BY <1>2, <1>3

\* The process ends: what is buffered is lost, the files remain.
LEMMA RestartKeepsPages ==
    ASSUME TypeOK, PagesInv, NEW S, Restart(S)
    PROVE  PagesInv'
<1>1. store' = store /\ pages' = pages
    BY DEF Restart, files
<1>2. ASSUME NEW t \in Threads
      PROVE  FetchInv(t)'
    <2>1. \/ req'[t] = req[t] /\ req[t].pc \in {"idle", "done"}
          \/ req'[t].pc = "killed" /\ req'[t].buf = <<>>
        BY RestartFacts
    <2>2. FetchInv(t)
        BY DEF PagesInv
    <2>3. QED
        BY <2>1, <2>2 DEF FetchInv, Early
<1>3. QED
    BY <1>1, <1>2 DEF PagesInv

\* The other steps of a thread.
LEMMA OthersKeepPages ==
    ASSUME TypeOK, PagesInv, NEW t \in Threads,
           \/ \E u \in Urls : Accept(t, u)
           \/ Parse(t) \/ Ignore(t)
           \/ LockNames(t) \/ OpenNames(t) \/ ScanNames(t) \/ Resolve(t)
           \/ LockBlacklist(t) \/ CheckBlacklist(t)
           \/ LockPages(t) \/ ScanPages(t)
           \/ OpenCached(t) \/ SendCached(t) \/ FetchFails(t) \/ Connect(t)
    PROVE  PagesInv'
<1>1. Others(t) /\ store' = store /\ pages' = pages
    BY AcceptFacts, ParseFacts, IgnoreFacts, LockFacts, OpenNamesFacts, ScanNamesFacts,
       ResolveFacts, CheckFacts, FoundFacts, OpenFacts, SentFacts, FailsFacts, ConnectFacts
    DEF Accept, ScanPages, SendCached, files
<1>2. FetchInv(t)
    BY DEF PagesInv
<1>3. SUFFICES FetchInv(t)'
    BY <1>1, AwayFromPages
<1>4. ASSUME NEW q, Replied(t, q), req[t].pc # "fetch"
      PROVE  FetchInv(t)'
    BY <1>2, <1>4 DEF FetchInv, Replied, Early
<1>5. CASE (\E u \in Urls : Accept(t, u)) \/ Parse(t) \/ Ignore(t)
    <2>1. CASE \E u \in Urls : Accept(t, u)
        BY <2>1, AcceptFacts DEF FetchInv
    <2>2. CASE Parse(t)
        BY <1>2, <2>2, ParseFacts DEF FetchInv, Early
    <2>3. CASE Ignore(t)
        BY <1>2, <2>3, IgnoreFacts DEF FetchInv, Moves, Early
    <2>4. QED
        BY <1>5, <2>1, <2>2, <2>3
<1>6. CASE LockNames(t) \/ LockBlacklist(t) \/ LockPages(t) \/ OpenNames(t)
    BY <1>2, <1>6, LockFacts, OpenNamesFacts DEF FetchInv, Moves, Early
<1>7. ASSUME NEW a, Addressed(t, a), req[t].pc \in {"scan names", "resolve"}
      PROVE  FetchInv(t)'
    BY <1>2, <1>7 DEF FetchInv, Addressed, Early
<1>8. CASE ScanNames(t)
    <2>1. ASSUME Moves(t, "resolve"), req[t].pc = "scan names"
          PROVE  FetchInv(t)'
        BY <1>2, <2>1 DEF FetchInv, Moves, Early
    <2>2. QED
        BY <1>7, <1>8, <2>1, ScanNamesFacts
<1>9. CASE Resolve(t)
    BY <1>4, <1>7, <1>9, ResolveFacts
<1>10. CASE CheckBlacklist(t)
    <2>1. ASSUME Moves(t, "lock pg"), req[t].pc = "check"
          PROVE  FetchInv(t)'
        BY <1>2, <2>1 DEF FetchInv, Moves, Early
    <2>2. QED
        BY <1>4, <1>10, <2>1, CheckFacts
<1>11. CASE ScanPages(t)
    BY <1>2, <1>11, FoundFacts DEF FetchInv, Early
<1>12. CASE OpenCached(t)
    <2>1. ASSUME Moves(t, "send"), req[t].pc = "open"
          PROVE  FetchInv(t)'
        BY <1>2, <2>1 DEF FetchInv, Moves, Early
    <2>2. QED
        BY <1>4, <1>12, <2>1, OpenFacts
<1>13. CASE SendCached(t)
    <2>1. ASSUME Moves(t, "done"), req[t].pc = "send"
          PROVE  FetchInv(t)'
        BY <1>2, <2>1 DEF FetchInv, Moves, Early
    <2>2. ASSUME req'[t].pc = "send", req[t].pc = "send", req'[t].buf = req[t].buf
          PROVE  FetchInv(t)'
        BY <1>2, <2>2 DEF FetchInv, Early
    <2>3. QED
        BY <1>13, <2>1, <2>2, SentFacts
<1>14. CASE FetchFails(t)
    BY <1>4, <1>14, FailsFacts
<1>15. CASE Connect(t)
    <2>1. Moves(t, "fetch") /\ req[t].pc = "connect"
        BY <1>15, ConnectFacts
    <2>2. req[t].out = <<>> /\ req[t].buf = <<>> /\ store[req[t].url] = <<>>
        BY <1>2, <2>1 DEF FetchInv, Early
    <2>3. <<>> = <<>> \o <<>> /\ StartOf(<<>>, Page[req[t].url])
        BY RequestFacts, EmptySeq, ConcatEmptySeq, StartOfItself
    <2>4. QED
        BY <1>1, <2>1, <2>2, <2>3 DEF FetchInv, Moves, Early
<1>16. QED
    BY <1>5, <1>6, <1>8, <1>9, <1>10, <1>11, <1>12, <1>13, <1>14, <1>15

\* Every step.
LEMMA NextKeepsPages ==
    ASSUME TypeOK, PageInv, PagesInv, [Next]_vars
    PROVE  PagesInv'
<1>1. ASSUME NEW S, Restart(S)
      PROVE  PagesInv'
    BY <1>1, RestartKeepsPages
<1>2. CASE UNCHANGED vars
    BY <1>2 DEF PagesInv, FetchInv, vars, files
<1>3. ASSUME NEW t \in Threads, ThreadStep(t)
      PROVE  PagesInv'
    BY <1>1, <1>3, MarkPageKeepsPages, FetchKeepsPages, OthersKeepPages
    DEF ThreadStep, NoFile, NoToken
<1>4. QED
    BY <1>1, <1>2, <1>3, OthersKeepPages DEF Next, NoRequest, Kill

LEMMA InitPages ==
    ASSUME Init
    PROVE  PagesInv
<1>1. ASSUME NEW t \in Threads
      PROVE  req[t].pc = "idle" /\ req[t].out = <<>> /\ req[t].buf = <<>>
    BY DEF Init, Idle
<1>2. \A u \in Urls : store[u] = <<>> /\ StartOf(<<>>, Page[u])
    BY RequestsAssumption, StartOfItself DEF Init
<1>3. QED
    BY <1>1, <1>2 DEF PagesInv, FetchInv, Early

\* The lists and files are always in order.
LEMMA PageInvCorrect == Spec => []PageInv
<1>1. Init => PageInv
    <2>1. ASSUME Init, NEW t \in Threads
          PROVE  req[t].pc = "idle"
        BY <2>1 DEF Init, Idle
    <2>2. QED
        BY <2>1 DEF PageInv, OneFetch, Fetching
<1>2. TypeOK /\ PageInv /\ [Next]_vars => PageInv'
    BY NextKeepsPageInv
<1>3. QED
    BY <1>1, <1>2, TypeCorrect, PTL DEF Spec

LEMMA PagesCorrect == Spec => []PagesInv
<1>1. TypeOK /\ PageInv /\ PagesInv /\ [Next]_vars => PagesInv'
    BY NextKeepsPages
<1>2. QED
    BY <1>1, InitPages, TypeCorrect, PageInvCorrect, PTL DEF Spec
-----------------------------------------------------------------------------
(* The files of cache/ are a page cache.                                   *)

\* Somebody fetches the page of u.
Filled(u) == \E t \in Threads : Fetching(t) /\ req[t].url = u

\* The state of a page, before and after a step.
LEMMA StateOfPage ==
    /\ PageState \in [Urls -> {"unasked", "filling", "settled"}]
    /\ \A u \in Urls :
        /\ PageState[u] = "unasked" <=> u \notin pages
        /\ PageState[u] = "filling" <=> u \in pages /\ Filled(u)
        /\ PageState[u] = "settled" <=> u \in pages /\ ~Filled(u)
    BY DEF PageState, Filled

LEMMA StateOfPageAfter ==
    /\ PageState' \in [Urls -> {"unasked", "filling", "settled"}]
    /\ \A u \in Urls :
        /\ PageState'[u] = "unasked" <=> u \notin pages'
        /\ PageState'[u] = "filling" <=> u \in pages' /\ Filled(u)'
        /\ PageState'[u] = "settled" <=> u \in pages' /\ ~Filled(u)'
    BY DEF PageState, Filled

\* A step that changes no list, no file and no fetching.
LEMMA CacheStutters ==
    ASSUME pages' = pages, store' = store, \A u \in Urls : Filled(u)' <=> Filled(u)
    PROVE  UNCHANGED <<PageState, store>>
<1>1. \A u \in Urls : PageState'[u] = PageState[u]
    BY StateOfPage, StateOfPageAfter
<1>2. PageState' = PageState
    BY <1>1, StateOfPage, StateOfPageAfter
<1>3. QED
    BY <1>2

\* Initially.
LEMMA CacheInit ==
    ASSUME Init
    PROVE  Cache!Init
<1>1. PageState = [u \in Urls |-> "unasked"]
    BY DEF Init, PageState
<1>2. QED
    BY <1>1 DEF Init, Cache!Init

\* After a step of t, who fetches a page?
LEMMA FilledAfter ==
    ASSUME NEW t \in Threads, Others(t), NEW u, req[t].url # u \/ ~Fetching(t)
    PROVE  Filled(u)' <=> Filled(u) \/ (Fetching(t)' /\ req'[t].url = u)
<1>1. \A s \in Threads \ {t} : /\ Fetching(s)' <=> Fetching(s)
                               /\ req'[s].url = req[s].url
    BY DEF Others, Fetching
<1>2. QED
    BY <1>1 DEF Filled

\* The only thread that fetches a page is the one that stops doing so.
LEMMA FilledNoMore ==
    ASSUME PageInv, NEW t \in Threads, Others(t), Fetching(t), ~Fetching(t)',
           req'[t].url = req[t].url
    PROVE  /\ Filled(req[t].url) /\ ~Filled(req[t].url)'
           /\ \A v \in Urls \ {req[t].url} : Filled(v)' <=> Filled(v)
<1>1. \A s \in Threads \ {t} : Fetching(s)' => req'[s].url # req[t].url
    BY DEF PageInv, OneFetch, Others, Fetching
<1>2. QED
    BY <1>1, FilledAfter DEF Filled

\* One page changes its state.
LEMMA OneStateChanges ==
    ASSUME NEW u \in Urls, NEW st, PageState'[u] = st,
           \A v \in Urls \ {u} : /\ v \in pages' <=> v \in pages
                                 /\ Filled(v)' <=> Filled(v)
    PROVE  PageState' = [PageState EXCEPT ![u] = st]
<1>1. \A v \in Urls \ {u} : PageState'[v] = PageState[v]
    BY StateOfPage, StateOfPageAfter
<1>2. QED
    BY <1>1, StateOfPage, StateOfPageAfter

\* A page is listed.
LEMMA MarkPageClaims ==
    ASSUME TypeOK, PageInv, NEW t \in Threads, MarkPage(t)
    PROVE  (\E u \in Urls : Cache!Claim(u)) \/ UNCHANGED <<PageState, store>>
<1>1. PICK u \in Urls : u = req[t].url
    BY RequestFacts
<1>2. Others(t) /\ store' = store /\ ~Fetching(t)
    BY MarkFacts DEF Fetching
<1>3. CASE Moves(t, "open") /\ pages' = pages
    <2>1. ~Fetching(t)'
        BY <1>3 DEF Moves, Fetching
    <2>2. \A v \in Urls : Filled(v)' <=> Filled(v)
        BY <1>2, <2>1, FilledAfter
    <2>3. QED
        BY <1>2, <1>3, <2>2, CacheStutters
<1>4. CASE ~req[t].found /\ Moves(t, "connect") /\ pages' = pages \cup {u}
    <2>1. Fetching(t)' /\ req'[t].url = u
        BY <1>1, <1>4 DEF Moves, Fetching
    <2>2. u \notin pages
        BY <1>1, <1>4, MarkFacts DEF PageInv
    <2>3. PageState[u] = "unasked"
        BY <2>2, StateOfPage
    <2>4. PageState'[u] = "filling"
        BY <1>4, <2>1, StateOfPageAfter DEF Filled
    <2>5. \A v \in Urls \ {u} : /\ v \in pages' <=> v \in pages
                                /\ Filled(v)' <=> Filled(v)
        BY <1>2, <1>4, <2>1, FilledAfter
    <2>6. PageState' = [PageState EXCEPT ![u] = "filling"]
        BY <2>4, <2>5, OneStateChanges
    <2>7. QED
        BY <1>2, <2>3, <2>6 DEF Cache!Claim
<1>5. QED
    BY <1>1, <1>3, <1>4, MarkFacts

\* A page file grows within the page.
LEMMA FileGrows ==
    ASSUME TypeOK, NEW u \in Urls, store' \in [Urls -> Seq(Chunks)],
           \A v \in Urls \ {u} : store'[v] = store[v],
           StartOf(store[u], store'[u]), StartOf(store'[u], Page[u])
    PROVE  \E q \in Cache!Prefixes(Page[u]) :
                Cache!IsPrefix(store[u], q) /\ store' = [store EXCEPT ![u] = q]
<1>1. store[u] \in Seq(Chunks) /\ store'[u] \in Seq(Chunks) /\ Page[u] \in Seq(Chunks)
    BY RequestsAssumption DEF TypeOK
<1>2. Cache!IsPrefix(store[u], store'[u])
    BY <1>1, StartIsPrefix DEF IsPrefix, Cache!IsPrefix
<1>3. store'[u] \in Cache!Prefixes(Page[u])
    BY <1>1, StartIsPrefix DEF Prefixes, Cache!Prefixes
<1>4. store' = [store EXCEPT ![u] = store'[u]]
    BY DEF TypeOK
<1>5. QED
    BY <1>2, <1>3, <1>4

\* A chunk of it arrives, or the last.
LEMMA FetchFills ==
    ASSUME TypeOK, PageInv, PagesInv, NEW t \in Threads, Receive(t) \/ OriginCloses(t)
    PROVE  \E u \in Urls : Cache!Fill(u)
<1>1. PICK u \in Urls : u = req[t].url
    BY RequestFacts
<1>2. /\ Others(t) /\ Fetching(t) /\ pages' = pages /\ req'[t].url = u
      /\ store' \in [Urls -> Seq(Chunks)]
      /\ \A v \in Urls \ {u} : store'[v] = store[v]
      /\ StartOf(store[u], store'[u]) /\ StartOf(store'[u], Page[u])
    BY <1>1, ReceiveEffect, CloseEffect DEF Fetching, Receive, OriginCloses
<1>3. u \in pages /\ Filled(u)
    BY <1>1, <1>2 DEF PageInv, Filled
<1>4. PageState[u] = "filling"
    BY <1>3, StateOfPage
<1>5. \E q \in Cache!Prefixes(Page[u]) :
            Cache!IsPrefix(store[u], q) /\ store' = [store EXCEPT ![u] = q]
    BY <1>2, FileGrows
<1>6. CASE Receive(t)
    <2>1. Fetching(t)'
        BY <1>6, ReceiveEffect DEF Fetching
    <2>2. Filled(u)'
        BY <1>2, <2>1 DEF Filled
    <2>3. \A v \in Urls \ {u} : Filled(v)' <=> Filled(v)
        BY <1>1, <1>2, FilledAfter
    <2>4. UNCHANGED <<PageState>>
        <3>1. \A v \in Urls : PageState'[v] = PageState[v]
            BY <1>2, <1>3, <2>2, <2>3, StateOfPage, StateOfPageAfter
        <3>2. QED
            BY <3>1, StateOfPage, StateOfPageAfter
    <2>5. QED
        BY <1>4, <1>5, <2>4 DEF Cache!Fill
<1>7. CASE OriginCloses(t)
    <2>1. ~Fetching(t)'
        BY <1>7, CloseEffect DEF Fetching
    <2>2. ~Filled(u)' /\ \A v \in Urls \ {u} : Filled(v)' <=> Filled(v)
        BY <1>1, <1>2, <2>1, FilledNoMore
    <2>3. PageState'[u] = "settled"
        BY <1>2, <1>3, <2>2, StateOfPageAfter
    <2>4. PageState' = [PageState EXCEPT ![u] = "settled"]
        BY <1>2, <2>2, <2>3, OneStateChanges
    <2>5. QED
        BY <1>4, <1>5, <2>4 DEF Cache!Fill
<1>8. QED
    BY <1>6, <1>7

\* What is given up: by the thread that cannot fetch ...
LEMMA FetchFailsStops ==
    ASSUME TypeOK, PageInv, NEW t \in Threads, FetchFails(t)
    PROVE  \E S \in SUBSET Urls : Cache!Stop(S)
<1>1. PICK u \in Urls : u = req[t].url
    BY RequestFacts
<1>2. /\ Others(t) /\ Fetching(t) /\ ~Fetching(t)' /\ req'[t].url = u
      /\ pages' = pages /\ store' = store
    BY <1>1, FailsFacts DEF Fetching, Replied
<1>3. u \in pages
    BY <1>1, <1>2 DEF PageInv
<1>4. Filled(u) /\ ~Filled(u)' /\ \A v \in Urls \ {u} : Filled(v)' <=> Filled(v)
    BY <1>1, <1>2, FilledNoMore
<1>5. \A v \in {u} : PageState[v] = "filling"
    BY <1>3, <1>4, StateOfPage
<1>6. \A v \in Urls : PageState'[v] = IF v \in {u} THEN "settled" ELSE PageState[v]
    BY <1>2, <1>3, <1>4, StateOfPage, StateOfPageAfter
<1>7. PageState' = [v \in Urls |-> IF v \in {u} THEN "settled" ELSE PageState[v]]
    BY <1>6, StateOfPageAfter
<1>8. {u} \in SUBSET Urls
    OBVIOUS
<1>9. QED
    BY <1>2, <1>5, <1>7, <1>8 DEF Cache!Stop

\* ... and by all of them when the process ends.
LEMMA RestartStops ==
    ASSUME TypeOK, PageInv, NEW S, Restart(S)
    PROVE  \E G \in SUBSET Urls : Cache!Stop(G)
<1> DEFINE G == {u \in Urls : PageState[u] = "filling"}
<1>1. pages' = pages /\ store' = store
    BY DEF Restart, files
<1>2. \A t \in Threads : ~Fetching(t)'
    BY RestartFacts DEF Fetching
<1>3. \A u : ~Filled(u)'
    BY <1>2 DEF Filled
<1>4. \A u \in Urls : PageState'[u] = IF u \in G THEN "settled" ELSE PageState[u]
    BY <1>1, <1>3, StateOfPage, StateOfPageAfter
<1>5. PageState' = [u \in Urls |-> IF u \in G THEN "settled" ELSE PageState[u]]
    BY <1>4, StateOfPageAfter
<1>6. G \in SUBSET Urls /\ \A u \in G : PageState[u] = "filling"
    OBVIOUS
<1>7. QED
    BY <1>1, <1>5, <1>6 DEF Cache!Stop

\* The other steps do nothing to the cache.
LEMMA OthersLeaveCache ==
    ASSUME TypeOK, NEW t \in Threads,
           \/ \E u \in Urls : Accept(t, u)
           \/ Parse(t) \/ Ignore(t)
           \/ LockNames(t) \/ OpenNames(t) \/ ScanNames(t) \/ Resolve(t)
           \/ LockBlacklist(t) \/ CheckBlacklist(t)
           \/ LockPages(t) \/ ScanPages(t)
           \/ OpenCached(t) \/ SendCached(t) \/ Connect(t)
    PROVE  UNCHANGED <<PageState, store>>
<1> DEFINE Quiet == /\ Others(t) /\ store' = store /\ pages' = pages
                    /\ \/ ~Fetching(t) /\ ~Fetching(t)'
                       \/ Fetching(t) /\ Fetching(t)' /\ req'[t].url = req[t].url
<1>1. Quiet
    <2>1. ASSUME NEW u \in Urls, Accept(t, u)
          PROVE  Quiet
        BY <2>1, AcceptFacts DEF Accept, Fetching, files
    <2>2. CASE Parse(t) \/ Ignore(t)
        BY <2>2, ParseFacts, IgnoreFacts DEF Fetching, Moves
    <2>3. CASE LockNames(t) \/ LockBlacklist(t) \/ LockPages(t) \/ OpenNames(t)
        BY <2>3, LockFacts, OpenNamesFacts DEF Fetching, Moves
    <2>4. CASE ScanNames(t)
        BY <2>4, ScanNamesFacts DEF Fetching, Moves, Addressed, files
    <2>5. CASE Resolve(t)
        BY <2>5, ResolveFacts DEF Fetching, Replied, Addressed, files
    <2>6. CASE CheckBlacklist(t)
        BY <2>6, CheckFacts DEF Fetching, Replied, Moves, files
    <2>7. CASE ScanPages(t)
        BY <2>7, FoundFacts DEF ScanPages, Fetching, files
    <2>8. CASE OpenCached(t)
        BY <2>8, OpenFacts DEF Fetching, Replied, Moves, files
    <2>9. CASE SendCached(t)
        BY <2>9, SentFacts DEF SendCached, Fetching, Moves, files
    <2>10. CASE Connect(t)
        BY <2>10, ConnectFacts DEF Fetching, Moves, files
    <2>11. QED
        BY <2>1, <2>2, <2>3, <2>4, <2>5, <2>6, <2>7, <2>8, <2>9, <2>10
<1>2. Others(t) /\ store' = store /\ pages' = pages
    BY <1>1
<1>3. \A u \in Urls : Filled(u)' <=> Filled(u)
    <2>1. \A s \in Threads : /\ Fetching(s)' <=> Fetching(s)
                             /\ Fetching(s) => req'[s].url = req[s].url
        BY <1>1 DEF Others, Fetching
    <2>2. QED
        BY <2>1 DEF Filled
<1>4. QED
    BY <1>2, <1>3, CacheStutters

\* Every step of the proxy is one of the page cache, or none.
LEMMA CacheStep ==
    ASSUME TypeOK, PageInv, PagesInv, [Next]_vars
    PROVE  [Cache!Next]_(Cache!pvars)
<1>1. ASSUME NEW S, Restart(S)
      PROVE  Cache!Next
    BY <1>1, RestartStops DEF Cache!Next
<1>2. CASE UNCHANGED vars
    BY <1>2 DEF vars, files, Cache!pvars, PageState, Fetching
<1>3. ASSUME UNCHANGED <<PageState, store>>
      PROVE  UNCHANGED Cache!pvars
    BY <1>3 DEF Cache!pvars
<1>4. ASSUME NEW t \in Threads, ThreadStep(t)
      PROVE  [Cache!Next]_(Cache!pvars)
    BY <1>1, <1>3, <1>4, MarkPageClaims, FetchFills, FetchFailsStops, OthersLeaveCache
    DEF ThreadStep, NoFile, NoToken, Cache!Next
<1>5. QED
    BY <1>1, <1>2, <1>3, <1>4, OthersLeaveCache DEF Next, NoRequest, Kill

\* However requests for the same page overlap, and whenever the process is
\* killed: the files of cache/ implement the page cache.
THEOREM PagesAreCache == Spec => ImplementsPageCache
<1>1. Init => Cache!Init
    BY CacheInit
<1>2. TypeOK /\ PageInv /\ PagesInv /\ [Next]_vars => [Cache!Next]_(Cache!pvars)
    BY CacheStep
<1>3. QED
    BY <1>1, <1>2, TypeCorrect, PageInvCorrect, PagesCorrect, PTL
    DEF Spec, ImplementsPageCache, Cache!Spec
-----------------------------------------------------------------------------
(* A page that is cached in full is served in full.                        *)

\* The host of u is known, and neither it nor its address is refused.
Allowed(u) ==
    \E adr \in Addresses : /\ FirstLine(HostOf[u], adr)
                           /\ {HostOf[u], adr} \cap Blacklist = {}

\* A thread that is past a test has passed it.
Passed(t) ==
    /\ req[t].pc \in {"lock black", "check"} => req[t].addr \in Addresses
    /\ req[t].pc \in {"lock pg", "scan pages", "mark", "open", "connect", "fetch"} =>
        /\ req[t].addr \in Addresses
        /\ {Host(t), req[t].addr} \cap Blacklist = {}

\* A thread whose page was cached in full, and whose strtok calls were its own,
\* does not ask the origin, and sends the page from its start.  While no thread
\* is torn it does not ask the resolver either, and is not refused.
Serves(t) ==
    t \notin torn /\ whole[t] /\ req[t].pc # "killed" =>
        /\ req[t].pc \notin {"idle", "connect", "fetch"}
        /\ torn = {} => req[t].pc # "resolve"
        /\ req[t].url \in saved
        /\ store[req[t].url] = Page[req[t].url]
        /\ req[t].pc = "mark" => req[t].found
        /\ req[t].pc = "send" => StartOf(req[t].out, Page[req[t].url])
        /\ req[t].pc = "done" =>
            \/ req[t].out = Page[req[t].url]
            \/ torn # {} /\ req[t].out \in {NotFound, Forbidden}

\* Only pages that are listed have files, and, until a thread is torn, only
\* those of hosts that are not refused.
ServedInv ==
    /\ saved \subseteq pages
    /\ torn = {} => \A u \in saved : Allowed(u)
    /\ \A t \in Threads : Passed(t)
    /\ \A t \in Threads : Serves(t)

\* An address that is allowed remains so.
LEMMA AllowedUnchanged ==
    ASSUME names' = names, NEW u, Allowed(u)
    PROVE  Allowed(u)'
    BY DEF Allowed, FirstLine, Matching

\* A step of t that touches no file.
LEMMA AwayFromServed ==
    ASSUME ServedInv, NEW t \in Threads, Others(t), names' = names,
           torn \subseteq torn',
           \A s \in Threads \ {t} : whole'[s] = whole[s],
           saved' = saved, pages \subseteq pages', store' = store,
           Passed(t)', Serves(t)'
    PROVE  ServedInv'
<1>1. ASSUME NEW s \in Threads, s # t
      PROVE  Passed(s)' /\ Serves(s)'
    <2>1. req'[s] = req[s] /\ whole'[s] = whole[s] /\ Host(s)' = Host(s)
        BY <1>1 DEF Others, Host
    <2>2. QED
        BY <2>1 DEF ServedInv, Passed, Serves
<1>2. torn' = {} => \A u \in saved' : Allowed(u)'
    BY AllowedUnchanged DEF ServedInv
<1>3. QED
    BY <1>1, <1>2 DEF ServedInv

\* A request arrives and is parsed.
LEMMA AcceptKeepsServed ==
    ASSUME TypeOK, ServedInv, NEW t \in Threads,
           (\E u \in Urls : Accept(t, u)) \/ Parse(t) \/ Ignore(t)
    PROVE  ServedInv'
<1>1. Serves(t) /\ Passed(t)
    BY DEF ServedInv
<1>2. ASSUME NEW u \in Urls, Accept(t, u)
      PROVE  ServedInv'
    <2>1. /\ names' = names /\ pages' = pages /\ saved' = saved /\ store' = store
          /\ whole' = [whole EXCEPT ![t] = u \in saved /\ store[u] = Page[u]]
        BY <1>2 DEF Accept, files
    <2>2. /\ whole'[t] = (u \in saved /\ store[u] = Page[u])
          /\ \A s \in Threads \ {t} : whole'[s] = whole[s]
        BY <2>1 DEF TypeOK
    <2>3. Passed(t)' /\ Serves(t)'
        BY <1>2, <2>1, <2>2, AcceptFacts DEF Passed, Serves
    <2>4. QED
        BY <1>2, <2>1, <2>2, <2>3, AcceptFacts, AwayFromServed
<1>3. CASE Parse(t)
    <2>1. /\ Others(t) /\ UNCHANGED <<names, pages, saved, store, torn, whole>>
          /\ req[t].pc = "parse" /\ req'[t].pc = "lock ip"
          /\ t \in torn \/ req'[t].url = req[t].url
        BY <1>3, ParseFacts
    <2>2. Passed(t)'
        BY <2>1 DEF Passed
    <2>3. Serves(t)'
        BY <1>1, <2>1 DEF Serves
    <2>4. QED
        BY <2>1, <2>2, <2>3, AwayFromServed
<1>4. CASE Ignore(t)
    <2>1. ~whole'[t] /\ \A s \in Threads \ {t} : whole'[s] = whole[s]
        BY <1>4, IgnoreFacts DEF TypeOK
    <2>2. Passed(t)' /\ Serves(t)'
        BY <1>4, <2>1, IgnoreFacts DEF Passed, Serves, Moves
    <2>3. QED
        BY <1>4, <2>1, <2>2, IgnoreFacts, AwayFromServed
<1>5. QED
    BY <1>2, <1>3, <1>4

\* A mutex is taken, or the file of names opened.
LEMMA LockKeepsServed ==
    ASSUME TypeOK, ServedInv, NEW t \in Threads,
           LockNames(t) \/ OpenNames(t) \/ LockBlacklist(t) \/ LockPages(t)
    PROVE  ServedInv'
<1>1. /\ Others(t) /\ UNCHANGED <<names, pages, saved, store, whole>>
      /\ torn \subseteq torn'
      /\ \/ req[t].pc = "lock ip" /\ Moves(t, "open names")
         \/ req[t].pc = "open names" /\ Moves(t, "scan names")
         \/ req[t].pc = "lock black" /\ Moves(t, "check")
         \/ req[t].pc = "lock pg" /\ Moves(t, "scan pages")
    BY LockFacts, OpenNamesFacts
<1>2. Passed(t) /\ Serves(t)
    BY DEF ServedInv
<1>3. Passed(t)'
    BY <1>1, <1>2 DEF Passed, Moves, Host
<1>4. Serves(t)'
    BY <1>1, <1>2 DEF Serves, Moves
<1>5. QED
    BY <1>1, <1>3, <1>4, AwayFromServed

\* While no thread is torn the host of a page that is cached is found in the
\* file of names.
LEMMA ScanNamesKeepsServed ==
    ASSUME TypeOK, ServedInv, NEW t \in Threads, ScanNames(t)
    PROVE  ServedInv'
<1>1. /\ Others(t) /\ UNCHANGED <<names, pages, saved, store, torn, whole>>
      /\ req[t].pc = "scan names"
    BY ScanNamesFacts
<1>2. Serves(t)
    BY DEF ServedInv
<1>3. CASE (t \in torn \/ Matching(Host(t)) = {}) /\ Moves(t, "resolve")
    <2>1. Matching(Host(t)) = {} => ~Allowed(req[t].url)
        BY DEF Allowed, FirstLine, Host
    <2>2. t \in torn \/ ~whole[t] \/ torn # {}
        BY <1>1, <1>2, <1>3, <2>1 DEF ServedInv, Serves
    <2>3. Passed(t)' /\ Serves(t)'
        BY <1>1, <1>2, <1>3, <2>2 DEF Passed, Serves, Moves
    <2>4. QED
        BY <1>1, <2>3, AwayFromServed
<1>4. ASSUME NEW a \in Found(t), Addressed(t, a)
      PROVE  ServedInv'
    <2>1. a \in Addresses
        BY FoundType
    <2>2. Passed(t)' /\ Serves(t)'
        BY <1>1, <1>2, <1>4, <2>1 DEF Passed, Serves, Addressed
    <2>3. QED
        BY <1>1, <2>2, AwayFromServed
<1>5. QED
    BY <1>3, <1>4, ScanNamesFacts

\* While no thread is torn the resolver is asked only for hosts whose pages are
\* not cached.
LEMMA ResolveKeepsServed ==
    ASSUME TypeOK, ServedInv, NEW t \in Threads, Resolve(t)
    PROVE  ServedInv'
<1>1. /\ Others(t) /\ UNCHANGED <<pages, saved, store, torn, whole>>
      /\ req[t].pc = "resolve"
    BY ResolveFacts
<1>2. Serves(t)
    BY DEF ServedInv
<1>3. t \in torn \/ ~whole[t] \/ torn # {}
    BY <1>1, <1>2 DEF Serves
<1>4. CASE Replied(t, NotFound) /\ names' = names
    <2>1. Passed(t)'
        BY <1>4 DEF Passed, Replied
    <2>2. Serves(t)'
        BY <1>1, <1>2, <1>3, <1>4 DEF Serves, Replied
    <2>3. QED
        BY <1>1, <1>4, <2>1, <2>2, AwayFromServed
<1>5. ASSUME NEW a \in Answers[Host(t)], Addressed(t, a),
             names' = Append(names, <<Host(t), a>>)
      PROVE  ServedInv'
    <2>1. Host(t) \in Hosts /\ a \in Addresses
        BY RequestFacts, RequestsAssumption
    <2>2. \A n, b : FirstLine(n, b) => FirstLine(n, b)'
        BY <1>5, <2>1, AppendedLine
    <2>3. torn' = {} => \A u \in saved' : Allowed(u)'
        BY <1>1, <2>2 DEF ServedInv, Allowed
    <2>4. Passed(t)' /\ Serves(t)'
        BY <1>1, <1>2, <1>5, <2>1 DEF Passed, Serves, Addressed
    <2>5. ASSUME NEW s \in Threads, s # t
          PROVE  Passed(s)' /\ Serves(s)'
        <3>1. req'[s] = req[s] /\ Host(s)' = Host(s)
            BY <1>1, <2>5 DEF Others, Host
        <3>2. QED
            BY <1>1, <3>1 DEF ServedInv, Passed, Serves
    <2>6. QED
        BY <1>1, <2>3, <2>4, <2>5 DEF ServedInv
<1>6. QED
    BY <1>4, <1>5, ResolveFacts

\* While no thread is torn a host that is cached is not refused: the blacklist
\* was asked about the same address before.
LEMMA CheckKeepsServed ==
    ASSUME TypeOK, NamesInv, ServedInv, NEW t \in Threads, CheckBlacklist(t)
    PROVE  ServedInv'
<1>1. Others(t) /\ UNCHANGED <<names, pages, saved, store, torn>> /\ req[t].pc = "check"
    BY CheckFacts
<1>2. Serves(t) /\ Passed(t)
    BY DEF ServedInv
<1>3. CASE Replied(t, Forbidden) /\ whole' = [whole EXCEPT ![t] = FALSE]
    <2>1. ~whole'[t] /\ \A s \in Threads \ {t} : whole'[s] = whole[s]
        BY <1>3 DEF TypeOK
    <2>2. Passed(t)' /\ Serves(t)'
        BY <1>3, <2>1 DEF Passed, Serves, Replied
    <2>3. QED
        BY <1>1, <2>1, <2>2, AwayFromServed
<1>4. CASE /\ Replied(t, Forbidden) /\ whole' = whole
           /\ {Host(t), req[t].addr} \cap Blacklist # {}
    <2>1. t \notin torn => FirstLine(Host(t), req[t].addr)
        BY <1>1, <1>2, ConstantsAssumption DEF NamesInv, Passed
    <2>2. t \notin torn => ~Allowed(req[t].url)
        BY <1>4, <2>1, FirstLineUnique DEF Allowed, Host
    <2>3. t \in torn \/ ~whole[t] \/ torn # {}
        BY <1>1, <1>2, <2>2 DEF ServedInv, Serves
    <2>4. Passed(t)' /\ Serves(t)'
        BY <1>1, <1>2, <1>4, <2>3 DEF Passed, Serves, Replied
    <2>5. QED
        BY <1>1, <1>4, <2>4, AwayFromServed
<1>5. CASE /\ Moves(t, "lock pg") /\ whole' = whole
           /\ {Host(t), req[t].addr} \cap Blacklist = {}
    <2>1. Passed(t)' /\ Serves(t)'
        BY <1>1, <1>2, <1>5 DEF Passed, Serves, Moves, Host
    <2>2. QED
        BY <1>1, <1>5, <2>1, AwayFromServed
<1>6. QED
    BY <1>3, <1>4, <1>5, CheckFacts

\* A page that is cached is found in the list.
LEMMA ScanPagesKeepsServed ==
    ASSUME TypeOK, ServedInv, NEW t \in Threads, ScanPages(t) \/ MarkPage(t)
    PROVE  ServedInv'
<1>1. Serves(t) /\ Passed(t)
    BY DEF ServedInv
<1>2. CASE ScanPages(t)
    <2>1. UNCHANGED <<names, pages, saved, store, torn, whole>>
        BY <1>2 DEF ScanPages, files
    <2>2. Serves(t)'
        BY <1>1, <1>2, <2>1, FoundFacts DEF ServedInv, Serves
    <2>3. Passed(t)'
        BY <1>1, <1>2, FoundFacts DEF Passed, Host
    <2>4. QED
        BY <1>2, <2>1, <2>2, <2>3, FoundFacts, AwayFromServed
<1>3. CASE MarkPage(t)
    <2>1. /\ Others(t) /\ UNCHANGED <<names, saved, store, torn, whole>>
          /\ pages \subseteq pages' /\ req[t].pc = "mark"
          /\ \/ req[t].found /\ Moves(t, "open")
             \/ ~req[t].found /\ Moves(t, "connect")
        BY <1>3, MarkFacts
    <2>2. Serves(t)'
        BY <1>1, <2>1 DEF Serves, Moves
    <2>3. Passed(t)'
        BY <1>1, <2>1 DEF Passed, Moves, Host
    <2>4. QED
        BY <2>1, <2>2, <2>3, AwayFromServed
<1>4. QED
    BY <1>2, <1>3

\* A page that is cached is opened.
LEMMA OpenKeepsServed ==
    ASSUME TypeOK, PagesInv, ServedInv, NEW t \in Threads, OpenCached(t)
    PROVE  ServedInv'
<1>1. Others(t) /\ UNCHANGED <<names, pages, saved, store, torn>> /\ req[t].pc = "open"
    BY OpenFacts
<1>2. Serves(t)
    BY DEF ServedInv
<1>3. CASE Replied(t, Error500) /\ whole' = [whole EXCEPT ![t] = FALSE]
    <2>1. ~whole'[t] /\ \A s \in Threads \ {t} : whole'[s] = whole[s]
        BY <1>3 DEF TypeOK
    <2>2. Passed(t)' /\ Serves(t)'
        BY <1>3, <2>1 DEF Passed, Serves, Replied
    <2>3. QED
        BY <1>1, <2>1, <2>2, AwayFromServed
<1>4. CASE Moves(t, "send") /\ whole' = whole
    <2>1. req[t].out = <<>> /\ StartOf(<<>>, Page[req[t].url])
        BY <1>1, RequestFacts, StartOfItself DEF PagesInv, FetchInv, Early
    <2>2. Passed(t)'
        BY <1>4 DEF Passed, Moves
    <2>3. Serves(t)'
        BY <1>1, <1>2, <1>4, <2>1 DEF Serves, Moves
    <2>4. QED
        BY <1>1, <1>4, <2>2, <2>3, AwayFromServed
<1>5. QED
    BY <1>3, <1>4, OpenFacts

\* Its chunks are sent in order, to the last.
LEMMA SendKeepsServed ==
    ASSUME TypeOK, ServedInv, NEW t \in Threads, SendCached(t)
    PROVE  ServedInv'
<1>1. /\ Others(t) /\ UNCHANGED <<names, pages, saved, store, torn, whole>>
      /\ req[t].pc = "send"
    BY SentFacts DEF SendCached, files
<1>2. Serves(t)
    BY DEF ServedInv
<1>3. Passed(t)'
    BY SentFacts DEF Passed, Moves
<1>4. PICK u \in Urls, p \in Seq(Chunks \cup Replies), o \in Seq(Chunks \cup Replies) :
        u = req[t].url /\ p = Page[u] /\ o = req[t].out
    <2>1. Page[req[t].url] \in Seq(Chunks \cup Replies)
        BY RequestFacts, SeqMonotonic
    <2>2. QED
        BY <2>1, RequestFacts
<1>5. ASSUME whole[t], t \notin torn
      PROVE  u \in saved /\ store[u] = p /\ StartOf(o, p)
    BY <1>1, <1>2, <1>4, <1>5 DEF Serves
<1>6. ASSUME Unsent(t), req'[t].pc = "send", req'[t].url = u,
             req'[t].out = Append(o, store[u][Len(o) + 1])
      PROVE  Serves(t)'
    <2>1. t \notin torn /\ whole[t] => Len(o) < Len(p)
        BY <1>4, <1>5, <1>6 DEF Unsent
    <2>2. t \notin torn /\ whole[t] => StartOf(Append(o, p[Len(o) + 1]), p)
        BY <1>5, <2>1, StartOfAppend
    <2>3. QED
        BY <1>1, <1>4, <1>5, <1>6, <2>2 DEF Serves
<1>7. ASSUME ~Unsent(t), Moves(t, "done")
      PROVE  Serves(t)'
    <2>1. t \notin torn /\ whole[t] => Len(p) <= Len(o)
        BY <1>4, <1>5, <1>7, LenProperties DEF Unsent
    <2>2. t \notin torn /\ whole[t] => o = p
        BY <1>5, <2>1, StartOfWhole
    <2>3. QED
        BY <1>1, <1>4, <1>5, <1>7, <2>2 DEF Serves, Moves
<1>8. Serves(t)'
    BY <1>4, <1>6, <1>7, SentFacts
<1>9. QED
    BY <1>1, <1>3, <1>8, AwayFromServed

\* The thread that connects to an origin creates a file for a page that is listed
\* and not refused.
LEMMA ConnectKeepsServed ==
    ASSUME TypeOK, NamesInv, PageInv, ServedInv, NEW t \in Threads,
           FetchFails(t) \/ Connect(t)
    PROVE  ServedInv'
<1>1. Serves(t) /\ Passed(t)
    BY DEF ServedInv
<1>2. CASE FetchFails(t)
    <2>1. /\ Others(t) /\ UNCHANGED <<names, pages, saved, store, torn, whole>>
          /\ req[t].pc = "connect" /\ Replied(t, Error500)
        BY <1>2, FailsFacts
    <2>2. Passed(t)' /\ Serves(t)'
        BY <1>1, <2>1 DEF Passed, Serves, Replied
    <2>3. QED
        BY <2>1, <2>2, AwayFromServed
<1>3. CASE Connect(t)
    <2>1. /\ Others(t) /\ UNCHANGED <<names, pages, store, torn, whole>>
          /\ req[t].pc = "connect" /\ Moves(t, "fetch")
          /\ saved' = saved \cup {req[t].url}
        BY <1>3, ConnectFacts
    <2>2. torn = {} => Allowed(req[t].url)
        <3>1. req[t].addr \in Addresses /\ {Host(t), req[t].addr} \cap Blacklist = {}
            BY <1>1, <2>1 DEF Passed
        <3>2. torn = {} => FirstLine(Host(t), req[t].addr)
            BY <3>1, ConstantsAssumption DEF NamesInv
        <3>3. QED
            BY <3>1, <3>2 DEF Allowed, Host
    <2>3. torn' = {} => \A u \in saved' : Allowed(u)'
        BY <2>1, <2>2, AllowedUnchanged DEF ServedInv
    <2>4. saved' \subseteq pages'
        BY <2>1 DEF ServedInv, PageInv, Fetching
    <2>5. Passed(t)' /\ Serves(t)'
        BY <1>1, <2>1 DEF Passed, Serves, Moves, Host
    <2>6. ASSUME NEW s \in Threads, s # t
          PROVE  Passed(s)' /\ Serves(s)'
        <3>1. req'[s] = req[s] /\ Host(s)' = Host(s)
            BY <2>1, <2>6 DEF Others, Host
        <3>2. QED
            BY <2>1, <3>1 DEF ServedInv, Passed, Serves
    <2>7. QED
        BY <2>3, <2>4, <2>5, <2>6 DEF ServedInv
<1>4. QED
    BY <1>2, <1>3

\* A page file that is whole does not grow.
LEMMA FetchKeepsServed ==
    ASSUME TypeOK, PagesInv, ServedInv, NEW t \in Threads, Receive(t) \/ OriginCloses(t)
    PROVE  ServedInv'
<1>1. PICK u \in Urls : u = req[t].url
    BY RequestFacts
<1>2. /\ Others(t) /\ req[t].pc = "fetch" /\ req'[t].url = u /\ req'[t].pc \in {"fetch", "done"}
      /\ store' \in [Urls -> Seq(Chunks)]
      /\ \A v \in Urls \ {u} : store'[v] = store[v]
      /\ StartOf(store[u], store'[u]) /\ StartOf(store'[u], Page[u])
      /\ req'[t].addr = req[t].addr
    BY <1>1, ReceiveEffect, CloseEffect, ClosedFacts
<1>3. UNCHANGED <<names, pages, saved, torn, whole>>
    BY DEF Receive, OriginCloses
<1>4. ASSUME NEW v \in Urls, store[v] = Page[v]
      PROVE  store'[v] = Page[v]
    <2>1. CASE v = u
        <3>1. store'[u] \in Seq(Chunks) /\ Page[u] \in Seq(Chunks)
            BY <1>2, RequestsAssumption
        <3>2. Len(Page[u]) <= Len(store'[u])
            BY <1>2, <1>4, <2>1 DEF StartOf
        <3>3. QED
            BY <1>2, <2>1, <3>1, <3>2, StartOfWhole
    <2>2. QED
        BY <1>2, <1>4, <2>1
<1>5. Serves(t)' /\ Passed(t)'
    BY <1>1, <1>2, <1>3 DEF ServedInv, Serves, Passed, Host
<1>6. ASSUME NEW s \in Threads, s # t
      PROVE  Passed(s)' /\ Serves(s)'
    <2>1. req'[s] = req[s] /\ Host(s)' = Host(s) /\ req[s].url \in Urls
        BY <1>2, <1>6, RequestFacts DEF Others, Host
    <2>2. store[req[s].url] = Page[req[s].url] => store'[req[s].url] = Page[req[s].url]
        BY <1>4, <2>1
    <2>3. QED
        BY <1>3, <2>1, <2>2 DEF ServedInv, Passed, Serves
<1>7. torn' = {} => \A v \in saved' : Allowed(v)'
    BY <1>3, AllowedUnchanged DEF ServedInv
<1>8. QED
    BY <1>3, <1>5, <1>6, <1>7 DEF ServedInv

\* The process ends: the files remain.
LEMMA RestartKeepsServed ==
    ASSUME TypeOK, ServedInv, NEW S, Restart(S)
    PROVE  ServedInv'
<1>1. UNCHANGED <<names, pages, saved, store, torn, whole>>
    BY DEF Restart, files
<1>2. ASSUME NEW t \in Threads
      PROVE  Passed(t)' /\ Serves(t)'
    <2>1. \/ req'[t] = req[t] /\ req[t].pc \in {"idle", "done"}
          \/ req'[t].pc = "killed"
        BY RestartFacts
    <2>2. QED
        BY <1>1, <2>1 DEF ServedInv, Passed, Serves
<1>3. torn' = {} => \A u \in saved' : Allowed(u)'
    BY <1>1, AllowedUnchanged DEF ServedInv
<1>4. QED
    BY <1>1, <1>2, <1>3 DEF ServedInv

\* Every step.
LEMMA NextKeepsServed ==
    ASSUME TypeOK, NamesInv, PageInv, PagesInv, ServedInv, [Next]_vars
    PROVE  ServedInv'
<1>1. ASSUME NEW S, Restart(S)
      PROVE  ServedInv'
    BY <1>1, RestartKeepsServed
<1>2. CASE UNCHANGED vars
    <2>1. UNCHANGED <<req, names, pages, saved, store, torn, whole>>
        BY <1>2 DEF vars, files
    <2>2. torn' = {} => \A u \in saved' : Allowed(u)'
        BY <2>1, AllowedUnchanged DEF ServedInv
    <2>3. QED
        BY <2>1, <2>2 DEF ServedInv, Passed, Serves, Host
<1>3. ASSUME NEW t \in Threads, ThreadStep(t)
      PROVE  ServedInv'
    BY <1>1, <1>3, AcceptKeepsServed, LockKeepsServed, ScanNamesKeepsServed, ResolveKeepsServed,
       CheckKeepsServed, ScanPagesKeepsServed, OpenKeepsServed, SendKeepsServed,
       ConnectKeepsServed, FetchKeepsServed
    DEF ThreadStep, NoFile, NoToken
<1>4. QED
    BY <1>1, <1>2, <1>3, AcceptKeepsServed DEF Next, NoRequest, Kill

LEMMA InitServed ==
    ASSUME Init
    PROVE  ServedInv
<1>1. ASSUME NEW t \in Threads
      PROVE  req[t].pc = "idle" /\ ~whole[t]
    BY DEF Init, Idle
<1>2. saved = {}
    BY DEF Init
<1>3. QED
    BY <1>1, <1>2 DEF ServedInv, Passed, Serves

LEMMA ServedCorrect == Spec => []ServedInv
<1>1. TypeOK /\ NamesInv /\ PageInv /\ PagesInv /\ ServedInv /\ [Next]_vars => ServedInv'
    BY NextKeepsServed
<1>2. QED
    BY <1>1, InitServed, TypeCorrect, NamesCorrect, PageInvCorrect, PagesCorrect, PTL
    DEF Spec

\* Whatever the resolver and the origin do: a page that was in the cache in full
\* is what the client gets, if there are descriptors and its strtok calls were
\* not mixed with another's; only after some thread's were can it be refused.
THEOREM CachedIsServed == Spec => []WholePageServed
<1>1. ServedInv => WholePageServed
    BY DEF ServedInv, Serves, WholePageServed
<1>2. QED
    BY <1>1, ServedCorrect, PTL
-----------------------------------------------------------------------------
(* The descriptors.                                                        *)

\* The threads that have a connection, one more for a file or the origin, and
\* both; those that have left a descriptor behind.
Connected == {t \in Threads : req[t].pc \notin {"idle", "done", "killed"}}
Second    == {t \in Threads : req[t].pc \in {"scan names", "resolve", "mark", "send", "fetch"}}
Third     == {t \in Threads : req[t].pc = "fetch"}
Leakers   == {t \in Threads : /\ req[t].pc = "done" /\ ~req[t].found
                              /\ req[t].addr # NoAddress}

\* The requests that arrived.
Arrived == {t \in Threads : req[t].pc # "idle"}

\* The descriptors that t is using.
One(b) == IF b THEN 1 ELSE 0
Uses(t) == One(t \in Connected) + One(t \in Second) + One(t \in Third)

\* A thread that has not found its page, or not looked for it yet.
NotFoundYet(t) ==
    req[t].pc \in {"idle", "parse", "lock ip", "open names", "scan names", "resolve",
                   "lock black", "check", "lock pg", "scan pages", "connect",
                   "fetch"} => ~req[t].found

\* The descriptors in use are those that the threads are using, and at most one
\* for each thread that can have left one behind.
LeakInv ==
    /\ IsFiniteSet(Arrived)
    /\ \A t \in Threads : NotFoundYet(t)
    /\ \E l \in 0..Cardinality(Leakers) :
        fds = Cardinality(Connected) + Cardinality(Second) + Cardinality(Third) + l

\* A set that changes only in whether t is a member.
LEMMA CountOne ==
    ASSUME NEW A, NEW B, IsFiniteSet(A), NEW t, A \ {t} = B \ {t}
    PROVE  /\ IsFiniteSet(B) /\ Cardinality(A) \in Nat /\ Cardinality(B) \in Nat
           /\ Cardinality(B) = Cardinality(A) + One(t \in B) - One(t \in A)
<1>1. CASE t \in A /\ t \in B
    <2>1. A = B
        BY <1>1
    <2>2. QED
        BY <1>1, <2>1, FS_CardinalityType DEF One
<1>2. CASE t \notin A /\ t \notin B
    <2>1. A = B
        BY <1>2
    <2>2. QED
        BY <1>2, <2>1, FS_CardinalityType DEF One
<1>3. CASE t \in A /\ t \notin B
    <2>1. B = A \ {t}
        BY <1>3
    <2>2. IsFiniteSet(B) /\ Cardinality(B) = Cardinality(A) - 1
        BY <1>3, <2>1, FS_RemoveElement
    <2>3. QED
        BY <1>3, <2>2, FS_CardinalityType DEF One
<1>4. CASE t \notin A /\ t \in B
    <2>1. B = A \cup {t}
        BY <1>4
    <2>2. IsFiniteSet(B) /\ Cardinality(B) = Cardinality(A) + 1
        BY <1>4, <2>1, FS_AddElement
    <2>3. QED
        BY <1>4, <2>2, FS_CardinalityType DEF One
<1>5. QED
    BY <1>1, <1>2, <1>3, <1>4

\* All of them are sets of requests that arrived.
LEMMA FiniteCounts ==
    ASSUME IsFiniteSet(Arrived)
    PROVE  /\ IsFiniteSet(Connected) /\ IsFiniteSet(Second)
           /\ IsFiniteSet(Third) /\ IsFiniteSet(Leakers)
<1>1. /\ Connected \subseteq Arrived /\ Second \subseteq Arrived
      /\ Third \subseteq Arrived /\ Leakers \subseteq Arrived
    BY DEF Connected, Second, Third, Leakers, Arrived
<1>2. QED
    BY <1>1, FS_Subset

\* A step of t takes and gives back what the thread uses, and leaves at most one
\* descriptor behind, for which the thread is then counted.
LEMMA DescriptorsAfter ==
    ASSUME TypeOK, LeakInv, NEW t \in Threads, Others(t), req[t].pc # "done",
           NotFoundYet(t)', NEW d \in 0..1, d = 1 => t \in Leakers',
           fds' = fds + Uses(t)' - Uses(t) + d
    PROVE  LeakInv'
<1>1. \A s \in Threads \ {t} : req'[s] = req[s]
    BY DEF Others
<1>2. /\ Connected \ {t} = Connected' \ {t} /\ Second \ {t} = Second' \ {t}
      /\ Third \ {t} = Third' \ {t} /\ Leakers \ {t} = Leakers' \ {t}
      /\ Arrived \ {t} = Arrived' \ {t} /\ t \notin Leakers
    BY <1>1 DEF Connected, Second, Third, Leakers, Arrived
<1>3. IsFiniteSet(Arrived')
    BY <1>2, CountOne DEF LeakInv
<1>4. /\ IsFiniteSet(Connected) /\ IsFiniteSet(Second)
      /\ IsFiniteSet(Third) /\ IsFiniteSet(Leakers)
    BY FiniteCounts DEF LeakInv
<1> DEFINE c == Cardinality(Connected)
           s == Cardinality(Second)
           h == Cardinality(Third)
           k == Cardinality(Leakers)
<1>5. /\ c \in Nat /\ c' = c + One(t \in Connected') - One(t \in Connected)
      /\ s \in Nat /\ s' = s + One(t \in Second') - One(t \in Second)
      /\ h \in Nat /\ h' = h + One(t \in Third') - One(t \in Third)
      /\ k \in Nat /\ k' = k + One(t \in Leakers') - One(t \in Leakers)
    BY <1>2, <1>4, CountOne
<1>6. \A b \in BOOLEAN : One(b) \in 0..1
    BY DEF One
<1>7. /\ One(t \in Connected) \in 0..1 /\ One(t \in Connected') \in 0..1
      /\ One(t \in Second) \in 0..1 /\ One(t \in Second') \in 0..1
      /\ One(t \in Third) \in 0..1 /\ One(t \in Third') \in 0..1
      /\ One(t \in Leakers') \in d..1 /\ One(t \in Leakers) = 0
    BY <1>2 DEF One
<1>8. PICK l \in 0..k : fds = c + s + h + l
    BY DEF LeakInv
<1>9. /\ Uses(t) = One(t \in Connected) + One(t \in Second) + One(t \in Third)
      /\ Uses(t)' = One(t \in Connected') + One(t \in Second') + One(t \in Third')
    BY DEF Uses, One
<1> HIDE DEF c, s, h, k
<1>10. fds' = c' + s' + h' + (l + d) /\ l + d \in 0..k'
    BY <1>5, <1>7, <1>8, <1>9
<1>11. \E m \in 0..k' : fds' = c' + s' + h' + m
    BY <1>10
<1>12. \A r \in Threads : NotFoundYet(r)'
    BY <1>1 DEF LeakInv, NotFoundYet
<1>13. QED
    BY <1>3, <1>11, <1>12 DEF LeakInv, c, s, h, k

\* What a thread uses, by where it is.
LEMMA UsesAt ==
    ASSUME NEW t \in Threads
    PROVE  /\ req[t].pc \in {"idle", "done", "killed"} => Uses(t) = 0
           /\ req[t].pc \in {"parse", "lock ip", "open names", "lock black", "check", "lock pg",
                             "scan pages", "open", "connect"} => Uses(t) = 1
           /\ req[t].pc \in {"scan names", "resolve", "mark", "send"} => Uses(t) = 2
           /\ req[t].pc = "fetch" => Uses(t) = 3
<1>1. /\ t \in Connected <=> req[t].pc \notin {"idle", "done", "killed"}
      /\ t \in Second <=> req[t].pc \in {"scan names", "resolve", "mark", "send", "fetch"}
      /\ t \in Third <=> req[t].pc = "fetch"
    BY DEF Connected, Second, Third
<1>2. /\ t \notin Connected /\ t \notin Second /\ t \notin Third => Uses(t) = 0
      /\ t \in Connected /\ t \notin Second /\ t \notin Third => Uses(t) = 1
      /\ t \in Connected /\ t \in Second /\ t \notin Third => Uses(t) = 2
      /\ t \in Connected /\ t \in Second /\ t \in Third => Uses(t) = 3
    BY DEF Uses, One
<1>3. QED
    BY <1>1, <1>2

LEMMA UsesAfter ==
    ASSUME NEW t \in Threads
    PROVE  /\ req'[t].pc \in {"idle", "done", "killed"} => Uses(t)' = 0
           /\ req'[t].pc \in {"parse", "lock ip", "open names", "lock black", "check", "lock pg",
                              "scan pages", "open", "connect"} => Uses(t)' = 1
           /\ req'[t].pc \in {"scan names", "resolve", "mark", "send"} => Uses(t)' = 2
           /\ req'[t].pc = "fetch" => Uses(t)' = 3
<1>1. /\ t \in Connected' <=> req'[t].pc \notin {"idle", "done", "killed"}
      /\ t \in Second' <=> req'[t].pc \in {"scan names", "resolve", "mark", "send", "fetch"}
      /\ t \in Third' <=> req'[t].pc = "fetch"
    BY DEF Connected, Second, Third
<1>2. /\ t \notin Connected' /\ t \notin Second' /\ t \notin Third' => Uses(t)' = 0
      /\ t \in Connected' /\ t \notin Second' /\ t \notin Third' => Uses(t)' = 1
      /\ t \in Connected' /\ t \in Second' /\ t \notin Third' => Uses(t)' = 2
      /\ t \in Connected' /\ t \in Second' /\ t \in Third' => Uses(t)' = 3
    BY DEF Uses, One
<1>3. QED
    BY <1>1, <1>2

\* The steps that keep the books even.
LEMMA EvenStep ==
    ASSUME TypeOK, LeakInv, NEW t \in Threads, Others(t), req[t].pc # "done",
           NotFoundYet(t)', fds' = fds + Uses(t)' - Uses(t)
    PROVE  LeakInv'
<1>1. Uses(t) \in Nat /\ Uses(t)' \in Nat /\ fds \in Int
    BY DEF Uses, One, TypeOK
<1>2. fds' = fds + Uses(t)' - Uses(t) + 0
    BY <1>1
<1>3. QED
    BY <1>2, DescriptorsAfter

\* The request, the names and the blacklist.
FirstStep(t) ==
    \/ \E u \in Urls : Accept(t, u)
    \/ Parse(t) \/ Ignore(t)
    \/ LockNames(t) \/ OpenNames(t) \/ ScanNames(t) \/ Resolve(t)
    \/ LockBlacklist(t) \/ CheckBlacklist(t) \/ LockPages(t)

LEMMA FirstStepsCount ==
    ASSUME TypeOK, ServedInv, LeakInv, NEW t \in Threads, FirstStep(t)
    PROVE  LeakInv'
<1>1. fds \in Int /\ Uses(t) \in Int /\ Uses(t)' \in Int /\ NotFoundYet(t)
    BY DEF TypeOK, LeakInv, Uses, One
<1>2. ASSUME NEW u \in Urls, Accept(t, u)
      PROVE  LeakInv'
    <2>1. fds' = fds + 1 /\ Uses(t) = 0 /\ Uses(t)' = 1
        BY <1>2, AcceptFacts, UsesAt, UsesAfter DEF Accept, Take
    <2>2. NotFoundYet(t)'
        BY <1>2, AcceptFacts DEF NotFoundYet
    <2>3. Others(t) /\ req[t].pc # "done"
        BY <1>2, AcceptFacts
    <2>4. QED
        BY <1>1, <2>1, <2>2, <2>3, EvenStep
<1>3. CASE Parse(t) \/ Ignore(t)
    <2>1. Others(t) /\ req[t].pc # "done" /\ Uses(t) = 1
        BY <1>3, ParseFacts, IgnoreFacts, UsesAt
    <2>2. \/ fds' = fds /\ Uses(t)' = 1
          \/ fds' = fds - 1 /\ Uses(t)' = 0
        BY <1>3, ParseFacts, IgnoreFacts, UsesAfter DEF Moves, Give
    <2>3. NotFoundYet(t)'
        BY <1>1, <1>3, ParseFacts, IgnoreFacts DEF NotFoundYet, Moves
    <2>4. QED
        BY <1>1, <2>1, <2>2, <2>3, EvenStep
<1>4. CASE LockNames(t) \/ LockBlacklist(t) \/ LockPages(t)
    <2>1. /\ Others(t) /\ fds' = fds /\ Uses(t) = 1 /\ Uses(t)' = 1
          /\ req[t].pc # "done"
        BY <1>4, LockFacts, UsesAt, UsesAfter DEF Moves
    <2>2. NotFoundYet(t)'
        BY <1>1, <1>4, LockFacts DEF NotFoundYet, Moves
    <2>3. QED
        BY <1>1, <2>1, <2>2, EvenStep
<1>5. CASE OpenNames(t) \/ ScanNames(t)
    <2>1. Others(t) /\ req[t].pc # "done"
        BY <1>5, OpenNamesFacts, ScanNamesFacts
    <2>2. \/ fds' = fds + 1 /\ Uses(t) = 1 /\ Uses(t)' = 2
          \/ fds' = fds /\ Uses(t) = 2 /\ Uses(t)' = 2
          \/ fds' = fds - 1 /\ Uses(t) = 2 /\ Uses(t)' = 1
        <3>1. CASE OpenNames(t)
            BY <3>1, OpenNamesFacts, UsesAt, UsesAfter DEF Take, Moves
        <3>2. CASE ScanNames(t)
            BY <3>2, ScanNamesFacts, UsesAt, UsesAfter DEF Give, Moves, Addressed
        <3>3. QED
            BY <1>5, <3>1, <3>2
    <2>3. NotFoundYet(t)'
        BY <1>1, <1>5, OpenNamesFacts, ScanNamesFacts DEF NotFoundYet, Moves, Addressed
    <2>4. QED
        BY <1>1, <2>1, <2>2, <2>3, EvenStep
<1>6. CASE Resolve(t)
    <2>1. Others(t) /\ req[t].pc = "resolve" /\ Uses(t) = 2
        BY <1>6, ResolveFacts, UsesAt
    <2>2. \/ fds' = fds - 2 /\ Uses(t)' = 0
          \/ fds' = fds - 1 /\ Uses(t)' = 1
        BY <1>6, ResolveFacts, UsesAfter DEF Give, Replied, Addressed
    <2>3. NotFoundYet(t)'
        BY <1>1, <1>6, ResolveFacts DEF NotFoundYet, Replied, Addressed
    <2>4. QED
        BY <1>1, <2>1, <2>2, <2>3, EvenStep
<1>7. CASE CheckBlacklist(t)
    <2>1. /\ Others(t) /\ req[t].pc = "check" /\ Uses(t) = 1
          /\ ~req[t].found /\ req[t].addr # NoAddress
        BY <1>1, <1>7, CheckFacts, UsesAt, ConstantsAssumption
        DEF NotFoundYet, ServedInv, Passed
    <2>2. NotFoundYet(t)'
        BY <1>1, <1>7, CheckFacts DEF NotFoundYet, Moves, Replied
    <2>3. CASE \/ Replied(t, Forbidden) /\ Give(1)
               \/ Moves(t, "lock pg") /\ fds' = fds
        <3>1. \/ fds' = fds - 1 /\ Uses(t)' = 0
              \/ fds' = fds /\ Uses(t)' = 1
            BY <2>3, UsesAfter DEF Give, Replied, Moves
        <3>2. QED
            BY <1>1, <2>1, <2>2, <3>1, EvenStep
    <2>4. CASE Replied(t, Forbidden) /\ fds' = fds
        <3>1. t \in Leakers' /\ Uses(t)' = 0
            BY <2>1, <2>4, UsesAfter DEF Leakers, Replied
        <3>2. fds' = fds + Uses(t)' - Uses(t) + 1
            BY <1>1, <2>1, <2>4, <3>1
        <3>3. QED
            BY <2>1, <2>2, <3>1, <3>2, DescriptorsAfter
    <2>5. QED
        BY <1>7, <2>3, <2>4, CheckFacts
<1>8. QED
    BY <1>2, <1>3, <1>4, <1>5, <1>6, <1>7 DEF FirstStep

\* The list of pages and the cached pages.
LEMMA CacheStepsCount ==
    ASSUME TypeOK, LeakInv, NEW t \in Threads,
           ScanPages(t) \/ MarkPage(t) \/ OpenCached(t) \/ SendCached(t)
    PROVE  LeakInv'
<1>1. fds \in Int /\ NotFoundYet(t)
    BY DEF TypeOK, LeakInv
<1>2. CASE ScanPages(t)
    <2>1. fds' = fds + 1 /\ Uses(t) = 1 /\ Uses(t)' = 2
        BY <1>2, FoundFacts, UsesAt, UsesAfter DEF ScanPages, Take
    <2>2. Others(t) /\ req[t].pc # "done" /\ NotFoundYet(t)'
        BY <1>2, FoundFacts DEF NotFoundYet
    <2>3. QED
        BY <1>1, <2>1, <2>2, EvenStep
<1>3. CASE MarkPage(t)
    <2>1. fds' = fds - 1 /\ Uses(t) = 2 /\ Uses(t)' = 1
        BY <1>3, MarkFacts, UsesAt, UsesAfter DEF Moves, Give
    <2>2. Others(t) /\ req[t].pc # "done" /\ NotFoundYet(t)'
        BY <1>3, MarkFacts DEF NotFoundYet, Moves
    <2>3. QED
        BY <1>1, <2>1, <2>2, EvenStep
<1>4. CASE OpenCached(t)
    <2>1. \/ fds' = fds - 1 /\ Uses(t)' = 0
          \/ fds' = fds + 1 /\ Uses(t)' = 2
        BY <1>4, OpenFacts, UsesAfter DEF Replied, Moves, Give, Take
    <2>2. Others(t) /\ req[t].pc # "done" /\ NotFoundYet(t)' /\ Uses(t) = 1
        BY <1>4, OpenFacts, UsesAt DEF NotFoundYet, Replied, Moves
    <2>3. QED
        BY <1>1, <2>1, <2>2, EvenStep
<1>5. CASE SendCached(t)
    <2>1. \/ fds' = fds - 2 /\ Uses(t)' = 0
          \/ fds' = fds /\ Uses(t)' = 2
        BY <1>5, SentFacts, UsesAfter DEF Moves, Give
    <2>2. Others(t) /\ req[t].pc # "done" /\ NotFoundYet(t)' /\ Uses(t) = 2
        BY <1>5, SentFacts, UsesAt DEF NotFoundYet, Moves
    <2>3. QED
        BY <1>1, <2>1, <2>2, EvenStep
<1>6. QED
    BY <1>2, <1>3, <1>4, <1>5

\* The origin, whose socket stays open.
LEMMA FetchStepsCount ==
    ASSUME TypeOK, PagesInv, ServedInv, LeakInv, NEW t \in Threads,
           FetchFails(t) \/ Connect(t) \/ Receive(t) \/ OriginCloses(t)
    PROVE  LeakInv'
<1>1. fds \in Int /\ NotFoundYet(t)
    BY DEF TypeOK, LeakInv
<1>2. /\ Others(t) /\ req[t].pc \in {"connect", "fetch"}
      /\ ~req[t].found /\ req[t].addr # NoAddress
    <2>1. Others(t) /\ req[t].pc \in {"connect", "fetch"}
        BY FailsFacts, ConnectFacts, ReceiveEffect, CloseEffect
    <2>2. QED
        BY <1>1, <2>1, ConstantsAssumption DEF NotFoundYet, ServedInv, Passed
<1>3. ASSUME req'[t].pc = "done", req'[t].found = req[t].found,
             req'[t].addr = req[t].addr
      PROVE  t \in Leakers' /\ Uses(t)' = 0 /\ NotFoundYet(t)'
    BY <1>2, <1>3, UsesAfter DEF Leakers, NotFoundYet
<1>4. CASE FetchFails(t)
    <2>1. /\ req'[t].pc = "done" /\ req'[t].found = req[t].found
          /\ req'[t].addr = req[t].addr /\ Uses(t) = 1
          /\ fds' = fds - 1 \/ fds' = fds
        BY <1>4, FailsFacts, UsesAt DEF Replied, Give
    <2>2. \E d \in 0..1 : fds' = fds + Uses(t)' - Uses(t) + d
        BY <1>1, <1>3, <2>1
    <2>3. QED
        BY <1>2, <1>3, <2>1, <2>2, DescriptorsAfter
<1>5. CASE Connect(t)
    <2>1. fds' = fds + 2 /\ Uses(t) = 1 /\ Uses(t)' = 3 /\ NotFoundYet(t)'
        BY <1>2, <1>5, ConnectFacts, UsesAt, UsesAfter DEF Moves, Take, NotFoundYet
    <2>2. QED
        BY <1>1, <1>2, <2>1, EvenStep
<1>6. CASE Receive(t)
    <2>1. fds' = fds /\ Uses(t) = 3 /\ Uses(t)' = 3 /\ NotFoundYet(t)'
        BY <1>2, <1>6, ReceiveEffect, UsesAt, UsesAfter DEF Receive, NotFoundYet
    <2>2. QED
        BY <1>1, <1>2, <2>1, EvenStep
<1>7. CASE OriginCloses(t)
    <2>1. /\ req'[t].pc = "done" /\ req'[t].found = req[t].found
          /\ req'[t].addr = req[t].addr /\ Uses(t) = 3 /\ fds' = fds - 2
        BY <1>7, ClosedFacts, UsesAt DEF OriginCloses, Give
    <2>2. fds' = fds + Uses(t)' - Uses(t) + 1
        BY <1>1, <1>3, <2>1
    <2>3. QED
        BY <1>2, <1>3, <2>1, <2>2, DescriptorsAfter
<1>8. QED
    BY <1>4, <1>5, <1>6, <1>7

\* The process ends, and with it all descriptors are closed.
LEMMA RestartCounts ==
    ASSUME TypeOK, LeakInv, NEW S, IsFiniteSet(S), Restart(S)
    PROVE  LeakInv'
<1>1. \A t \in Threads :
        \/ t \notin S /\ req[t].pc \in {"idle", "done"} /\ req'[t] = req[t]
        \/ req'[t].pc = "killed" /\ (t \in S \/ req[t].pc # "idle")
    BY RestartFacts
<1>2. Arrived' \subseteq Arrived \cup S
    BY <1>1 DEF Arrived
<1>3. IsFiniteSet(Arrived')
    BY <1>2, FS_Union, FS_Subset DEF LeakInv
<1>4. Connected' = {} /\ Second' = {} /\ Third' = {}
    BY <1>1 DEF Connected, Second, Third
<1>5. Cardinality(Leakers') \in Nat
    <2>1. Leakers' \subseteq Arrived'
        BY DEF Leakers, Arrived
    <2>2. QED
        BY <1>3, <2>1, FS_Subset, FS_CardinalityType
<1>6. \E l \in 0..Cardinality(Leakers') :
        fds' = Cardinality(Connected') + Cardinality(Second') + Cardinality(Third') + l
    <2>1. fds' = 0 /\ Cardinality({}) = 0
        BY FS_EmptySet DEF Restart
    <2>2. QED
        BY <1>4, <1>5, <2>1
<1>7. \A t \in Threads : NotFoundYet(t)'
    BY <1>1 DEF LeakInv, NotFoundYet
<1>8. QED
    BY <1>3, <1>6, <1>7 DEF LeakInv

\* Every step.
LEMMA NextCounts ==
    ASSUME TypeOK, PagesInv, ServedInv, LeakInv, [Next]_vars
    PROVE  LeakInv'
<1>1. ASSUME Restart({})
      PROVE  LeakInv'
    BY <1>1, FS_EmptySet, RestartCounts
<1>2. ASSUME NEW t \in Threads, Restart({t})
      PROVE  LeakInv'
    BY <1>2, FS_Singleton, RestartCounts
<1>3. CASE UNCHANGED vars
    BY <1>3 DEF LeakInv, NotFoundYet, Arrived, Connected, Second, Third, Leakers, vars
<1>4. ASSUME NEW t \in Threads, ThreadStep(t)
      PROVE  LeakInv'
    BY <1>1, <1>4, FirstStepsCount, CacheStepsCount, FetchStepsCount
    DEF ThreadStep, FirstStep, NoFile, NoToken
<1>5. QED
    BY <1>1, <1>2, <1>3, <1>4, FirstStepsCount DEF FirstStep, Next, NoRequest, Kill

LEMMA InitCounts ==
    ASSUME Init
    PROVE  LeakInv
<1>1. ASSUME NEW t \in Threads
      PROVE  req[t].pc = "idle" /\ ~req[t].found
    BY DEF Init, Idle
<1>2. Arrived = {} /\ Connected = {} /\ Second = {} /\ Third = {} /\ Leakers = {}
    BY <1>1 DEF Arrived, Connected, Second, Third, Leakers
<1>3. IsFiniteSet({}) /\ Cardinality({}) = 0 /\ fds = 0
    BY FS_EmptySet DEF Init
<1>4. \E l \in 0..Cardinality(Leakers) :
        fds = Cardinality(Connected) + Cardinality(Second) + Cardinality(Third) + l
    BY <1>2, <1>3
<1>5. QED
    BY <1>1, <1>2, <1>3, <1>4 DEF LeakInv, NotFoundYet

LEMMA LeaksCounted == Spec => []LeakInv
<1>1. TypeOK /\ PagesInv /\ ServedInv /\ LeakInv /\ [Next]_vars => LeakInv'
    BY NextCounts
<1>2. QED
    BY <1>1, InitCounts, TypeCorrect, PagesCorrect, ServedCorrect, PTL DEF Spec

\* Between requests the descriptors left behind are at most one for each request
\* that got as far as the address of its host and was not answered from the
\* cache: the blacklist of a refused one, or the socket of one that went to its
\* origin, connected or not.
THEOREM LeaksOnePerRequest == Spec => []LeaksBounded
<1>1. ASSUME TypeOK, LeakInv, \A t \in Threads : req[t].pc \in {"idle", "done", "killed"}
      PROVE  fds \in 0..Cardinality(Leakers)
    <2>1. Connected = {} /\ Second = {} /\ Third = {}
        BY <1>1 DEF Connected, Second, Third
    <2>2. Cardinality(Leakers) \in Nat
        BY <1>1, FiniteCounts, FS_CardinalityType DEF LeakInv
    <2>3. QED
        BY <1>1, <2>1, <2>2, FS_EmptySet DEF LeakInv
<1>2. TypeOK /\ LeakInv => LeaksBounded
    BY <1>1 DEF LeaksBounded, Leakers
<1>3. QED
    BY <1>2, TypeCorrect, LeaksCounted, PTL
=============================================================================
