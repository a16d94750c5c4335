------------------------------ MODULE WebProxy ------------------------------
(***************************************************************************)
(* The web proxy of PA3 (webproxy.c): main accepts connections and runs    *)
(* proxy() for each in a thread of its own.  The threads share three files *)
(* under one mutex each (hostname_ip.txt, blacklist.txt, page_avail.txt)   *)
(* and the page files of cache/, which have none, and the table of         *)
(* descriptors.  The files outlive the process, which is stopped by        *)
(* killing it, or ends by itself when a file cannot be opened or a client  *)
(* sends nothing; then it is started again.                                *)
(*                                                                         *)
(* A thread serves one request.  It cuts the request, and then the lines   *)
(* of hostname_ip.txt, with strtok, which keeps one cursor for the whole   *)
(* process: when two threads are at it at once, the calls of one continue  *)
(* in the string of the other, and both are torn.  What a torn thread      *)
(* reads is left open.  The resolver and the origin servers are external:  *)
(* a host may have another address, or none, each time it is looked up,    *)
(* and an origin may refuse the connection or close it at any point of its *)
(* response.                                                               *)
(***************************************************************************)
EXTENDS Integers, FiniteSets, SequencesExt

CONSTANTS
    Threads,        \* the threads, one for each request, in main's order
    Urls,           \* the URLs that are asked for
    Hosts,          \* host names, and addresses used as such
    HostOf,         \* the host of each URL
    Addresses,
    Answers,        \* the addresses the resolver may give a host
    Page,           \* the response to each URL, a sequence of chunks
    Chunks,
    Blacklist,      \* the lines of blacklist.txt
    Free,           \* "owner" of an unlocked mutex
    NoAddress,      \* a host the resolver does not know
    MaxFds          \* how many descriptors connections and files can have

ASSUME RequestsAssumption ==
    /\ Urls # {}
    /\ HostOf \in [Urls -> Hosts]
    /\ Answers \in [Hosts -> SUBSET Addresses]
    /\ Page \in [Urls -> Seq(Chunks)]

ASSUME ConstantsAssumption ==
    /\ Threads \subseteq Nat
    /\ Free \notin Threads
    /\ NoAddress \notin Addresses
    /\ MaxFds \in Nat

VARIABLES
    req,        \* the locals of each thread, and what its client was sent
    lock,       \* ip_lock, black_lock, pg_lock: which thread holds it
    names,      \* the lines of hostname_ip.txt
    pages,      \* page_avail.txt: the URLs whose hash is listed
    saved,      \* the URLs that have a file in cache/
    store,      \* what it contains
    fds,        \* the descriptors in use, besides those of main
    torn,       \* the threads whose strtok calls were mixed with another's
    whole       \* history: was the page cached in full when it was asked for,
                \* and did the thread find a descriptor when it needed one?

files == <<names, pages, saved, store>>
vars  == <<req, lock, files, fds, torn, whole>>

-----------------------------------------------------------------------------
Locks == {"ip", "black", "pg"}

\* Mutant: the text of 404 is left in its buffer.
NotFound404 == <<"404">>

\* The replies that are not pages.  The text of 403 is what a client gets when
\* its host is not found: it is copied over that of 404, and the buffer meant
\* for it is sent as it is, uninitialised.
Error500   == <<"500">>
NotFound   == <<"403">>
Forbidden  == <<"junk">>

Idle == [pc |-> "idle", url |-> CHOOSE u \in Urls : TRUE, addr |-> NoAddress,
         found |-> FALSE, out |-> <<>>, buf |-> <<>>]

Host(t) == HostOf[req[t].url]

Init ==
    /\ req = [t \in Threads |-> Idle]
    /\ lock = [l \in Locks |-> Free]
    /\ names = <<>>
    /\ pages = {}
    /\ saved = {}
    /\ store = [u \in Urls |-> <<>>]
    /\ fds = 0
    /\ torn = {}
    /\ whole = [t \in Threads |-> FALSE]

\* Thread t is at pc and goes on as described by the record r.
Goto(t, pc, r) ==
    /\ req[t].pc = pc
    /\ req' = [req EXCEPT ![t] = r]

\* n descriptors are taken, if there are as many, or given back.
Take(n) == fds + n <= MaxFds /\ fds' = fds + n
Give(n) == fds' = fds - n
Full    == fds = MaxFds

\* The process ends, with its threads, mutexes, buffers and descriptors, and
\* is started again; the threads S are those of requests that ended it.
Restart(S) ==
    /\ req' = [t \in Threads |->
                IF t \notin S /\ req[t].pc \in {"idle", "done"} THEN req[t]
                ELSE [Idle EXCEPT !.pc = "killed"]]
    /\ lock' = [l \in Locks |-> Free]
    /\ fds' = 0
    /\ UNCHANGED <<files, torn, whole>>

\* The thread has answered its client and closes the connection.
Answered(t, reply) == [req[t] EXCEPT !.pc = "done", !.out = reply]

\* Mutant: the mutex is taken whoever holds it.
AcquireBlind(t, l, from, to) ==
    /\ Goto(t, from, [req[t] EXCEPT !.pc = to])
    /\ lock' = [lock EXCEPT ![l] = t]
    /\ UNCHANGED <<files, fds, torn, whole>>

\* pthread_mutex_lock.
Acquire(t, l, from, to) ==
    /\ lock[l] = Free
    /\ Goto(t, from, [req[t] EXCEPT !.pc = to])
    /\ lock' = [lock EXCEPT ![l] = t]
    /\ UNCHANGED <<files, fds, torn, whole>>

Release(l) == lock' = [lock EXCEPT ![l] = Free]

-----------------------------------------------------------------------------
(* The request.                                                            *)

\* The threads that are between the first and the last of their strtok calls.
Cutting == {t \in Threads : req[t].pc \in {"parse", "scan names"}}

\* Thread t makes the first of its calls: if other threads are not at their
\* last, the calls of all of them are mixed.
Cuts(t) == torn' = torn \cup (IF Cutting = {} THEN {} ELSE Cutting \cup {t})

\* Main accepts one connection after the other.
IsNext(t) == \A r \in Threads : r < t => req[r].pc # "idle"

\* A client connects and asks for u.
Accept(t, u) ==
    /\ IsNext(t)
    /\ Goto(t, "idle", [Idle EXCEPT !.pc = "parse", !.url = u])
    /\ Take(1)
    /\ Cuts(t)
    /\ whole' = [whole EXCEPT ![t] = u \in saved /\ store[u] = Page[u]]
    /\ UNCHANGED <<lock, files>>

\* The request is cut into its parts.  Those of a torn one may be of another.
Parse(t) ==
    /\ \E u \in Urls :
        /\ t \in torn \/ u = req[t].url
        /\ Goto(t, "parse", [req[t] EXCEPT !.pc = "lock ip", !.url = u])
    /\ UNCHANGED <<lock, files, fds, torn, whole>>

\* It turns out to be something else than a GET: the connection is closed.
Ignore(t) ==
    /\ Goto(t, "parse", [req[t] EXCEPT !.pc = "done"])
    /\ Give(1)
    /\ whole' = [whole EXCEPT ![t] = FALSE]
    /\ UNCHANGED <<lock, files, torn>>

\* The buffer holds no request, because accept found no descriptor or the
\* client sent nothing: the copy of the name it lacks ends the process.
NoRequest(t) ==
    /\ IsNext(t)
    /\ req[t].pc = "idle"
    /\ Restart({t})

\* A call of a torn thread may find nothing left of the other's string: the
\* null pointer it returns ends the process.
NoToken(t) ==
    /\ t \in torn
    /\ req[t].pc \in {"parse", "scan names"}
    /\ Restart({})

-----------------------------------------------------------------------------
(* check_hostname_cache.                                                   *)

LockNames(t) == Acquire(t, "ip", "lock ip", "open names")

\* Without a descriptor fopen fails, and fclose(NULL) ends the process, at the
\* latest, here and in check_cache_avail.
NoFile(t) ==
    /\ req[t].pc \in {"open names", "scan pages"}
    /\ Full
    /\ Restart({})

\* The file is opened and its first line cut.
OpenNames(t) ==
    /\ Goto(t, "open names", [req[t] EXCEPT !.pc = "scan names"])
    /\ Take(1)
    /\ Cuts(t)
    /\ UNCHANGED <<lock, files, whole>>

\* The lines that have n as their host or as their address.
Matching(n) == {i \in DOMAIN names : n \in {names[i][1], names[i][2]}}

\* What may be found: the address of the first line that matches; the name or
\* the address may have been cut out of another thread's string if t is torn.
Found(t) ==
    LET M == Matching(Host(t))
    IN  IF t \in torn THEN Addresses
        ELSE {names[i][2] : i \in {i \in M : \A j \in M : i <= j}}

\* The file is read until a line matches: its address is the result, and the
\* file is closed.  If none does, or t is torn and misses it, it stays open.
ScanNames(t) ==
    /\ \/ /\ t \in torn \/ Matching(Host(t)) = {}
          /\ Goto(t, "scan names", [req[t] EXCEPT !.pc = "resolve"])
          /\ UNCHANGED <<lock, fds>>
       \/ \E a \in Found(t) :
          /\ Goto(t, "scan names", [req[t] EXCEPT !.pc = "lock black", !.addr = a])
          /\ Release("ip")
          /\ Give(1)
    /\ UNCHANGED <<files, torn, whole>>

\* Mutant: the function returns early when the host is not known.
ResolveEarly(t) ==
    \/ /\ Goto(t, "resolve", Answered(t, NotFound))
       /\ Give(2)
       /\ UNCHANGED <<lock, files, torn, whole>>
    \/ \E a \in Answers[Host(t)] :
        /\ Goto(t, "resolve", [req[t] EXCEPT !.pc = "lock black", !.addr = a])
        /\ names' = Append(names, <<Host(t), a>>)
        /\ Release("ip")
        /\ Give(1)
        /\ UNCHANGED <<pages, saved, store, torn, whole>>

\* Mutant: the line is not written.
ResolveForgotten(t) ==
    \/ /\ Goto(t, "resolve", Answered(t, NotFound))
       /\ Release("ip")
       /\ Give(2)
       /\ UNCHANGED <<files, torn, whole>>
    \/ \E a \in Answers[Host(t)] :
        /\ Goto(t, "resolve", [req[t] EXCEPT !.pc = "lock black", !.addr = a])
        /\ Release("ip")
        /\ Give(1)
        /\ UNCHANGED <<files, torn, whole>>

\* gethostbyname: a host that is not known ends the request; the address of
\* one that is goes at the end of the file, and out with fclose.
Resolve(t) ==
    \/ /\ Goto(t, "resolve", Answered(t, NotFound))
       /\ Release("ip")
       /\ Give(2)
       /\ UNCHANGED <<files, torn, whole>>
    \/ \E a \in Answers[Host(t)] :
        /\ Goto(t, "resolve", [req[t] EXCEPT !.pc = "lock black", !.addr = a])
        /\ names' = Append(names, <<Host(t), a>>)
        /\ Release("ip")
        /\ Give(1)
        /\ UNCHANGED <<pages, saved, store, torn, whole>>

-----------------------------------------------------------------------------
(* check_blacklist.                                                        *)

LockBlacklist(t) == Acquire(t, "black", "lock black", "check")

\* A listed host or address is refused, and the function returns with the
\* mutex locked and the file open.  Without a descriptor for the file every
\* host is refused.
CheckBlacklist(t) ==
    LET listed == {Host(t), req[t].addr} \cap Blacklist # {}
    IN  /\ \/ /\ Full
              /\ Goto(t, "check", Answered(t, Forbidden))
              /\ Give(1)
              /\ whole' = [whole EXCEPT ![t] = FALSE]
              /\ UNCHANGED lock
           \/ /\ ~Full /\ listed
              /\ Goto(t, "check", Answered(t, Forbidden))
              /\ UNCHANGED <<lock, fds, whole>>
           \/ /\ ~Full /\ ~listed
              /\ Goto(t, "check", [req[t] EXCEPT !.pc = "lock pg"])
              /\ Release("black")
              /\ UNCHANGED <<fds, whole>>
        /\ UNCHANGED <<files, torn>>

-----------------------------------------------------------------------------
(* check_cache_avail.                                                      *)

LockPages(t) == Acquire(t, "pg", "lock pg", "scan pages")

\* Mutant: the newline is left on the lines, and none compares equal.
ScanPagesNewline(t) ==
    /\ Goto(t, "scan pages", [req[t] EXCEPT !.pc = "mark", !.found = FALSE])
    /\ Take(1)
    /\ UNCHANGED <<lock, files, torn, whole>>

\* Is the hash of the URL listed?
ScanPages(t) ==
    /\ Goto(t, "scan pages", [req[t] EXCEPT !.pc = "mark",
                                            !.found = req[t].url \in pages])
    /\ Take(1)
    /\ UNCHANGED <<lock, files, torn, whole>>

\* If not it is added, before there is a page; the file is closed in any case.
MarkPage(t) ==
    /\ Goto(t, "mark", [req[t] EXCEPT !.pc = IF req[t].found THEN "open" ELSE "connect"])
    /\ pages' = pages \cup (IF req[t].found THEN {} ELSE {req[t].url})
    /\ Release("pg")
    /\ Give(1)
    /\ UNCHANGED <<names, saved, store, torn, whole>>

-----------------------------------------------------------------------------
(* send_cached.                                                            *)

\* The page file is opened; without one, or without a descriptor for it, the
\* answer is an error.
OpenCached(t) ==
    \/ /\ Full \/ req[t].url \notin saved
       /\ Goto(t, "open", Answered(t, Error500))
       /\ Give(1)
       /\ whole' = [whole EXCEPT ![t] = FALSE]
       /\ UNCHANGED <<lock, files, torn>>
    \/ /\ req[t].url \in saved
       /\ Goto(t, "open", [req[t] EXCEPT !.pc = "send"])
       /\ Take(1)
       /\ UNCHANGED <<lock, files, torn, whole>>

\* What is left of the file when t has sent so much of it.
Unsent(t) == Len(req[t].out) < Len(store[req[t].url])

\* Mutant: the file is not closed.
SendCachedOpen(t) ==
    /\ \/ /\ Unsent(t)
          /\ Goto(t, "send", [req[t] EXCEPT !.out =
                                Append(@, store[req[t].url][Len(@) + 1])])
          /\ UNCHANGED fds
       \/ /\ ~Unsent(t)
          /\ Goto(t, "send", [req[t] EXCEPT !.pc = "done"])
          /\ Give(1)
    /\ UNCHANGED <<lock, files, torn, whole>>

\* The next chunk of the file is read and sent; at the end of the file, which
\* another thread may be writing, the reply is over.
SendCached(t) ==
    /\ \/ /\ Unsent(t)
          /\ Goto(t, "send", [req[t] EXCEPT !.out =
                                Append(@, store[req[t].url][Len(@) + 1])])
          /\ UNCHANGED fds
       \/ /\ ~Unsent(t)
          /\ Goto(t, "send", [req[t] EXCEPT !.pc = "done"])
          /\ Give(2)
    /\ UNCHANGED <<lock, files, torn, whole>>

-----------------------------------------------------------------------------
(* The origin server, and send_and_write_cache.                            *)

\* No socket, no connection, or no file in cache/ to write to: the answer is an
\* error.  A socket, if there is one, stays open.
FetchFails(t) ==
    /\ Goto(t, "connect", Answered(t, Error500))
    /\ IF Full THEN Give(1) ELSE UNCHANGED fds
    /\ UNCHANGED <<lock, files, torn, whole>>

\* The request goes to the origin and the page file is created.
Connect(t) ==
    /\ Goto(t, "connect", [req[t] EXCEPT !.pc = "fetch"])
    /\ Take(2)
    /\ saved' = saved \cup {req[t].url}
    /\ UNCHANGED <<lock, names, pages, store, torn, whole>>

\* Mutant: what was written to the file stays in the buffer.
ReceiveAgain(t) ==
    LET u == req[t].url
        n == Len(req[t].out)
        q == Append(req[t].buf, Page[u][n + 1])
    IN  /\ n < Len(Page[u])
        /\ \E i \in 0..Len(q) :
            /\ Goto(t, "fetch", [req[t] EXCEPT !.out = Append(@, Page[u][n + 1]),
                                               !.buf = IF i < Len(q) THEN q ELSE <<>>])
            /\ store' = [store EXCEPT ![u] = @ \o SubSeq(q, 1, i)]
        /\ UNCHANGED <<lock, names, pages, saved, fds, torn, whole>>

\* The next chunk of the response goes to the client and into the buffer of
\* the page file, some of which is written.
Receive(t) ==
    LET u == req[t].url
        n == Len(req[t].out)
        q == Append(req[t].buf, Page[u][n + 1])
    IN  /\ n < Len(Page[u])
        /\ \E i \in 0..Len(q) :
            /\ Goto(t, "fetch", [req[t] EXCEPT !.out = Append(@, Page[u][n + 1]),
                                               !.buf = SubSeq(q, i + 1, Len(q))])
            /\ store' = [store EXCEPT ![u] = @ \o SubSeq(q, 1, i)]
        /\ UNCHANGED <<lock, names, pages, saved, fds, torn, whole>>

\* The origin closes the connection, early or not: fclose writes the rest.  The
\* socket of the origin stays open.
OriginCloses(t) ==
    /\ Goto(t, "fetch", [req[t] EXCEPT !.pc = "done", !.buf = <<>>])
    /\ store' = [store EXCEPT ![req[t].url] = @ \o req[t].buf]
    /\ Give(2)
    /\ UNCHANGED <<lock, names, pages, saved, torn, whole>>

-----------------------------------------------------------------------------
\* The user kills the process and starts it again.
Kill == Restart({})

ThreadStep(t) ==
    \/ Parse(t)
    \/ NoToken(t)
    \/ LockNames(t)
    \/ NoFile(t)
    \/ OpenNames(t)
    \/ ScanNames(t)
    \/ Resolve(t)
    \/ LockBlacklist(t)
    \/ CheckBlacklist(t)
    \/ LockPages(t)
    \/ ScanPages(t)
    \/ MarkPage(t)
    \/ OpenCached(t)
    \/ SendCached(t)
    \/ FetchFails(t)
    \/ Connect(t)
    \/ Receive(t)
    \/ OriginCloses(t)

Next ==
    \/ \E t \in Threads :
        \/ \E u \in Urls : Accept(t, u)
        \/ Ignore(t)
        \/ NoRequest(t)
        \/ ThreadStep(t)
    \/ Kill

\* The threads are scheduled for ever, and every origin goes on with its
\* response or closes the connection: the proxy sets no timeout.
Fairness == \A t \in Threads : WF_vars(ThreadStep(t))

Spec == Init /\ [][Next]_vars /\ Fairness

-----------------------------------------------------------------------------
(* Properties.                                                             *)

Pcs == {"idle", "parse", "lock ip", "open names", "scan names", "resolve", "lock black", "check",
        "lock pg", "scan pages", "mark", "open", "send", "connect", "fetch",
        "done", "killed"}

Replies == {"500", "403", "junk"}

Request == [pc : Pcs, url : Urls, addr : Addresses \cup {NoAddress},
            found : BOOLEAN, out : Seq(Chunks \cup Replies), buf : Seq(Chunks)]

\* Every variable has its type; the table of descriptors is never overdrawn.
TypeOK ==
    /\ req \in [Threads -> Request]
    /\ lock \in [Locks -> Threads \cup {Free}]
    /\ names \in Seq(Hosts \X Addresses)
    /\ pages \in SUBSET Urls
    /\ saved \in SUBSET Urls
    /\ store \in [Urls -> Seq(Chunks)]
    /\ fds \in Int /\ fds <= MaxFds
    /\ torn \in SUBSET Threads
    /\ whole \in [Threads -> BOOLEAN]

\* Thread t is to fetch its page from the origin, or is at it.
Fetching(t) == req[t].pc \in {"connect", "fetch"}

\* Two requests for a page that is not there yet do not both fetch it
\* (check_cache_avail looks the hash up and adds it under pg_lock,
\* webproxy.c:153-175).
OneFetch ==
    \A t, r \in Threads :
        Fetching(t) /\ Fetching(r) /\ req[t].url = req[r].url => t = r

\* The state of each page in the sense of PageCache.
PageState ==
    [u \in Urls |->
        IF u \notin pages THEN "unasked"
        ELSE IF \E t \in Threads : Fetching(t) /\ req[t].url = u THEN "filling"
        ELSE "settled"]

Cache == INSTANCE PageCache WITH state <- PageState, bytes <- store

\* The files of cache/ with page_avail.txt are a page cache: however requests
\* for the same page overlap, and when the proxy is killed and started again, a
\* page is filled at most once, in order, and never again touched
\* (webproxy.c:152-219).
ImplementsPageCache == Cache!Spec

\* A page that was in the cache in full when it was asked for is what the
\* client gets, if the thread is not torn and finds descriptors: neither its
\* host nor its origin being down matters.  Only after some thread was torn,
\* and a page came from an address its host does not have, can it be refused
\* instead; it is never fetched again or broken off (webproxy.c:57-99, 179-196).
WholePageServed ==
    \A t \in Threads : req[t].pc = "done" /\ whole[t] /\ t \notin torn =>
        \/ req[t].out = Page[req[t].url]
        \/ torn # {} /\ req[t].out \in {NotFound, Forbidden}

\* A host keeps the address it was first given, whatever the resolver says
\* afterwards, whichever requests look it up at once, and whatever the torn
\* threads among them find: none of that reaches the others through the file.
\* A thread is torn if another one cuts its request or a line while it does
\* (webproxy.c:68-98, 229-276).
AddressStable ==
    \A t, r \in Threads \ torn :
        /\ Host(t) = Host(r)
        /\ req[t].addr # NoAddress
        /\ req[r].addr # NoAddress
        => req[t].addr = req[r].addr

\* Between requests the descriptors in use are at most one for each request that
\* got as far as the address of its host and was not answered from the cache:
\* the blacklist of a refused one, the socket of one that went to an origin,
\* connected or not.  A reply from the cache or about an unknown host leaves
\* none behind, on no path (webproxy.c:98, 115-117, 174, 186-194, 300-330).
LeaksBounded ==
    (\A t \in Threads : req[t].pc \in {"idle", "done", "killed"}) =>
        fds \in 0..Cardinality({t \in Threads :
            req[t].pc = "done" /\ ~req[t].found /\ req[t].addr # NoAddress})

\* black_lock is held by a thread that has ended: nobody will unlock it.
BlackLockLost == \E t \in Threads : lock["black"] = t /\ req[t].pc = "done"

\* Nothing but a lost black_lock makes a request wait for ever: until it is
\* lost, there is always again a moment at which every request that was made is
\* answered or ended with the proxy, however many there are (webproxy.c:67, 104,
\* 153).
HangsOnlyBehindBlacklist ==
    []<>(BlackLockLost \/ \A t \in Threads : req[t].pc \in {"idle", "done", "killed"})

\* Every request is answered, unless the proxy ends (the first comment of
\* webproxy.c: "A multithreaded web proxy for GET commands").
RequestsFinish ==
    \A t \in Threads : req[t].pc # "idle" ~> req[t].pc \in {"done", "killed"}
=============================================================================
