------------------------------ MODULE DfsLogin ------------------------------
(***************************************************************************)
(* Login to the distributed file system of PA4: a client connects to the   *)
(* servers, sends its user name and password to one after the other,       *)
(* and then its name to all.  The thread of a server that serves it cuts   *)
(* what it read, and the lines of dfs.conf, with strtok, whose cursor all  *)
(* threads of the server share, also those that answer GET; it admits the  *)
(* client or ends the whole server.                                        *)
(*                                                                         *)
(* Strings are scaled bytes (Strtok).  A server that is off was never      *)
(* started; one that runs may have connections of clients that have left,  *)
(* which it never closes.  Users may kill their clients.                   *)
(***************************************************************************)
EXTENDS Naturals, FiniteSets, SequencesExt, Strtok

CONSTANTS
    Servers,        \* numbered in the order of dfc.conf
    Clients,
    User, Pass,     \* what the dfc.conf of each client says of its user
    Ports,          \* ... and of the servers
    Conf,           \* dfs.conf: a sequence of users and passwords
    MaxFds,         \* how many descriptors each server has for what follows
    Past,           \* how many connections of earlier clients it may still hold
    MaxKills,       \* bound: clients killed by their users
    MaxGets         \* bound: entries that GETs look at

ASSUME NamesAssumption ==
    /\ Servers \subseteq Nat
    /\ IsFiniteSet(Servers)
    /\ {User, Pass} \subseteq [Clients -> STRING \ {"", NUL, ",", " ", "\n"}]
    /\ Ports \in [Clients -> SUBSET Servers]
    /\ Conf \in Seq((STRING \ {"", NUL, " ", "\n"}) \X (STRING \ {"", NUL, "\n"}))

ASSUME BoundsAssumption ==
    /\ IsFiniteSet(Clients)
    /\ MaxFds \in [Servers -> Nat]
    /\ Past \in [Servers -> SUBSET Nat]
    /\ \A s \in Servers : \A n \in Past[s] : n <= MaxFds[s]
    /\ {MaxKills, MaxGets} \subseteq Nat

VARIABLES
    up,             \* each server: "on", "off", or "down" if it has ended
    fds,            \* each server's connections, which it never closes
    th,             \* the locals of each server's threads
    mem,            \* the buffers of each server's threads
    cur,            \* each server's cursor of strtok
    inbox, answer,  \* the two directions of each connection
    dirs,           \* the directories of each server
    cl,             \* each client's place, and the servers it still has to do
    kills, gets,    \* clients that were killed, entries looked at by GET
    mixed,          \* history: threads whose strtok calls were interrupted
    number          \* history: the piece number that a thread has sent

vars == <<up, fds, th, mem, cur, inbox, answer, dirs, cl, kills, gets, mixed,
          number>>

Buffers == Clients \X {"buf", "line", "path"}

Empty  == [pc |-> "none", user |-> NULL, pass |-> NULL, entry |-> NULL, n |-> 0]
AtHome == [pc |-> "start", socks |-> {}, todo |-> {}, cred |-> FALSE]

Init ==
    /\ up \in [Servers -> {"on", "off"}]
    /\ fds \in {f \in [Servers -> UNION Range(Past)] :
                    \A s \in Servers : f[s] \in Past[s]}
    /\ th = [s \in Servers |-> [t \in Clients |-> Empty]]
    /\ mem = [s \in Servers |-> [b \in Buffers |-> <<>>]]
    /\ cur = [s \in Servers |-> NULL]
    /\ inbox = [s \in Servers |-> [c \in Clients |-> <<>>]]
    /\ answer = [s \in Servers |-> [c \in Clients |-> ""]]
    /\ dirs = [s \in Servers |-> {}]
    /\ cl = [c \in Clients |-> AtHome]
    /\ kills = 0
    /\ gets = 0
    /\ mixed = [s \in Servers |-> {}]
    /\ number = [s \in Servers |-> [c \in Clients |-> <<>>]]

\* The process of a client has ended, and the kernel has closed its sockets.
Gone(t) == cl[t].pc \in {"out", "dead"}

-----------------------------------------------------------------------------
(* The client.                                                             *)

serverVars == <<up, fds, th, mem, cur, dirs, gets, mixed, number>>

\* The loops over sockfds[] go on with the next server, and then to pc.
NextServer(r, pc) ==
    LET left == r.todo \ {Min(r.todo)}
    IN  IF left = {} THEN [r EXCEPT !.pc = pc, !.todo = r.socks]
                     ELSE [r EXCEPT !.todo = left]

\* Mutant: sockfds[i] != -1 is not tested.
ConnectBlind(c) ==
    /\ cl[c].pc = "start"
    /\ cl' = [cl EXCEPT ![c] = [@ EXCEPT !.pc = "greet", !.todo = Ports[c],
                                         !.socks = {s \in Ports[c] : up[s] = "on"}]]
    /\ UNCHANGED <<serverVars, inbox, answer, kills>>

\* open_socket for every server of dfc.conf.
Connect(c) ==
    /\ cl[c].pc = "start"
    /\ LET S == {s \in Ports[c] : up[s] = "on"}
       IN  cl' = [cl EXCEPT ![c] = [@ EXCEPT !.pc = IF S = {} THEN "out" ELSE "greet",
                                             !.socks = S, !.todo = S]]
    /\ UNCHANGED <<serverVars, inbox, answer, kills>>

\* write(sockfds[i], q): the socket of a server that has ended may raise SIGPIPE.
WriteTo(c, q, r) ==
    LET s == Min(cl[c].todo)
    IN  IF up[s] = "on"
        THEN /\ inbox' = [inbox EXCEPT ![s][c] = Append(@, q)]
             /\ cl' = [cl EXCEPT ![c] = r]
        ELSE /\ cl' \in {[cl EXCEPT ![c] = r], [cl EXCEPT ![c].pc = "dead"]}
             /\ UNCHANGED inbox

\* The next server is sent user name and password ...
Greet(c) ==
    /\ cl[c].pc = "greet"
    /\ WriteTo(c, <<User[c], ",", Pass[c]>>, [cl[c] EXCEPT !.pc = "wait"])
    /\ UNCHANGED <<serverVars, answer, kills>>

\* ... and one that admits the client suffices.  A server that ends may take
\* its answer with it.
Wait(c) ==
    LET s == Min(cl[c].todo)
    IN  /\ cl[c].pc = "wait"
        /\ \E a \in {answer[s][c]} \cup (IF up[s] = "on" THEN {} ELSE {""}) :
            /\ up[s] = "on" => a # ""
            /\ LET r == [cl[c] EXCEPT !.cred = @ \/ a = "1", !.pc = "greet"]
               IN  cl' = [cl EXCEPT ![c] = NextServer(r, IF r.cred THEN "names" ELSE "out")]
        /\ UNCHANGED <<serverVars, inbox, answer, kills>>

\* The user name goes to every server, whether it has admitted the client or not.
SendName(c) ==
    /\ cl[c].pc = "names"
    /\ WriteTo(c, <<User[c]>>, NextServer(cl[c], "menu"))
    /\ UNCHANGED <<serverVars, answer, kills>>

\* The user kills the client.
Kill(c) ==
    /\ cl[c].pc \notin {"start", "out", "dead"}
    /\ kills < MaxKills
    /\ kills' = kills + 1
    /\ cl' = [cl EXCEPT ![c].pc = "dead"]
    /\ UNCHANGED <<serverVars, inbox, answer>>

-----------------------------------------------------------------------------
(* The server: connections.                                                *)

clientVars == <<inbox, cl, kills>>

\* Thread t of the running server s is at pc and goes on with the locals r.
At(s, t, pc)      == up[s] = "on" /\ th[s][t].pc = pc
Become(s, t, r)   == th' = [th EXCEPT ![s][t] = r]
Goto(s, t, pc, r) == At(s, t, pc) /\ Become(s, t, r)

\* exit(0), or a null pointer: all threads of s end.
Ends(s) == up' = [up EXCEPT ![s] = "down"]

\* The threads that have a file open: dfs.conf, or the pipe of ls.
Readers(s) ==
    {t \in Clients : \/ th[s][t].pc \in {"line", "word"} /\ th[s][t].n # 0
                     \/ th[s][t].pc \in {"cut2", "cut3"}}

\* The descriptors in use.
Used(s) == fds[s] + Cardinality(Readers(s))

\* accept gives the connection of t a thread.
Accept(s, t) ==
    /\ s \in cl[t].socks
    /\ Used(s) < MaxFds[s]
    /\ Goto(s, t, "none", [Empty EXCEPT !.pc = "creds"])
    /\ fds' = [fds EXCEPT ![s] = @ + 1]
    /\ UNCHANGED <<gets, up, mem, cur, dirs, answer, mixed, number, clientVars>>

\* Without a free descriptor accept fails, and main starts a thread all the
\* same: it reads nothing, as a client would that leaves at once.
AcceptFails(s) ==
    /\ up[s] = "on"
    /\ Used(s) = MaxFds[s]
    /\ Ends(s)
    /\ UNCHANGED <<gets, fds, th, mem, cur, dirs, answer, mixed, number, clientVars>>

-----------------------------------------------------------------------------
(* The server: credentials.                                                *)

\* Between these places and the next call of strtok a thread relies on the
\* cursor, and a call by t at s moves it.
Shares(s, t, k) ==
    /\ mem' = [mem EXCEPT ![s] = k.mem]
    /\ cur' = [cur EXCEPT ![s] = k.cur]
    /\ mixed' = [mixed EXCEPT ![s] = @ \cup
            {r \in Clients \ {t} : th[s][r].pc \in {"pass", "word", "cut2", "cut3"}}]

\* What read finds on the connection of t: a message, or nothing if the client
\* has gone; then the buffer is empty, as it was before (the stack of a thread
\* is fresh, because no thread ever ends).
Incoming(s, t) ==
    IF inbox[s][t] # <<>> THEN {Head(inbox[s][t])} ELSE IF Gone(t) THEN {<<>>} ELSE {}

Consume(s, t) ==
    inbox' = [inbox EXCEPT ![s][t] = IF @ = <<>> THEN @ ELSE Tail(@)]

\* read; user = strtok(buf, ","), which strcpy copies.
ReadCreds(s, t) ==
    /\ At(s, t, "creds")
    /\ \E q \in Incoming(s, t) :
       \E m \in {[mem[s] EXCEPT ![<<t, "buf">>] = q]} :
       \E k \in {Cut(m, <<<<t, "buf">>, 1>>, {","})} :
        /\ IF k.tok = NULL THEN Ends(s) /\ UNCHANGED th
           ELSE Become(s, t, [th[s][t] EXCEPT !.pc = "pass", !.user = k.tok]) /\ UNCHANGED up
        /\ Shares(s, t, k)
        /\ Consume(s, t)
        /\ UNCHANGED <<gets, fds, dirs, answer, number, cl, kills>>

\* t called strtok, with the result k, and goes on with the locals r.
Cuts(s, t, k, r) ==
    /\ Become(s, t, r)
    /\ Shares(s, t, k)
    /\ UNCHANGED <<up, fds, dirs, answer, number, clientVars>>

\* pass = strtok(NULL, ""), and dfs.conf is opened, to be read from line 1.
\* Without a descriptor it is not: then n stays 0, and the verdict is -1.
CutPass(s, t) ==
    /\ At(s, t, "pass")
    /\ \E k \in {Cut(mem[s], cur[s], {})} :
        Cuts(s, t, k, [th[s][t] EXCEPT !.pc = "line", !.pass = k.tok,
                                       !.n = IF Used(s) < MaxFds[s] THEN 1 ELSE 0])
    /\ UNCHANGED gets

ConfLine(n) == <<Conf[n][1], " ", Conf[n][2], "\n">>

\* getline, and u_i = strtok(line, " ").
CutUser(s, t) ==
    /\ At(s, t, "line")
    /\ th[s][t].n \in DOMAIN Conf
    /\ \E m \in {[mem[s] EXCEPT ![<<t, "line">>] = ConfLine(th[s][t].n)]} :
       \E k \in {Cut(m, <<<<t, "line">>, 1>>, {" "})} :
        Cuts(s, t, k, [th[s][t] EXCEPT !.pc = "word", !.entry = k.tok])
    /\ UNCHANGED gets

\* Mutant: only the user is compared.
VerdictOnUser(m, r, word) ==
    IF StringAt(m, r.user) = StringAt(m, r.entry) THEN "yes" ELSE "next"

\* The comparison with a line: passwords are compared only if the users agree,
\* and a null pointer cannot be.
Verdict(m, r, word) ==
    IF StringAt(m, r.user) # StringAt(m, r.entry)   THEN "next"
    ELSE IF NULL \in {r.pass, word}                 THEN "crash"
    ELSE IF StringAt(m, r.pass) = StringAt(m, word) THEN "yes"
                                                    ELSE "next"

\* p_i = strtok(NULL, "\n"), and the comparison; the answer 1, or on to the next
\* line.
CutWord(s, t) ==
    /\ At(s, t, "word")
    /\ \E k \in {Cut(mem[s], cur[s], {"\n"})} :
       \E v \in {Verdict(k.mem, th[s][t], k.tok)} :
        /\ Become(s, t, CASE v = "crash" -> th[s][t]
                          [] v = "yes"   -> [Empty EXCEPT !.pc = "name"]
                          [] v = "next"  -> [th[s][t] EXCEPT !.pc = "line", !.n = @ + 1])
        /\ up' = IF v = "crash" THEN [up EXCEPT ![s] = "down"] ELSE up
        /\ answer' = IF v = "yes" THEN [answer EXCEPT ![s][t] = "1"] ELSE answer
        /\ Shares(s, t, IF v = "yes" THEN [k EXCEPT !.mem[<<t, "buf">>] = <<>>] ELSE k)
        /\ UNCHANGED <<gets, fds, dirs, number, clientVars>>

\* After the last line, or without dfs.conf, the answer is -1 ...
Deny(s, t) ==
    /\ th[s][t].n \notin DOMAIN Conf
    /\ Goto(s, t, "line", [th[s][t] EXCEPT !.pc = "no"])
    /\ mem' = [mem EXCEPT ![s][<<t, "buf">>] = <<>>]
    /\ answer' = [answer EXCEPT ![s][t] = "-1"]
    /\ UNCHANGED <<gets, up, fds, cur, dirs, mixed, number, clientVars>>

\* Mutant: without exit(0) the thread goes on.
RefuseGoesOn(s, t) ==
    /\ Goto(s, t, "no", [th[s][t] EXCEPT !.pc = "name"])
    /\ UNCHANGED <<gets, up, fds, mem, cur, dirs, answer, mixed, number, clientVars>>

\* ... and exit(0) ends the server.
Refuse(s, t) ==
    /\ At(s, t, "no")
    /\ Ends(s)
    /\ UNCHANGED <<gets, fds, th, mem, cur, dirs, answer, mixed, number, clientVars>>

-----------------------------------------------------------------------------
(* The server: the directory of the user, and GET.                         *)

\* read of the name, whose directory is made or not.
NameRead(s, t, made) ==
    /\ \E q \in Incoming(s, t) :
        /\ mem' = [mem EXCEPT ![s][<<t, "buf">>] = q]
        /\ dirs' = [dirs EXCEPT ![s] = @ \cup IF made THEN {q} \ {<<>>} ELSE {}]
    /\ Goto(s, t, "name", [Empty EXCEPT !.pc = "loop"])
    /\ Consume(s, t)
    /\ UNCHANGED <<gets, up, fds, cur, answer, mixed, number, cl, kills>>

\* Mutant: there is no mkdir.
ReadNameOnly(s, t) == NameRead(s, t, FALSE)

\* stat of the directory of that name, and mkdir if there is none; two threads
\* that do this at once do it twice, without effect.  If the client has gone the
\* name is empty, and the directory that of the server itself.
ReadName(s, t) == NameRead(s, t, TRUE)

\* An entry of the directory: piece 1 of foo.txt, of which GET wants the 1.
Entry == <<".", "foo", ".", "txt", ".", "1">>

\* A client at its menu may type GET.
Typed(s, t) ==
    /\ At(s, t, "loop")
    /\ cl[t].pc = "menu"
    /\ gets < MaxGets
    /\ gets' = gets + 1

\* popen needs two descriptors for its pipe, of which one stays open; without
\* them it returns NULL, from which fgets reads.
GetFails(s, t) ==
    /\ Typed(s, t)
    /\ Used(s) + 2 > MaxFds[s]
    /\ Ends(s)
    /\ UNCHANGED <<fds, th, mem, cur, dirs, answer, mixed, number, clientVars>>

\* With the first entry of ls: strtok(path, ".") ...
GetCut(s, t) ==
    /\ Typed(s, t)
    /\ Used(s) + 2 <= MaxFds[s]
    /\ \E m \in {[mem[s] EXCEPT ![<<t, "path">>] = Entry, ![<<t, "buf">>] = <<"foo">>]} :
       \E k \in {Cut(m, <<<<t, "path">>, 1>>, {"."})} :
        Cuts(s, t, k, [th[s][t] EXCEPT !.pc = "cut2"])

\* Mutant: the second call is missing.
GetCut2Dropped(s, t) ==
    /\ Goto(s, t, "cut2", [th[s][t] EXCEPT !.pc = "cut3"])
    /\ UNCHANGED <<gets, up, fds, mem, cur, dirs, answer, mixed, number, clientVars>>

\* strtok(NULL, D) ...
GetCutBy(s, t, D) ==
    /\ At(s, t, "cut2")
    /\ \E k \in {Cut(mem[s], cur[s], D)} :
        Cuts(s, t, k, [th[s][t] EXCEPT !.pc = "cut3"])
    /\ UNCHANGED gets

\* Mutant: ... with no separators ...
GetCut2All(s, t) == GetCutBy(s, t, {})

\* ... with the dot ...
GetCut2(s, t) == GetCutBy(s, t, {"."})

\* ... and strtok(NULL, ""), whose length strlen takes.  The writes may raise
\* SIGPIPE if the client has gone.
GetCut3(s, t) ==
    /\ At(s, t, "cut3")
    /\ \E k \in {Cut(mem[s], cur[s], {})} :
        /\ IF k.tok = NULL
           THEN Ends(s) /\ UNCHANGED <<th, number>>
           ELSE /\ number' = [number EXCEPT ![s][t] = StringAt(k.mem, k.tok)]
                /\ \/ UNCHANGED up /\ Become(s, t, [th[s][t] EXCEPT !.pc = "loop"])
                   \/ Gone(t) /\ Ends(s) /\ UNCHANGED th
        /\ Shares(s, t, k)
        /\ UNCHANGED <<gets, fds, dirs, answer, clientVars>>

-----------------------------------------------------------------------------
\* What a thread does without waiting for the user.
ThreadStep(s, t) ==
    \/ Accept(s, t)
    \/ ReadCreds(s, t)
    \/ CutPass(s, t)
    \/ CutUser(s, t)
    \/ CutWord(s, t)
    \/ Deny(s, t)
    \/ Refuse(s, t)
    \/ ReadName(s, t)
    \/ GetCut2(s, t)
    \/ GetCut3(s, t)

\* What a client does once it was started.
ClientStep(c) == Greet(c) \/ Wait(c) \/ SendName(c)

Next ==
    \/ \E c \in Clients : Connect(c) \/ ClientStep(c) \/ Kill(c)
    \/ \E s \in Servers : AcceptFails(s)
    \/ \E s \in Servers, t \in Clients : ThreadStep(s, t) \/ GetCut(s, t) \/ GetFails(s, t)

\* Threads and clients are scheduled for ever; who starts or kills a client,
\* or types GET, may never do it.
Fairness ==
    /\ \A c \in Clients : WF_vars(ClientStep(c))
    /\ \A s \in Servers : WF_vars(AcceptFails(s))
    /\ \A s \in Servers, t \in Clients : WF_vars(ThreadStep(s, t))

Spec == Init /\ [][Next]_vars /\ Fairness

-----------------------------------------------------------------------------
(* Properties.                                                             *)

\* The bytes of the names and passwords, and of the other strings.
Bytes == {NUL, ",", " ", "\n", ".", "foo", "txt", "1"}
            \cup {User[c] : c \in Clients} \cup {Pass[c] : c \in Clients}
            \cup {Conf[n][1] : n \in DOMAIN Conf} \cup {Conf[n][2] : n \in DOMAIN Conf}

Pointer == {NULL} \cup (Buffers \X (Nat \ {0}))

Thread == [pc : {"none", "creds", "pass", "line", "word", "no", "name",
                 "loop", "cut2", "cut3"},
           user : Pointer, pass : Pointer, entry : Pointer,
           n : 0..(Len(Conf) + 1)]

Client == [pc : {"start", "greet", "wait", "names", "menu", "out", "dead"},
           socks : SUBSET Servers, todo : SUBSET Servers, cred : BOOLEAN]

\* Every variable has its type: no server has more connections than it can, and
\* the client only uses sockets that it has.
TypeOK ==
    /\ up \in [Servers -> {"on", "off", "down"}]
    /\ fds \in [Servers -> Nat] /\ \A s \in Servers : fds[s] <= MaxFds[s]
    /\ th \in [Servers -> [Clients -> Thread]]
    /\ mem \in [Servers -> [Buffers -> Seq(Bytes)]]
    /\ cur \in [Servers -> Pointer]
    /\ inbox \in [Servers -> [Clients -> Seq(Seq(Bytes))]]
    /\ answer \in [Servers -> [Clients -> {"", "1", "-1"}]]
    /\ dirs \in [Servers -> SUBSET Seq(Bytes)]
    /\ cl \in [Clients -> Client] /\ \A c \in Clients : cl[c].todo \subseteq cl[c].socks
    /\ kills \in 0..MaxKills
    /\ gets \in 0..MaxGets
    /\ mixed \in [Servers -> SUBSET Clients]
    /\ number \in [Servers -> [Clients -> Seq(Bytes)]]

HasAccount(c) == <<User[c], Pass[c]>> \in Range(Conf)
Admitted      == {"name", "loop", "cut2", "cut3"}

\* A server ends only because it has refused a client, which has no account or
\* for which dfs.conf could not be opened, because a client left before it had
\* sent anything or during a GET, because at most one descriptor was left, or
\* because one thread called strtok between two calls of another that belong
\* together.  All other overlaps of logins, GETs and departures leave it up
\* (server.c:88-101, 66-68, 193-199), for the names that the model has: a user
\* name that fits user_cpy[100], and entries with their two dots.
EndsForCause ==
    \A s \in Servers : up[s] = "down" =>
        \/ mixed[s] # {}
        \/ Used(s) + 2 > MaxFds[s]
        \/ \E c \in Clients :
            \/ th[s][c].pc = "no" /\ (HasAccount(c) => th[s][c].n = 0)
            \/ th[s][c].pc \in {"creds", "cut3"} /\ cl[c].pc = "dead"

\* The verdict on a client is right, whatever other threads do in between, as
\* long as nobody moves the cursor of strtok between two calls that belong
\* together, and dfs.conf could be opened (check_credentials, server.c:58-75).
VerdictRight ==
    \A s \in Servers, c \in Clients : c \notin mixed[s] =>
        /\ th[s][c].pc \in Admitted => HasAccount(c)
        /\ th[s][c].pc = "no" => ~HasAccount(c) \/ th[s][c].n = 0

\* A client that offers its menu has had an answer of every server it has a
\* connection to, except those that have ended since; one that gives up was
\* refused by all of them, and those still up are about to exit.  One answer 1
\* decides (client.c:221-236, server.c:92-101).
LoginDecides ==
    \A c \in Clients, s \in Servers : s \in cl[c].socks /\ up[s] = "on" =>
        /\ cl[c].pc = "menu" => th[s][c].pc \in Admitted \cup {"no"}
        /\ cl[c].pc = "out" => th[s][c].pc = "no"

\* GET sends the number of the piece, unless another thread moved the cursor
\* (server.c:193-198).
NumberRight ==
    \A s \in Servers, c \in Clients :
        number[s][c] \in {<<>>, <<"1">>} \/ c \in mixed[s]

\* Login comes to an end, whatever happens to the servers and the other
\* clients: the client gives up, or it offers its menu and every server that it
\* reached and that is still up has its directory (client.c:222-243,
\* server.c:107-120).
LoginEnds ==
    \A c \in Clients : cl[c].pc = "greet" ~>
        \/ cl[c].pc \in {"out", "dead"}
        \/ /\ cl[c].pc = "menu"
           /\ \A s \in cl[c].socks : up[s] = "on" => <<User[c]>> \in dirs[s]
=============================================================================
