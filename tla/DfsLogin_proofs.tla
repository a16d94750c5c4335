--------------------------- MODULE DfsLogin_proofs ---------------------------
(***************************************************************************)
(* Proofs about DfsLogin, for any number of servers and clients, any users *)
(* and passwords, and any dfs.conf.                                        *)
(***************************************************************************)
EXTENDS DfsLogin, Strtok_proofs, FiniteSetTheorems

\* Places between two calls of strtok that belong together.
Relies == {"pass", "word", "cut2", "cut3"}

Creds(c)    == <<User[c], ",", Pass[c]>>
CutCreds(c) == <<User[c], NUL, Pass[c]>>
Cut1        == <<".", "foo", NUL, "txt", ".", "1">>
Cut2        == <<".", "foo", NUL, "txt", NUL, "1">>
CutLine(n)  == <<Conf[n][1], NUL, Conf[n][2], "\n">>

(* The clients and the servers.                                            *)

\* What is on its way to a thread, by the place where it is.
Mail(s, c) ==
    /\ th[s][c].pc \in {"none", "creds"} => inbox[s][c] \in {<<>>, <<Creds(c)>>}
    /\ th[s][c].pc \in {"pass", "line", "word", "loop", "cut2", "cut3"}
        => inbox[s][c] = <<>>
    /\ th[s][c].pc \in {"name", "no"} => inbox[s][c] \in {<<>>, <<<<User[c]>>>>}

\* What it has answered.
Answered(s, c) ==
    /\ answer[s][c] = "1" <=> th[s][c].pc \in Admitted
    /\ answer[s][c] = "-1" <=> th[s][c].pc = "no"

\* A connection on which nothing was sent; on which the client has sent its
\* credentials; on which it was admitted, or refused; on which it has sent its
\* name.
Fresh(s, c) == th[s][c].pc \in {"none", "creds"} /\ inbox[s][c] = <<>>
Greeted(s, c) ==
    \/ th[s][c].pc \in {"none", "creds"} /\ inbox[s][c] = <<Creds(c)>>
    \/ th[s][c].pc \in {"pass", "line", "word", "name", "no"} /\ inbox[s][c] = <<>>
LetIn(s, c)  == th[s][c].pc = "name" /\ inbox[s][c] = <<>>
Denied(s, c) == th[s][c].pc = "no" /\ inbox[s][c] = <<>>
Told(s, c) ==
    \/ th[s][c].pc \in {"name", "no"} /\ inbox[s][c] = <<<<User[c]>>>>
    \/ th[s][c].pc \in {"loop", "cut2", "cut3"} /\ inbox[s][c] = <<>>

\* How far client c is with a server that is up.
Phase(s, c) ==
    /\ cl[c].pc # "start"
    /\ cl[c].pc = "greet" /\ s \in cl[c].todo => Fresh(s, c)
    /\ cl[c].pc = "wait" /\ s \in cl[c].todo /\ s # Min(cl[c].todo) => Fresh(s, c)
    /\ cl[c].pc = "wait" /\ s = Min(cl[c].todo) => Greeted(s, c)
    /\ cl[c].pc \in {"greet", "wait"} /\ s \notin cl[c].todo =>
        (LetIn(s, c) /\ cl[c].cred) \/ Denied(s, c)
    /\ cl[c].pc = "names" /\ s \in cl[c].todo => LetIn(s, c) \/ Denied(s, c)
    /\ cl[c].pc = "names" /\ s \notin cl[c].todo => Told(s, c)
    /\ cl[c].pc = "menu" => Told(s, c)
    /\ cl[c].pc = "out" => Denied(s, c)

\* A client that goes through servers has one to do; on those it has no connection
\* to nothing was sent, and no thread serves it.
ClientInv(c) ==
    /\ cl[c].pc = "start" => cl[c].socks = {}
    /\ cl[c].pc \in {"greet", "wait", "names"} => cl[c].todo # {}
    /\ \A s \in Servers : s \notin cl[c].socks => Fresh(s, c) /\ th[s][c].pc = "none"
    /\ \A s \in cl[c].socks : up[s] = "on" => Phase(s, c)

(* The cursor.                                                             *)

\* A thread that relies on the cursor has called strtok; lines are counted.
Counted(s, t) ==
    /\ th[s][t].pc \in Relies => cur[s] # NULL
    /\ th[s][t].pc = "line" => th[s][t].n \in 0..(Len(Conf) + 1)
    /\ th[s][t].pc = "word" => th[s][t].n \in 1..Len(Conf)

\* The thread of client t has its credentials, and none of the lines before
\* the one it is at are the client's.
Checking(s, t) ==
    /\ th[s][t].user = <<<<t, "buf">>, 1>> /\ th[s][t].pass = <<<<t, "buf">>, 3>>
    /\ mem[s][<<t, "buf">>] = CutCreds(t)
    /\ \A m \in 1..(th[s][t].n - 1) : Conf[m] # <<User[t], Pass[t]>>

\* The cursor points behind the end of its buffer: no call can harm there.
Behind(s) == cur[s][2] > 1 /\ cur[s][2] > Len(mem[s][cur[s][1]])

\* As long as no other thread has moved the cursor in between, it is where
\* thread t left it, and the strings of t are whole.
Own(s, t) ==
    /\ th[s][t].pc = "pass" =>
        /\ cur[s] = <<<<t, "buf">>, 3>> /\ th[s][t].user = <<<<t, "buf">>, 1>>
        /\ mem[s][<<t, "buf">>] = CutCreds(t)
    /\ th[s][t].pc = "line" => Checking(s, t)
    /\ th[s][t].pc = "word" =>
        /\ Checking(s, t)
        /\ cur[s] = <<<<t, "line">>, 3>> /\ th[s][t].entry = <<<<t, "line">>, 1>>
        /\ mem[s][<<t, "line">>] = CutLine(th[s][t].n)
    /\ th[s][t].pc = "cut2" =>
        /\ cur[s] = <<<<t, "path">>, 4>>
        /\ mem[s][<<t, "path">>] = Cut1
    /\ th[s][t].pc = "cut3" =>
        /\ cur[s] = <<<<t, "path">>, 6>>
        /\ mem[s][<<t, "path">>] = Cut2
    /\ th[s][t].pc \notin Relies /\ cur[s] # NULL => (cur[s][1][1] = t => Behind(s))

\* What it then found out is right.
Right(s, t) ==
    /\ th[s][t].pc = "no" => ~HasAccount(t) \/ th[s][t].n = 0
    /\ th[s][t].pc \in Admitted => HasAccount(t)
    /\ number[s][t] \in {<<>>, <<"1">>}

\* Why server s may have ended.
Cause(s) ==
    \/ mixed[s] # {}
    \/ Used(s) + 2 > MaxFds[s]
    \/ \E c \in Clients :
        \/ th[s][c].pc = "no" /\ (HasAccount(c) => th[s][c].n = 0)
        \/ th[s][c].pc \in {"creds", "cut3"} /\ cl[c].pc = "dead"

\* What holds of thread t of server s.
ThreadInv(s, t) ==
    /\ Mail(s, t)
    /\ Answered(s, t)
    /\ Counted(s, t)
    /\ t \notin mixed[s] => Right(s, t) /\ (up[s] = "on" => Own(s, t))

\* The invariant: what holds of every thread and client, and why servers end.
LoginInv ==
    /\ TypeOK
    /\ \A s \in Servers, t \in Clients : ThreadInv(s, t)
    /\ \A c \in Clients : ClientInv(c)
    /\ \A s \in Servers : up[s] = "down" => Cause(s)

-----------------------------------------------------------------------------
(* Strings.                                                                *)

\* Names and passwords are bytes that end no string, and names hold no comma.
LEMMA NameFacts ==
    ASSUME NEW c \in Clients
    PROVE  /\ User[c] \in Bytes /\ User[c] # NUL /\ User[c] # ","
           /\ Pass[c] \in Bytes /\ Pass[c] # NUL
<1>1. User[c] \in Bytes /\ Pass[c] \in Bytes
    BY Zenon DEF Bytes
<1>2. /\ User \in [Clients -> STRING \ {"", NUL, ",", " ", "\n"}]
      /\ Pass \in [Clients -> STRING \ {"", NUL, ",", " ", "\n"}]
    BY NamesAssumption, Zenon
<1>3. User[c] \notin {"", NUL, ",", " ", "\n"} /\ Pass[c] \notin {"", NUL, ",", " ", "\n"}
    BY <1>2, Zenon
<1>4. QED
    BY <1>1, <1>3, Zenon

\* The other bytes, and those among them that strtok tells apart.
LEMMA TextFacts ==
    /\ NUL \in Bytes /\ "," \in Bytes /\ " " \in Bytes /\ "\n" \in Bytes /\ "." \in Bytes
    /\ "foo" \in Bytes /\ "txt" \in Bytes /\ "1" \in Bytes
    /\ NUL # "," /\ NUL # " " /\ NUL # "\n" /\ NUL # "." /\ "foo" # "." /\ "txt" # "."
    /\ "foo" # NUL /\ "txt" # NUL /\ "1" # NUL /\ "1" # "."
    BY Zenon DEF Bytes, NUL

\* A line of dfs.conf has a user without the separator, and a password.
LEMMA ConfFacts ==
    /\ Len(Conf) \in Nat /\ DOMAIN Conf = 1..Len(Conf)
    /\ \A n \in 1..Len(Conf) :
        /\ Conf[n] = <<Conf[n][1], Conf[n][2]>>
        /\ Conf[n][1] \in Bytes /\ Conf[n][1] # NUL /\ Conf[n][1] # " "
        /\ Conf[n][2] \in Bytes /\ Conf[n][2] # NUL /\ Conf[n][2] # "\n"
<1>1. PICK X, Y : /\ Conf \in Seq(X \X Y)
                  /\ \A x \in X : x # NUL /\ x # " "
                  /\ \A y \in Y : y # NUL /\ y # "\n"
    <2>1. Conf \in Seq((STRING \ {"", NUL, " ", "\n"}) \X (STRING \ {"", NUL, "\n"}))
        BY NamesAssumption, Zenon
    <2>2. /\ \A x \in STRING \ {"", NUL, " ", "\n"} : x # NUL /\ x # " "
          /\ \A y \in STRING \ {"", NUL, "\n"} : y # NUL /\ y # "\n"
        BY Zenon
    <2>3. QED
        BY <2>1, <2>2, Zenon
<1>2. Len(Conf) \in Nat /\ DOMAIN Conf = 1..Len(Conf)
    BY <1>1, LenProperties
<1>3. \A n \in 1..Len(Conf) : Conf[n] \in X \X Y
    BY <1>1, ElementOfSeq
<1>4. \A n \in 1..Len(Conf) : Conf[n][1] \in Bytes /\ Conf[n][2] \in Bytes
    BY <1>2, Zenon DEF Bytes
<1>5. \A z \in X \X Y : z = <<z[1], z[2]>> /\ z[1] \in X /\ z[2] \in Y
    OBVIOUS
<1>6. QED
    BY <1>1, <1>2, <1>3, <1>4, <1>5, Zenon

\* Strings of three, four and six bytes.
LEMMA Tuples ==
    ASSUME NEW S
    PROVE  /\ <<>> \in Seq(S)
           /\ \A x \in S : <<x>> \in Seq(S) /\ Len(<<x>>) = 1
           /\ \A x, y, z \in S : <<x, y, z>> \in Seq(S) /\ Len(<<x, y, z>>) = 3
           /\ \A x, y, z, w \in S : <<x, y, z, w>> \in Seq(S) /\ Len(<<x, y, z, w>>) = 4
           /\ \A x, y, z, w, u, v \in S : /\ <<x, y, z, w, u, v>> \in Seq(S)
                                          /\ Len(<<x, y, z, w, u, v>>) = 6
    OBVIOUS

\* The separators.
Comma   == {","}
Space   == {" "}
Newline == {"\n"}
Dot     == {"."}

\* No set of separators holds the byte that ends a string.
LEMMA SeparatorFacts ==
    /\ NUL \notin Comma /\ NUL \notin Space /\ NUL \notin Newline /\ NUL \notin Dot
    /\ NUL \notin {}
    BY TextFacts, Zenon DEF Comma, Space, Newline, Dot

\* A call at place i of buffer b finds a token at place j, leaves the cursor at
\* place l, and the buffer with the bytes w.
Yields(m, b, i, D, j, l, w) ==
    /\ Cut(m, <<b, i>>, D).tok = <<b, j>>
    /\ Cut(m, <<b, i>>, D).cur = <<b, l>>
    /\ Cut(m, <<b, i>>, D).mem[b] = w

\* strtok ends the token at the separator, and goes on behind it.
LEMMA YieldsOne ==
    ASSUME NEW S, NEW B, NEW m \in [B -> Seq(S)], NEW b \in B, NEW i, NEW D, NEW j, NEW w,
           FindsOne(m, b, i, D, j), [m[b] EXCEPT ![j + 1] = NUL] = w
    PROVE  Yields(m, b, i, D, j, j + 2, w)
<1>1. PICK mm : mm = [m EXCEPT ![b] = w]
    OBVIOUS
<1>2. mm[b] = w
    BY <1>1
<1>3. Cut(m, <<b, i>>, D) = [tok |-> <<b, j>>, cur |-> <<b, j + 2>>, mem |-> mm]
    BY <1>1, Zenon DEF FindsOne
<1>4. PICK k : k = Cut(m, <<b, i>>, D)
    BY Zenon
<1>5. k = [tok |-> <<b, j>>, cur |-> <<b, j + 2>>, mem |-> mm]
    BY <1>3, <1>4, Zenon
<1>6. k.tok = <<b, j>> /\ k.cur = <<b, j + 2>> /\ k.mem = mm
    BY <1>5
<1>7. QED
    BY <1>2, <1>4, <1>6, Zenon DEF Yields

\* A token at the end of its string leaves the buffer as it is.
LEMMA YieldsLast ==
    ASSUME NEW m, NEW b, NEW i, NEW D, NEW j, FindsLast(m, b, i, D, j)
    PROVE  Yields(m, b, i, D, j, j + 1, m[b])
<1>1. Cut(m, <<b, i>>, D) = [tok |-> <<b, j>>, cur |-> <<b, j + 1>>, mem |-> m]
    BY Zenon DEF FindsLast
<1>2. QED
    BY <1>1 DEF Yields

\* Credentials: the first call finds the user, the second the password.
LEMMA CutThree ==
    ASSUME NEW S, NEW B, NEW m \in [B -> Seq(S)], NEW b \in B,
           NEW x, NEW d, NEW y, x # NUL, y # NUL, d # NUL, x # d
    PROVE  /\ m[b] = <<x, d, y>> => Yields(m, b, 1, {d}, 1, 3, <<x, NUL, y>>)
           /\ m[b] = <<x, NUL, y>> => Yields(m, b, 3, {}, 3, 4, <<x, NUL, y>>)
<1>1. ASSUME m[b] = <<x, d, y>>
      PROVE  Yields(m, b, 1, {d}, 1, 3, <<x, NUL, y>>)
    <2> DEFINE D == {d}
    <2>1. /\ 1 \in DOMAIN m[b] /\ m[b][1] # NUL /\ m[b][1] \notin D
          /\ 1 + 1 \in DOMAIN m[b] /\ m[b][1 + 1] \in D /\ m[b][1 + 1] # NUL
        BY <1>1
    <2>2. [m[b] EXCEPT ![1 + 1] = NUL] = <<x, NUL, y>>
        BY <1>1
    <2> HIDE DEF D
    <2>3. FindsOne(m, b, 1, D, 1)
        BY <2>1, CutFinds
    <2>4. PICK v : v = <<x, NUL, y>>
        BY Zenon
    <2>5. 1 + 2 = 3
        OBVIOUS
    <2>6. Yields(m, b, 1, D, 1, 1 + 2, v)
        BY <2>2, <2>3, <2>4, YieldsOne
    <2>7. QED
        BY <2>4, <2>5, <2>6, Zenon DEF D
<1>2. ASSUME m[b] = <<x, NUL, y>>
      PROVE  Yields(m, b, 3, {}, 3, 4, <<x, NUL, y>>)
    <2>1. /\ 3 \in DOMAIN m[b] /\ m[b][3] # NUL /\ m[b][3] \notin {}
          /\ 3 + 1 \notin DOMAIN m[b]
        BY <1>2
    <2>2. FindsLast(m, b, 3, {}, 3)
        BY <2>1, CutFinds
    <2>3. Yields(m, b, 3, {}, 3, 3 + 1, m[b])
        BY <2>2, YieldsLast, Zenon
    <2>4. 3 + 1 = 4
        OBVIOUS
    <2>5. QED
        BY <1>2, <2>3, <2>4, Zenon
<1>3. QED
    BY <1>1, <1>2, Zenon

\* A line of dfs.conf: the user and the password.
LEMMA CutFour ==
    ASSUME NEW S, NEW B, NEW m \in [B -> Seq(S)], NEW b \in B,
           NEW x, NEW d, NEW y, NEW e,
           x # NUL, y # NUL, d # NUL, e # NUL, x # d, y # e
    PROVE  /\ m[b] = <<x, d, y, e>> => Yields(m, b, 1, {d}, 1, 3, <<x, NUL, y, e>>)
           /\ m[b] = <<x, NUL, y, e>> => Yields(m, b, 3, {e}, 3, 5, <<x, NUL, y, NUL>>)
<1>1. ASSUME m[b] = <<x, d, y, e>>
      PROVE  Yields(m, b, 1, {d}, 1, 3, <<x, NUL, y, e>>)
    <2> DEFINE D == {d}
    <2>1. /\ 1 \in DOMAIN m[b] /\ m[b][1] # NUL /\ m[b][1] \notin D
          /\ 1 + 1 \in DOMAIN m[b] /\ m[b][1 + 1] \in D /\ m[b][1 + 1] # NUL
        BY <1>1
    <2>2. [m[b] EXCEPT ![1 + 1] = NUL] = <<x, NUL, y, e>>
        BY <1>1
    <2> HIDE DEF D
    <2>3. FindsOne(m, b, 1, D, 1)
        BY <2>1, CutFinds
    <2>4. PICK v : v = <<x, NUL, y, e>>
        BY Zenon
    <2>5. 1 + 2 = 3
        OBVIOUS
    <2>6. Yields(m, b, 1, D, 1, 1 + 2, v)
        BY <2>2, <2>3, <2>4, YieldsOne
    <2>7. QED
        BY <2>4, <2>5, <2>6, Zenon DEF D
<1>2. ASSUME m[b] = <<x, NUL, y, e>>
      PROVE  Yields(m, b, 3, {e}, 3, 5, <<x, NUL, y, NUL>>)
    <2> DEFINE D == {e}
    <2>1. /\ 3 \in DOMAIN m[b] /\ m[b][3] # NUL /\ m[b][3] \notin D
          /\ 3 + 1 \in DOMAIN m[b] /\ m[b][3 + 1] \in D /\ m[b][3 + 1] # NUL
        BY <1>2
    <2>2. [m[b] EXCEPT ![3 + 1] = NUL] = <<x, NUL, y, NUL>>
        BY <1>2
    <2> HIDE DEF D
    <2>3. FindsOne(m, b, 3, D, 3)
        BY <2>1, CutFinds
    <2>4. PICK v : v = <<x, NUL, y, NUL>>
        BY Zenon
    <2>5. 3 + 2 = 5
        OBVIOUS
    <2>6. Yields(m, b, 3, D, 3, 3 + 2, v)
        BY <2>2, <2>3, <2>4, YieldsOne
    <2>7. QED
        BY <2>4, <2>5, <2>6, Zenon DEF D
<1>3. QED
    BY <1>1, <1>2, Zenon

\* The name of a piece: its dots are at places 1, 3 and 5, and GET finds what
\* is behind them.
LEMMA CutSix ==
    ASSUME NEW S, NEW B, NEW m \in [B -> Seq(S)], NEW b \in B,
           NEW d, NEW x, NEW y, NEW z,
           d # NUL, x # NUL, y # NUL, z # NUL, x # d, y # d
    PROVE  /\ m[b] = <<d, x, d, y, d, z>>
                => Yields(m, b, 1, {d}, 2, 4, <<d, x, NUL, y, d, z>>)
           /\ m[b] = <<d, x, NUL, y, d, z>>
                => Yields(m, b, 4, {d}, 4, 6, <<d, x, NUL, y, NUL, z>>)
           /\ m[b] = <<d, x, NUL, y, NUL, z>>
                => Yields(m, b, 6, {}, 6, 7, <<d, x, NUL, y, NUL, z>>)
<1>1. ASSUME m[b] = <<d, x, d, y, d, z>>
      PROVE  Yields(m, b, 1, {d}, 2, 4, <<d, x, NUL, y, d, z>>)
    <2> DEFINE D == {d}
    <2>1. /\ 2 \in DOMAIN m[b] /\ m[b][2] # NUL /\ m[b][2] \notin D
          /\ 2 + 1 \in DOMAIN m[b] /\ m[b][2 + 1] \in D /\ m[b][2 + 1] # NUL
          /\ 1 \in Nat \ {0} /\ 2 = 1 + 1 /\ 1 \in DOMAIN m[b] /\ m[b][1] \in D
        BY <1>1
    <2>2. [m[b] EXCEPT ![2 + 1] = NUL] = <<d, x, NUL, y, d, z>>
        BY <1>1
    <2> HIDE DEF D
    <2>3. FindsOne(m, b, 1, D, 2)
        BY <2>1, CutFinds
    <2>4. PICK v : v = <<d, x, NUL, y, d, z>>
        BY Zenon
    <2>5. 2 + 2 = 4
        OBVIOUS
    <2>6. Yields(m, b, 1, D, 2, 2 + 2, v)
        BY <2>2, <2>3, <2>4, YieldsOne
    <2>7. QED
        BY <2>4, <2>5, <2>6, Zenon DEF D
<1>2. ASSUME m[b] = <<d, x, NUL, y, d, z>>
      PROVE  Yields(m, b, 4, {d}, 4, 6, <<d, x, NUL, y, NUL, z>>)
    <2> DEFINE D == {d}
    <2>1. /\ 4 \in DOMAIN m[b] /\ m[b][4] # NUL /\ m[b][4] \notin D
          /\ 4 + 1 \in DOMAIN m[b] /\ m[b][4 + 1] \in D /\ m[b][4 + 1] # NUL
        BY <1>2
    <2>2. [m[b] EXCEPT ![4 + 1] = NUL] = <<d, x, NUL, y, NUL, z>>
        BY <1>2
    <2> HIDE DEF D
    <2>3. FindsOne(m, b, 4, D, 4)
        BY <2>1, CutFinds
    <2>4. PICK v : v = <<d, x, NUL, y, NUL, z>>
        BY Zenon
    <2>5. 4 + 2 = 6
        OBVIOUS
    <2>6. Yields(m, b, 4, D, 4, 4 + 2, v)
        BY <2>2, <2>3, <2>4, YieldsOne
    <2>7. QED
        BY <2>4, <2>5, <2>6, Zenon DEF D
<1>3. ASSUME m[b] = <<d, x, NUL, y, NUL, z>>
      PROVE  Yields(m, b, 6, {}, 6, 7, <<d, x, NUL, y, NUL, z>>)
    <2>1. /\ 6 \in DOMAIN m[b] /\ m[b][6] # NUL /\ m[b][6] \notin {}
          /\ 6 + 1 \notin DOMAIN m[b]
        BY <1>3
    <2>2. FindsLast(m, b, 6, {}, 6)
        BY <2>1, CutFinds
    <2>3. Yields(m, b, 6, {}, 6, 6 + 1, m[b])
        BY <2>2, YieldsLast, Zenon
    <2>4. 6 + 1 = 7
        OBVIOUS
    <2>5. QED
        BY <1>3, <2>3, <2>4, Zenon
<1>4. QED
    BY <1>1, <1>2, <1>3, Zenon

-----------------------------------------------------------------------------
(* What the parts of the actions do.                                       *)

\* Server z takes no step.
Same(z) ==
    /\ up'[z] = up[z] /\ fds'[z] = fds[z] /\ th'[z] = th[z] /\ mem'[z] = mem[z]
    /\ cur'[z] = cur[z] /\ inbox'[z] = inbox[z] /\ answer'[z] = answer[z]
    /\ mixed'[z] = mixed[z] /\ number'[z] = number[z]

\* A step of thread t of server s: the other servers and threads, and the
\* clients, take none; and t does not interrupt itself.
Only(s, t) ==
    /\ cl' = cl
    /\ \A z \in Servers \ {s} : Same(z)
    /\ \A r \in Clients \ {t} :
        /\ th'[s][r] = th[s][r] /\ inbox'[s][r] = inbox[s][r]
        /\ answer'[s][r] = answer[s][r] /\ number'[s][r] = number[s][r]
    /\ up[s] = "on" /\ up'[s] \in {"on", "down"} /\ fds'[s] >= fds[s]
    /\ mixed[s] \subseteq mixed'[s] /\ (t \in mixed'[s] <=> t \in mixed[s])

\* Each thread has its three buffers to itself.
LEMMA BufferFacts ==
    /\ \A t \in Clients : /\ <<t, "buf">> \in Buffers /\ <<t, "line">> \in Buffers
                          /\ <<t, "path">> \in Buffers
                          /\ <<t, "buf">> # <<t, "line">> /\ <<t, "buf">> # <<t, "path">>
                          /\ <<t, "line">> # <<t, "path">>
                          /\ <<t, "buf">>[1] = t /\ <<t, "line">>[1] = t
                          /\ <<t, "path">>[1] = t
    /\ \A b \in Buffers : b[1] \in Clients
    /\ \A p \in Pointer : p # NULL => p \in Buffers \X (Nat \ {0})
    /\ \A p \in Buffers \X (Nat \ {0}) : p \in Pointer /\ p # NULL
    BY DEF Buffers, Pointer, NULL

\* A pointer names a buffer and a place in it.
LEMMA PointerFacts ==
    ASSUME NEW b \in Buffers, NEW i \in Nat \ {0}
    PROVE  <<b, i>> \in Buffers \X (Nat \ {0}) /\ <<b, i>>[1] = b /\ <<b, i>>[2] = i
    OBVIOUS

\* Messages are strings.
LEMMA MailTypes ==
    ASSUME TypeOK, NEW s \in Servers, NEW t \in Clients
    PROVE  /\ inbox[s] \in [Clients -> Seq(Seq(Bytes))] /\ inbox[s][t] \in Seq(Seq(Bytes))
           /\ inbox[s][t] # <<>> => /\ Head(inbox[s][t]) \in Seq(Bytes)
                                    /\ Tail(inbox[s][t]) \in Seq(Seq(Bytes))
<1>1. PICK M : M = Seq(Bytes)
    OBVIOUS
<1>2. inbox \in [Servers -> [Clients -> Seq(M)]]
    BY <1>1, Zenon DEF TypeOK
<1>3. inbox[s] \in [Clients -> Seq(M)] /\ inbox[s][t] \in Seq(M)
    BY <1>2
<1>4. inbox[s][t] # <<>> => Head(inbox[s][t]) \in M /\ Tail(inbox[s][t]) \in Seq(M)
    BY <1>3
<1>5. QED
    BY <1>1, <1>3, <1>4, Zenon

\* A thread changes only its own locals.
LEMMA BecomeFacts ==
    ASSUME TypeOK, NEW s \in Servers, NEW t \in Clients, NEW r, Become(s, t, r)
    PROVE  /\ th'[s][t] = r
           /\ \A u \in Clients \ {t} : th'[s][u] = th[s][u]
           /\ \A z \in Servers \ {s} : th'[z] = th[z]
           /\ r \in Thread => th' \in [Servers -> [Clients -> Thread]]
    BY DEF TypeOK, Become

\* The threads of s that rely on the cursor are interrupted by t.
Interrupts(s, t) == \A r \in Clients \ {t} : th[s][r].pc \in Relies => r \in mixed'[s]

\* Thread t of s has called strtok, with the result k.
Called(s, t, k) ==
    /\ mem' \in [Servers -> [Buffers -> Seq(Bytes)]] /\ cur' \in [Servers -> Pointer]
    /\ mixed' \in [Servers -> SUBSET Clients]
    /\ mem'[s] = k.mem /\ cur'[s] = k.cur /\ cur'[s] # NULL
    /\ mixed[s] \subseteq mixed'[s] /\ (t \in mixed'[s] <=> t \in mixed[s])
    /\ Interrupts(s, t)
    /\ \A z \in Servers \ {s} :
         mem'[z] = mem[z] /\ cur'[z] = cur[z] /\ mixed'[z] = mixed[z]

\* A call of strtok changes the buffers and the cursor of its server only.
LEMMA SharesFacts ==
    ASSUME TypeOK, NEW s \in Servers, NEW t \in Clients, NEW k, Shares(s, t, k),
           k.mem \in [Buffers -> Seq(Bytes)], k.cur \in Buffers \X (Nat \ {0})
    PROVE  Called(s, t, k)
<1>1. k.cur \in Pointer /\ k.cur # NULL
    BY BufferFacts
<1>2. QED
    BY <1>1 DEF TypeOK, Shares, Relies, Called, Interrupts

\* read takes the oldest message from the connection of its thread only.
LEMMA ConsumeFacts ==
    ASSUME TypeOK, NEW s \in Servers, NEW t \in Clients, Consume(s, t)
    PROVE  /\ inbox' \in [Servers -> [Clients -> Seq(Seq(Bytes))]]
           /\ inbox'[s][t] = IF inbox[s][t] = <<>> THEN <<>> ELSE Tail(inbox[s][t])
           /\ \A u \in Clients \ {t} : inbox'[s][u] = inbox[s][u]
           /\ \A z \in Servers \ {s} : inbox'[z] = inbox[z]
<1> DEFINE q == IF inbox[s][t] = <<>> THEN inbox[s][t] ELSE Tail(inbox[s][t])
           M == Seq(Seq(Bytes))
<1>1. inbox \in [Servers -> [Clients -> M]]
    BY Zenon DEF TypeOK
<1>2. q \in M
    BY MailTypes, Zenon
<1>3. inbox' = [inbox EXCEPT ![s][t] = q]
    BY Zenon DEF Consume
<1>4. q = IF inbox[s][t] = <<>> THEN <<>> ELSE Tail(inbox[s][t])
    BY Zenon
<1> HIDE DEF q, M
<1>5. /\ inbox' \in [Servers -> [Clients -> M]] /\ inbox'[s][t] = q
      /\ \A u \in Clients \ {t} : inbox'[s][u] = inbox[s][u]
      /\ \A z \in Servers \ {s} : inbox'[z] = inbox[z]
    BY <1>1, <1>2, <1>3
<1>6. QED
    BY <1>4, <1>5, Zenon DEF M

\* read finds the oldest message, or nothing when the client has gone.
LEMMA IncomingFacts ==
    ASSUME TypeOK, NEW s \in Servers, NEW t \in Clients, NEW q \in Incoming(s, t)
    PROVE  /\ q \in Seq(Bytes)
           /\ \/ inbox[s][t] # <<>> /\ q = Head(inbox[s][t])
              \/ inbox[s][t] = <<>> /\ Gone(t) /\ q = <<>>
<1>1. \/ inbox[s][t] # <<>> /\ q = Head(inbox[s][t])
      \/ inbox[s][t] = <<>> /\ Gone(t) /\ q = <<>>
    BY Zenon DEF Incoming
<1>2. <<>> \in Seq(Bytes)
    OBVIOUS
<1>3. QED
    BY <1>1, <1>2, MailTypes, Zenon

\* strtok leaves buffers and pointers, and writes to the buffer it is at only.
LEMMA CutTypes ==
    ASSUME NEW m \in [Buffers -> Seq(Bytes)], NEW p \in Buffers \X (Nat \ {0}),
           NEW D, NUL \notin D
    PROVE  /\ Cut(m, p, D).tok \in Pointer
           /\ Cut(m, p, D).cur \in Buffers \X (Nat \ {0})
           /\ Cut(m, p, D).mem \in [Buffers -> Seq(Bytes)]
           /\ \A b \in Buffers \ {p[1]} : Cut(m, p, D).mem[b] = m[b]
           /\ Cut(m, p, D).cur[1] = p[1]
<1>1. NUL \in Bytes
    BY TextFacts, Zenon
<1>2. Cut(m, p, D).tok \in {NULL} \cup (Buffers \X (Nat \ {0}))
    BY <1>1, CutProperties
<1>3. /\ Cut(m, p, D).cur \in Buffers \X (Nat \ {0})
      /\ Cut(m, p, D).mem \in [Buffers -> Seq(Bytes)]
    BY <1>1, CutProperties
<1>4. ASSUME NEW b \in Buffers \ {p[1]}
      PROVE  Cut(m, p, D).mem[b] = m[b]
    <2>1. b \in DOMAIN m /\ b # p[1]
        OBVIOUS
    <2>2. QED
        BY <2>1, CutElsewhere
<1>5. Cut(m, p, D).cur[1] = p[1]
    BY CutStays
<1>6. QED
    BY <1>2, <1>3, <1>4, <1>5, Zenon DEF Pointer

-----------------------------------------------------------------------------
(* What the actions of a thread do.                                        *)

\* dfs.conf is finite.
LEMMA LenFact == Len(Conf) \in Nat /\ DOMAIN Conf = 1..Len(Conf)
    BY ConfFacts, Zenon

\* The locals of a thread that starts a new part of its work.
LEMMA EmptyFacts ==
    ASSUME NEW pc \in {"creds", "name", "loop"}
    PROVE  [Empty EXCEPT !.pc = pc] \in Thread /\ [Empty EXCEPT !.pc = pc].pc = pc
    BY LenFact DEF Empty, Thread, Pointer

\* The descriptors in use are those of the connections and of the open files.
LEMMA UsedFacts ==
    ASSUME TypeOK, NEW s \in Servers
    PROVE  /\ Used(s) \in Nat /\ MaxFds[s] \in Nat
           /\ fds[s] \in Nat /\ Used(s) >= fds[s]
<1>1. fds[s] \in Nat /\ MaxFds[s] \in Nat
    <2>1. fds \in [Servers -> Nat] /\ MaxFds \in [Servers -> Nat]
        BY BoundsAssumption, Zenon DEF TypeOK
    <2>2. QED
        BY <2>1
<1>2. Cardinality(Readers(s)) \in Nat
    <2>1. Readers(s) \subseteq Clients /\ IsFiniteSet(Clients)
        BY BoundsAssumption DEF Readers
    <2>2. QED
        BY <2>1, FS_Subset, FS_CardinalityType
<1>3. QED
    BY <1>1, <1>2 DEF Used

\* ... and change with them only.
LEMMA UsedSame ==
    ASSUME NEW s \in Servers, fds'[s] = fds[s], th'[s] = th[s]
    PROVE  Used(s)' = Used(s)
<1>1. Readers(s)' = Readers(s)
    BY DEF Readers
<1>2. QED
    BY <1>1, Zenon DEF Used

\* Accept gives the connection a thread, and changes nothing else that is shared.
LEMMA AcceptFacts ==
    ASSUME TypeOK, NEW s \in Servers, NEW t \in Clients, Accept(s, t)
    PROVE  /\ Only(s, t) /\ TypeOK' /\ s \in cl[t].socks
           /\ th[s][t].pc = "none" /\ th'[s][t].pc = "creds"
           /\ UNCHANGED <<up, inbox, answer, number, mem, cur, mixed>>
<1>1. PICK r : /\ r = [Empty EXCEPT !.pc = "creds"] /\ Become(s, t, r)
               /\ s \in cl[t].socks /\ Used(s) < MaxFds[s] /\ up[s] = "on"
               /\ th[s][t].pc = "none" /\ fds' = [fds EXCEPT ![s] = @ + 1]
    BY Zenon DEF Accept, Goto, At
<1>2. UNCHANGED <<gets, up, mem, cur, dirs, answer, mixed, number, inbox, cl, kills>>
    BY Zenon DEF Accept, clientVars
<1>3. r \in Thread /\ r.pc = "creds"
    BY <1>1, EmptyFacts
<1>4. /\ th' \in [Servers -> [Clients -> Thread]] /\ th'[s][t] = r
      /\ \A u \in Clients \ {t} : th'[s][u] = th[s][u]
      /\ \A z \in Servers \ {s} : th'[z] = th[z]
    BY <1>1, <1>3, BecomeFacts
<1>5. /\ fds' \in [Servers -> Nat] /\ \A z \in Servers : fds'[z] <= MaxFds[z]
      /\ fds'[s] >= fds[s] /\ \A z \in Servers \ {s} : fds'[z] = fds[z]
    <2>1. fds \in [Servers -> Nat] /\ \A z \in Servers : fds[z] <= MaxFds[z]
        BY Zenon DEF TypeOK
    <2>2. MaxFds \in [Servers -> Nat]
        BY BoundsAssumption
    <2>3. fds' = [fds EXCEPT ![s] = @ + 1] /\ fds[s] < MaxFds[s]
        BY <1>1, UsedFacts
    <2>4. QED
        BY <2>1, <2>2, <2>3
<1>6. TypeOK'
    BY <1>2, <1>4, <1>5, Zenon DEF TypeOK
<1>7. Only(s, t)
    BY <1>1, <1>2, <1>4, <1>5, Zenon DEF Only, Same
<1>8. QED
    BY <1>1, <1>2, <1>3, <1>4, <1>6, <1>7, Zenon

\* The types of what thread t of server s uses.
LEMMA ThreadFacts ==
    ASSUME TypeOK, NEW s \in Servers, NEW t \in Clients
    PROVE  /\ th[s][t] \in Thread /\ mem[s] \in [Buffers -> Seq(Bytes)] /\ cur[s] \in Pointer
           /\ th[s][t].pc \in {"none", "creds", "pass", "line", "word", "no", "name",
                               "loop", "cut2", "cut3"}
           /\ th[s][t].user \in Pointer /\ th[s][t].pass \in Pointer
           /\ th[s][t].entry \in Pointer /\ th[s][t].n \in Nat
           /\ up[s] \in {"on", "off", "down"} /\ fds[s] \in Nat
<1>1. /\ th[s][t] \in Thread /\ mem[s] \in [Buffers -> Seq(Bytes)] /\ cur[s] \in Pointer
      /\ up[s] \in {"on", "off", "down"} /\ fds[s] \in Nat
    <2>1. /\ th \in [Servers -> [Clients -> Thread]]
          /\ mem \in [Servers -> [Buffers -> Seq(Bytes)]] /\ cur \in [Servers -> Pointer]
          /\ up \in [Servers -> {"on", "off", "down"}] /\ fds \in [Servers -> Nat]
        BY Zenon DEF TypeOK
    <2>2. QED
        BY <2>1
<1>2. QED
    BY <1>1, LenFact DEF Thread

\* exit ends one server.
LEMMA EndsFacts ==
    ASSUME TypeOK, NEW s \in Servers
    PROVE  /\ Ends(s) => /\ up' \in [Servers -> {"on", "off", "down"}] /\ up'[s] = "down"
                         /\ \A z \in Servers \ {s} : up'[z] = up[z]
           /\ up' = up => /\ up' \in [Servers -> {"on", "off", "down"}] /\ up'[s] = up[s]
                          /\ \A z \in Servers \ {s} : up'[z] = up[z]
<1>1. up \in [Servers -> {"on", "off", "down"}]
    BY Zenon DEF TypeOK
<1>2. QED
    BY <1>1 DEF Ends

\* The new value of a buffer.
LEMMA BufferSet ==
    ASSUME TypeOK, NEW s \in Servers, NEW b \in Buffers, NEW q \in Seq(Bytes)
    PROVE  /\ [mem[s] EXCEPT ![b] = q] \in [Buffers -> Seq(Bytes)]
           /\ [mem[s] EXCEPT ![b] = q][b] = q
           /\ \A a \in Buffers \ {b} : [mem[s] EXCEPT ![b] = q][a] = mem[s][a]
<1>1. mem[s] \in [Buffers -> Seq(Bytes)]
    <2>1. mem \in [Servers -> [Buffers -> Seq(Bytes)]]
        BY Zenon DEF TypeOK
    <2>2. QED
        BY <2>1
<1>2. QED
    BY <1>1

\* The oldest message to thread t is gone.
Consumed(s, t) ==
    inbox'[s][t] = IF inbox[s][t] = <<>> THEN <<>> ELSE Tail(inbox[s][t])

\* strtok found k in the message q.
CredsRead(s, t, q, k) ==
    /\ q \in Incoming(s, t)
    /\ k = Cut([mem[s] EXCEPT ![<<t, "buf">>] = q], <<<<t, "buf">>, 1>>, Comma)
    /\ mem'[s] = k.mem /\ cur'[s] = k.cur
    /\ k.tok = NULL => up'[s] = "down" /\ th'[s][t] = th[s][t]
    /\ k.tok # NULL => up' = up /\ th'[s][t].pc = "pass" /\ th'[s][t].user = k.tok

\* ReadCreds takes a message and cuts it; without a token the server ends.
LEMMA ReadCredsFacts ==
    ASSUME TypeOK, NEW s \in Servers, NEW t \in Clients, ReadCreds(s, t)
    PROVE  /\ Only(s, t) /\ TypeOK' /\ Interrupts(s, t)
           /\ th[s][t].pc = "creds" /\ cur'[s] # NULL /\ cur'[s][1] = <<t, "buf">>
           /\ \A b \in Buffers \ {<<t, "buf">>} : mem'[s][b] = mem[s][b]
           /\ UNCHANGED <<answer, number>>
           /\ Consumed(s, t)
           /\ \E q, k : CredsRead(s, t, q, k)
<1> DEFINE b == <<t, "buf">>
           p == <<<<t, "buf">>, 1>>
<1>1. PICK q, m, k, r :
        /\ q \in Incoming(s, t) /\ m = [mem[s] EXCEPT ![b] = q] /\ k = Cut(m, p, Comma)
        /\ r = [th[s][t] EXCEPT !.pc = "pass", !.user = k.tok]
        /\ up[s] = "on" /\ th[s][t].pc = "creds"
        /\ IF k.tok = NULL THEN Ends(s) /\ th' = th ELSE Become(s, t, r) /\ up' = up
        /\ Shares(s, t, k) /\ Consume(s, t)
    BY Zenon DEF ReadCreds, At, Comma
<1>2. UNCHANGED <<gets, fds, dirs, answer, number, cl, kills>>
    BY Zenon DEF ReadCreds
<1>3. b \in Buffers /\ p \in Buffers \X (Nat \ {0}) /\ p[1] = b
    <2>1. b \in Buffers
        BY BufferFacts, Zenon
    <2>2. \A i \in Nat \ {0} : <<b, i>> \in Buffers \X (Nat \ {0}) /\ <<b, i>>[1] = b
        BY <2>1, PointerFacts
    <2>3. 1 \in Nat \ {0}
        OBVIOUS
    <2>4. QED
        BY <2>1, <2>2, <2>3, Zenon
<1>4. q \in Seq(Bytes)
    BY <1>1, IncomingFacts
<1> HIDE DEF b, p
<1>5. /\ m \in [Buffers -> Seq(Bytes)] /\ \A a \in Buffers \ {b} : m[a] = mem[s][a]
    BY <1>1, <1>3, <1>4, BufferSet
<1>6. /\ k.tok \in Pointer /\ k.cur \in Buffers \X (Nat \ {0})
      /\ k.mem \in [Buffers -> Seq(Bytes)] /\ \A a \in Buffers \ {b} : k.mem[a] = m[a]
      /\ k.cur[1] = b
    <2>1. k = Cut(m, p, Comma) /\ NUL \notin Comma
        BY <1>1, SeparatorFacts, Zenon
    <2>2. QED
        BY <1>3, <1>5, <2>1, CutTypes
<1>7. Called(s, t, k)
    BY <1>1, <1>6, SharesFacts, Zenon
<1>8. /\ inbox' \in [Servers -> [Clients -> Seq(Seq(Bytes))]]
      /\ inbox'[s][t] = IF inbox[s][t] = <<>> THEN <<>> ELSE Tail(inbox[s][t])
      /\ \A u \in Clients \ {t} : inbox'[s][u] = inbox[s][u]
      /\ \A z \in Servers \ {s} : inbox'[z] = inbox[z]
    BY <1>1, ConsumeFacts, Zenon
<1>9. r \in Thread /\ r.pc = "pass" /\ r.user = k.tok
    <2>1. r = [th[s][t] EXCEPT !.pc = "pass", !.user = k.tok] /\ k.tok \in Pointer
        BY <1>1, <1>6, Zenon
    <2>2. th[s][t] \in Thread
        BY ThreadFacts, Zenon
    <2>3. QED
        BY <2>1, <2>2 DEF Thread
<1>10. /\ th' \in [Servers -> [Clients -> Thread]]
       /\ \A u \in Clients \ {t} : th'[s][u] = th[s][u]
       /\ \A z \in Servers \ {s} : th'[z] = th[z]
       /\ th'[s][t] = IF k.tok = NULL THEN th[s][t] ELSE r
    <2>1. th \in [Servers -> [Clients -> Thread]]
        BY Zenon DEF TypeOK
    <2>2. CASE k.tok = NULL
        BY <1>1, <2>1, <2>2, Zenon
    <2>3. CASE k.tok # NULL
        <3>1. Become(s, t, r)
            BY <1>1, <2>3, Zenon
        <3>2. /\ th'[s][t] = r /\ \A u \in Clients \ {t} : th'[s][u] = th[s][u]
              /\ \A z \in Servers \ {s} : th'[z] = th[z]
              /\ th' \in [Servers -> [Clients -> Thread]]
            BY <1>9, <3>1, BecomeFacts
        <3>3. QED
            BY <2>3, <3>2, Zenon
    <2>4. QED
        BY <2>2, <2>3, Zenon
<1>11. /\ up' \in [Servers -> {"on", "off", "down"}] /\ up'[s] \in {"on", "down"}
       /\ \A z \in Servers \ {s} : up'[z] = up[z]
       /\ k.tok = NULL => up'[s] = "down"
    BY <1>1, EndsFacts, Zenon
<1>12. TypeOK'
    BY <1>2, <1>7, <1>8, <1>10, <1>11, Zenon DEF TypeOK, Called
<1>13. Only(s, t)
    <2>1. fds'[s] >= fds[s]
        BY <1>2, ThreadFacts
    <2>2. QED
        BY <1>1, <1>2, <1>7, <1>8, <1>10, <1>11, <2>1, Zenon DEF Only, Same, Called
<1>14. /\ \A a \in Buffers \ {b} : mem'[s][a] = mem[s][a]
       /\ cur'[s][1] = b
    BY <1>5, <1>6, <1>7, Zenon DEF Called
<1>15. /\ k.tok = NULL => up'[s] = "down" /\ th'[s][t] = th[s][t]
       /\ k.tok # NULL => up' = up /\ th'[s][t].pc = "pass" /\ th'[s][t].user = k.tok
    BY <1>1, <1>9, <1>10, <1>11, Zenon
<1>16. k = Cut([mem[s] EXCEPT ![b] = q], p, Comma)
    BY <1>1, Zenon
<1>17. CredsRead(s, t, q, k)
    BY <1>1, <1>7, <1>15, <1>16, Zenon DEF b, p, Called, CredsRead
<1>18. QED
    BY <1>1, <1>2, <1>7, <1>8, <1>12, <1>13, <1>14, <1>17, Zenon DEF b, Called, Consumed

\* A call of strtok, and nothing else.
LEMMA CutsFacts ==
    ASSUME TypeOK, NEW s \in Servers, NEW t \in Clients, NEW k, NEW r \in Thread,
           Cuts(s, t, k, r), up[s] = "on", gets' \in 0..MaxGets,
           k.mem \in [Buffers -> Seq(Bytes)], k.cur \in Buffers \X (Nat \ {0})
    PROVE  /\ Only(s, t) /\ TypeOK' /\ Called(s, t, k) /\ th'[s][t] = r
           /\ UNCHANGED <<up, inbox, answer, number>>
<1>1. /\ Become(s, t, r) /\ Shares(s, t, k)
      /\ UNCHANGED <<up, fds, dirs, answer, number, inbox, cl, kills>>
    BY Zenon DEF Cuts, clientVars
<1>2. Called(s, t, k)
    BY <1>1, SharesFacts, Zenon
<1>3. /\ th' \in [Servers -> [Clients -> Thread]] /\ th'[s][t] = r
      /\ \A u \in Clients \ {t} : th'[s][u] = th[s][u]
      /\ \A z \in Servers \ {s} : th'[z] = th[z]
    BY <1>1, BecomeFacts
<1>4. TypeOK'
    BY <1>1, <1>2, <1>3, Zenon DEF TypeOK, Called
<1>5. Only(s, t)
    <2>1. fds'[s] >= fds[s]
        BY <1>1, ThreadFacts
    <2>2. QED
        BY <1>1, <1>2, <1>3, <2>1, Zenon DEF Only, Same, Called
<1>6. QED
    BY <1>1, <1>2, <1>3, <1>4, <1>5, Zenon

\* A call of strtok with NULL goes on from the cursor.
LEMMA CursorFacts ==
    ASSUME TypeOK, NEW s \in Servers, cur[s] # NULL, NEW D, NUL \notin D
    PROVE  /\ cur[s] \in Buffers \X (Nat \ {0})
           /\ Cut(mem[s], cur[s], D).tok \in Pointer
           /\ Cut(mem[s], cur[s], D).cur \in Buffers \X (Nat \ {0})
           /\ Cut(mem[s], cur[s], D).mem \in [Buffers -> Seq(Bytes)]
<1>1. mem[s] \in [Buffers -> Seq(Bytes)] /\ cur[s] \in Buffers \X (Nat \ {0})
    <2>1. mem \in [Servers -> [Buffers -> Seq(Bytes)]] /\ cur \in [Servers -> Pointer]
        BY Zenon DEF TypeOK
    <2>2. mem[s] \in [Buffers -> Seq(Bytes)] /\ cur[s] \in Pointer
        BY <2>1
    <2>3. QED
        BY <2>2, BufferFacts, Zenon
<1>2. QED
    BY <1>1, CutTypes, Zenon

\* CutPass makes one call with NULL, and the thread has its password; dfs.conf
\* may be open or not.
LEMMA CutPassFacts ==
    ASSUME TypeOK, NEW s \in Servers, NEW t \in Clients, Counted(s, t), CutPass(s, t)
    PROVE  \E k : /\ k = Cut(mem[s], cur[s], {})
                  /\ Only(s, t) /\ TypeOK' /\ Called(s, t, k)
                  /\ th[s][t].pc = "pass" /\ cur[s] # NULL
                  /\ th'[s][t].pc = "line" /\ th'[s][t].pass = k.tok
                  /\ th'[s][t].n \in {0, 1}
                  /\ th'[s][t].user = th[s][t].user
                  /\ UNCHANGED <<up, inbox, answer, number>>
<1> DEFINE first == IF Used(s) < MaxFds[s] THEN 1 ELSE 0
<1>0. first \in {0, 1}
    OBVIOUS
<1>1. PICK k, r : /\ k = Cut(mem[s], cur[s], {})
                  /\ r = [th[s][t] EXCEPT !.pc = "line", !.pass = k.tok, !.n = first]
                  /\ Cuts(s, t, k, r) /\ gets' = gets
                  /\ up[s] = "on" /\ th[s][t].pc = "pass"
    BY Zenon DEF CutPass, At
<1> HIDE DEF first
<1>2. cur[s] # NULL
    BY <1>1, Zenon DEF Counted, Relies
<1>3. /\ k.tok \in Pointer /\ k.cur \in Buffers \X (Nat \ {0})
      /\ k.mem \in [Buffers -> Seq(Bytes)]
    BY <1>1, <1>2, CursorFacts, SeparatorFacts, Zenon
<1>4. /\ r \in Thread /\ r.pc = "line" /\ r.pass = k.tok /\ r.n \in {0, 1}
      /\ r.user = th[s][t].user
    <2>1. r = [th[s][t] EXCEPT !.pc = "line", !.pass = k.tok, !.n = first]
        BY <1>1, Zenon
    <2>2. th[s][t] \in Thread
        BY ThreadFacts, Zenon
    <2>3. k.tok \in Pointer /\ first \in 0..(Len(Conf) + 1)
        BY <1>0, <1>3, LenFact
    <2>4. QED
        BY <1>0, <2>1, <2>2, <2>3 DEF Thread
<1>5. gets' \in 0..MaxGets
    BY <1>1, Zenon DEF TypeOK
<1>6. /\ Only(s, t) /\ TypeOK' /\ Called(s, t, k) /\ th'[s][t] = r
      /\ UNCHANGED <<up, inbox, answer, number>>
    <2>1. Cuts(s, t, k, r) /\ up[s] = "on"
        BY <1>1, Zenon
    <2>2. r \in Thread
        BY <1>4, Zenon
    <2>3. QED
        BY <1>3, <1>5, <2>1, <2>2, CutsFacts
<1>7. QED
    BY <1>1, <1>2, <1>4, <1>6, Zenon

\* A line of dfs.conf is a string.
LEMMA LineType ==
    ASSUME NEW n \in 1..Len(Conf)
    PROVE  ConfLine(n) \in Seq(Bytes)
<1>1. Conf[n][1] \in Bytes /\ Conf[n][2] \in Bytes /\ " " \in Bytes /\ "\n" \in Bytes
    BY ConfFacts, TextFacts, Zenon
<1>2. \A x, y, z, w \in Bytes : <<x, y, z, w>> \in Seq(Bytes)
    BY Tuples, Zenon
<1>3. QED
    BY <1>1, <1>2, Zenon DEF ConfLine

\* CutUser fills the line buffer and makes one call.
LEMMA CutUserFacts ==
    ASSUME TypeOK, NEW s \in Servers, NEW t \in Clients, Counted(s, t), CutUser(s, t)
    PROVE  \E m, k :
            /\ m = [mem[s] EXCEPT ![<<t, "line">>] = ConfLine(th[s][t].n)]
            /\ k = Cut(m, <<<<t, "line">>, 1>>, Space)
            /\ Only(s, t) /\ TypeOK' /\ Called(s, t, k)
            /\ cur'[s][1] = <<t, "line">>
            /\ \A b \in Buffers \ {<<t, "line">>} : mem'[s][b] = mem[s][b]
            /\ th[s][t].pc = "line" /\ th[s][t].n \in 1..Len(Conf)
            /\ th'[s][t].pc = "word" /\ th'[s][t].pass = th[s][t].pass
            /\ th'[s][t].n = th[s][t].n
            /\ th'[s][t].user = th[s][t].user /\ th'[s][t].entry = k.tok
            /\ UNCHANGED <<up, inbox, answer, number>>
<1> DEFINE b == <<t, "line">>
           p == <<<<t, "line">>, 1>>
           q == ConfLine(th[s][t].n)
<1>1. PICK m, k, r :
        /\ m = [mem[s] EXCEPT ![b] = q] /\ k = Cut(m, p, Space)
        /\ r = [th[s][t] EXCEPT !.pc = "word", !.entry = k.tok]
        /\ Cuts(s, t, k, r) /\ gets' = gets
        /\ up[s] = "on" /\ th[s][t].pc = "line" /\ th[s][t].n \in DOMAIN Conf
    BY Zenon DEF CutUser, At, Space
<1>2. th[s][t].n \in 1..Len(Conf)
    BY <1>1, LenFact, Zenon
<1>3. b \in Buffers /\ p \in Buffers \X (Nat \ {0}) /\ p[1] = b
    <2>1. b \in Buffers
        BY BufferFacts, Zenon
    <2>2. \A i \in Nat \ {0} : <<b, i>> \in Buffers \X (Nat \ {0}) /\ <<b, i>>[1] = b
        BY <2>1, PointerFacts
    <2>3. 1 \in Nat \ {0}
        OBVIOUS
    <2>4. QED
        BY <2>1, <2>2, <2>3, Zenon
<1>4. q \in Seq(Bytes)
    BY <1>2, LineType, Zenon
<1> HIDE DEF b, p, q
<1>5. /\ m \in [Buffers -> Seq(Bytes)] /\ \A a \in Buffers \ {b} : m[a] = mem[s][a]
    BY <1>1, <1>3, <1>4, BufferSet
<1>6. /\ k.tok \in Pointer /\ k.cur \in Buffers \X (Nat \ {0})
      /\ k.mem \in [Buffers -> Seq(Bytes)] /\ \A a \in Buffers \ {b} : k.mem[a] = m[a]
      /\ k.cur[1] = b
    <2>1. k = Cut(m, p, Space) /\ NUL \notin Space
        BY <1>1, SeparatorFacts, Zenon
    <2>2. QED
        BY <1>3, <1>5, <2>1, CutTypes
<1>7. /\ r \in Thread /\ r.pc = "word" /\ r.pass = th[s][t].pass /\ r.n = th[s][t].n
      /\ r.user = th[s][t].user /\ r.entry = k.tok
    <2>1. r = [th[s][t] EXCEPT !.pc = "word", !.entry = k.tok]
        BY <1>1, Zenon
    <2>2. th[s][t] \in Thread
        BY ThreadFacts, Zenon
    <2>3. QED
        BY <1>6, <2>1, <2>2 DEF Thread
<1>8. gets' \in 0..MaxGets
    BY <1>1, Zenon DEF TypeOK
<1>9. /\ Only(s, t) /\ TypeOK' /\ Called(s, t, k) /\ th'[s][t] = r
      /\ UNCHANGED <<up, inbox, answer, number>>
    <2>1. Cuts(s, t, k, r) /\ up[s] = "on"
        BY <1>1, Zenon
    <2>2. r \in Thread
        BY <1>7, Zenon
    <2>3. QED
        BY <1>6, <1>8, <2>1, <2>2, CutsFacts
<1>10. /\ \A a \in Buffers \ {b} : mem'[s][a] = mem[s][a]
       /\ cur'[s][1] = b
    BY <1>5, <1>6, <1>9, Zenon DEF Called
<1>11. QED
    BY <1>1, <1>2, <1>7, <1>9, <1>10, Zenon DEF b, p, q

\* What strtok returns and leaves.
LEMMA CutRecord ==
    ASSUME NEW m, NEW p, NEW D
    PROVE  \E x, y, z : Cut(m, p, D) = [tok |-> x, cur |-> y, mem |-> z]
    BY DEF Cut

\* A thread answers its own client only.
LEMMA AnswerFacts ==
    ASSUME TypeOK, NEW s \in Servers, NEW t \in Clients, NEW x \in {"", "1", "-1"},
           answer' = [answer EXCEPT ![s][t] = x]
    PROVE  /\ answer' \in [Servers -> [Clients -> {"", "1", "-1"}]] /\ answer'[s][t] = x
           /\ \A u \in Clients \ {t} : answer'[s][u] = answer[s][u]
           /\ \A z \in Servers \ {s} : answer'[z] = answer[z]
<1> DEFINE A == {"", "1", "-1"}
<1>1. answer \in [Servers -> [Clients -> A]] /\ x \in A
    BY Zenon DEF TypeOK
<1> HIDE DEF A
<1>2. /\ answer' \in [Servers -> [Clients -> A]] /\ answer'[s][t] = x
      /\ \A u \in Clients \ {t} : answer'[s][u] = answer[s][u]
      /\ \A z \in Servers \ {s} : answer'[z] = answer[z]
    BY <1>1
<1>3. QED
    BY <1>2, Zenon DEF A

\* strtok found k, and the verdict is v.
WordCut(s, t, k, v) ==
    /\ k = Cut(mem[s], cur[s], Newline) /\ v = Verdict(k.mem, th[s][t], k.tok)
    /\ cur'[s] = k.cur
    /\ \A b \in Buffers \ {<<t, "buf">>} : mem'[s][b] = k.mem[b]
    /\ v = "crash" => up'[s] = "down" /\ th'[s][t] = th[s][t] /\ answer' = answer
    /\ v = "yes" => up' = up /\ th'[s][t].pc = "name" /\ answer'[s][t] = "1"
    /\ v = "next" => /\ up' = up /\ th'[s][t].pc = "line" /\ answer' = answer
                     /\ th'[s][t].n = th[s][t].n + 1
                     /\ th'[s][t].user = th[s][t].user
                     /\ th'[s][t].pass = th[s][t].pass
                     /\ mem'[s] = k.mem
    /\ v \in {"crash", "yes", "next"}

\* CutWord makes one call with NULL, and acts on the comparison.
LEMMA CutWordFacts ==
    ASSUME TypeOK, NEW s \in Servers, NEW t \in Clients, Counted(s, t), CutWord(s, t)
    PROVE  /\ Only(s, t) /\ TypeOK' /\ Interrupts(s, t)
           /\ th[s][t].pc = "word" /\ th[s][t].n \in 1..Len(Conf)
           /\ cur[s] # NULL /\ cur'[s] # NULL
           /\ UNCHANGED <<inbox, number>>
           /\ \E k, v : WordCut(s, t, k, v)
<1> DEFINE b == <<t, "buf">>
<1>1. PICK k, v, r, kk, a :
        /\ k = Cut(mem[s], cur[s], Newline) /\ v = Verdict(k.mem, th[s][t], k.tok)
        /\ r = CASE v = "crash" -> th[s][t]
                 [] v = "yes"   -> [Empty EXCEPT !.pc = "name"]
                 [] v = "next"  -> [th[s][t] EXCEPT !.pc = "line", !.n = @ + 1]
        /\ kk = (IF v = "yes" THEN [k EXCEPT !.mem[b] = <<>>] ELSE k)
        /\ a = (IF v = "yes" THEN [answer EXCEPT ![s][t] = "1"] ELSE answer)
        /\ up[s] = "on" /\ th[s][t].pc = "word" /\ Become(s, t, r)
        /\ up' = (IF v = "crash" THEN [up EXCEPT ![s] = "down"] ELSE up)
        /\ answer' = a /\ Shares(s, t, kk)
    BY Zenon DEF CutWord, At, Newline
<1>2. UNCHANGED <<gets, fds, dirs, number, inbox, cl, kills>>
    BY Zenon DEF CutWord, clientVars
<1>3. cur[s] # NULL /\ th[s][t].n \in 1..Len(Conf)
    BY <1>1, Zenon DEF Counted, Relies
<1>4. /\ k.tok \in Pointer /\ k.cur \in Buffers \X (Nat \ {0})
      /\ k.mem \in [Buffers -> Seq(Bytes)]
    BY <1>1, <1>3, CursorFacts, SeparatorFacts, Zenon
<1>5. v \in {"crash", "yes", "next"}
    BY <1>1, Zenon DEF Verdict
<1>6. b \in Buffers
    BY BufferFacts, Zenon
<1> HIDE DEF b
<1>7. /\ kk.mem \in [Buffers -> Seq(Bytes)] /\ kk.cur = k.cur
      /\ \A c \in Buffers \ {b} : kk.mem[c] = k.mem[c]
      /\ v # "yes" => kk.mem = k.mem
    <2>1. CASE v = "yes"
        <3>1. PICK x, y, z : k = [tok |-> x, cur |-> y, mem |-> z]
            <4>1. k = Cut(mem[s], cur[s], Newline)
                BY <1>1, Zenon
            <4>2. QED
                BY <4>1, CutRecord
        <3>2. kk = [k EXCEPT !.mem[b] = <<>>]
            BY <1>1, <2>1, Zenon
        <3>3. kk.mem = [k.mem EXCEPT ![b] = <<>>] /\ kk.cur = k.cur
            BY <3>1, <3>2
        <3>4. <<>> \in Seq(Bytes)
            OBVIOUS
        <3>5. QED
            BY <1>4, <1>6, <2>1, <3>3, <3>4
    <2>2. CASE v # "yes"
        <3>1. kk = k
            BY <1>1, <2>2, Zenon
        <3>2. QED
            BY <1>4, <2>2, <3>1
    <2>3. QED
        BY <2>1, <2>2
<1>8. Called(s, t, kk)
    <2>1. Shares(s, t, kk)
        BY <1>1, Zenon
    <2>2. kk.cur \in Buffers \X (Nat \ {0})
        BY <1>4, <1>7, Zenon
    <2>3. QED
        BY <1>7, <2>1, <2>2, SharesFacts
<1>9. /\ r \in Thread
      /\ v = "crash" => r = th[s][t]
      /\ v = "yes" => r.pc = "name"
      /\ v = "next" => /\ r.pc = "line" /\ r.n = th[s][t].n + 1
                       /\ r.user = th[s][t].user /\ r.pass = th[s][t].pass
    <2>1. th[s][t] \in Thread
        BY ThreadFacts, Zenon
    <2>2. CASE v = "crash"
        BY <1>1, <2>1, <2>2
    <2>3. CASE v = "yes"
        <3>1. r = [Empty EXCEPT !.pc = "name"]
            BY <1>1, <2>3
        <3>2. QED
            BY <2>3, <3>1, EmptyFacts
    <2>4. CASE v = "next"
        <3>1. r = [th[s][t] EXCEPT !.pc = "line", !.n = @ + 1]
            BY <1>1, <2>4
        <3>2. th[s][t].n \in Nat /\ th[s][t].n + 1 \in 0..(Len(Conf) + 1)
            BY <1>3, LenFact
        <3>3. QED
            BY <2>1, <2>4, <3>1, <3>2 DEF Thread
    <2>5. QED
        BY <1>5, <2>2, <2>3, <2>4
<1>10. /\ th' \in [Servers -> [Clients -> Thread]] /\ th'[s][t] = r
       /\ \A u \in Clients \ {t} : th'[s][u] = th[s][u]
       /\ \A z \in Servers \ {s} : th'[z] = th[z]
    <2>1. Become(s, t, r)
        BY <1>1, Zenon
    <2>2. QED
        BY <1>9, <2>1, BecomeFacts
<1>11. /\ up' \in [Servers -> {"on", "off", "down"}] /\ up'[s] \in {"on", "down"}
       /\ \A z \in Servers \ {s} : up'[z] = up[z]
       /\ v = "crash" => up'[s] = "down"
       /\ v # "crash" => up' = up
    BY <1>1, EndsFacts, Zenon DEF Ends
<1>12. /\ answer' \in [Servers -> [Clients -> {"", "1", "-1"}]]
       /\ \A u \in Clients \ {t} : answer'[s][u] = answer[s][u]
       /\ \A z \in Servers \ {s} : answer'[z] = answer[z]
       /\ v = "yes" => answer'[s][t] = "1"
       /\ v # "yes" => answer' = answer
    <2>1. CASE v = "yes"
        <3>1. answer' = [answer EXCEPT ![s][t] = "1"]
            BY <1>1, <2>1, Zenon
        <3>2. "1" \in {"", "1", "-1"}
            BY Zenon
        <3>3. QED
            BY <2>1, <3>1, <3>2, AnswerFacts, Zenon
    <2>2. CASE v # "yes"
        <3>1. answer' = answer
            BY <1>1, <2>2, Zenon
        <3>2. QED
            BY <2>2, <3>1, Zenon DEF TypeOK
    <2>3. QED
        BY <2>1, <2>2, Zenon
<1>13. TypeOK'
    BY <1>2, <1>8, <1>10, <1>11, <1>12, Zenon DEF TypeOK, Called
<1>14. Only(s, t)
    <2>1. fds'[s] >= fds[s]
        BY <1>2, ThreadFacts
    <2>2. QED
        BY <1>1, <1>2, <1>8, <1>10, <1>11, <1>12, <2>1, Zenon DEF Only, Same, Called
<1>15. /\ \A c \in Buffers \ {b} : mem'[s][c] = k.mem[c]
       /\ cur'[s] # NULL /\ cur'[s] = k.cur /\ Interrupts(s, t)
       /\ v = "next" => mem'[s] = k.mem
    BY <1>7, <1>8, Zenon DEF Called
<1>16. /\ v = "crash" => up'[s] = "down" /\ th'[s][t] = th[s][t] /\ answer' = answer
       /\ v = "yes" => up' = up /\ th'[s][t].pc = "name" /\ answer'[s][t] = "1"
       /\ v = "next" => /\ up' = up /\ th'[s][t].pc = "line" /\ answer' = answer
                        /\ th'[s][t].n = th[s][t].n + 1
                        /\ th'[s][t].user = th[s][t].user
                        /\ th'[s][t].pass = th[s][t].pass
    BY <1>9, <1>10, <1>11, <1>12, Zenon
<1>17. /\ k = Cut(mem[s], cur[s], Newline) /\ v = Verdict(k.mem, th[s][t], k.tok)
       /\ th[s][t].pc = "word"
    BY <1>1, Zenon
<1>18. WordCut(s, t, k, v)
    BY <1>5, <1>15, <1>16, <1>17, Zenon DEF b, WordCut
<1>19. QED
    BY <1>2, <1>3, <1>13, <1>14, <1>15, <1>17, <1>18, Zenon

\* Where the buffer of a thread is written without a call of strtok.
LEMMA BufferWritten ==
    ASSUME TypeOK, NEW s \in Servers, NEW t \in Clients, NEW q \in Seq(Bytes),
           mem' = [mem EXCEPT ![s][<<t, "buf">>] = q]
    PROVE  /\ mem' \in [Servers -> [Buffers -> Seq(Bytes)]] /\ mem'[s][<<t, "buf">>] = q
           /\ \A b \in Buffers \ {<<t, "buf">>} : mem'[s][b] = mem[s][b]
           /\ \A z \in Servers \ {s} : mem'[z] = mem[z]
<1> DEFINE M == Seq(Bytes)
<1>1. mem \in [Servers -> [Buffers -> M]] /\ q \in M
    BY Zenon DEF TypeOK
<1> HIDE DEF M
<1>2. <<t, "buf">> \in Buffers
    BY BufferFacts, Zenon
<1>3. PICK b, g : b = <<t, "buf">> /\ g = mem' /\ g = [mem EXCEPT ![s][b] = q]
    BY Zenon
<1>4. b \in Buffers
    BY <1>2, <1>3, Zenon
<1>5. /\ g \in [Servers -> [Buffers -> M]] /\ g[s][b] = q
      /\ \A a \in Buffers \ {b} : g[s][a] = mem[s][a]
      /\ \A z \in Servers \ {s} : g[z] = mem[z]
    <2>1. g = [mem EXCEPT ![s][b] = q]
        BY <1>3, Zenon
    <2>2. QED
        BY <1>1, <1>4, <2>1
<1>6. QED
    BY <1>3, <1>5, Zenon DEF M

\* Deny answers -1.
LEMMA DenyFacts ==
    ASSUME TypeOK, NEW s \in Servers, NEW t \in Clients, Deny(s, t)
    PROVE  /\ Only(s, t) /\ TypeOK' /\ th[s][t].pc = "line" /\ th[s][t].n \notin DOMAIN Conf
           /\ th'[s][t].pc = "no" /\ th'[s][t].n = th[s][t].n /\ answer'[s][t] = "-1"
           /\ \A b \in Buffers \ {<<t, "buf">>} : mem'[s][b] = mem[s][b]
           /\ mem'[s][<<t, "buf">>] = <<>>
           /\ UNCHANGED <<up, inbox, number, cur, mixed>>
<1>1. PICK r : /\ r = [th[s][t] EXCEPT !.pc = "no"] /\ Become(s, t, r)
               /\ up[s] = "on" /\ th[s][t].pc = "line" /\ th[s][t].n \notin DOMAIN Conf
               /\ mem' = [mem EXCEPT ![s][<<t, "buf">>] = <<>>]
               /\ answer' = [answer EXCEPT ![s][t] = "-1"]
    BY Zenon DEF Deny, Goto, At
<1>2. UNCHANGED <<gets, up, fds, cur, dirs, mixed, number, inbox, cl, kills>>
    BY Zenon DEF Deny, clientVars
<1>3. r \in Thread /\ r.pc = "no" /\ r.n = th[s][t].n
    <2>1. r = [th[s][t] EXCEPT !.pc = "no"] /\ th[s][t] \in Thread
        BY <1>1, ThreadFacts, Zenon
    <2>2. QED
        BY <2>1 DEF Thread
<1>4. /\ th' \in [Servers -> [Clients -> Thread]] /\ th'[s][t] = r
      /\ \A u \in Clients \ {t} : th'[s][u] = th[s][u]
      /\ \A z \in Servers \ {s} : th'[z] = th[z]
    <2>1. Become(s, t, r)
        BY <1>1, Zenon
    <2>2. QED
        BY <1>3, <2>1, BecomeFacts
<1>5. /\ mem' \in [Servers -> [Buffers -> Seq(Bytes)]] /\ mem'[s][<<t, "buf">>] = <<>>
      /\ \A b \in Buffers \ {<<t, "buf">>} : mem'[s][b] = mem[s][b]
      /\ \A z \in Servers \ {s} : mem'[z] = mem[z]
    <2>1. <<>> \in Seq(Bytes)
        OBVIOUS
    <2>2. QED
        BY <1>1, <2>1, BufferWritten, Zenon
<1>6. /\ answer' \in [Servers -> [Clients -> {"", "1", "-1"}]] /\ answer'[s][t] = "-1"
      /\ \A u \in Clients \ {t} : answer'[s][u] = answer[s][u]
      /\ \A z \in Servers \ {s} : answer'[z] = answer[z]
    <2>1. "-1" \in {"", "1", "-1"}
        BY Zenon
    <2>2. QED
        BY <1>1, <2>1, AnswerFacts, Zenon
<1>7. TypeOK'
    BY <1>2, <1>4, <1>5, <1>6, Zenon DEF TypeOK
<1>8. Only(s, t)
    <2>1. fds'[s] >= fds[s]
        BY <1>2, ThreadFacts
    <2>2. mixed[s] \subseteq mixed'[s] /\ (t \in mixed'[s] <=> t \in mixed[s])
        BY <1>2, Zenon
    <2>3. up'[s] \in {"on", "down"} /\ up[s] = "on"
        BY <1>1, <1>2, Zenon
    <2>4. QED
        BY <1>2, <1>4, <1>5, <1>6, <2>1, <2>2, <2>3, Zenon DEF Only, Same
<1>9. QED
    BY <1>1, <1>2, <1>3, <1>4, <1>5, <1>6, <1>7, <1>8, Zenon

\* ReadName takes a message, and calls strtok not at all.
LEMMA ReadNameFacts ==
    ASSUME TypeOK, NEW s \in Servers, NEW t \in Clients, ReadName(s, t)
    PROVE  /\ Only(s, t) /\ TypeOK' /\ th[s][t].pc = "name" /\ th'[s][t].pc = "loop"
           /\ \A b \in Buffers \ {<<t, "buf">>} : mem'[s][b] = mem[s][b]
           /\ mem'[s][<<t, "buf">>] \in Incoming(s, t)
           /\ Consumed(s, t)
           /\ UNCHANGED <<up, answer, number, cur, mixed>>
<1>1. PICK q, r :
        /\ q \in Incoming(s, t)
        /\ mem' = [mem EXCEPT ![s][<<t, "buf">>] = q]
        /\ dirs' = [dirs EXCEPT ![s] = @ \cup ({q} \ {<<>>})]
        /\ r = [Empty EXCEPT !.pc = "loop"] /\ Become(s, t, r)
        /\ up[s] = "on" /\ th[s][t].pc = "name" /\ Consume(s, t)
    BY Zenon DEF ReadName, NameRead, Goto, At
<1>2. UNCHANGED <<gets, up, fds, cur, answer, mixed, number, cl, kills>>
    BY Zenon DEF ReadName, NameRead
<1>3. r \in Thread /\ r.pc = "loop"
    BY <1>1, EmptyFacts
<1>4. /\ th' \in [Servers -> [Clients -> Thread]] /\ th'[s][t] = r
      /\ \A u \in Clients \ {t} : th'[s][u] = th[s][u]
      /\ \A z \in Servers \ {s} : th'[z] = th[z]
    <2>1. Become(s, t, r)
        BY <1>1, Zenon
    <2>2. QED
        BY <1>3, <2>1, BecomeFacts
<1>5. q \in Seq(Bytes)
    BY <1>1, IncomingFacts
<1>6. /\ mem' \in [Servers -> [Buffers -> Seq(Bytes)]] /\ mem'[s][<<t, "buf">>] = q
      /\ \A b \in Buffers \ {<<t, "buf">>} : mem'[s][b] = mem[s][b]
      /\ \A z \in Servers \ {s} : mem'[z] = mem[z]
    BY <1>1, <1>5, BufferWritten, Zenon
<1>7. /\ inbox' \in [Servers -> [Clients -> Seq(Seq(Bytes))]]
      /\ inbox'[s][t] = IF inbox[s][t] = <<>> THEN <<>> ELSE Tail(inbox[s][t])
      /\ \A u \in Clients \ {t} : inbox'[s][u] = inbox[s][u]
      /\ \A z \in Servers \ {s} : inbox'[z] = inbox[z]
    BY <1>1, ConsumeFacts, Zenon
<1>8. dirs' \in [Servers -> SUBSET Seq(Bytes)]
    <2>1. dirs \in [Servers -> SUBSET Seq(Bytes)]
        BY Zenon DEF TypeOK
    <2>2. dirs' = [dirs EXCEPT ![s] = @ \cup ({q} \ {<<>>})]
        BY <1>1, Zenon
    <2>3. QED
        BY <1>5, <2>1, <2>2
<1>9. TypeOK'
    BY <1>2, <1>4, <1>6, <1>7, <1>8, Zenon DEF TypeOK
<1>10. Only(s, t)
    <2>1. fds'[s] >= fds[s]
        BY <1>2, ThreadFacts
    <2>2. mixed[s] \subseteq mixed'[s] /\ (t \in mixed'[s] <=> t \in mixed[s])
        BY <1>2, Zenon
    <2>3. up'[s] \in {"on", "down"} /\ up[s] = "on"
        BY <1>1, <1>2, Zenon
    <2>4. QED
        BY <1>2, <1>4, <1>6, <1>7, <2>1, <2>2, <2>3, Zenon DEF Only, Same
<1>11. mem'[s][<<t, "buf">>] \in Incoming(s, t)
    BY <1>1, <1>6, Zenon
<1>12. QED
    BY <1>1, <1>2, <1>3, <1>4, <1>6, <1>7, <1>9, <1>10, <1>11, Zenon DEF Consumed

\* The entry that GET cuts is a string.
LEMMA EntryType == Entry \in Seq(Bytes) /\ <<"foo">> \in Seq(Bytes)
<1>1. "." \in Bytes /\ "foo" \in Bytes /\ "txt" \in Bytes /\ "1" \in Bytes
    BY TextFacts, Zenon
<1>2. \A x, y, z, w, u, v \in Bytes : <<x, y, z, w, u, v>> \in Seq(Bytes)
    BY Tuples, Zenon
<1>3. \A x \in Bytes : <<x>> \in Seq(Bytes)
    BY Tuples, Zenon
<1>4. QED
    BY <1>1, <1>2, <1>3, Zenon DEF Entry

\* GetCut fills the path buffer and makes one call.
LEMMA GetCutFacts ==
    ASSUME TypeOK, NEW s \in Servers, NEW t \in Clients, GetCut(s, t)
    PROVE  \E m, k :
            /\ m \in [Buffers -> Seq(Bytes)] /\ m[<<t, "path">>] = Entry
            /\ k = Cut(m, <<<<t, "path">>, 1>>, Dot)
            /\ Only(s, t) /\ TypeOK' /\ Called(s, t, k)
            /\ cur'[s][1] = <<t, "path">>
            /\ \A b \in Buffers : b[1] # t => mem'[s][b] = mem[s][b]
            /\ th[s][t].pc = "loop" /\ th'[s][t].pc = "cut2"
            /\ UNCHANGED <<up, inbox, answer, number>>
<1> DEFINE b == <<t, "path">>
           c == <<t, "buf">>
           p == <<<<t, "path">>, 1>>
           foo == <<"foo">>
<1>1. PICK m, k, r :
        /\ m = [mem[s] EXCEPT ![b] = Entry, ![c] = foo] /\ k = Cut(m, p, Dot)
        /\ r = [th[s][t] EXCEPT !.pc = "cut2"]
        /\ Cuts(s, t, k, r) /\ gets' = gets + 1 /\ gets < MaxGets
        /\ up[s] = "on" /\ th[s][t].pc = "loop"
    BY Zenon DEF GetCut, Typed, At, Dot
<1>2. /\ b \in Buffers /\ c \in Buffers /\ b # c /\ b[1] = t /\ c[1] = t
      /\ p \in Buffers \X (Nat \ {0}) /\ p[1] = b
    <2>1. b \in Buffers /\ c \in Buffers /\ b # c /\ b[1] = t /\ c[1] = t
        BY BufferFacts, Zenon
    <2>2. \A i \in Nat \ {0} : <<b, i>> \in Buffers \X (Nat \ {0}) /\ <<b, i>>[1] = b
        BY <2>1, PointerFacts
    <2>3. 1 \in Nat \ {0}
        OBVIOUS
    <2>4. QED
        BY <2>1, <2>2, <2>3, Zenon
<1>3. Entry \in Seq(Bytes) /\ foo \in Seq(Bytes)
    BY EntryType
<1> HIDE DEF b, c, p, foo
<1>4. /\ m \in [Buffers -> Seq(Bytes)] /\ m[b] = Entry
      /\ \A a \in Buffers \ {b, c} : m[a] = mem[s][a]
    <2>1. mem[s] \in [Buffers -> Seq(Bytes)]
        BY ThreadFacts, Zenon
    <2>2. m = [mem[s] EXCEPT ![b] = Entry, ![c] = foo]
        BY <1>1, Zenon
    <2>3. QED
        BY <1>2, <1>3, <2>1, <2>2
<1>5. /\ k.tok \in Pointer /\ k.cur \in Buffers \X (Nat \ {0})
      /\ k.mem \in [Buffers -> Seq(Bytes)] /\ \A a \in Buffers \ {b} : k.mem[a] = m[a]
      /\ k.cur[1] = b
    <2>1. k = Cut(m, p, Dot) /\ NUL \notin Dot
        BY <1>1, SeparatorFacts, Zenon
    <2>2. QED
        BY <1>2, <1>4, <2>1, CutTypes
<1>6. r \in Thread /\ r.pc = "cut2"
    <2>1. r = [th[s][t] EXCEPT !.pc = "cut2"] /\ th[s][t] \in Thread
        BY <1>1, ThreadFacts, Zenon
    <2>2. QED
        BY <2>1 DEF Thread
<1>7. gets' \in 0..MaxGets
    <2>1. gets \in 0..MaxGets
        BY Zenon DEF TypeOK
    <2>2. gets' = gets + 1 /\ gets < MaxGets /\ MaxGets \in Nat
        BY <1>1, BoundsAssumption
    <2>3. QED
        BY <2>1, <2>2
<1>8. /\ Only(s, t) /\ TypeOK' /\ Called(s, t, k) /\ th'[s][t] = r
      /\ UNCHANGED <<up, inbox, answer, number>>
    <2>1. Cuts(s, t, k, r) /\ up[s] = "on"
        BY <1>1, Zenon
    <2>2. r \in Thread
        BY <1>6, Zenon
    <2>3. QED
        BY <1>5, <1>7, <2>1, <2>2, CutsFacts
<1>9. /\ \A a \in Buffers : a[1] # t => mem'[s][a] = mem[s][a]
      /\ cur'[s][1] = b
    <2>1. mem'[s] = k.mem /\ cur'[s] = k.cur
        BY <1>8, Zenon DEF Called
    <2>2. QED
        BY <1>2, <1>4, <1>5, <2>1
<1>10. k = Cut(m, p, Dot) /\ th[s][t].pc = "loop"
    BY <1>1, Zenon
<1>11. QED
    BY <1>4, <1>6, <1>8, <1>9, <1>10, Zenon DEF b, p

\* GetCut2 makes one call with NULL.
LEMMA GetCut2Facts ==
    ASSUME TypeOK, NEW s \in Servers, NEW t \in Clients, Counted(s, t), GetCut2(s, t)
    PROVE  \E k : /\ k = Cut(mem[s], cur[s], Dot)
                  /\ Only(s, t) /\ TypeOK' /\ Called(s, t, k)
                  /\ th[s][t].pc = "cut2" /\ cur[s] # NULL
                  /\ th'[s][t].pc = "cut3"
                  /\ UNCHANGED <<up, inbox, answer, number>>
<1>1. PICK k, r : /\ k = Cut(mem[s], cur[s], Dot)
                  /\ r = [th[s][t] EXCEPT !.pc = "cut3"]
                  /\ Cuts(s, t, k, r) /\ gets' = gets
                  /\ up[s] = "on" /\ th[s][t].pc = "cut2"
    BY Zenon DEF GetCut2, GetCutBy, At, Dot
<1>2. cur[s] # NULL
    BY <1>1, Zenon DEF Counted, Relies
<1>3. /\ k.tok \in Pointer /\ k.cur \in Buffers \X (Nat \ {0})
      /\ k.mem \in [Buffers -> Seq(Bytes)]
    BY <1>1, <1>2, CursorFacts, SeparatorFacts, Zenon
<1>4. r \in Thread /\ r.pc = "cut3"
    <2>1. r = [th[s][t] EXCEPT !.pc = "cut3"] /\ th[s][t] \in Thread
        BY <1>1, ThreadFacts, Zenon
    <2>2. QED
        BY <2>1 DEF Thread
<1>5. gets' \in 0..MaxGets
    BY <1>1, Zenon DEF TypeOK
<1>6. /\ Only(s, t) /\ TypeOK' /\ Called(s, t, k) /\ th'[s][t] = r
      /\ UNCHANGED <<up, inbox, answer, number>>
    <2>1. Cuts(s, t, k, r) /\ up[s] = "on"
        BY <1>1, Zenon
    <2>2. r \in Thread
        BY <1>4, Zenon
    <2>3. QED
        BY <1>3, <1>5, <2>1, <2>2, CutsFacts
<1>7. QED
    BY <1>1, <1>2, <1>4, <1>6, Zenon

\* GetCut3 makes one call with NULL, sends the token, or ends the server.
LEMMA GetCut3Facts ==
    ASSUME TypeOK, NEW s \in Servers, NEW t \in Clients, Counted(s, t), GetCut3(s, t)
    PROVE  \E k : /\ k = Cut(mem[s], cur[s], {})
                  /\ Only(s, t) /\ TypeOK' /\ Called(s, t, k)
                  /\ th[s][t].pc = "cut3" /\ cur[s] # NULL
                  /\ k.tok = NULL => number' = number
                  /\ k.tok # NULL => number'[s][t] = StringAt(k.mem, k.tok)
                  /\ \/ up' = up /\ th'[s][t].pc = "loop" /\ k.tok # NULL
                     \/ up'[s] = "down" /\ th'[s][t] = th[s][t] /\ (k.tok = NULL \/ Gone(t))
                  /\ UNCHANGED <<inbox, answer>>
<1>1. PICK k, r : /\ k = Cut(mem[s], cur[s], {})
                  /\ r = [th[s][t] EXCEPT !.pc = "loop"]
                  /\ up[s] = "on" /\ th[s][t].pc = "cut3"
                  /\ Shares(s, t, k)
                  /\ k.tok = NULL => Ends(s) /\ th' = th /\ number' = number
                  /\ k.tok # NULL =>
                        /\ number' = [number EXCEPT ![s][t] = StringAt(k.mem, k.tok)]
                        /\ \/ up' = up /\ Become(s, t, r)
                           \/ Gone(t) /\ Ends(s) /\ th' = th
    BY Zenon DEF GetCut3, At
<1>2. UNCHANGED <<gets, fds, dirs, answer, inbox, cl, kills>>
    BY Zenon DEF GetCut3, clientVars
<1>3. cur[s] # NULL
    BY <1>1, Zenon DEF Counted, Relies
<1>4. /\ k.tok \in Pointer /\ k.cur \in Buffers \X (Nat \ {0})
      /\ k.mem \in [Buffers -> Seq(Bytes)]
    BY <1>1, <1>3, CursorFacts, SeparatorFacts, Zenon
<1>5. Called(s, t, k)
    BY <1>1, <1>4, SharesFacts, Zenon
<1>6. r \in Thread /\ r.pc = "loop"
    <2>1. r = [th[s][t] EXCEPT !.pc = "loop"] /\ th[s][t] \in Thread
        BY <1>1, ThreadFacts, Zenon
    <2>2. QED
        BY <2>1 DEF Thread
<1>7. /\ number' \in [Servers -> [Clients -> Seq(Bytes)]]
      /\ \A u \in Clients \ {t} : number'[s][u] = number[s][u]
      /\ \A z \in Servers \ {s} : number'[z] = number[z]
      /\ k.tok # NULL => number'[s][t] = StringAt(k.mem, k.tok)
    <2> DEFINE M == Seq(Bytes)
               x == StringAt(k.mem, k.tok)
    <2>1. number \in [Servers -> [Clients -> M]]
        BY Zenon DEF TypeOK
    <2>2. k.tok # NULL => x \in M
        <3>1. k.tok # NULL => k.tok \in Buffers \X (Nat \ {0})
            BY <1>4, BufferFacts, Zenon
        <3>2. QED
            BY <1>4, <3>1, StringTypes
    <2>3. k.tok # NULL => number' = [number EXCEPT ![s][t] = x]
        BY <1>1, Zenon
    <2>4. k.tok = NULL => number' = number
        BY <1>1, Zenon
    <2> HIDE DEF M, x
    <2>5. /\ number' \in [Servers -> [Clients -> M]]
          /\ \A u \in Clients \ {t} : number'[s][u] = number[s][u]
          /\ \A z \in Servers \ {s} : number'[z] = number[z]
          /\ k.tok # NULL => number'[s][t] = x
        BY <2>1, <2>2, <2>3, <2>4
    <2>6. QED
        BY <2>5, Zenon DEF M, x
<1>8. /\ th' \in [Servers -> [Clients -> Thread]]
      /\ \A u \in Clients \ {t} : th'[s][u] = th[s][u]
      /\ \A z \in Servers \ {s} : th'[z] = th[z]
      /\ \/ up' = up /\ th'[s][t] = r /\ k.tok # NULL
         \/ Ends(s) /\ th'[s][t] = th[s][t] /\ (k.tok = NULL \/ Gone(t))
    <2>1. th \in [Servers -> [Clients -> Thread]]
        BY Zenon DEF TypeOK
    <2>2. CASE th' = th /\ Ends(s) /\ (k.tok = NULL \/ Gone(t))
        BY <2>1, <2>2, Zenon
    <2>3. CASE up' = up /\ Become(s, t, r) /\ k.tok # NULL
        <3>1. Become(s, t, r)
            BY <2>3
        <3>2. /\ th'[s][t] = r /\ \A u \in Clients \ {t} : th'[s][u] = th[s][u]
              /\ \A z \in Servers \ {s} : th'[z] = th[z]
              /\ th' \in [Servers -> [Clients -> Thread]]
            BY <1>6, <3>1, BecomeFacts
        <3>3. QED
            BY <2>3, <3>2, Zenon
    <2>4. QED
        BY <1>1, <2>2, <2>3, Zenon
<1>9. /\ up' \in [Servers -> {"on", "off", "down"}] /\ up'[s] \in {"on", "down"}
      /\ \A z \in Servers \ {s} : up'[z] = up[z]
      /\ Ends(s) => up'[s] = "down"
    BY <1>1, <1>8, EndsFacts, Zenon
<1>10. TypeOK'
    BY <1>2, <1>5, <1>7, <1>8, <1>9, Zenon DEF TypeOK, Called
<1>11. Only(s, t)
    <2>1. fds'[s] >= fds[s]
        BY <1>2, ThreadFacts
    <2>2. QED
        BY <1>1, <1>2, <1>5, <1>7, <1>8, <1>9, <2>1, Zenon DEF Only, Same, Called
<1>12. /\ k = Cut(mem[s], cur[s], {}) /\ th[s][t].pc = "cut3"
       /\ k.tok = NULL => number' = number
    BY <1>1, Zenon
<1>13. QED
    BY <1>2, <1>3, <1>5, <1>6, <1>7, <1>8, <1>9, <1>10, <1>11, <1>12, Zenon

\* Server s ends, and nothing else changes.
Stops(s) ==
    /\ TypeOK' /\ up[s] = "on" /\ up'[s] = "down"
    /\ \A z \in Servers \ {s} : up'[z] = up[z]
    /\ UNCHANGED <<fds, th, mem, cur, inbox, answer, mixed, number, cl>>

\* The end of a server needs nothing.
LEMMA EndStops ==
    ASSUME TypeOK, NEW s \in Servers, up[s] = "on", Ends(s), gets' \in 0..MaxGets,
           UNCHANGED <<fds, th, mem, cur, dirs, answer, mixed, number, inbox, cl, kills>>
    PROVE  Stops(s)
<1>1. /\ up' \in [Servers -> {"on", "off", "down"}] /\ up'[s] = "down"
      /\ \A z \in Servers \ {s} : up'[z] = up[z]
    BY EndsFacts, Zenon
<1>2. TypeOK'
    BY <1>1, Zenon DEF TypeOK
<1>3. QED
    BY <1>1, <1>2, Zenon DEF Stops

\* exit after the answer -1, ...
LEMMA RefuseFacts ==
    ASSUME TypeOK, NEW s \in Servers, NEW t \in Clients, Refuse(s, t)
    PROVE  Stops(s) /\ th[s][t].pc = "no"
<1>1. /\ up[s] = "on" /\ th[s][t].pc = "no" /\ Ends(s)
      /\ UNCHANGED <<gets, fds, th, mem, cur, dirs, answer, mixed, number, inbox, cl, kills>>
    BY Zenon DEF Refuse, At, clientVars
<1>2. gets' \in 0..MaxGets
    BY <1>1, Zenon DEF TypeOK
<1>3. QED
    BY <1>1, <1>2, EndStops, Zenon

\* ... and the end for want of a descriptor, in accept ...
LEMMA AcceptFailsFacts ==
    ASSUME TypeOK, NEW s \in Servers, AcceptFails(s)
    PROVE  Stops(s) /\ Used(s) + 2 > MaxFds[s]
<1>1. /\ up[s] = "on" /\ Used(s) = MaxFds[s] /\ Ends(s)
      /\ UNCHANGED <<gets, fds, th, mem, cur, dirs, answer, mixed, number, inbox, cl, kills>>
    BY Zenon DEF AcceptFails, clientVars
<1>2. gets' \in 0..MaxGets
    BY <1>1, Zenon DEF TypeOK
<1>3. Used(s) + 2 > MaxFds[s]
    BY <1>1, UsedFacts
<1>4. Stops(s)
    BY <1>1, <1>2, EndStops, Zenon
<1>5. QED
    BY <1>3, <1>4, Zenon

\* ... or in popen, change nothing else.
LEMMA GetFailsFacts ==
    ASSUME TypeOK, NEW s \in Servers, NEW t \in Clients, GetFails(s, t)
    PROVE  Stops(s) /\ Used(s) + 2 > MaxFds[s]
<1>1. /\ up[s] = "on" /\ Used(s) + 2 > MaxFds[s] /\ Ends(s)
      /\ gets < MaxGets /\ gets' = gets + 1
      /\ UNCHANGED <<fds, th, mem, cur, dirs, answer, mixed, number, inbox, cl, kills>>
    BY Zenon DEF GetFails, Typed, At, clientVars
<1>2. gets' \in 0..MaxGets
    <2>1. gets \in 0..MaxGets /\ MaxGets \in Nat
        BY BoundsAssumption, Zenon DEF TypeOK
    <2>2. QED
        BY <1>1, <2>1
<1>3. Stops(s)
    BY <1>1, <1>2, EndStops, Zenon
<1>4. QED
    BY <1>1, <1>3, Zenon

-----------------------------------------------------------------------------
(* What the actions of a client do.                                        *)

\* A step of client c: the servers take none, and nothing else is sent.
Alone(c) ==
    /\ UNCHANGED <<up, fds, th, mem, cur, answer, mixed, number>>
    /\ \A d \in Clients \ {c} : /\ cl'[d] = cl[d]
                                /\ \A s \in Servers : inbox'[s][d] = inbox[s][d]

\* Client c goes to pc, with these servers still to do.
Goes(c, pc, todo) ==
    /\ cl'[c].pc = pc /\ cl'[c].todo = todo
    /\ cl'[c].socks = cl[c].socks

\* On to the next server, and after the last one to pc.
Advances(c, pc, more) ==
    LET left == cl[c].todo \ {Min(cl[c].todo)}
    IN  \/ left = {} /\ Goes(c, pc, cl[c].socks)
        \/ left # {} /\ Goes(c, more, left)

\* The types of what client c uses.
LEMMA ClientFacts ==
    ASSUME TypeOK, NEW c \in Clients
    PROVE  /\ cl \in [Clients -> Client] /\ cl[c] \in Client
           /\ cl[c].pc \in {"start", "greet", "wait", "names", "menu", "out", "dead"}
           /\ cl[c].socks \subseteq Servers /\ cl[c].todo \subseteq Servers
           /\ cl[c].todo \subseteq cl[c].socks
           /\ cl[c].cred \in BOOLEAN
<1>1. cl \in [Clients -> Client] /\ \A d \in Clients : cl[d].todo \subseteq cl[d].socks
    BY Zenon DEF TypeOK
<1>2. cl[c] \in Client
    BY <1>1
<1>3. QED
    BY <1>1, <1>2 DEF Client

\* The server that comes next is one of those left.
LEMMA LeastServer ==
    ASSUME TypeOK, NEW c \in Clients, cl[c].todo # {}
    PROVE  Min(cl[c].todo) \in cl[c].todo /\ Min(cl[c].todo) \in Servers
<1>1. cl[c].todo \subseteq Servers /\ Servers \subseteq Nat
    BY ClientFacts, NamesAssumption, Zenon
<1>2. cl[c].todo \subseteq Nat
    BY <1>1
<1>3. Min(cl[c].todo) \in cl[c].todo
    BY <1>2, LeastNumber
<1>4. QED
    BY <1>1, <1>3

\* A client becomes r.
LEMMA ClientSet ==
    ASSUME TypeOK, NEW c \in Clients, NEW r \in Client, r.todo \subseteq r.socks,
           cl' = [cl EXCEPT ![c] = r]
    PROVE  /\ cl' \in [Clients -> Client] /\ \A d \in Clients : cl'[d].todo \subseteq cl'[d].socks
           /\ cl'[c] = r /\ \A d \in Clients \ {c} : cl'[d] = cl[d]
<1>1. cl \in [Clients -> Client] /\ \A d \in Clients : cl[d].todo \subseteq cl[d].socks
    BY Zenon DEF TypeOK
<1>2. QED
    BY <1>1

\* Connect opens sockets to servers that are up, or the client gives up.
LEMMA ConnectFacts ==
    ASSUME TypeOK, NEW c \in Clients, Connect(c)
    PROVE  /\ TypeOK' /\ Alone(c) /\ inbox' = inbox
           /\ cl[c].pc = "start"
           /\ \E S \in SUBSET Servers :
                /\ cl'[c].pc = IF S = {} THEN "out" ELSE "greet"
                /\ cl'[c].socks = S /\ cl'[c].todo = S
<1>1. PICK S, r : /\ S = {s \in Ports[c] : up[s] = "on"}
                  /\ r = [cl[c] EXCEPT !.pc = IF S = {} THEN "out" ELSE "greet",
                                       !.socks = S, !.todo = S]
                  /\ cl' = [cl EXCEPT ![c] = r]
                  /\ cl[c].pc = "start"
    BY Zenon DEF Connect
<1>2. UNCHANGED <<up, fds, th, mem, cur, dirs, gets, mixed, number, inbox, answer, kills>>
    BY Zenon DEF Connect, serverVars
<1>3. S \in SUBSET Servers
    <2>1. Ports[c] \in SUBSET Servers
        BY NamesAssumption, Zenon
    <2>2. S \subseteq Ports[c]
        BY <1>1
    <2>3. QED
        BY <2>1, <2>2
<1>4. r \in Client /\ r.pc = (IF S = {} THEN "out" ELSE "greet") /\ r.socks = S /\ r.todo = S
    <2>1. cl[c] \in Client
        BY ClientFacts, Zenon
    <2>2. r = [cl[c] EXCEPT !.pc = IF S = {} THEN "out" ELSE "greet",
                            !.socks = S, !.todo = S]
        BY <1>1, Zenon
    <2>3. QED
        BY <1>3, <2>1, <2>2 DEF Client
<1>5. /\ cl' \in [Clients -> Client] /\ \A d \in Clients : cl'[d].todo \subseteq cl'[d].socks
      /\ cl'[c] = r /\ \A d \in Clients \ {c} : cl'[d] = cl[d]
    <2>1. cl' = [cl EXCEPT ![c] = r] /\ r.todo \subseteq r.socks
        BY <1>1, <1>4, Zenon
    <2>2. QED
        BY <1>4, <2>1, ClientSet, Zenon
<1>6. TypeOK'
    BY <1>2, <1>5, Zenon DEF TypeOK
<1>7. Alone(c)
    BY <1>2, <1>5, Zenon DEF Alone
<1>8. QED
    BY <1>1, <1>2, <1>3, <1>4, <1>5, <1>6, <1>7, Zenon

\* A write: the client goes on as r, or it has ended.
LEMMA WriteFacts ==
    ASSUME TypeOK, NEW c \in Clients, NEW q \in Seq(Bytes), NEW r \in Client,
           r.todo \subseteq r.socks, cl[c].todo # {}, WriteTo(c, q, r),
           UNCHANGED <<up, fds, th, mem, cur, dirs, gets, mixed, number, answer, kills>>
    PROVE  /\ TypeOK' /\ Alone(c)
           /\ \A s \in Servers : inbox'[s][c] =
                IF s = Min(cl[c].todo) /\ up[s] = "on" THEN Append(inbox[s][c], q)
                                                       ELSE inbox[s][c]
           /\ \/ cl'[c] = r
              \/ cl'[c].pc = "dead" /\ cl'[c].socks = cl[c].socks /\ cl'[c].todo = cl[c].todo
<1> DEFINE s == Min(cl[c].todo)
           dead == [cl[c] EXCEPT !.pc = "dead"]
<1>1. s \in Servers
    BY LeastServer, Zenon
<1>2. \/ /\ up[s] = "on" /\ inbox' = [inbox EXCEPT ![s][c] = Append(@, q)]
         /\ cl' = [cl EXCEPT ![c] = r]
      \/ /\ up[s] # "on" /\ inbox' = inbox
         /\ cl' = [cl EXCEPT ![c] = r] \/ cl' = [cl EXCEPT ![c] = dead]
    BY Zenon DEF WriteTo
<1>3. cl[c] \in Client /\ cl[c].todo \subseteq cl[c].socks
    BY ClientFacts, Zenon
<1>4. dead \in Client /\ dead.pc = "dead" /\ dead.socks = cl[c].socks
      /\ dead.todo = cl[c].todo
    BY <1>3 DEF Client
<1> HIDE DEF s, dead
<1>5. /\ cl' \in [Clients -> Client] /\ \A d \in Clients : cl'[d].todo \subseteq cl'[d].socks
      /\ cl'[c] \in {r, dead} /\ \A d \in Clients \ {c} : cl'[d] = cl[d]
    <2>1. CASE cl' = [cl EXCEPT ![c] = r]
        BY <2>1, ClientSet
    <2>2. CASE cl' = [cl EXCEPT ![c] = dead]
        <3>1. dead.todo \subseteq dead.socks
            BY <1>3, <1>4
        <3>2. QED
            BY <1>4, <2>2, <3>1, ClientSet
    <2>3. QED
        BY <1>2, <2>1, <2>2, Zenon
<1>6. /\ inbox' \in [Servers -> [Clients -> Seq(Seq(Bytes))]]
      /\ \A z \in Servers : inbox'[z][c] =
            IF z = s /\ up[z] = "on" THEN Append(inbox[z][c], q) ELSE inbox[z][c]
      /\ \A z \in Servers, d \in Clients \ {c} : inbox'[z][d] = inbox[z][d]
    <2> DEFINE M == Seq(Bytes)
    <2>1. q \in M /\ inbox \in [Servers -> [Clients -> Seq(M)]]
        BY Zenon DEF TypeOK
    <2> HIDE DEF M
    <2>2. CASE up[s] # "on" /\ inbox' = inbox
        BY <2>1, <2>2, Zenon DEF M
    <2>3. CASE up[s] = "on" /\ inbox' = [inbox EXCEPT ![s][c] = Append(@, q)]
        <3>1. inbox[s] \in [Clients -> Seq(M)] /\ inbox[s][c] \in Seq(M)
            BY <1>1, <2>1
        <3>2. PICK x : x = Append(inbox[s][c], q)
            OBVIOUS
        <3>3. x \in Seq(M)
            BY <2>1, <3>1, <3>2
        <3>4. inbox' = [inbox EXCEPT ![s][c] = x]
            BY <2>3, <3>2
        <3>5. /\ inbox' \in [Servers -> [Clients -> Seq(M)]]
              /\ inbox'[s][c] = x /\ \A z \in Servers \ {s} : inbox'[z] = inbox[z]
              /\ \A d \in Clients \ {c} : inbox'[s][d] = inbox[s][d]
            BY <1>1, <2>1, <3>3, <3>4
        <3>6. QED
            BY <2>3, <3>2, <3>5, Zenon DEF M
    <2>4. QED
        BY <1>2, <2>2, <2>3, Zenon DEF M
<1>7. TypeOK'
    BY <1>5, <1>6, Zenon DEF TypeOK
<1>8. Alone(c)
    BY <1>5, <1>6, Zenon DEF Alone
<1>9. QED
    BY <1>4, <1>5, <1>6, <1>7, <1>8, Zenon DEF s

\* Going on to the next server keeps the types.
LEMMA NextServerFacts ==
    ASSUME NEW r \in Client, r.todo \subseteq r.socks, NEW pc \in {"names", "menu", "out"}
    PROVE  /\ NextServer(r, pc) \in Client
           /\ NextServer(r, pc).todo \subseteq NextServer(r, pc).socks
           /\ NextServer(r, pc).socks = r.socks /\ NextServer(r, pc).cred = r.cred
           /\ LET left == r.todo \ {Min(r.todo)}
              IN  \/ /\ left = {} /\ NextServer(r, pc).pc = pc
                     /\ NextServer(r, pc).todo = r.socks
                  \/ /\ left # {} /\ NextServer(r, pc).pc = r.pc
                     /\ NextServer(r, pc).todo = left
<1> DEFINE left == r.todo \ {Min(r.todo)}
<1>1. NextServer(r, pc) = IF left = {} THEN [r EXCEPT !.pc = pc, !.todo = r.socks]
                                       ELSE [r EXCEPT !.todo = left]
    BY Zenon DEF NextServer
<1>2. left \subseteq r.todo
    OBVIOUS
<1> HIDE DEF left
<1>3. QED
    BY <1>1, <1>2 DEF Client, left

\* Client c was sent on to pc, or has ended.
LEMMA GreetFacts ==
    ASSUME TypeOK, NEW c \in Clients, cl[c].todo # {}, Greet(c)
    PROVE  /\ TypeOK' /\ Alone(c) /\ cl[c].pc = "greet"
           /\ \A s \in Servers : inbox'[s][c] =
                IF s = Min(cl[c].todo) /\ up[s] = "on" THEN Append(inbox[s][c], Creds(c))
                                                       ELSE inbox[s][c]
           /\ \/ Goes(c, "wait", cl[c].todo) /\ cl'[c].cred = cl[c].cred
              \/ Goes(c, "dead", cl[c].todo)
<1>1. PICK q, r : /\ q = Creds(c) /\ r = [cl[c] EXCEPT !.pc = "wait"]
                  /\ WriteTo(c, q, r) /\ cl[c].pc = "greet"
    BY Zenon DEF Greet, Creds
<1>2. UNCHANGED <<up, fds, th, mem, cur, dirs, gets, mixed, number, answer, kills>>
    BY Zenon DEF Greet, serverVars
<1>3. q \in Seq(Bytes)
    <2>1. User[c] \in Bytes /\ "," \in Bytes /\ Pass[c] \in Bytes
        BY NameFacts, TextFacts, Zenon
    <2>2. \A x, y, z \in Bytes : <<x, y, z>> \in Seq(Bytes)
        BY Tuples, Zenon
    <2>3. QED
        BY <1>1, <2>1, <2>2, Zenon DEF Creds
<1>4. /\ r \in Client /\ r.pc = "wait" /\ r.todo = cl[c].todo /\ r.socks = cl[c].socks
      /\ r.cred = cl[c].cred /\ r.todo \subseteq r.socks
    <2>1. cl[c] \in Client /\ cl[c].todo \subseteq cl[c].socks
        BY ClientFacts, Zenon
    <2>2. r = [cl[c] EXCEPT !.pc = "wait"]
        BY <1>1, Zenon
    <2>3. QED
        BY <2>1, <2>2 DEF Client
<1>5. /\ TypeOK' /\ Alone(c)
      /\ \A s \in Servers : inbox'[s][c] =
            IF s = Min(cl[c].todo) /\ up[s] = "on" THEN Append(inbox[s][c], q)
                                                   ELSE inbox[s][c]
      /\ \/ cl'[c] = r
         \/ cl'[c].pc = "dead" /\ cl'[c].socks = cl[c].socks /\ cl'[c].todo = cl[c].todo
    <2>1. WriteTo(c, q, r) /\ r \in Client /\ r.todo \subseteq r.socks
        BY <1>1, <1>4, Zenon
    <2>2. QED
        BY <1>2, <1>3, <2>1, WriteFacts
<1>6. QED
    BY <1>1, <1>4, <1>5, Zenon DEF Goes

\* Wait takes the answer of a server that is up, and goes on to the next.
LEMMA WaitFacts ==
    ASSUME TypeOK, NEW c \in Clients, Wait(c)
    PROVE  /\ TypeOK' /\ Alone(c) /\ cl[c].pc = "wait" /\ inbox' = inbox
           /\ Advances(c, IF cl'[c].cred THEN "names" ELSE "out", "greet")
           /\ cl[c].cred => cl'[c].cred
           /\ LET s == Min(cl[c].todo)
              IN  up[s] = "on" => /\ answer[s][c] # ""
                                  /\ answer[s][c] = "1" => cl'[c].cred
<1> DEFINE s == Min(cl[c].todo)
<1>0. PICK a : /\ up[s] = "on" => a = answer[s][c] /\ a # ""
               /\ LET r == [cl[c] EXCEPT !.cred = @ \/ a = "1", !.pc = "greet"]
                  IN  cl' = [cl EXCEPT ![c] = NextServer(r, IF r.cred THEN "names" ELSE "out")]
    BY Zenon DEF Wait
<1>1. PICK d, r, pc, x :
        /\ d = (cl[c].cred \/ a = "1")
        /\ r = [cl[c] EXCEPT !.cred = @ \/ a = "1", !.pc = "greet"]
        /\ pc = IF r.cred THEN "names" ELSE "out"
        /\ x = NextServer(r, pc)
        /\ cl' = [cl EXCEPT ![c] = x]
        /\ cl[c].pc = "wait"
    BY <1>0, Zenon DEF Wait
<1>2. UNCHANGED <<up, fds, th, mem, cur, dirs, gets, mixed, number, inbox, answer, kills>>
    BY Zenon DEF Wait, serverVars
<1>3. /\ r \in Client /\ r.pc = "greet" /\ r.todo = cl[c].todo /\ r.socks = cl[c].socks
      /\ r.cred = d /\ r.todo \subseteq r.socks
    <2>1. cl[c] \in Client /\ cl[c].todo \subseteq cl[c].socks
        BY ClientFacts, Zenon
    <2>2. r = [cl[c] EXCEPT !.cred = d, !.pc = "greet"]
        BY <1>1
    <2>3. d \in BOOLEAN
        BY <1>1, Zenon
    <2>4. QED
        BY <2>1, <2>2, <2>3 DEF Client
<1> DEFINE left == r.todo \ {Min(r.todo)}
<1>4. /\ x \in Client /\ x.todo \subseteq x.socks /\ x.socks = r.socks /\ x.cred = r.cred
      /\ \/ left = {} /\ x.pc = pc /\ x.todo = r.socks
         \/ left # {} /\ x.pc = r.pc /\ x.todo = left
    <2>1. pc \in {"names", "menu", "out"}
        BY <1>1, Zenon
    <2>2. x = NextServer(r, pc)
        BY <1>1, Zenon
    <2>3. QED
        BY <1>3, <2>1, <2>2, NextServerFacts
<1>5. /\ cl' \in [Clients -> Client] /\ \A e \in Clients : cl'[e].todo \subseteq cl'[e].socks
      /\ cl'[c] = x /\ \A e \in Clients \ {c} : cl'[e] = cl[e]
    <2>1. cl' = [cl EXCEPT ![c] = x]
        BY <1>1, Zenon
    <2>2. QED
        BY <1>4, <2>1, ClientSet, Zenon
<1>6. TypeOK'
    BY <1>2, <1>5, Zenon DEF TypeOK
<1>7. Alone(c)
    BY <1>2, <1>5, Zenon DEF Alone
<1>8. Advances(c, IF cl'[c].cred THEN "names" ELSE "out", "greet")
    <2>1. left = cl[c].todo \ {Min(cl[c].todo)} /\ cl'[c] = x /\ cl'[c].cred = r.cred
        BY <1>3, <1>4, <1>5, Zenon
    <2>2. pc = IF cl'[c].cred THEN "names" ELSE "out"
        BY <1>1, <2>1, Zenon
    <2> HIDE DEF left
    <2>3. CASE left = {}
        BY <1>3, <1>4, <2>1, <2>2, <2>3, Zenon DEF Advances, Goes
    <2>4. CASE left # {}
        BY <1>3, <1>4, <2>1, <2>2, <2>4, Zenon DEF Advances, Goes
    <2>5. QED
        BY <2>3, <2>4, Zenon
<1>9. QED
    BY <1>0, <1>1, <1>2, <1>3, <1>4, <1>5, <1>6, <1>7, <1>8, Zenon

\* SendName sends one name, and goes on to the next server or dies.
LEMMA SendNameFacts ==
    ASSUME TypeOK, NEW c \in Clients, cl[c].todo # {}, SendName(c)
    PROVE  /\ TypeOK' /\ Alone(c) /\ cl[c].pc = "names"
           /\ \A s \in Servers : inbox'[s][c] =
                IF s = Min(cl[c].todo) /\ up[s] = "on" THEN Append(inbox[s][c], <<User[c]>>)
                                                       ELSE inbox[s][c]
           /\ \/ Advances(c, "menu", "names")
              \/ Goes(c, "dead", cl[c].todo)
<1>1. PICK q, x : /\ q = <<User[c]>> /\ x = NextServer(cl[c], "menu")
                  /\ WriteTo(c, q, x) /\ cl[c].pc = "names"
    BY Zenon DEF SendName
<1>2. UNCHANGED <<up, fds, th, mem, cur, dirs, gets, mixed, number, answer, kills>>
    BY Zenon DEF SendName, serverVars
<1>3. q \in Seq(Bytes)
    <2>1. User[c] \in Bytes
        BY NameFacts, Zenon
    <2>2. \A z \in Bytes : <<z>> \in Seq(Bytes)
        BY Tuples, Zenon
    <2>3. QED
        BY <1>1, <2>1, <2>2, Zenon
<1> DEFINE left == cl[c].todo \ {Min(cl[c].todo)}
<1>4. /\ x \in Client /\ x.todo \subseteq x.socks /\ x.socks = cl[c].socks
      /\ \/ left = {} /\ x.pc = "menu" /\ x.todo = cl[c].socks
         \/ left # {} /\ x.pc = cl[c].pc /\ x.todo = left
    <2>1. "menu" \in {"names", "menu", "out"}
        BY Zenon
    <2>2. x = NextServer(cl[c], "menu") /\ cl[c] \in Client /\ cl[c].todo \subseteq cl[c].socks
        BY <1>1, ClientFacts, Zenon
    <2>3. QED
        BY <2>1, <2>2, NextServerFacts
<1>5. /\ TypeOK' /\ Alone(c)
      /\ \A s \in Servers : inbox'[s][c] =
            IF s = Min(cl[c].todo) /\ up[s] = "on" THEN Append(inbox[s][c], q)
                                                   ELSE inbox[s][c]
      /\ \/ cl'[c] = x
         \/ cl'[c].pc = "dead" /\ cl'[c].socks = cl[c].socks /\ cl'[c].todo = cl[c].todo
    <2>1. WriteTo(c, q, x) /\ x \in Client /\ x.todo \subseteq x.socks
        BY <1>1, <1>4, Zenon
    <2>2. QED
        BY <1>2, <1>3, <2>1, WriteFacts
<1>6. \/ Advances(c, "menu", "names")
      \/ Goes(c, "dead", cl[c].todo)
    <2>1. cl[c].pc = "names"
        BY <1>1, Zenon
    <2> DEFINE l == left
    <2>2. l = cl[c].todo \ {Min(cl[c].todo)}
        OBVIOUS
    <2> HIDE DEF l, left
    <2>3. CASE left = {}
        BY <1>4, <1>5, <2>1, <2>3, Zenon DEF Advances, Goes, left
    <2>4. CASE left # {}
        BY <1>4, <1>5, <2>1, <2>4, Zenon DEF Advances, Goes, left
    <2>5. QED
        BY <2>3, <2>4, Zenon
<1>7. QED
    BY <1>1, <1>5, <1>6, Zenon

\* Kill ends a client that runs.
LEMMA KillFacts ==
    ASSUME TypeOK, NEW c \in Clients, Kill(c)
    PROVE  /\ TypeOK' /\ Alone(c) /\ inbox' = inbox
           /\ cl[c].pc \notin {"start", "out", "dead"} /\ Goes(c, "dead", cl[c].todo)
<1>1. PICK r : /\ r = [cl[c] EXCEPT !.pc = "dead"] /\ cl' = [cl EXCEPT ![c] = r]
               /\ cl[c].pc \notin {"start", "out", "dead"}
               /\ kills < MaxKills /\ kills' = kills + 1
    BY Zenon DEF Kill
<1>2. UNCHANGED <<up, fds, th, mem, cur, dirs, gets, mixed, number, inbox, answer>>
    BY Zenon DEF Kill, serverVars
<1>3. /\ r \in Client /\ r.pc = "dead" /\ r.todo = cl[c].todo /\ r.socks = cl[c].socks
      /\ r.todo \subseteq r.socks
    <2>1. cl[c] \in Client /\ cl[c].todo \subseteq cl[c].socks
        BY ClientFacts, Zenon
    <2>2. r = [cl[c] EXCEPT !.pc = "dead"]
        BY <1>1, Zenon
    <2>3. QED
        BY <2>1, <2>2 DEF Client
<1>4. /\ cl' \in [Clients -> Client] /\ \A e \in Clients : cl'[e].todo \subseteq cl'[e].socks
      /\ cl'[c] = r /\ \A e \in Clients \ {c} : cl'[e] = cl[e]
    <2>1. cl' = [cl EXCEPT ![c] = r]
        BY <1>1, Zenon
    <2>2. QED
        BY <1>3, <2>1, ClientSet, Zenon
<1>5. kills' \in 0..MaxKills
    <2>1. kills \in 0..MaxKills
        BY Zenon DEF TypeOK
    <2>2. kills < MaxKills /\ kills' = kills + 1 /\ MaxKills \in Nat
        BY <1>1, BoundsAssumption
    <2>3. QED
        BY <2>1, <2>2
<1>6. TypeOK'
    BY <1>2, <1>4, <1>5, Zenon DEF TypeOK
<1>7. Alone(c)
    BY <1>2, <1>4, Zenon DEF Alone
<1>8. QED
    BY <1>1, <1>2, <1>3, <1>4, <1>6, <1>7, Zenon DEF Goes

-----------------------------------------------------------------------------
(* A step of one thread leaves the others what they have.                  *)

\* Only thread t of server s takes a step, and those that it does not
\* interrupt keep their strings and, if they rely on it, the cursor.
Spares(s, t) ==
    /\ cur[s] # NULL => cur'[s] # NULL
    /\ \A r \in Clients \ {t} : r \notin mixed'[s] =>
        /\ \A b \in Buffers : b[1] = r => mem'[s][b] = mem[s][b]
        /\ cur'[s] # cur[s] => /\ cur'[s] # NULL /\ cur'[s][1][1] # r
                               /\ th[s][r].pc \notin Relies

\* A step without strtok that writes to the message buffer only spares the others.
LEMMA NoCallSpares ==
    ASSUME NEW s \in Servers, NEW t \in Clients, cur' = cur,
           \A b \in Buffers \ {<<t, "buf">>} : mem'[s][b] = mem[s][b]
    PROVE  Spares(s, t)
<1>1. \A b \in Buffers : b[1] # t => b # <<t, "buf">>
    BY BufferFacts, Zenon
<1>2. \A b \in Buffers : b[1] # t => mem'[s][b] = mem[s][b]
    BY <1>1, Zenon
<1>3. QED
    BY <1>2, Zenon DEF Spares

\* A call on the thread's own string moves the cursor, which marks those that rely on it.
LEMMA OwnCallSpares ==
    ASSUME NEW s \in Servers, NEW t \in Clients, Interrupts(s, t),
           cur'[s] # NULL, cur'[s][1][1] = t,
           \A b \in Buffers : b[1] # t => mem'[s][b] = mem[s][b]
    PROVE  Spares(s, t)
    BY Zenon DEF Spares, Interrupts

\* Thread t of s has called strtok(NULL, D); the rest of its own buffers may
\* have changed.
FromCursor(s, t, D) ==
    /\ cur'[s] = Cut(mem[s], cur[s], D).cur
    /\ \A b \in Buffers : b[1] # t => mem'[s][b] = Cut(mem[s], cur[s], D).mem[b]

\* A call with NULL writes where the cursor is: to the own buffer, or to that of a
\* thread that relies on it and is marked, or nowhere.
LEMMA CursorCallSpares ==
    ASSUME TypeOK, NEW s \in Servers, NEW t \in Clients, NEW D, NUL \notin D,
           \A r \in Clients : ThreadInv(s, r),
           up[s] = "on", cur[s] # NULL, mixed[s] \subseteq mixed'[s], Interrupts(s, t),
           cur'[s] # NULL, FromCursor(s, t, D)
    PROVE  Spares(s, t)
<1>0. /\ cur'[s] = Cut(mem[s], cur[s], D).cur
      /\ \A b \in Buffers : b[1] # t => mem'[s][b] = Cut(mem[s], cur[s], D).mem[b]
    BY Zenon DEF FromCursor
<1>1. SUFFICES ASSUME NEW r \in Clients \ {t}, r \notin mixed'[s]
               PROVE  /\ \A b \in Buffers : b[1] = r => mem'[s][b] = mem[s][b]
                      /\ cur'[s] # cur[s] => /\ cur'[s][1][1] # r
                                             /\ th[s][r].pc \notin Relies
    BY Zenon DEF Spares
<1>2. th[s][r].pc \notin Relies /\ r \notin mixed[s] /\ r # t
    BY <1>1, Zenon DEF Interrupts
<1>3. /\ mem[s] \in [Buffers -> Seq(Bytes)] /\ cur[s] \in Buffers \X (Nat \ {0})
    BY ThreadFacts, CursorFacts, Zenon
<1>4. PICK p, k : p = cur[s] /\ k = Cut(mem[s], p, D)
    BY Zenon
<1>5. p \in Buffers \X (Nat \ {0}) /\ p = <<p[1], p[2]>> /\ p[1] \in Buffers
      /\ p[2] \in Nat \ {0}
    BY <1>3, <1>4
<1>6. CASE p[1][1] = r
    <2>1. Behind(s)
        <3>1. ThreadInv(s, r)
            BY <1>1, Zenon
        <3>2. QED
            BY <1>2, <1>4, <1>6, <3>1, Zenon DEF ThreadInv, Own
    <2>2. p[2] \notin DOMAIN mem[s][p[1]]
        <3>1. p[2] > Len(mem[s][p[1]])
            BY <1>4, <2>1, Zenon DEF Behind
        <3>2. mem[s][p[1]] \in Seq(Bytes)
            BY <1>3, <1>5, Zenon
        <3>3. QED
            BY <1>5, <3>1, <3>2
    <2>3. ByteAt(mem[s][p[1]], p[2]) = NUL
        BY <2>2, Zenon DEF ByteAt
    <2>4. k = [tok |-> NULL, cur |-> p, mem |-> mem[s]]
        <3>1. PICK b, i : b = p[1] /\ i = p[2] /\ p = <<b, i>>
            BY <1>5, Zenon
        <3>2. Cut(mem[s], <<b, i>>, D) = [tok |-> NULL, cur |-> <<b, i>>, mem |-> mem[s]]
            <4>1. ByteAt(mem[s][b], i) = NUL /\ b \in Buffers /\ i \in Nat \ {0}
                BY <1>5, <2>3, <3>1, Zenon
            <4>2. FindsNothing(mem[s], b, i, D)
                BY <1>3, <4>1, CutAtEnd
            <4>3. QED
                BY <4>2, Zenon DEF FindsNothing
        <3>3. QED
            BY <1>4, <3>1, <3>2, Zenon
    <2>5. k.cur = p /\ k.mem = mem[s]
        BY <2>4
    <2>6. QED
        BY <1>0, <1>2, <1>4, <2>5, Zenon
<1>7. CASE p[1][1] # r
    <2>1. /\ \A b \in Buffers \ {p[1]} : k.mem[b] = mem[s][b]
          /\ k.cur[1] = p[1]
        <3>1. \A b \in Buffers \ {p[1]} : Cut(mem[s], p, D).mem[b] = mem[s][b]
            <4>1. DOMAIN mem[s] = Buffers
                BY <1>3
            <4>2. \A b \in Buffers \ {p[1]} : b \in DOMAIN mem[s] /\ b # p[1]
                BY <4>1
            <4>3. QED
                BY <4>2, CutElsewhere
        <3>2. Cut(mem[s], p, D).cur[1] = p[1]
            BY CutStays
        <3>3. QED
            BY <1>4, <3>1, <3>2, Zenon
    <2>2. QED
        BY <1>0, <1>2, <1>4, <1>7, <2>1, Zenon
<1>8. QED
    BY <1>6, <1>7, Zenon

\* A step of thread t that spares thread r leaves r what the invariant says of it.
LEMMA OthersKeep ==
    ASSUME TypeOK, NEW s \in Servers, NEW t \in Clients, Only(s, t), Spares(s, t),
           NEW r \in Clients \ {t}, ThreadInv(s, r)
    PROVE  ThreadInv(s, r)'
<1>1. /\ th'[s][r] = th[s][r] /\ inbox'[s][r] = inbox[s][r]
      /\ answer'[s][r] = answer[s][r] /\ number'[s][r] = number[s][r]
      /\ up[s] = "on" /\ mixed[s] \subseteq mixed'[s]
    BY Zenon DEF Only
<1>2. Mail(s, r)'
    BY <1>1, Zenon DEF ThreadInv, Mail
<1>3. Answered(s, r)'
    BY <1>1, Zenon DEF ThreadInv, Answered
<1>4. Counted(s, r)'
    BY <1>1, Zenon DEF ThreadInv, Counted, Spares
<1>5. ASSUME r \notin mixed'[s]
      PROVE  Right(s, r)' /\ Own(s, r)'
    <2>1. r \notin mixed[s]
        BY <1>1, <1>5
    <2>2. Right(s, r) /\ Own(s, r)
        BY <1>1, <2>1, Zenon DEF ThreadInv
    <2>3. Right(s, r)'
        BY <1>1, <2>2, Zenon DEF Right
    <2>4. /\ \A b \in Buffers : b[1] = r => mem'[s][b] = mem[s][b]
          /\ cur'[s] # cur[s] => /\ cur'[s] # NULL /\ cur'[s][1][1] # r
                                 /\ th[s][r].pc \notin Relies
        BY <1>5, Zenon DEF Spares
    <2>5. /\ mem'[s][<<r, "buf">>] = mem[s][<<r, "buf">>]
          /\ mem'[s][<<r, "line">>] = mem[s][<<r, "line">>]
          /\ mem'[s][<<r, "path">>] = mem[s][<<r, "path">>]
        BY <2>4, BufferFacts, Zenon
    <2>6. Checking(s, r) => Checking(s, r)'
        BY <1>1, <2>5, Zenon DEF Checking
    <2>7. /\ th'[s][r].pc = "pass" =>
                /\ cur'[s] = <<<<r, "buf">>, 3>> /\ th'[s][r].user = <<<<r, "buf">>, 1>>
                /\ mem'[s][<<r, "buf">>] = CutCreds(r)
          /\ th'[s][r].pc = "line" => Checking(s, r)'
          /\ th'[s][r].pc = "cut2" =>
                /\ cur'[s] = <<<<r, "path">>, 4>>
                /\ mem'[s][<<r, "path">>] = Cut1
          /\ th'[s][r].pc = "cut3" =>
                /\ cur'[s] = <<<<r, "path">>, 6>>
                /\ mem'[s][<<r, "path">>] = Cut2
        BY <1>1, <2>2, <2>4, <2>5, <2>6, Zenon DEF Own, Relies
    <2>8. th'[s][r].pc = "word" =>
            /\ Checking(s, r)'
            /\ cur'[s] = <<<<r, "line">>, 3>> /\ th'[s][r].entry = <<<<r, "line">>, 1>>
            /\ mem'[s][<<r, "line">>] = CutLine(th'[s][r].n)
        BY <1>1, <2>2, <2>4, <2>5, <2>6, Zenon DEF Own, Relies
    <2>9. ASSUME th'[s][r].pc \notin Relies, cur'[s] # NULL, cur'[s][1][1] = r
          PROVE  Behind(s)'
        <3>1. cur'[s] = cur[s] /\ Behind(s)
            BY <1>1, <2>2, <2>4, <2>9, Zenon DEF Own
        <3>2. cur[s][1] \in Buffers
            <4>1. cur[s] \in Buffers \X (Nat \ {0})
                BY <2>9, <3>1, ThreadFacts, BufferFacts, Zenon
            <4>2. QED
                BY <4>1
        <3>3. mem'[s][cur[s][1]] = mem[s][cur[s][1]]
            BY <2>4, <2>9, <3>1, <3>2, Zenon
        <3>4. QED
            BY <3>1, <3>3, Zenon DEF Behind
    <2>10. Own(s, r)'
        BY <2>7, <2>8, <2>9, Zenon DEF Own
    <2>11. QED
        BY <2>3, <2>10, Zenon
<1>6. QED
    BY <1>2, <1>3, <1>4, <1>5, Zenon DEF ThreadInv

\* So do the steps at other servers.
LEMMA SameKeeps ==
    ASSUME NEW z \in Servers, NEW r \in Clients, Same(z), ThreadInv(z, r)
    PROVE  ThreadInv(z, r)'
<1>1. Mail(z, r)' /\ Answered(z, r)' /\ Counted(z, r)'
    BY Zenon DEF ThreadInv, Same, Mail, Answered, Counted
<1>2. Right(z, r) => Right(z, r)'
    BY Zenon DEF Same, Right
<1>3. Checking(z, r) => Checking(z, r)'
    BY Zenon DEF Same, Checking
<1>4. Behind(z) => Behind(z)'
    BY Zenon DEF Same, Behind
<1>5. Own(z, r) => Own(z, r)'
    BY <1>3, <1>4, Zenon DEF Same, Own
<1>6. QED
    BY <1>1, <1>2, <1>5, Zenon DEF ThreadInv, Same

-----------------------------------------------------------------------------
(* A step of a thread, seen from the clients.                              *)

\* The thread of s for client t has moved, and they still agree.
Moves(s, t) ==
    /\ Fresh(s, t) => Fresh(s, t)'
    /\ Greeted(s, t) => Greeted(s, t)'
    /\ LetIn(s, t) => LetIn(s, t)'
    /\ Denied(s, t) => Denied(s, t)'
    /\ Told(s, t) => Told(s, t)'

\* All that a step of thread t of server s has to do for the invariant.
Keeps(s, t) ==
    /\ TypeOK' /\ Only(s, t) /\ Spares(s, t) /\ ThreadInv(s, t)'
    /\ s \in cl[t].socks
    /\ up'[s] = "on" => Moves(s, t) \/ cl[t].pc = "dead"
    /\ up'[s] = "down" => Cause(s)'

\* What threads that have started know of their clients.
LEMMA Connected ==
    ASSUME LoginInv, NEW s \in Servers, NEW t \in Clients, th[s][t].pc # "none"
    PROVE  /\ s \in cl[t].socks
           /\ up[s] = "on" => Phase(s, t) /\ (Gone(t) => cl[t].pc = "dead" \/ th[s][t].pc = "no")
<1>1. ClientInv(t)
    BY Zenon DEF LoginInv
<1>2. s \in cl[t].socks
    BY <1>1, Zenon DEF ClientInv
<1>3. up[s] = "on" => Phase(s, t)
    BY <1>1, <1>2, Zenon DEF ClientInv
<1>4. QED
    BY <1>2, <1>3, Zenon DEF Phase, Gone, Denied

\* Such a step preserves the invariant.
LEMMA ThreadStepKeeps ==
    ASSUME LoginInv, NEW s \in Servers, NEW t \in Clients, Keeps(s, t)
    PROVE  LoginInv'
<1>1. /\ TypeOK /\ Only(s, t) /\ Spares(s, t) /\ up[s] = "on" /\ cl' = cl
      /\ \A z \in Servers \ {s} : Same(z)
    BY Zenon DEF LoginInv, Keeps, Only
<1>2. ASSUME NEW z \in Servers, NEW r \in Clients
      PROVE  ThreadInv(z, r)'
    <2>1. ThreadInv(z, r)
        BY Zenon DEF LoginInv
    <2>2. CASE z # s
        BY <1>1, <2>1, <2>2, SameKeeps, Zenon
    <2>3. CASE z = s /\ r # t
        BY <1>1, <2>1, <2>3, OthersKeep, Zenon
    <2>4. CASE z = s /\ r = t
        BY <2>4, Zenon DEF Keeps
    <2>5. QED
        BY <2>2, <2>3, <2>4, Zenon
<1>3. ASSUME NEW c \in Clients
      PROVE  ClientInv(c)'
    <2>1. ClientInv(c)
        BY Zenon DEF LoginInv
    <2>2. ASSUME NEW z \in Servers, z # s \/ c # t
          PROVE  /\ th'[z][c] = th[z][c] /\ inbox'[z][c] = inbox[z][c]
                 /\ up'[z] = "on" => up[z] = "on"
        BY <1>1, <2>2, Zenon DEF Only, Same
    <2>3. ASSUME NEW z \in Servers, z \notin cl'[c].socks
          PROVE  Fresh(z, c)' /\ th'[z][c].pc = "none"
        <3>1. z # s \/ c # t
            BY <1>1, <2>3, Zenon DEF Keeps
        <3>2. QED
            BY <1>1, <2>1, <2>2, <2>3, <3>1, Zenon DEF ClientInv, Fresh
    <2>4. ASSUME NEW z \in Servers, z \in cl'[c].socks, up'[z] = "on"
          PROVE  Phase(z, c)'
        <3>1. CASE z # s \/ c # t
            <4>1. Phase(z, c) /\ th'[z][c] = th[z][c] /\ inbox'[z][c] = inbox[z][c]
                BY <1>1, <2>1, <2>2, <2>4, <3>1, Zenon DEF ClientInv
            <4>2. /\ Fresh(z, c) => Fresh(z, c)'
                  /\ Greeted(z, c) => Greeted(z, c)'
                  /\ LetIn(z, c) => LetIn(z, c)'
                  /\ Denied(z, c) => Denied(z, c)'
                  /\ Told(z, c) => Told(z, c)'
                BY <4>1, Zenon DEF Fresh, Greeted, LetIn, Denied, Told
            <4>3. QED
                BY <1>1, <4>1, <4>2, Zenon DEF Phase
        <3>2. CASE z = s /\ c = t
            <4>1. Phase(s, t)
                BY <1>1, <2>1, <2>4, <3>2, Zenon DEF ClientInv
            <4>2. CASE Moves(s, t)
                <5>1. Phase(s, t)'
                    BY <1>1, <4>1, <4>2, Zenon DEF Phase, Moves
                <5>2. QED
                    BY <3>2, <5>1, Zenon
            <4>3. CASE cl[t].pc = "dead"
                <5>1. Phase(s, t)'
                    BY <1>1, <4>3, Zenon DEF Phase
                <5>2. QED
                    BY <3>2, <5>1, Zenon
            <4>4. QED
                BY <2>4, <3>2, <4>2, <4>3, Zenon DEF Keeps
        <3>3. QED
            BY <3>1, <3>2, Zenon
    <2>5. \A z \in cl[c].socks : z \in Servers
        BY <1>1, ClientFacts
    <2>6. QED
        BY <1>1, <2>1, <2>3, <2>4, <2>5, Zenon DEF ClientInv
<1>4. ASSUME NEW z \in Servers, up'[z] = "down"
      PROVE  Cause(z)'
    <2>1. CASE z # s
        <3>1. Same(z) /\ up[z] = "down"
            BY <1>1, <1>4, <2>1, Zenon DEF Same
        <3>2. Cause(z)
            BY <3>1, Zenon DEF LoginInv
        <3>3. Used(z)' = Used(z)
            BY <3>1, UsedSame, Zenon DEF Same
        <3>4. QED
            BY <1>1, <3>1, <3>2, <3>3, Zenon DEF Cause, Same
    <2>2. CASE z = s
        BY <1>4, <2>2, Zenon DEF Keeps
    <2>3. QED
        BY <2>1, <2>2, Zenon
<1>5. TypeOK'
    BY Zenon DEF Keeps
<1>6. QED
    BY <1>2, <1>3, <1>4, <1>5, Zenon DEF LoginInv

-----------------------------------------------------------------------------
(* The steps of a thread, one after the other.                             *)

\* A thread that has just started has made no call.
LEMMA AcceptKeeps ==
    ASSUME LoginInv, NEW s \in Servers, NEW t \in Clients, Accept(s, t)
    PROVE  Keeps(s, t)
<1>1. TypeOK /\ ThreadInv(s, t)
    BY Zenon DEF LoginInv
<1>2. /\ Only(s, t) /\ TypeOK' /\ s \in cl[t].socks
      /\ th[s][t].pc = "none" /\ th'[s][t].pc = "creds"
      /\ UNCHANGED <<up, inbox, answer, number, mem, cur, mixed>>
    BY <1>1, AcceptFacts, Zenon
<1>3. Spares(s, t)
    BY <1>2, NoCallSpares, Zenon
<1>4. Mail(s, t)' /\ Answered(s, t)' /\ Counted(s, t)'
    BY <1>1, <1>2, Zenon DEF ThreadInv, Mail, Answered, Counted, Relies, Admitted
<1>5. Right(s, t) => Right(s, t)'
    BY <1>2, Zenon DEF Right, Admitted
<1>6. Own(s, t) => Own(s, t)'
    BY <1>2, Zenon DEF Own, Behind, Relies
<1>7. ThreadInv(s, t)'
    BY <1>1, <1>2, <1>4, <1>5, <1>6, Zenon DEF ThreadInv
<1>8. Moves(s, t)
    BY <1>2, Zenon DEF Moves, Fresh, Greeted, LetIn, Denied, Told
<1>9. up'[s] = "on"
    BY <1>2, Zenon DEF Only
<1>10. QED
    BY <1>2, <1>3, <1>7, <1>8, <1>9, Zenon DEF Keeps

\* What the first calls find in credentials, and in an empty buffer.
LEMMA CredsCut ==
    ASSUME NEW m \in [Buffers -> Seq(Bytes)], NEW b \in Buffers, NEW t \in Clients
    PROVE  /\ m[b] = Creds(t) => Yields(m, b, 1, Comma, 1, 3, CutCreds(t))
           /\ m[b] = CutCreds(t) => Yields(m, b, 3, {}, 3, 4, CutCreds(t))
           /\ m[b] = <<>> => Cut(m, <<b, 1>>, Comma).tok = NULL
<1>1. PICK x, d, y : x = User[t] /\ d = "," /\ y = Pass[t]
    BY Zenon
<1>2. /\ x # NUL /\ y # NUL /\ d # NUL /\ x # d /\ Comma = {d}
      /\ Creds(t) = <<x, d, y>> /\ CutCreds(t) = <<x, NUL, y>>
    BY <1>1, NameFacts, TextFacts, Zenon DEF Creds, CutCreds, Comma
<1>3. /\ m[b] = <<x, d, y>> => Yields(m, b, 1, {d}, 1, 3, <<x, NUL, y>>)
      /\ m[b] = <<x, NUL, y>> => Yields(m, b, 3, {}, 3, 4, <<x, NUL, y>>)
    BY <1>2, CutThree
<1>4. ASSUME m[b] = <<>>
      PROVE  Cut(m, <<b, 1>>, Comma).tok = NULL
    <2>1. 1 \notin DOMAIN m[b] /\ 1 \in Nat \ {0}
        BY <1>4
    <2>2. ByteAt(m[b], 1) = NUL
        BY <2>1, Zenon DEF ByteAt
    <2>3. NUL \notin Comma
        BY SeparatorFacts, Zenon
    <2>4. Cut(m, <<b, 1>>, Comma) = [tok |-> NULL, cur |-> <<b, 1>>, mem |-> m]
        BY <2>1, <2>2, <2>3, CutAtEnd DEF FindsNothing
    <2>5. QED
        BY <2>4
<1>5. QED
    BY <1>2, <1>3, <1>4, Zenon

\* The inbox of a thread that reads its credentials.
LEMMA OneMessage ==
    ASSUME NEW q, NEW box, box = <<q>>
    PROVE  box # <<>> /\ Head(box) = q /\ Tail(box) = <<>>
    OBVIOUS

\* A message that is read is the credentials, and both cursor and buffer are as
\* the first call leaves them; nothing arrives only if the client left.
LEMMA ReadCredsKeeps ==
    ASSUME LoginInv, NEW s \in Servers, NEW t \in Clients, ReadCreds(s, t)
    PROVE  Keeps(s, t)
<1>1. TypeOK /\ ThreadInv(s, t)
    BY Zenon DEF LoginInv
<1>2. /\ Only(s, t) /\ TypeOK' /\ Interrupts(s, t)
      /\ th[s][t].pc = "creds" /\ cur'[s] # NULL /\ cur'[s][1] = <<t, "buf">>
      /\ \A b \in Buffers \ {<<t, "buf">>} : mem'[s][b] = mem[s][b]
      /\ UNCHANGED <<answer, number>>
      /\ Consumed(s, t)
      /\ \E q, k : CredsRead(s, t, q, k)
    BY <1>1, ReadCredsFacts, Zenon
<1>3. PICK q, k :
        /\ q \in Incoming(s, t)
        /\ k = Cut([mem[s] EXCEPT ![<<t, "buf">>] = q], <<<<t, "buf">>, 1>>, Comma)
        /\ mem'[s] = k.mem /\ cur'[s] = k.cur
        /\ k.tok = NULL => up'[s] = "down" /\ th'[s][t] = th[s][t]
        /\ k.tok # NULL => /\ up' = up /\ th'[s][t].pc = "pass"
                           /\ th'[s][t].user = k.tok
    BY <1>2, Zenon DEF CredsRead
<1>4. /\ q \in Seq(Bytes)
      /\ \/ inbox[s][t] # <<>> /\ q = Head(inbox[s][t])
         \/ inbox[s][t] = <<>> /\ Gone(t) /\ q = <<>>
    BY <1>1, <1>3, IncomingFacts
<1>5. up[s] = "on" /\ cl' = cl /\ (t \in mixed'[s] <=> t \in mixed[s])
    BY <1>2, Zenon DEF Only
<1>6. s \in cl[t].socks /\ (Gone(t) => cl[t].pc = "dead")
    <2>1. th[s][t].pc # "none" /\ th[s][t].pc # "no"
        BY <1>2, Zenon
    <2>2. QED
        BY <1>5, <2>1, Connected, Zenon
<1>7. Spares(s, t)
    <2>1. \A b \in Buffers : b[1] # t => b # <<t, "buf">>
        BY BufferFacts, Zenon
    <2>2. \A b \in Buffers : b[1] # t => mem'[s][b] = mem[s][b]
        BY <1>2, <2>1, Zenon
    <2>3. cur'[s][1][1] = t
        BY <1>2, BufferFacts, Zenon
    <2>4. QED
        BY <1>2, <2>2, <2>3, OwnCallSpares, Zenon
<1>8. PICK b, m : /\ b = <<t, "buf">> /\ m = [mem[s] EXCEPT ![b] = q]
                  /\ k = Cut(m, <<b, 1>>, Comma)
    BY <1>3, Zenon
<1>9. b \in Buffers /\ m \in [Buffers -> Seq(Bytes)] /\ m[b] = q
    BY <1>1, <1>4, <1>8, BufferFacts, BufferSet, Zenon
<1>10. Right(s, t) => (th'[s][t].pc \in {"creds", "pass"} => Right(s, t)')
    BY <1>2, Zenon DEF Right, Admitted
<1>11. CASE q = <<>> /\ inbox[s][t] = <<>> /\ Gone(t)
    <2>1. k.tok = NULL
        <3>1. Cut(m, <<b, 1>>, Comma).tok = NULL
            BY <1>9, <1>11, CredsCut, Zenon
        <3>2. QED
            BY <1>8, <3>1, Zenon
    <2>2. up'[s] = "down" /\ th'[s][t] = th[s][t] /\ inbox'[s][t] = <<>>
        BY <1>2, <1>3, <1>11, <2>1, Zenon DEF Consumed
    <2>3. Mail(s, t)' /\ Answered(s, t)' /\ Counted(s, t)'
        BY <1>1, <1>2, <2>2, Zenon DEF ThreadInv, Mail, Answered, Counted, Relies
    <2>4. ThreadInv(s, t)'
        BY <1>1, <1>2, <1>5, <1>10, <2>2, <2>3, Zenon DEF ThreadInv
    <2>5. Cause(s)'
        BY <1>2, <1>5, <1>6, <1>11, <2>2, Zenon DEF Cause
    <2>6. up'[s] # "on"
        BY <2>2, Zenon
    <2>7. QED
        BY <1>2, <1>6, <1>7, <2>4, <2>5, <2>6, Zenon DEF Keeps
<1>12. CASE inbox[s][t] # <<>> /\ q = Head(inbox[s][t])
    <2>1. q = Creds(t) /\ inbox'[s][t] = <<>> /\ inbox[s][t] = <<Creds(t)>>
        <3>1. inbox[s][t] = <<Creds(t)>>
            BY <1>1, <1>2, <1>12, Zenon DEF ThreadInv, Mail
        <3>2. Head(inbox[s][t]) = Creds(t) /\ Tail(inbox[s][t]) = <<>>
            BY <3>1, OneMessage, Zenon
        <3>3. QED
            BY <1>2, <1>12, <3>1, <3>2, Zenon DEF Consumed
    <2>2. k.tok = <<b, 1>> /\ k.cur = <<b, 3>> /\ k.mem[b] = CutCreds(t)
        <3>1. Yields(m, b, 1, Comma, 1, 3, CutCreds(t))
            BY <1>9, <2>1, CredsCut, Zenon
        <3>2. QED
            BY <1>8, <3>1, Zenon DEF Yields
    <2>3. k.tok # NULL
        BY <2>2 DEF NULL
    <2>4. /\ up' = up /\ th'[s][t].pc = "pass" /\ th'[s][t].user = <<b, 1>>
          /\ cur'[s] = <<b, 3>> /\ mem'[s][b] = CutCreds(t)
        BY <1>3, <2>2, <2>3, Zenon
    <2>5. Mail(s, t)' /\ Answered(s, t)' /\ Counted(s, t)'
        BY <1>1, <1>2, <2>1, <2>4, Zenon
        DEF ThreadInv, Mail, Answered, Counted, Relies, Admitted
    <2>6. Own(s, t)'
        BY <1>8, <2>4, Zenon DEF Own, Relies
    <2>7. ThreadInv(s, t)'
        BY <1>1, <1>2, <1>5, <1>10, <2>4, <2>5, <2>6, Zenon DEF ThreadInv
    <2>8. Moves(s, t)
        BY <1>2, <1>12, <2>1, <2>4, Zenon DEF Moves, Fresh, Greeted, LetIn, Denied, Told
    <2>9. up'[s] # "down"
        BY <1>5, <2>4, Zenon
    <2>10. QED
        BY <1>2, <1>6, <1>7, <2>7, <2>8, <2>9, Zenon DEF Keeps
<1>13. QED
    BY <1>4, <1>11, <1>12, Zenon

\* The second call finds the password, unless another thread came between.
LEMMA CutPassKeeps ==
    ASSUME LoginInv, NEW s \in Servers, NEW t \in Clients, CutPass(s, t)
    PROVE  Keeps(s, t)
<1>1. TypeOK /\ ThreadInv(s, t) /\ Counted(s, t) /\ \A r \in Clients : ThreadInv(s, r)
    BY Zenon DEF LoginInv, ThreadInv
<1>2. PICK k : /\ k = Cut(mem[s], cur[s], {})
               /\ Only(s, t) /\ TypeOK' /\ Called(s, t, k)
               /\ th[s][t].pc = "pass" /\ cur[s] # NULL
               /\ th'[s][t].pc = "line" /\ th'[s][t].pass = k.tok
               /\ th'[s][t].n \in {0, 1}
               /\ th'[s][t].user = th[s][t].user
               /\ UNCHANGED <<up, inbox, answer, number>>
    BY <1>1, CutPassFacts, Zenon
<1>3. up[s] = "on" /\ (t \in mixed'[s] <=> t \in mixed[s])
    BY <1>2, Zenon DEF Only
<1>4. s \in cl[t].socks
    <2>1. th[s][t].pc # "none"
        BY <1>2, Zenon
    <2>2. QED
        BY <2>1, Connected, Zenon
<1>5. /\ mem'[s] = k.mem /\ cur'[s] = k.cur /\ cur'[s] # NULL
      /\ mixed[s] \subseteq mixed'[s] /\ Interrupts(s, t)
    BY <1>2, Zenon DEF Called
<1>6. Spares(s, t)
    <2>1. NUL \notin {}
        BY Zenon
    <2>2. FromCursor(s, t, {})
        BY <1>2, <1>5, Zenon DEF FromCursor
    <2>3. QED
        BY <1>1, <1>2, <1>3, <1>5, <2>1, <2>2, CursorCallSpares, Zenon
<1>7. Mail(s, t)' /\ Answered(s, t)'
    BY <1>1, <1>2, Zenon DEF ThreadInv, Mail, Answered, Admitted
<1>8. Counted(s, t)'
    <2>1. \A n \in {0, 1} : n \in 0..(Len(Conf) + 1)
        BY LenFact
    <2>2. QED
        BY <1>2, <2>1, Zenon DEF Counted, Relies
<1>9. Right(s, t) => Right(s, t)'
    BY <1>2, Zenon DEF Right, Admitted
<1>10. ASSUME Own(s, t)
       PROVE  Own(s, t)'
    <2>1. PICK b : b = <<t, "buf">>
        BY Zenon
    <2>2. /\ b \in Buffers /\ mem[s] \in [Buffers -> Seq(Bytes)]
          /\ cur[s] = <<b, 3>> /\ th[s][t].user = <<b, 1>> /\ mem[s][b] = CutCreds(t)
        BY <1>1, <1>2, <1>10, <2>1, BufferFacts, ThreadFacts, Zenon DEF Own
    <2>3. k.tok = <<b, 3>> /\ k.cur = <<b, 4>> /\ k.mem[b] = CutCreds(t)
        <3>1. Yields(mem[s], b, 3, {}, 3, 4, CutCreds(t))
            BY <2>2, CredsCut, Zenon
        <3>2. QED
            BY <1>2, <2>2, <3>1, Zenon DEF Yields
    <2>4. Checking(s, t)'
        <3>1. \A n \in {0, 1} : \A m \in 1..(n - 1) : Conf[m] # <<User[t], Pass[t]>>
            OBVIOUS
        <3>2. QED
            BY <1>2, <1>5, <2>1, <2>2, <2>3, <3>1, Zenon DEF Checking
    <2>5. Behind(s)'
        <3>1. Len(CutCreds(t)) = 3
            BY DEF CutCreds
        <3>2. PICK p, i : p = cur'[s] /\ p = <<b, i>> /\ i = 4
            BY <1>5, <2>3, Zenon
        <3>3. p[1] = b /\ p[2] > 1 /\ p[2] > 3
            BY <3>2
        <3>4. QED
            BY <1>5, <2>3, <3>1, <3>2, <3>3, Zenon DEF Behind
    <2>6. QED
        BY <1>2, <2>4, <2>5, Zenon DEF Own, Relies
<1>11. ThreadInv(s, t)'
    BY <1>1, <1>2, <1>3, <1>7, <1>8, <1>9, <1>10, Zenon DEF ThreadInv
<1>12. Moves(s, t)
    BY <1>2, Zenon DEF Moves, Fresh, Greeted, LetIn, Denied, Told
<1>13. up'[s] # "down"
    BY <1>2, <1>3, Zenon
<1>14. QED
    BY <1>2, <1>4, <1>6, <1>11, <1>12, <1>13, Zenon DEF Keeps

\* What the calls find in a line of dfs.conf.
LEMMA LineCut ==
    ASSUME NEW m \in [Buffers -> Seq(Bytes)], NEW b \in Buffers, NEW n \in 1..Len(Conf)
    PROVE  /\ m[b] = ConfLine(n) => Yields(m, b, 1, Space, 1, 3, CutLine(n))
           /\ m[b] = CutLine(n) =>
                Yields(m, b, 3, Newline, 3, 5, <<Conf[n][1], NUL, Conf[n][2], NUL>>)
<1>1. PICK x, d, y, e : x = Conf[n][1] /\ d = " " /\ y = Conf[n][2] /\ e = "\n"
    BY Zenon
<1>2. /\ x # NUL /\ y # NUL /\ d # NUL /\ e # NUL /\ x # d /\ y # e
      /\ Space = {d} /\ Newline = {e}
      /\ ConfLine(n) = <<x, d, y, e>> /\ CutLine(n) = <<x, NUL, y, e>>
    BY <1>1, ConfFacts, TextFacts, Zenon DEF ConfLine, CutLine, Space, Newline
<1>3. /\ m[b] = <<x, d, y, e>> => Yields(m, b, 1, {d}, 1, 3, <<x, NUL, y, e>>)
      /\ m[b] = <<x, NUL, y, e>> => Yields(m, b, 3, {e}, 3, 5, <<x, NUL, y, NUL>>)
    BY <1>2, CutFour
<1>4. QED
    BY <1>1, <1>2, <1>3, Zenon

\* The first call on a line finds its user.
LEMMA CutUserKeeps ==
    ASSUME LoginInv, NEW s \in Servers, NEW t \in Clients, CutUser(s, t)
    PROVE  Keeps(s, t)
<1>1. TypeOK /\ ThreadInv(s, t) /\ Counted(s, t)
    BY Zenon DEF LoginInv, ThreadInv
<1>2. PICK m, k :
        /\ m = [mem[s] EXCEPT ![<<t, "line">>] = ConfLine(th[s][t].n)]
        /\ k = Cut(m, <<<<t, "line">>, 1>>, Space)
        /\ Only(s, t) /\ TypeOK' /\ Called(s, t, k)
        /\ cur'[s][1] = <<t, "line">>
        /\ \A b \in Buffers \ {<<t, "line">>} : mem'[s][b] = mem[s][b]
        /\ th[s][t].pc = "line" /\ th[s][t].n \in 1..Len(Conf)
        /\ th'[s][t].pc = "word" /\ th'[s][t].pass = th[s][t].pass
        /\ th'[s][t].n = th[s][t].n
        /\ th'[s][t].user = th[s][t].user /\ th'[s][t].entry = k.tok
        /\ UNCHANGED <<up, inbox, answer, number>>
    BY <1>1, CutUserFacts, Zenon
<1>3. up[s] = "on" /\ (t \in mixed'[s] <=> t \in mixed[s])
    BY <1>2, Zenon DEF Only
<1>4. s \in cl[t].socks
    <2>1. th[s][t].pc # "none"
        BY <1>2, Zenon
    <2>2. QED
        BY <2>1, Connected, Zenon
<1>5. /\ mem'[s] = k.mem /\ cur'[s] = k.cur /\ cur'[s] # NULL /\ Interrupts(s, t)
    BY <1>2, Zenon DEF Called
<1>6. Spares(s, t)
    <2>1. \A b \in Buffers : b[1] # t => mem'[s][b] = mem[s][b]
        <3>1. \A b \in Buffers : b[1] # t => b # <<t, "line">>
            BY BufferFacts, Zenon
        <3>2. QED
            BY <1>2, <3>1, Zenon
    <2>2. cur'[s][1][1] = t
        BY <1>2, BufferFacts, Zenon
    <2>3. QED
        BY <1>5, <2>1, <2>2, OwnCallSpares, Zenon
<1>7. Mail(s, t)' /\ Answered(s, t)' /\ Counted(s, t)'
    BY <1>1, <1>2, <1>5, Zenon DEF ThreadInv, Mail, Answered, Counted, Admitted
<1>8. Right(s, t) => Right(s, t)'
    BY <1>2, Zenon DEF Right, Admitted
<1>9. ASSUME Own(s, t)
      PROVE  Own(s, t)'
    <2>1. PICK b, n : /\ b = <<t, "line">> /\ n = th[s][t].n
                      /\ m = [mem[s] EXCEPT ![b] = ConfLine(n)]
                      /\ k = Cut(m, <<b, 1>>, Space)
        BY <1>2, Zenon
    <2>2. n \in 1..Len(Conf) /\ ConfLine(n) \in Seq(Bytes)
        BY <1>2, <2>1, LineType, Zenon
    <2>3. b \in Buffers /\ m \in [Buffers -> Seq(Bytes)] /\ m[b] = ConfLine(n)
        <3>1. b \in Buffers
            BY <2>1, BufferFacts, Zenon
        <3>2. PICK q : q = ConfLine(n)
            BY Zenon
        <3>3. q \in Seq(Bytes) /\ m = [mem[s] EXCEPT ![b] = q]
            BY <2>1, <2>2, <3>2, Zenon
        <3>4. m \in [Buffers -> Seq(Bytes)] /\ m[b] = q
            BY <1>1, <3>1, <3>3, BufferSet
        <3>5. QED
            BY <3>1, <3>2, <3>4, Zenon
    <2>4. k.tok = <<b, 1>> /\ k.cur = <<b, 3>> /\ k.mem[b] = CutLine(n)
        <3>1. Yields(m, b, 1, Space, 1, 3, CutLine(n))
            BY <2>2, <2>3, LineCut, Zenon
        <3>2. QED
            BY <2>1, <3>1, Zenon DEF Yields
    <2>5. Checking(s, t)'
        <3>1. Checking(s, t)
            BY <1>2, <1>9, Zenon DEF Own
        <3>2. mem'[s][<<t, "buf">>] = mem[s][<<t, "buf">>]
            BY <1>2, BufferFacts, Zenon
        <3>3. QED
            BY <1>2, <3>1, <3>2, Zenon DEF Checking
    <2>6. QED
        BY <1>2, <1>5, <2>1, <2>4, <2>5, Zenon DEF Own, Relies
<1>10. ThreadInv(s, t)'
    BY <1>1, <1>2, <1>3, <1>7, <1>8, <1>9, Zenon DEF ThreadInv
<1>11. Moves(s, t)
    BY <1>2, Zenon DEF Moves, Fresh, Greeted, LetIn, Denied, Told
<1>12. up'[s] # "down"
    BY <1>2, <1>3, Zenon
<1>13. QED
    BY <1>2, <1>4, <1>6, <1>10, <1>11, <1>12, Zenon DEF Keeps

\* No line of dfs.conf is the client's.
LEMMA NoAccount ==
    ASSUME NEW t \in Clients, \A m \in 1..Len(Conf) : Conf[m] # <<User[t], Pass[t]>>
    PROVE  ~HasAccount(t)
<1>1. DOMAIN Conf = 1..Len(Conf)
    <2>1. PICK X : Conf \in Seq(X)
        BY NamesAssumption, Zenon
    <2>2. QED
        BY <2>1, LenProperties
<1>2. Range(Conf) = {Conf[m] : m \in DOMAIN Conf}
    BY Zenon DEF Range
<1>3. QED
    BY <1>1, <1>2, Zenon DEF HasAccount

\* ... and a line that matches is one.
LEMMA OnAccount ==
    ASSUME NEW t \in Clients, NEW n \in 1..Len(Conf), Conf[n] = <<User[t], Pass[t]>>
    PROVE  HasAccount(t)
<1>1. DOMAIN Conf = 1..Len(Conf)
    <2>1. PICK X : Conf \in Seq(X)
        BY NamesAssumption, Zenon
    <2>2. QED
        BY <2>1, LenProperties
<1>2. Range(Conf) = {Conf[m] : m \in DOMAIN Conf}
    BY Zenon DEF Range
<1>3. QED
    BY <1>1, <1>2, Zenon DEF HasAccount

\* After the last line no line has matched; or none was read.
LEMMA DenyKeeps ==
    ASSUME LoginInv, NEW s \in Servers, NEW t \in Clients, Deny(s, t)
    PROVE  Keeps(s, t)
<1>1. TypeOK /\ ThreadInv(s, t) /\ Counted(s, t)
    BY Zenon DEF LoginInv, ThreadInv
<1>2. /\ Only(s, t) /\ TypeOK' /\ th[s][t].pc = "line" /\ th[s][t].n \notin DOMAIN Conf
      /\ th'[s][t].pc = "no" /\ th'[s][t].n = th[s][t].n /\ answer'[s][t] = "-1"
      /\ \A b \in Buffers \ {<<t, "buf">>} : mem'[s][b] = mem[s][b]
      /\ mem'[s][<<t, "buf">>] = <<>>
      /\ UNCHANGED <<up, inbox, number, cur, mixed>>
    BY <1>1, DenyFacts, Zenon
<1>3. up[s] = "on" /\ up'[s] = "on"
    BY <1>2, Zenon DEF Only
<1>4. s \in cl[t].socks
    <2>1. th[s][t].pc # "none"
        BY <1>2, Zenon
    <2>2. QED
        BY <2>1, Connected, Zenon
<1>5. Spares(s, t)
    BY <1>2, NoCallSpares, Zenon
<1>6. ASSUME t \notin mixed[s]
      PROVE  (~HasAccount(t) \/ th[s][t].n = 0) /\ Right(s, t) /\ Own(s, t)
    <2>1. Own(s, t) /\ Right(s, t)
        BY <1>1, <1>3, <1>6, Zenon DEF ThreadInv
    <2>2. \A m \in 1..(th[s][t].n - 1) : Conf[m] # <<User[t], Pass[t]>>
        BY <1>2, <2>1, Zenon DEF Own, Checking
    <2>3. th[s][t].n \in 0..(Len(Conf) + 1)
        BY <1>1, <1>2, Zenon DEF Counted
    <2>4. th[s][t].n = 0 \/ th[s][t].n - 1 = Len(Conf)
        BY <1>2, <2>3, LenFact
    <2>5. th[s][t].n # 0 => \A m \in 1..Len(Conf) : Conf[m] # <<User[t], Pass[t]>>
        BY <2>2, <2>4, Zenon
    <2>6. QED
        BY <2>1, <2>5, NoAccount, Zenon
<1>7. Mail(s, t)' /\ Answered(s, t)' /\ Counted(s, t)'
    BY <1>1, <1>2, Zenon DEF ThreadInv, Mail, Answered, Counted, Relies, Admitted
<1>8. ASSUME Own(s, t)
      PROVE  Own(s, t)'
    <2>1. ASSUME cur'[s] # NULL, cur'[s][1][1] = t
          PROVE  Behind(s)'
        <3>1. Behind(s) /\ cur'[s] = cur[s]
            BY <1>2, <1>8, <2>1, Zenon DEF Own, Relies
        <3>2. cur[s] \in Buffers \X (Nat \ {0}) /\ mem[s] \in [Buffers -> Seq(Bytes)]
            BY <1>1, <2>1, <3>1, ThreadFacts, BufferFacts, Zenon
        <3>3. PICK b \in Buffers, i \in Nat \ {0} : cur[s] = <<b, i>>
            BY <3>2
        <3>4. cur[s][1] = b /\ cur[s][2] = i
            BY <3>3
        <3>5. i > 1 /\ i > Len(mem[s][b])
            BY <3>1, <3>4, Zenon DEF Behind
        <3>6. mem'[s][b] = mem[s][b] \/ mem'[s][b] = <<>>
            BY <1>2, Zenon
        <3>7. i > Len(mem'[s][b])
            BY <3>5, <3>6
        <3>8. QED
            BY <3>1, <3>4, <3>5, <3>7, Zenon DEF Behind
    <2>2. QED
        BY <1>2, <2>1, Zenon DEF Own, Relies
<1>9. ThreadInv(s, t)'
    <2>1. t \notin mixed'[s] => Right(s, t)'
        BY <1>2, <1>6, Zenon DEF Right, Admitted
    <2>2. QED
        BY <1>2, <1>3, <1>6, <1>7, <1>8, <2>1, Zenon DEF ThreadInv
<1>10. Moves(s, t)
    BY <1>2, Zenon DEF Moves, Fresh, Greeted, LetIn, Denied, Told
<1>11. QED
    BY <1>2, <1>3, <1>4, <1>5, <1>9, <1>10, Zenon DEF Keeps

\* A string of one byte.
ByteThere(m, c, i, z) ==
    z # NUL /\ ByteAt(m[c], i) = z /\ ByteAt(m[c], i + 1) = NUL /\ m[c][i] = z
        => StringAt(m, <<c, i>>) = <<z>>

LEMMA StringOfOne ==
    ASSUME NEW m \in [Buffers -> Seq(Bytes)], NEW c \in Buffers, NEW i \in Nat \ {0}, NEW z
    PROVE  ByteThere(m, c, i, z)
<1>1. SUFFICES ASSUME z # NUL, ByteAt(m[c], i) = z, ByteAt(m[c], i + 1) = NUL, m[c][i] = z
               PROVE  StringAt(m, <<c, i>>) = <<z>>
    BY Zenon DEF ByteThere
<1>2. PICK p : p = <<c, i>>
    OBVIOUS
<1>3. p \in Buffers \X (Nat \ {0}) /\ p[1] = c /\ p[2] = i
    BY <1>2
<1>4. ByteAt(m[p[1]], p[2]) # NUL /\ ByteAt(m[p[1]], p[2] + 1) = NUL
    BY <1>1, <1>3
<1>5. StringAt(m, p) = <<m[p[1]][p[2]]>>
    <2>1. OneByte(m, p)
        BY <1>3, StringTypes
    <2>2. QED
        BY <1>4, <2>1, Zenon DEF OneByte
<1>6. QED
    BY <1>1, <1>2, <1>3, <1>5, Zenon

\* The verdict v on line n is the right one for client t.
RightVerdict(t, n, v) == v = IF Conf[n] = <<User[t], Pass[t]>> THEN "yes" ELSE "next"

\* The comparison of the credentials with the line that a thread has cut.
LEMMA VerdictFacts ==
    ASSUME NEW m \in [Buffers -> Seq(Bytes)], NEW t \in Clients, NEW n \in 1..Len(Conf),
           NEW r \in Thread, NEW word,
           r.user = <<<<t, "buf">>, 1>>, r.pass = <<<<t, "buf">>, 3>>,
           r.entry = <<<<t, "line">>, 1>>, word = <<<<t, "line">>, 3>>,
           m[<<t, "buf">>] = CutCreds(t),
           m[<<t, "line">>] = <<Conf[n][1], NUL, Conf[n][2], NUL>>
    PROVE  RightVerdict(t, n, Verdict(m, r, word))
<1>1. PICK x, y, u, v, a, b : /\ x = Conf[n][1] /\ y = Conf[n][2]
                              /\ u = User[t] /\ v = Pass[t]
                              /\ a = <<t, "buf">> /\ b = <<t, "line">>
    BY Zenon
<1>2. /\ x # NUL /\ y # NUL /\ u # NUL /\ v # NUL
      /\ Conf[n] = <<x, y>>
      /\ m[a] = <<u, NUL, v>> /\ m[b] = <<x, NUL, y, NUL>>
      /\ a \in Buffers /\ b \in Buffers
    BY <1>1, ConfFacts, NameFacts, BufferFacts, Zenon DEF CutCreds
<1>3. /\ StringAt(m, <<a, 1>>) = <<u>> /\ StringAt(m, <<a, 3>>) = <<v>>
      /\ StringAt(m, <<b, 1>>) = <<x>> /\ StringAt(m, <<b, 3>>) = <<y>>
    <2>1. \A c \in Buffers, i \in Nat \ {0} : \A z : ByteThere(m, c, i, z)
        BY StringOfOne, Zenon
    <2>2. /\ ByteAt(m[a], 1) = u /\ ByteAt(m[a], 1 + 1) = NUL /\ m[a][1] = u
          /\ ByteAt(m[a], 3) = v /\ ByteAt(m[a], 3 + 1) = NUL /\ m[a][3] = v
        BY <1>2 DEF ByteAt
    <2>3. /\ ByteAt(m[b], 1) = x /\ ByteAt(m[b], 1 + 1) = NUL /\ m[b][1] = x
          /\ ByteAt(m[b], 3) = y /\ ByteAt(m[b], 3 + 1) = NUL /\ m[b][3] = y
        BY <1>2 DEF ByteAt
    <2>4. 1 \in Nat \ {0} /\ 3 \in Nat \ {0}
        OBVIOUS
    <2>5. QED
        BY <1>2, <2>1, <2>2, <2>3, <2>4, Zenon DEF ByteThere
<1>4. Conf[n] = <<User[t], Pass[t]>> <=> <<u>> = <<x>> /\ <<v>> = <<y>>
    <2>1. <<x, y>> = <<u, v>> <=> <<u>> = <<x>> /\ <<v>> = <<y>>
        OBVIOUS
    <2>2. QED
        BY <1>1, <1>2, <2>1, Zenon
<1>5. NULL \notin {r.pass, word}
    <2>1. \A p, q : <<p, q>> # NULL
        BY DEF NULL
    <2>2. QED
        BY <2>1, Zenon
<1>6. /\ StringAt(m, r.user) = <<u>> /\ StringAt(m, r.pass) = <<v>>
      /\ StringAt(m, r.entry) = <<x>> /\ StringAt(m, word) = <<y>>
    BY <1>1, <1>3, Zenon
<1>7. QED
    BY <1>4, <1>5, <1>6, Zenon DEF Verdict, RightVerdict

\* The second call on a line finds its password, and the verdict is right, unless
\* another thread came between.
LEMMA CutWordKeeps ==
    ASSUME LoginInv, NEW s \in Servers, NEW t \in Clients, CutWord(s, t)
    PROVE  Keeps(s, t)
<1>1. TypeOK /\ ThreadInv(s, t) /\ Counted(s, t) /\ \A r \in Clients : ThreadInv(s, r)
    BY Zenon DEF LoginInv, ThreadInv
<1>0. /\ Only(s, t) /\ TypeOK' /\ Interrupts(s, t)
      /\ th[s][t].pc = "word" /\ th[s][t].n \in 1..Len(Conf)
      /\ cur[s] # NULL /\ cur'[s] # NULL
      /\ UNCHANGED <<inbox, number>>
      /\ \E k, v : WordCut(s, t, k, v)
    BY <1>1, CutWordFacts, Zenon
<1>2. PICK k, v :
        /\ k = Cut(mem[s], cur[s], Newline) /\ v = Verdict(k.mem, th[s][t], k.tok)
        /\ Only(s, t) /\ TypeOK' /\ Interrupts(s, t)
        /\ cur[s] # NULL /\ cur'[s] # NULL /\ cur'[s] = k.cur
        /\ \A b \in Buffers \ {<<t, "buf">>} : mem'[s][b] = k.mem[b]
        /\ th[s][t].pc = "word" /\ th[s][t].n \in 1..Len(Conf)
        /\ v = "crash" => /\ up'[s] = "down" /\ th'[s][t] = th[s][t]
                          /\ answer' = answer
        /\ v = "yes" => /\ up' = up /\ th'[s][t].pc = "name" /\ answer'[s][t] = "1"
        /\ v = "next" => /\ up' = up /\ th'[s][t].pc = "line" /\ answer' = answer
                         /\ th'[s][t].n = th[s][t].n + 1
                         /\ th'[s][t].user = th[s][t].user
                         /\ th'[s][t].pass = th[s][t].pass
                         /\ mem'[s] = k.mem
        /\ v \in {"crash", "yes", "next"}
        /\ UNCHANGED <<inbox, number>>
    BY <1>0, Zenon DEF WordCut
<1>3. up[s] = "on" /\ (t \in mixed'[s] <=> t \in mixed[s]) /\ mixed[s] \subseteq mixed'[s]
    BY <1>2, Zenon DEF Only
<1>4. s \in cl[t].socks
    <2>1. th[s][t].pc # "none"
        BY <1>2, Zenon
    <2>2. QED
        BY <2>1, Connected, Zenon
<1>5. Spares(s, t)
    <2>1. NUL \notin Newline
        BY SeparatorFacts, Zenon
    <2>2. \A b \in Buffers : b[1] # t => b # <<t, "buf">>
        BY BufferFacts, Zenon
    <2>3. FromCursor(s, t, Newline)
        BY <1>2, <2>2, Zenon DEF FromCursor
    <2>4. QED
        <3>1. /\ TypeOK /\ \A r \in Clients : ThreadInv(s, r)
              /\ up[s] = "on" /\ cur[s] # NULL /\ mixed[s] \subseteq mixed'[s]
              /\ Interrupts(s, t) /\ cur'[s] # NULL
            BY <1>0, <1>1, <1>3, Zenon
        <3>2. QED
            BY <2>1, <2>3, <3>1, CursorCallSpares, Zenon
\* If no other thread was in between, the verdict is right.
<1>6. ASSUME t \notin mixed[s]
      PROVE  LET n == th[s][t].n
             IN  /\ Right(s, t)
                 /\ v = IF Conf[n] = <<User[t], Pass[t]>> THEN "yes" ELSE "next"
                 /\ Checking(s, t)
                 /\ k.mem[<<t, "buf">>] = CutCreds(t)
                 /\ k.mem[<<t, "line">>] = <<Conf[n][1], NUL, Conf[n][2], NUL>>
                 /\ k.cur = <<<<t, "line">>, 5>>
    <2>1. Right(s, t) /\ Own(s, t)
        BY <1>1, <1>3, <1>6, Zenon DEF ThreadInv
    <2>2. PICK b, c, n : b = <<t, "line">> /\ c = <<t, "buf">> /\ n = th[s][t].n
        BY Zenon
    <2>3. /\ Checking(s, t) /\ cur[s] = <<b, 3>> /\ th[s][t].entry = <<b, 1>>
          /\ mem[s][b] = CutLine(n) /\ n \in 1..Len(Conf)
        BY <1>2, <2>1, <2>2, Zenon DEF Own
    <2>4. b \in Buffers /\ c \in Buffers /\ b # c /\ mem[s] \in [Buffers -> Seq(Bytes)]
        BY <1>1, <2>2, BufferFacts, ThreadFacts, Zenon
    <2>5. /\ k.tok = <<b, 3>> /\ k.cur = <<b, 5>>
          /\ k.mem[b] = <<Conf[n][1], NUL, Conf[n][2], NUL>>
        <3>1. Yields(mem[s], b, 3, Newline, 3, 5, <<Conf[n][1], NUL, Conf[n][2], NUL>>)
            BY <2>3, <2>4, LineCut, Zenon
        <3>2. k = Cut(mem[s], <<b, 3>>, Newline)
            BY <1>2, <2>3, Zenon
        <3>3. QED
            BY <3>1, <3>2, Zenon DEF Yields
    <2>6. k.mem[c] = CutCreds(t)
        <3>1. mem[s][c] = CutCreds(t)
            BY <2>2, <2>3, Zenon DEF Checking
        <3>2. c \in DOMAIN mem[s]
            BY <2>4
        <3>3. c # cur[s][1]
            <4>1. PICK p : p = <<b, 3>>
                OBVIOUS
            <4>2. p[1] = b
                BY <4>1
            <4>3. QED
                BY <2>3, <2>4, <4>1, <4>2, Zenon
        <3>4. Cut(mem[s], cur[s], Newline).mem[c] = mem[s][c]
            BY <3>2, <3>3, CutElsewhere
        <3>5. QED
            BY <1>2, <3>1, <3>4, Zenon
    <2>7. k.mem \in [Buffers -> Seq(Bytes)]
        BY <1>1, <1>2, CursorFacts, SeparatorFacts, Zenon
    <2>8. v = IF Conf[n] = <<User[t], Pass[t]>> THEN "yes" ELSE "next"
        <3>1. PICK m, r, w : m = k.mem /\ r = th[s][t] /\ w = k.tok /\ v = Verdict(m, r, w)
            BY <1>2, Zenon
        <3>2. r.user = <<c, 1>> /\ r.pass = <<c, 3>> /\ r.entry = <<b, 1>> /\ w = <<b, 3>>
            BY <2>2, <2>3, <2>5, <3>1, Zenon DEF Checking
        <3>3. r \in Thread
            BY <1>1, <3>1, ThreadFacts, Zenon
        <3>4. /\ m \in [Buffers -> Seq(Bytes)] /\ m[c] = CutCreds(t)
              /\ m[b] = <<Conf[n][1], NUL, Conf[n][2], NUL>>
            BY <2>5, <2>6, <2>7, <3>1, Zenon
        <3>5. RightVerdict(t, n, Verdict(m, r, w))
            <4>1. /\ r.user = <<<<t, "buf">>, 1>> /\ r.pass = <<<<t, "buf">>, 3>>
                  /\ r.entry = <<<<t, "line">>, 1>> /\ w = <<<<t, "line">>, 3>>
                  /\ m[<<t, "buf">>] = CutCreds(t)
                  /\ m[<<t, "line">>] = <<Conf[n][1], NUL, Conf[n][2], NUL>>
                BY <2>2, <3>2, <3>4, Zenon
            <4>2. QED
                BY <2>3, <3>3, <3>4, <4>1, VerdictFacts, Zenon
        <3>6. QED
            BY <3>1, <3>5, Zenon DEF RightVerdict
    <2>9. QED
        BY <2>1, <2>2, <2>3, <2>5, <2>6, <2>8, Zenon
<1>7. Mail(s, t)' /\ Answered(s, t)'
    <2>1. CASE v = "crash"
        BY <1>1, <1>2, <2>1, Zenon DEF ThreadInv, Mail, Answered, Admitted
    <2>2. CASE v = "yes"
        BY <1>1, <1>2, <2>2, Zenon DEF ThreadInv, Mail, Answered, Admitted
    <2>3. CASE v = "next"
        BY <1>1, <1>2, <2>3, Zenon DEF ThreadInv, Mail, Answered, Admitted
    <2>4. QED
        BY <1>2, <2>1, <2>2, <2>3, Zenon
<1>8. Counted(s, t)'
    <2>1. th[s][t].n + 1 \in 0..(Len(Conf) + 1)
        BY <1>2, LenFact
    <2>2. QED
        BY <1>2, <2>1, Zenon DEF Counted, Relies
<1>9. CASE v = "crash"
    <2>1. t \in mixed[s]
        BY <1>6, <1>9, Zenon
    <2>2. ThreadInv(s, t)'
        BY <1>3, <1>7, <1>8, <2>1, Zenon DEF ThreadInv
    <2>3. Cause(s)'
        <3>1. mixed'[s] # {}
            BY <1>3, <2>1
        <3>2. QED
            BY <3>1, Zenon DEF Cause
    <2>4. up'[s] # "on"
        BY <1>2, <1>9, Zenon
    <2>5. QED
        BY <1>2, <1>4, <1>5, <2>2, <2>3, <2>4, Zenon DEF Keeps
<1>10. CASE v = "yes"
    <2>1. ASSUME t \notin mixed[s]
          PROVE  Right(s, t)' /\ Own(s, t)'
        <3>1. /\ Right(s, t) /\ Conf[th[s][t].n] = <<User[t], Pass[t]>>
              /\ k.mem[<<t, "line">>] =
                    <<Conf[th[s][t].n][1], NUL, Conf[th[s][t].n][2], NUL>>
              /\ k.cur = <<<<t, "line">>, 5>>
            BY <1>6, <1>10, <2>1, Zenon
        <3>2. HasAccount(t)
            BY <1>2, <3>1, OnAccount, Zenon
        <3>3. Right(s, t)'
            BY <1>2, <1>10, <3>1, <3>2, Zenon DEF Right
        <3>4. Behind(s)'
            <4>1. PICK b, x, y, p, i :
                    /\ b = <<t, "line">> /\ x = Conf[th[s][t].n][1] /\ y = Conf[th[s][t].n][2]
                    /\ p = cur'[s] /\ p = <<b, i>> /\ i = 5
                BY <1>2, <3>1, Zenon
            <4>2. mem'[s][b] = <<x, NUL, y, NUL>>
                BY <1>2, <3>1, <4>1, BufferFacts, Zenon
            <4>3. p[1] = b /\ p[2] > 1 /\ p[2] > Len(<<x, NUL, y, NUL>>)
                BY <4>1
            <4>4. QED
                BY <4>1, <4>2, <4>3, Zenon DEF Behind
        <3>5. Own(s, t)'
            BY <1>2, <1>10, <3>4, Zenon DEF Own
        <3>6. QED
            BY <3>3, <3>5, Zenon
    <2>2. ThreadInv(s, t)'
        BY <1>3, <1>7, <1>8, <2>1, Zenon DEF ThreadInv
    <2>3. Moves(s, t)
        BY <1>2, <1>10, Zenon DEF Moves, Fresh, Greeted, LetIn, Denied, Told
    <2>4. up'[s] # "down"
        BY <1>2, <1>3, <1>10, Zenon
    <2>5. QED
        BY <1>2, <1>4, <1>5, <2>2, <2>3, <2>4, Zenon DEF Keeps
<1>11. CASE v = "next"
    <2>1. ASSUME t \notin mixed[s]
          PROVE  Right(s, t)' /\ Own(s, t)'
        <3>1. PICK n, b : n = th[s][t].n /\ b = <<t, "line">>
            BY Zenon
        <3>2. /\ Right(s, t) /\ Conf[n] # <<User[t], Pass[t]>> /\ Checking(s, t)
              /\ k.mem[<<t, "buf">>] = CutCreds(t)
              /\ k.mem[b] = <<Conf[n][1], NUL, Conf[n][2], NUL>>
              /\ k.cur = <<b, 5>>
            BY <1>6, <1>11, <2>1, <3>1, Zenon
        <3>3. Right(s, t)'
            BY <1>2, <1>11, <3>2, Zenon DEF Right, Admitted
        <3>4. Behind(s)'
            <4>1. PICK x, y, p, i : /\ x = Conf[n][1] /\ y = Conf[n][2]
                                    /\ p = cur'[s] /\ p = <<b, i>> /\ i = 5
                BY <1>2, <3>2, Zenon
            <4>2. mem'[s][b] = <<x, NUL, y, NUL>>
                BY <1>2, <1>11, <3>2, <4>1, Zenon
            <4>3. p[1] = b /\ p[2] > 1 /\ p[2] > Len(<<x, NUL, y, NUL>>)
                BY <4>1
            <4>4. QED
                BY <4>1, <4>2, <4>3, Zenon DEF Behind
        <3>5. Checking(s, t)'
            <4>1. \A m \in 1..(n - 1) : Conf[m] # <<User[t], Pass[t]>>
                BY <3>1, <3>2, Zenon DEF Checking
            <4>2. n \in Nat
                BY <1>2, <3>1
            <4>3. \A m \in 1..((n + 1) - 1) : m \in 1..(n - 1) \/ m = n
                BY <4>2
            <4>4. \A m \in 1..((n + 1) - 1) : Conf[m] # <<User[t], Pass[t]>>
                BY <3>2, <4>1, <4>3, Zenon
            <4>5. QED
                BY <1>2, <1>11, <3>1, <3>2, <4>4, Zenon DEF Checking
        <3>6. Own(s, t)'
            BY <1>2, <1>11, <3>4, <3>5, Zenon DEF Own
        <3>7. QED
            BY <3>3, <3>6, Zenon
    <2>2. ThreadInv(s, t)'
        BY <1>3, <1>7, <1>8, <2>1, Zenon DEF ThreadInv
    <2>3. Moves(s, t)
        BY <1>2, <1>11, Zenon DEF Moves, Fresh, Greeted, LetIn, Denied, Told
    <2>4. up'[s] # "down"
        BY <1>2, <1>3, <1>11, Zenon
    <2>5. QED
        BY <1>2, <1>4, <1>5, <2>2, <2>3, <2>4, Zenon DEF Keeps
<1>12. QED
    BY <1>2, <1>9, <1>10, <1>11, Zenon

\* An admitted client sends its name next.
LEMMA ReadNameKeeps ==
    ASSUME LoginInv, NEW s \in Servers, NEW t \in Clients, ReadName(s, t)
    PROVE  Keeps(s, t)
<1>1. TypeOK /\ ThreadInv(s, t)
    BY Zenon DEF LoginInv
<1>2. /\ Only(s, t) /\ TypeOK' /\ th[s][t].pc = "name" /\ th'[s][t].pc = "loop"
      /\ \A b \in Buffers \ {<<t, "buf">>} : mem'[s][b] = mem[s][b]
      /\ mem'[s][<<t, "buf">>] \in Incoming(s, t)
      /\ Consumed(s, t)
      /\ UNCHANGED <<up, answer, number, cur, mixed>>
    BY <1>1, ReadNameFacts, Zenon
<1>3. up[s] = "on" /\ cl' = cl
    BY <1>2, Zenon DEF Only
<1>4. s \in cl[t].socks /\ Phase(s, t) /\ (Gone(t) => cl[t].pc = "dead")
    <2>1. th[s][t].pc # "none" /\ th[s][t].pc # "no"
        BY <1>2, Zenon
    <2>2. QED
        BY <1>3, <2>1, Connected, Zenon
<1>5. Spares(s, t)
    BY <1>2, NoCallSpares, Zenon
\* The name is one string of one byte, or there is none.
<1>6. /\ inbox'[s][t] = <<>>
      /\ \/ inbox[s][t] = <<>> /\ Gone(t) /\ mem'[s][<<t, "buf">>] = <<>>
         \/ inbox[s][t] = <<<<User[t]>>>> /\ mem'[s][<<t, "buf">>] = <<User[t]>>
    <2>1. PICK q \in Incoming(s, t) : mem'[s][<<t, "buf">>] = q
        BY <1>2, Zenon
    <2>2. \/ inbox[s][t] # <<>> /\ q = Head(inbox[s][t])
          \/ inbox[s][t] = <<>> /\ Gone(t) /\ q = <<>>
        BY <1>1, IncomingFacts
    <2>3. inbox[s][t] \in {<<>>, <<<<User[t]>>>>}
        BY <1>1, <1>2, Zenon DEF ThreadInv, Mail
    <2>4. CASE inbox[s][t] = <<>>
        BY <1>2, <2>1, <2>2, <2>4, Zenon DEF Consumed
    <2>5. CASE inbox[s][t] # <<>>
        <3>1. inbox[s][t] = <<<<User[t]>>>>
            BY <2>3, <2>5, Zenon
        <3>2. Head(inbox[s][t]) = <<User[t]>> /\ Tail(inbox[s][t]) = <<>>
            BY <3>1, OneMessage, Zenon
        <3>3. QED
            BY <1>2, <2>1, <2>2, <2>5, <3>1, <3>2, Zenon DEF Consumed
    <2>6. QED
        BY <2>4, <2>5, Zenon
<1>7. Mail(s, t)' /\ Answered(s, t)' /\ Counted(s, t)'
    BY <1>1, <1>2, <1>6, Zenon DEF ThreadInv, Mail, Answered, Counted, Relies, Admitted
<1>8. Right(s, t) => Right(s, t)'
    BY <1>2, Zenon DEF Right, Admitted
<1>9. ASSUME Own(s, t)
      PROVE  Own(s, t)'
    <2>1. SUFFICES ASSUME cur[s] # NULL, cur[s][1][1] = t
                   PROVE  Behind(s)'
        BY <1>2, Zenon DEF Own
    <2>2. Behind(s)
        BY <1>2, <1>9, <2>1, Zenon DEF Own, Relies
    <2>3. PICK b, i : b = cur[s][1] /\ i = cur[s][2]
        BY Zenon
    <2>4. b \in Buffers /\ i \in Nat
        <3>1. cur[s] \in Buffers \X (Nat \ {0})
            BY <1>1, <2>1, ThreadFacts, BufferFacts, Zenon
        <3>2. QED
            BY <2>3, <3>1
    <2>5. i > Len(mem'[s][b])
        <3>1. CASE b = <<t, "buf">>
            <4>1. Len(mem'[s][b]) \in {0, 1}
                <5>1. mem'[s][b] = <<>> \/ mem'[s][b] = <<User[t]>>
                    BY <1>6, <3>1, Zenon
                <5>2. (\A z : Len(<<z>>) = 1) /\ Len(<<>>) = 0
                    OBVIOUS
                <5>3. QED
                    BY <5>1, <5>2, Zenon
            <4>2. i > 1
                BY <2>2, <2>3, Zenon DEF Behind
            <4>3. PICK l : l = Len(mem'[s][b])
                BY Zenon
            <4>4. i > l
                <5>1. l \in {0, 1}
                    BY <4>1, <4>3, Zenon
                <5>2. QED
                    BY <2>4, <4>2, <5>1
            <4>5. QED
                BY <4>3, <4>4, Zenon
        <3>2. CASE b # <<t, "buf">>
            BY <1>2, <2>2, <2>3, <2>4, <3>2, Zenon DEF Behind
        <3>3. QED
            BY <3>1, <3>2, Zenon
    <2>6. QED
        BY <1>2, <2>2, <2>3, <2>5, Zenon DEF Behind
<1>10. ThreadInv(s, t)'
    BY <1>1, <1>2, <1>7, <1>8, <1>9, Zenon DEF ThreadInv
<1>11. Moves(s, t) \/ cl[t].pc = "dead"
    <2>1. CASE Gone(t)
        BY <1>4, <2>1, Zenon
    <2>2. CASE ~Gone(t)
        <3>1. inbox[s][t] = <<<<User[t]>>>> /\ inbox[s][t] # <<>>
            <4>1. \A z : <<z>> # <<>>
                OBVIOUS
            <4>2. QED
                BY <1>6, <2>2, <4>1, Zenon
        <3>2. QED
            BY <1>2, <1>6, <3>1, Zenon DEF Moves, Fresh, Greeted, LetIn, Denied, Told
    <2>3. QED
        BY <2>1, <2>2, Zenon
<1>12. up'[s] # "down"
    BY <1>2, <1>3, Zenon
<1>13. QED
    BY <1>2, <1>4, <1>5, <1>10, <1>11, <1>12, Zenon DEF Keeps

\* What the calls find in the name of a piece.
LEMMA EntryCut ==
    ASSUME NEW m \in [Buffers -> Seq(Bytes)], NEW b \in Buffers
    PROVE  /\ m[b] = Entry => Yields(m, b, 1, Dot, 2, 4, Cut1)
           /\ m[b] = Cut1 => Yields(m, b, 4, Dot, 4, 6, Cut2)
           /\ m[b] = Cut2 => Yields(m, b, 6, {}, 6, 7, Cut2)
<1>1. PICK d, x, y, z : d = "." /\ x = "foo" /\ y = "txt" /\ z = "1"
    BY Zenon
<1>2. /\ d # NUL /\ x # NUL /\ y # NUL /\ z # NUL /\ x # d /\ y # d
      /\ Dot = {d} /\ Entry = <<d, x, d, y, d, z>>
      /\ Cut1 = <<d, x, NUL, y, d, z>> /\ Cut2 = <<d, x, NUL, y, NUL, z>>
    BY <1>1, TextFacts, Zenon DEF Entry, Cut1, Cut2, Dot
<1>3. /\ m[b] = <<d, x, d, y, d, z>> =>
            Yields(m, b, 1, {d}, 2, 4, <<d, x, NUL, y, d, z>>)
      /\ m[b] = <<d, x, NUL, y, d, z>> =>
            Yields(m, b, 4, {d}, 4, 6, <<d, x, NUL, y, NUL, z>>)
      /\ m[b] = <<d, x, NUL, y, NUL, z>> =>
            Yields(m, b, 6, {}, 6, 7, <<d, x, NUL, y, NUL, z>>)
    BY <1>2, CutSix
<1>4. QED
    BY <1>2, <1>3, Zenon

\* GET cuts the entry: first before the name of the file ...
LEMMA GetCutKeeps ==
    ASSUME LoginInv, NEW s \in Servers, NEW t \in Clients, GetCut(s, t)
    PROVE  Keeps(s, t)
<1>1. TypeOK /\ ThreadInv(s, t)
    BY Zenon DEF LoginInv
<1>2. PICK m, k :
        /\ m \in [Buffers -> Seq(Bytes)] /\ m[<<t, "path">>] = Entry
        /\ k = Cut(m, <<<<t, "path">>, 1>>, Dot)
        /\ Only(s, t) /\ TypeOK' /\ Called(s, t, k)
        /\ cur'[s][1] = <<t, "path">>
        /\ \A b \in Buffers : b[1] # t => mem'[s][b] = mem[s][b]
        /\ th[s][t].pc = "loop" /\ th'[s][t].pc = "cut2"
        /\ UNCHANGED <<up, inbox, answer, number>>
    BY <1>1, GetCutFacts, Zenon
<1>3. up[s] = "on" /\ (t \in mixed'[s] <=> t \in mixed[s])
    BY <1>2, Zenon DEF Only
<1>4. s \in cl[t].socks
    <2>1. th[s][t].pc # "none"
        BY <1>2, Zenon
    <2>2. QED
        BY <2>1, Connected, Zenon
<1>5. /\ mem'[s] = k.mem /\ cur'[s] = k.cur /\ cur'[s] # NULL /\ Interrupts(s, t)
    BY <1>2, Zenon DEF Called
<1>6. Spares(s, t)
    <2>1. cur'[s][1][1] = t
        BY <1>2, BufferFacts, Zenon
    <2>2. QED
        BY <1>2, <1>5, <2>1, OwnCallSpares, Zenon
<1>7. Mail(s, t)' /\ Answered(s, t)' /\ Counted(s, t)'
    BY <1>1, <1>2, <1>5, Zenon DEF ThreadInv, Mail, Answered, Counted, Admitted
<1>8. Right(s, t) => Right(s, t)'
    BY <1>2, Zenon DEF Right, Admitted
<1>9. Own(s, t)'
    <2>1. PICK b : b = <<t, "path">> /\ k = Cut(m, <<b, 1>>, Dot)
        BY <1>2, Zenon
    <2>2. b \in Buffers /\ m[b] = Entry
        BY <1>2, <2>1, BufferFacts, Zenon
    <2>3. k.cur = <<b, 4>> /\ k.mem[b] = Cut1
        <3>1. Yields(m, b, 1, Dot, 2, 4, Cut1)
            BY <1>2, <2>2, EntryCut, Zenon
        <3>2. QED
            BY <2>1, <3>1, Zenon DEF Yields
    <2>4. QED
        BY <1>2, <1>5, <2>1, <2>3, Zenon DEF Own, Relies
<1>10. ThreadInv(s, t)'
    BY <1>1, <1>2, <1>3, <1>7, <1>8, <1>9, Zenon DEF ThreadInv
<1>11. Moves(s, t)
    BY <1>2, Zenon DEF Moves, Fresh, Greeted, LetIn, Denied, Told
<1>12. up'[s] # "down"
    BY <1>2, <1>3, Zenon
<1>13. QED
    BY <1>2, <1>4, <1>6, <1>10, <1>11, <1>12, Zenon DEF Keeps

\* ... then the end of that name, unless another thread came between ...
LEMMA GetCut2Keeps ==
    ASSUME LoginInv, NEW s \in Servers, NEW t \in Clients, GetCut2(s, t)
    PROVE  Keeps(s, t)
<1>1. TypeOK /\ ThreadInv(s, t) /\ Counted(s, t) /\ \A r \in Clients : ThreadInv(s, r)
    BY Zenon DEF LoginInv, ThreadInv
<1>2. PICK k : /\ k = Cut(mem[s], cur[s], Dot)
               /\ Only(s, t) /\ TypeOK' /\ Called(s, t, k)
               /\ th[s][t].pc = "cut2" /\ cur[s] # NULL
               /\ th'[s][t].pc = "cut3"
               /\ UNCHANGED <<up, inbox, answer, number>>
    BY <1>1, GetCut2Facts, Zenon
<1>3. up[s] = "on" /\ (t \in mixed'[s] <=> t \in mixed[s])
    BY <1>2, Zenon DEF Only
<1>4. s \in cl[t].socks
    <2>1. th[s][t].pc # "none"
        BY <1>2, Zenon
    <2>2. QED
        BY <2>1, Connected, Zenon
<1>5. /\ mem'[s] = k.mem /\ cur'[s] = k.cur /\ cur'[s] # NULL
      /\ mixed[s] \subseteq mixed'[s] /\ Interrupts(s, t)
    BY <1>2, Zenon DEF Called
<1>6. Spares(s, t)
    <2>1. NUL \notin Dot
        BY SeparatorFacts, Zenon
    <2>2. FromCursor(s, t, Dot)
        BY <1>2, <1>5, Zenon DEF FromCursor
    <2>3. QED
        BY <1>1, <1>2, <1>3, <1>5, <2>1, <2>2, CursorCallSpares, Zenon
<1>7. Mail(s, t)' /\ Answered(s, t)' /\ Counted(s, t)'
    BY <1>1, <1>2, <1>5, Zenon DEF ThreadInv, Mail, Answered, Counted, Admitted
<1>8. Right(s, t) => Right(s, t)'
    BY <1>2, Zenon DEF Right, Admitted
<1>9. ASSUME Own(s, t)
      PROVE  Own(s, t)'
    <2>1. PICK b : b = <<t, "path">>
        BY Zenon
    <2>2. /\ b \in Buffers /\ mem[s] \in [Buffers -> Seq(Bytes)]
          /\ cur[s] = <<b, 4>> /\ mem[s][b] = Cut1
        BY <1>1, <1>2, <1>9, <2>1, BufferFacts, ThreadFacts, Zenon DEF Own
    <2>3. k.cur = <<b, 6>> /\ k.mem[b] = Cut2
        <3>1. Yields(mem[s], b, 4, Dot, 4, 6, Cut2)
            BY <2>2, EntryCut, Zenon
        <3>2. QED
            BY <1>2, <2>2, <3>1, Zenon DEF Yields
    <2>4. QED
        BY <1>2, <1>5, <2>1, <2>3, Zenon DEF Own, Relies
<1>10. ThreadInv(s, t)'
    BY <1>1, <1>2, <1>3, <1>7, <1>8, <1>9, Zenon DEF ThreadInv
<1>11. Moves(s, t)
    BY <1>2, Zenon DEF Moves, Fresh, Greeted, LetIn, Denied, Told
<1>12. up'[s] # "down"
    BY <1>2, <1>3, Zenon
<1>13. QED
    BY <1>2, <1>4, <1>6, <1>10, <1>11, <1>12, Zenon DEF Keeps

\* ... and what remains is the number.
LEMMA GetCut3Keeps ==
    ASSUME LoginInv, NEW s \in Servers, NEW t \in Clients, GetCut3(s, t)
    PROVE  Keeps(s, t)
<1>1. TypeOK /\ ThreadInv(s, t) /\ Counted(s, t) /\ \A r \in Clients : ThreadInv(s, r)
    BY Zenon DEF LoginInv, ThreadInv
<1>2. PICK k : /\ k = Cut(mem[s], cur[s], {})
               /\ Only(s, t) /\ TypeOK' /\ Called(s, t, k)
               /\ th[s][t].pc = "cut3" /\ cur[s] # NULL
               /\ k.tok = NULL => number' = number
               /\ k.tok # NULL => number'[s][t] = StringAt(k.mem, k.tok)
               /\ \/ up' = up /\ th'[s][t].pc = "loop" /\ k.tok # NULL
                  \/ up'[s] = "down" /\ th'[s][t] = th[s][t] /\ (k.tok = NULL \/ Gone(t))
               /\ UNCHANGED <<inbox, answer>>
    BY <1>1, GetCut3Facts, Zenon
<1>3. /\ up[s] = "on" /\ (t \in mixed'[s] <=> t \in mixed[s]) /\ cl' = cl
      /\ mixed[s] \subseteq mixed'[s]
    BY <1>2, Zenon DEF Only
<1>4. s \in cl[t].socks /\ (Gone(t) => cl[t].pc = "dead")
    <2>1. th[s][t].pc # "none" /\ th[s][t].pc # "no"
        BY <1>2, Zenon
    <2>2. QED
        BY <1>3, <2>1, Connected, Zenon
<1>5. /\ mem'[s] = k.mem /\ cur'[s] = k.cur /\ cur'[s] # NULL /\ Interrupts(s, t)
    BY <1>2, Zenon DEF Called
<1>6. Spares(s, t)
    <2>1. NUL \notin {}
        BY Zenon
    <2>2. FromCursor(s, t, {})
        BY <1>2, <1>5, Zenon DEF FromCursor
    <2>3. QED
        BY <1>1, <1>2, <1>3, <1>5, <2>1, <2>2, CursorCallSpares, Zenon
\* If no other thread was in between, it is the number of the piece.
<1>7. ASSUME t \notin mixed[s]
      PROVE  /\ k.tok # NULL /\ number'[s][t] = <<"1">> /\ Behind(s)' /\ Right(s, t)
    <2>1. Right(s, t) /\ Own(s, t)
        BY <1>1, <1>3, <1>7, Zenon DEF ThreadInv
    <2>2. PICK b, m : b = <<t, "path">> /\ m = k.mem
        BY Zenon
    <2>3. /\ b \in Buffers /\ mem[s] \in [Buffers -> Seq(Bytes)]
          /\ cur[s] = <<b, 6>> /\ mem[s][b] = Cut2
        BY <1>1, <1>2, <2>1, <2>2, BufferFacts, ThreadFacts, Zenon DEF Own
    <2>4. k.tok = <<b, 6>> /\ k.cur = <<b, 7>> /\ m[b] = Cut2
        <3>1. Yields(mem[s], b, 6, {}, 6, 7, Cut2)
            BY <2>3, EntryCut, Zenon
        <3>2. QED
            BY <1>2, <2>2, <2>3, <3>1, Zenon DEF Yields
    <2>5. k.tok # NULL
        BY <2>4 DEF NULL
    <2>6. Len(Cut2) = 6 /\ Cut2[6] = "1" /\ ByteAt(Cut2, 6) = "1" /\ ByteAt(Cut2, 6 + 1) = NUL
        <3>1. PICK x, y, z, w : /\ x = "." /\ y = "foo" /\ z = "txt" /\ w = "1"
                                /\ Cut2 = <<x, y, NUL, z, NUL, w>>
            BY Zenon DEF Cut2
        <3>2. PICK q : q = Cut2 /\ q = <<x, y, NUL, z, NUL, w>>
            BY <3>1, Zenon
        <3>3. Len(q) = 6 /\ q[6] = w /\ 6 \in DOMAIN q /\ 6 + 1 \notin DOMAIN q
            BY <3>2
        <3>4. QED
            BY <3>1, <3>2, <3>3, Zenon DEF ByteAt
    <2>7. StringAt(m, <<b, 6>>) = <<"1">>
        <3>1. m \in [Buffers -> Seq(Bytes)]
            BY <1>1, <1>2, <2>2, CursorFacts, SeparatorFacts, Zenon
        <3>2. 6 \in Nat \ {0} /\ "1" # NUL
            <4>1. 6 \in Nat \ {0}
                OBVIOUS
            <4>2. QED
                BY <4>1, TextFacts, Zenon
        <3>3. ByteThere(m, b, 6, "1")
            BY <2>3, <3>1, <3>2, StringOfOne, Zenon
        <3>4. QED
            BY <2>4, <2>6, <3>2, <3>3, Zenon DEF ByteThere
    <2>8. Behind(s)'
        <3>1. PICK p, i : p = cur'[s] /\ p = <<b, i>> /\ i = 7
            BY <1>5, <2>4, Zenon
        <3>2. p[1] = b /\ p[2] > 1 /\ p[2] > 6
            BY <3>1
        <3>3. mem'[s][b] = Cut2
            BY <1>5, <2>2, <2>4, Zenon
        <3>4. QED
            BY <2>6, <3>1, <3>2, <3>3, Zenon DEF Behind
    <2>9. QED
        BY <1>2, <2>1, <2>2, <2>4, <2>5, <2>7, <2>8, Zenon
<1>8. /\ th'[s][t].pc \in {"loop", "cut3"}
      /\ \/ up' = up /\ th'[s][t].pc = "loop"
         \/ up'[s] = "down" /\ th'[s][t] = th[s][t] /\ (k.tok = NULL \/ Gone(t))
    BY <1>2, Zenon
<1>9. Mail(s, t)' /\ Answered(s, t)' /\ Counted(s, t)'
    <2>1. Mail(s, t)'
        BY <1>1, <1>2, <1>8, Zenon DEF ThreadInv, Mail
    <2>2. Answered(s, t)'
        BY <1>1, <1>2, <1>8, Zenon DEF ThreadInv, Answered, Admitted
    <2>3. Counted(s, t)'
        BY <1>5, <1>8, Zenon DEF Counted
    <2>4. QED
        BY <2>1, <2>2, <2>3, Zenon
<1>10. ASSUME t \notin mixed[s]
       PROVE  Right(s, t)' /\ (up'[s] = "on" => Own(s, t)')
    <2>1. Right(s, t)'
        BY <1>2, <1>7, <1>8, <1>10, Zenon DEF Right, Admitted
    <2>2. up'[s] = "on" => Own(s, t)'
        BY <1>7, <1>8, <1>10, Zenon DEF Own
    <2>3. QED
        BY <2>1, <2>2, Zenon
<1>11. ThreadInv(s, t)'
    BY <1>3, <1>9, <1>10, Zenon DEF ThreadInv
<1>12. up'[s] = "on" => Moves(s, t)
    BY <1>2, <1>8, Zenon DEF Moves, Fresh, Greeted, LetIn, Denied, Told
<1>13. up'[s] = "down" => Cause(s)'
    <2>1. CASE t \in mixed[s]
        <3>1. mixed'[s] # {}
            BY <1>3, <2>1
        <3>2. QED
            BY <3>1, Zenon DEF Cause
    <2>2. CASE t \notin mixed[s]
        <3>1. up'[s] = "down" => th'[s][t].pc = "cut3" /\ cl'[t].pc = "dead"
            BY <1>2, <1>3, <1>4, <1>7, <1>8, <2>2, Zenon
        <3>2. QED
            BY <3>1, Zenon DEF Cause
    <2>3. QED
        BY <2>1, <2>2, Zenon
<1>14. QED
    BY <1>2, <1>4, <1>6, <1>11, <1>12, <1>13, Zenon DEF Keeps

\* A server that ends and has a cause for it leaves the rest as it is.
LEMMA StopKeeps ==
    ASSUME LoginInv, NEW s \in Servers, Stops(s), Cause(s)
    PROVE  LoginInv'
<1>1. TypeOK
    BY Zenon DEF LoginInv
<1>2. /\ TypeOK' /\ up[s] = "on" /\ up'[s] = "down"
      /\ \A z \in Servers \ {s} : up'[z] = up[z]
      /\ UNCHANGED <<fds, th, mem, cur, inbox, answer, mixed, number, cl>>
    BY Zenon DEF Stops
<1>3. \A z \in Servers : up'[z] = "on" => up[z] = "on"
    BY <1>2, Zenon
<1>4. ASSUME NEW z \in Servers, NEW r \in Clients
      PROVE  ThreadInv(z, r)'
    <2>1. ThreadInv(z, r)
        BY Zenon DEF LoginInv
    <2>2. Mail(z, r)' /\ Counted(z, r)'
        BY <1>2, <2>1, Zenon DEF ThreadInv, Mail, Counted
    <2>3. Answered(z, r)'
        BY <1>2, <2>1, Zenon DEF ThreadInv, Answered
    <2>4. Right(z, r) => Right(z, r)'
        BY <1>2, Zenon DEF Right
    <2>5. Own(z, r) => Own(z, r)'
        BY <1>2, Zenon DEF Own, Checking, Behind
    <2>6. QED
        BY <1>2, <1>3, <2>1, <2>2, <2>3, <2>4, <2>5, Zenon DEF ThreadInv
<1>5. ASSUME NEW c \in Clients
      PROVE  ClientInv(c)'
    <2>1. ClientInv(c) /\ \A z \in cl[c].socks : z \in Servers
        <3>1. cl[c].socks \subseteq Servers
            BY <1>1, ClientFacts, Zenon
        <3>2. QED
            BY <3>1 DEF LoginInv
    <2>2. ASSUME NEW z \in Servers
          PROVE  /\ Fresh(z, c) => Fresh(z, c)'
                 /\ Greeted(z, c) => Greeted(z, c)'
                 /\ LetIn(z, c) => LetIn(z, c)'
                 /\ Denied(z, c) => Denied(z, c)'
                 /\ Told(z, c) => Told(z, c)'
        BY <1>2, Zenon DEF Fresh, Greeted, LetIn, Denied, Told
    <2>3. \A z \in Servers : Phase(z, c) => Phase(z, c)'
        BY <1>2, <2>2, Zenon DEF Phase
    <2>4. QED
        BY <1>2, <1>3, <2>1, <2>2, <2>3, Zenon DEF ClientInv
<1>6. ASSUME NEW z \in Servers, up'[z] = "down"
      PROVE  Cause(z)'
    <2>1. Cause(z)
        BY <1>2, <1>6, Zenon DEF LoginInv
    <2>2. Used(z)' = Used(z)
        BY <1>2, UsedSame, Zenon
    <2>3. QED
        BY <1>2, <2>1, <2>2, Zenon DEF Cause
<1>7. QED
    BY <1>2, <1>4, <1>5, <1>6, Zenon DEF LoginInv

\* So it is when it has refused a client ...
LEMMA RefuseKeeps ==
    ASSUME LoginInv, NEW s \in Servers, NEW t \in Clients, Refuse(s, t)
    PROVE  LoginInv'
<1>1. TypeOK /\ ThreadInv(s, t)
    BY Zenon DEF LoginInv
<1>2. Stops(s) /\ th[s][t].pc = "no"
    BY <1>1, RefuseFacts, Zenon
<1>3. t \notin mixed[s] => ~HasAccount(t) \/ th[s][t].n = 0
    BY <1>1, <1>2, Zenon DEF ThreadInv, Right
<1>4. t \in mixed[s] => mixed[s] # {}
    OBVIOUS
<1>5. Cause(s)
    BY <1>2, <1>3, <1>4, Zenon DEF Cause
<1>6. QED
    BY <1>2, <1>5, StopKeeps, Zenon

\* ... and when it has no descriptor left.
LEMMA FullKeeps ==
    ASSUME LoginInv, NEW s \in Servers,
           AcceptFails(s) \/ \E t \in Clients : GetFails(s, t)
    PROVE  LoginInv'
<1>1. TypeOK
    BY Zenon DEF LoginInv
<1>2. Stops(s) /\ Used(s) + 2 > MaxFds[s]
    BY <1>1, AcceptFailsFacts, GetFailsFacts, Zenon
<1>3. Cause(s)
    BY <1>2, Zenon DEF Cause
<1>4. QED
    BY <1>2, <1>3, StopKeeps, Zenon

-----------------------------------------------------------------------------
(* The steps of a client.                                                  *)

\* All that a step of client c has to do for the invariant.
ClientKeeps(c) ==
    /\ TypeOK' /\ Alone(c)
    /\ cl[c].pc # "dead"
    /\ \A s \in Servers : Mail(s, c)'
    /\ ClientInv(c)'

\* Such a step preserves the invariant.
LEMMA ClientStepKeeps ==
    ASSUME LoginInv, NEW c \in Clients, ClientKeeps(c)
    PROVE  LoginInv'
<1>1. /\ UNCHANGED <<up, fds, th, mem, cur, answer, mixed, number>>
      /\ \A d \in Clients \ {c} : /\ cl'[d] = cl[d]
                                  /\ \A s \in Servers : inbox'[s][d] = inbox[s][d]
      /\ TypeOK /\ cl[c].pc # "dead"
    BY Zenon DEF LoginInv, ClientKeeps, Alone
<1>2. ASSUME NEW s \in Servers, NEW d \in Clients
      PROVE  ThreadInv(s, d)'
    <2>1. ThreadInv(s, d)
        BY Zenon DEF LoginInv
    <2>2. Mail(s, d)'
        <3>1. CASE d = c
            BY <3>1, Zenon DEF ClientKeeps
        <3>2. CASE d # c
            BY <1>1, <2>1, <3>2, Zenon DEF ThreadInv, Mail
        <3>3. QED
            BY <3>1, <3>2, Zenon
    <2>3. Answered(s, d)' /\ Counted(s, d)'
        BY <1>1, <2>1, Zenon DEF ThreadInv, Answered, Counted
    <2>4. Right(s, d) => Right(s, d)'
        BY <1>1, Zenon DEF Right
    <2>5. Own(s, d) => Own(s, d)'
        BY <1>1, Zenon DEF Own, Checking, Behind
    <2>6. QED
        BY <1>1, <2>1, <2>2, <2>3, <2>4, <2>5, Zenon DEF ThreadInv
<1>3. ASSUME NEW d \in Clients
      PROVE  ClientInv(d)'
    <2>1. CASE d = c
        BY <2>1, Zenon DEF ClientKeeps
    <2>2. CASE d # c
        <3>1. ClientInv(d) /\ \A z \in cl[d].socks : z \in Servers
            <4>1. cl[d].socks \subseteq Servers
                BY <1>1, ClientFacts, Zenon
            <4>2. QED
                BY <4>1 DEF LoginInv
        <3>2. cl'[d] = cl[d] /\ \A s \in Servers : inbox'[s][d] = inbox[s][d]
            BY <1>1, <2>2, Zenon
        <3>3. ASSUME NEW z \in Servers
              PROVE  /\ Fresh(z, d) => Fresh(z, d)'
                     /\ Greeted(z, d) => Greeted(z, d)'
                     /\ LetIn(z, d) => LetIn(z, d)'
                     /\ Denied(z, d) => Denied(z, d)'
                     /\ Told(z, d) => Told(z, d)'
            BY <1>1, <3>2, Zenon DEF Fresh, Greeted, LetIn, Denied, Told
        <3>4. \A z \in Servers : Phase(z, d) => Phase(z, d)'
            BY <3>2, <3>3, Zenon DEF Phase
        <3>5. QED
            BY <1>1, <3>1, <3>2, <3>3, <3>4, Zenon DEF ClientInv
    <2>3. QED
        BY <2>1, <2>2, Zenon
<1>4. ASSUME NEW s \in Servers, up'[s] = "down"
      PROVE  Cause(s)'
    <2>1. Cause(s)
        BY <1>1, <1>4, Zenon DEF LoginInv
    <2>2. Used(s)' = Used(s)
        BY <1>1, UsedSame, Zenon
    <2>3. QED
        BY <1>1, <2>1, <2>2, Zenon DEF Cause
<1>5. QED
    BY <1>2, <1>3, <1>4, Zenon DEF LoginInv, ClientKeeps

\* What the invariant says of client c.
LEMMA ClientKnows ==
    ASSUME LoginInv, NEW c \in Clients
    PROVE  /\ TypeOK /\ ClientInv(c)
           /\ cl[c].todo \subseteq cl[c].socks /\ cl[c].socks \subseteq Servers
           /\ \A s \in Servers : Mail(s, c) /\ Answered(s, c)
           /\ \A s \in Servers : s \in cl[c].socks /\ up[s] = "on" => Phase(s, c)
<1>1. TypeOK /\ ClientInv(c) /\ \A s \in Servers : Mail(s, c) /\ Answered(s, c)
    BY Zenon DEF LoginInv, ThreadInv
<1>2. cl[c].todo \subseteq cl[c].socks /\ cl[c].socks \subseteq Servers
    BY <1>1, ClientFacts, Zenon
<1>3. QED
    BY <1>1, <1>2, Zenon DEF ClientInv

\* The servers to which nothing was sent are as they were.
LEMMA Untouched ==
    ASSUME NEW c \in Clients, Alone(c), NEW s \in Servers, inbox'[s][c] = inbox[s][c]
    PROVE  /\ Mail(s, c) => Mail(s, c)'
           /\ Fresh(s, c) => Fresh(s, c)'
           /\ Greeted(s, c) => Greeted(s, c)'
           /\ LetIn(s, c) => LetIn(s, c)'
           /\ Denied(s, c) => Denied(s, c)'
           /\ Told(s, c) => Told(s, c)'
<1>1. th' = th /\ up' = up
    BY Zenon DEF Alone
<1>2. Mail(s, c) => Mail(s, c)'
    BY <1>1, Zenon DEF Mail
<1>3. QED
    BY <1>1, <1>2, Zenon DEF Fresh, Greeted, LetIn, Denied, Told

\* Nothing was sent on a new connection.
LEMMA ConnectKeeps ==
    ASSUME LoginInv, NEW c \in Clients, Connect(c)
    PROVE  ClientKeeps(c)
<1>1. /\ TypeOK /\ ClientInv(c)
      /\ \A s \in Servers : Mail(s, c)
    BY ClientKnows, Zenon
<1>2. /\ TypeOK' /\ Alone(c) /\ inbox' = inbox
      /\ cl[c].pc = "start"
      /\ \E S \in SUBSET Servers :
            /\ cl'[c].pc = IF S = {} THEN "out" ELSE "greet"
            /\ cl'[c].socks = S /\ cl'[c].todo = S
    BY <1>1, ConnectFacts, Zenon
<1>3. PICK S \in SUBSET Servers : /\ cl'[c].pc = IF S = {} THEN "out" ELSE "greet"
                                  /\ cl'[c].socks = S /\ cl'[c].todo = S
    BY <1>2, Zenon
<1>4. ASSUME NEW s \in Servers
      PROVE  Mail(s, c)' /\ Fresh(s, c)' /\ th'[s][c].pc = "none"
    <2>1. s \notin cl[c].socks
        BY <1>1, <1>2, Zenon DEF ClientInv
    <2>2. Fresh(s, c) /\ th[s][c].pc = "none" /\ Mail(s, c)
        BY <1>1, <2>1, Zenon DEF ClientInv
    <2>3. inbox'[s][c] = inbox[s][c] /\ th' = th
        BY <1>2, Zenon DEF Alone
    <2>4. QED
        BY <1>2, <2>2, <2>3, Untouched, Zenon
<1>5. ASSUME NEW s \in S
      PROVE  Phase(s, c)'
    <2>1. s \in Servers /\ S # {}
        OBVIOUS
    <2>2. cl'[c].pc = "greet" /\ s \in cl'[c].todo /\ Fresh(s, c)'
        BY <1>3, <1>4, <2>1, Zenon
    <2>3. QED
        BY <2>2, Zenon DEF Phase
<1>6. ClientInv(c)'
    <2>1. CASE S = {}
        BY <1>3, <1>4, <2>1, Zenon DEF ClientInv
    <2>2. CASE S # {}
        BY <1>3, <1>4, <1>5, <2>2, Zenon DEF ClientInv
    <2>3. QED
        BY <2>1, <2>2, Zenon
<1>7. cl[c].pc # "dead"
    BY <1>2, Zenon
<1>8. QED
    BY <1>2, <1>4, <1>6, <1>7, Zenon DEF ClientKeeps

\* A client that has ended has no more to do with any server.
LEMMA DeadKeeps ==
    ASSUME LoginInv, NEW c \in Clients, Alone(c), Goes(c, "dead", cl[c].todo),
           \A s \in Servers : s \notin cl[c].socks => inbox'[s][c] = inbox[s][c]
    PROVE  ClientInv(c)'
<1>1. cl'[c].pc = "dead" /\ cl'[c].socks = cl[c].socks /\ th' = th /\ ClientInv(c)
    BY ClientKnows, Zenon DEF Goes, Alone
<1>2. \A s \in Servers : s \notin cl'[c].socks => Fresh(s, c)' /\ th'[s][c].pc = "none"
    BY <1>1, Untouched, Zenon DEF ClientInv
<1>3. \A s : Phase(s, c)'
    BY <1>1, Zenon DEF Phase
<1>4. QED
    BY <1>1, <1>2, <1>3, Zenon DEF ClientInv

\* A client that is killed leaves what it sent.
LEMMA KillKeeps ==
    ASSUME LoginInv, NEW c \in Clients, Kill(c)
    PROVE  ClientKeeps(c)
<1>1. TypeOK /\ \A s \in Servers : Mail(s, c)
    BY ClientKnows, Zenon
<1>2. /\ TypeOK' /\ Alone(c) /\ inbox' = inbox
      /\ cl[c].pc \notin {"start", "out", "dead"} /\ Goes(c, "dead", cl[c].todo)
    BY <1>1, KillFacts, Zenon
<1>3. ClientInv(c)'
    BY <1>2, DeadKeeps, Zenon
<1>4. \A s \in Servers : Mail(s, c)'
    BY <1>1, <1>2, Untouched, Zenon
<1>5. cl[c].pc # "dead"
    BY <1>2, Zenon
<1>6. QED
    BY <1>2, <1>3, <1>4, <1>5, Zenon DEF ClientKeeps

\* The server that comes next is sent the credentials, the first message it gets.
LEMMA GreetKeeps ==
    ASSUME LoginInv, NEW c \in Clients, Greet(c)
    PROVE  ClientKeeps(c)
<1>0. PICK s : s = Min(cl[c].todo)
    OBVIOUS
<1>1. /\ TypeOK /\ ClientInv(c)
      /\ cl[c].todo \subseteq cl[c].socks /\ cl[c].socks \subseteq Servers
      /\ \A z \in Servers : Mail(z, c)
      /\ \A z \in Servers : z \in cl[c].socks /\ up[z] = "on" => Phase(z, c)
    BY ClientKnows, Zenon
<1>2. cl[c].todo # {}
    <2>1. cl[c].pc = "greet"
        BY Zenon DEF Greet
    <2>2. QED
        BY <1>1, <2>1, Zenon DEF ClientInv
<1>3. s \in cl[c].todo /\ s \in Servers /\ s \in cl[c].socks
    <2>1. s \in cl[c].todo
        BY <1>0, <1>1, <1>2, LeastServer, Zenon
    <2>2. QED
        BY <1>1, <2>1
<1>4. /\ TypeOK' /\ Alone(c) /\ cl[c].pc = "greet"
      /\ \A z \in Servers : inbox'[z][c] =
            IF z = s /\ up[z] = "on" THEN Append(inbox[z][c], Creds(c)) ELSE inbox[z][c]
      /\ \/ Goes(c, "wait", cl[c].todo) /\ cl'[c].cred = cl[c].cred
         \/ Goes(c, "dead", cl[c].todo)
    BY <1>0, <1>1, <1>2, GreetFacts, Zenon
<1>5. th' = th /\ up' = up
    BY <1>4, Zenon DEF Alone
<1>6. \A z \in Servers : z # s \/ up[z] # "on" => inbox'[z][c] = inbox[z][c]
    BY <1>4, Zenon
<1>7. ASSUME up[s] = "on"
      PROVE  Mail(s, c)' /\ Greeted(s, c)'
    <2>1. Fresh(s, c)
        BY <1>1, <1>3, <1>4, <1>7, Zenon DEF Phase
    <2>2. inbox'[s][c] = <<Creds(c)>>
        <3>1. inbox'[s][c] = Append(<<>>, Creds(c))
            BY <1>3, <1>4, <1>7, <2>1, Zenon DEF Fresh
        <3>2. \A x : Append(<<>>, x) = <<x>>
            OBVIOUS
        <3>3. QED
            BY <3>1, <3>2, Zenon
    <2>3. QED
        BY <1>5, <2>1, <2>2, Zenon DEF Mail, Fresh, Greeted
<1>8. \A z \in Servers : Mail(z, c)'
    <2>1. \A z \in Servers : z # s \/ up[z] # "on" => Mail(z, c)'
        BY <1>1, <1>4, <1>6, Untouched, Zenon
    <2>2. QED
        BY <1>7, <2>1, Zenon
<1>9. CASE Goes(c, "wait", cl[c].todo) /\ cl'[c].cred = cl[c].cred
    <2>1. /\ cl'[c].pc = "wait" /\ cl'[c].todo = cl[c].todo /\ cl'[c].socks = cl[c].socks
          /\ cl'[c].cred = cl[c].cred /\ Min(cl'[c].todo) = s
        BY <1>0, <1>9, Zenon DEF Goes
    <2>2. ASSUME NEW z \in Servers, z \in cl'[c].socks, up'[z] = "on"
          PROVE  Phase(z, c)'
        <3>1. Phase(z, c) /\ up[z] = "on"
            BY <1>1, <1>5, <2>1, <2>2, Zenon
        <3>2. CASE z = s
            <4>1. Greeted(z, c)' /\ z \in cl'[c].todo
                BY <1>3, <1>7, <2>1, <3>1, <3>2, Zenon
            <4>2. QED
                BY <2>1, <3>2, <4>1, Zenon DEF Phase
        <3>3. CASE z # s
            <4>1. /\ Fresh(z, c) => Fresh(z, c)'
                  /\ LetIn(z, c) => LetIn(z, c)'
                  /\ Denied(z, c) => Denied(z, c)'
                BY <1>4, <1>6, <3>3, Untouched, Zenon
            <4>2. QED
                BY <1>4, <2>1, <3>1, <3>3, <4>1, Zenon DEF Phase
        <3>4. QED
            BY <3>2, <3>3, Zenon
    <2>3. ASSUME NEW z \in Servers, z \notin cl'[c].socks
          PROVE  Fresh(z, c)' /\ th'[z][c].pc = "none"
        <3>1. Fresh(z, c) /\ th[z][c].pc = "none" /\ z # s
            BY <1>1, <1>3, <2>1, <2>3, Zenon DEF ClientInv
        <3>2. QED
            BY <1>4, <1>5, <1>6, <3>1, Untouched, Zenon
    <2>4. \A z \in cl'[c].socks : z \in Servers
        BY <1>1, <2>1
    <2>5. ClientInv(c)'
        BY <1>2, <2>1, <2>2, <2>3, <2>4, Zenon DEF ClientInv
    <2>6. QED
        BY <1>4, <1>8, <2>5, Zenon DEF ClientKeeps
<1>10. CASE Goes(c, "dead", cl[c].todo)
    <2>1. \A z \in Servers : z \notin cl[c].socks => inbox'[z][c] = inbox[z][c]
        BY <1>3, <1>6, Zenon
    <2>2. ClientInv(c)'
        BY <1>4, <1>10, <2>1, DeadKeeps, Zenon
    <2>3. QED
        BY <1>4, <1>8, <2>2, Zenon DEF ClientKeeps
<1>11. QED
    BY <1>4, <1>9, <1>10, Zenon

\* A server that is up has let the client in, or it has refused it and is about to end.
LEMMA WaitKeeps ==
    ASSUME LoginInv, NEW c \in Clients, Wait(c)
    PROVE  ClientKeeps(c)
<1> DEFINE s    == Min(cl[c].todo)
           left == cl[c].todo \ {s}
<1>1. /\ TypeOK /\ ClientInv(c)
      /\ cl[c].todo \subseteq cl[c].socks /\ cl[c].socks \subseteq Servers
      /\ \A z \in Servers : Mail(z, c) /\ Answered(z, c)
      /\ \A z \in Servers : z \in cl[c].socks /\ up[z] = "on" => Phase(z, c)
    BY ClientKnows, Zenon
<1>2. cl[c].todo # {}
    <2>1. cl[c].pc = "wait"
        BY Zenon DEF Wait
    <2>2. QED
        BY <1>1, <2>1, Zenon DEF ClientInv
<1>3. s \in cl[c].todo /\ s \in Servers /\ s \in cl[c].socks
    <2>1. s \in cl[c].todo
        BY <1>1, <1>2, LeastServer, Zenon
    <2>2. QED
        BY <1>1, <2>1
<1>4. /\ TypeOK' /\ Alone(c) /\ cl[c].pc = "wait" /\ inbox' = inbox
      /\ Advances(c, IF cl'[c].cred THEN "names" ELSE "out", "greet")
      /\ cl[c].cred => cl'[c].cred
      /\ up[s] = "on" => /\ answer[s][c] # ""
                         /\ answer[s][c] = "1" => cl'[c].cred
    BY <1>1, WaitFacts, Zenon
<1>5. \A z : z \in left <=> z \in cl[c].todo /\ z # s
    OBVIOUS
<1>6. /\ \/ left = {} /\ Goes(c, IF cl'[c].cred THEN "names" ELSE "out", cl[c].socks)
         \/ left # {} /\ Goes(c, "greet", left)
    BY <1>4, Zenon DEF Advances
<1> HIDE DEF s, left
<1>7. th' = th /\ up' = up
    BY <1>4, Zenon DEF Alone
\* So has the server that was asked.
<1>8. ASSUME up[s] = "on"
      PROVE  (LetIn(s, c) /\ cl'[c].cred) \/ Denied(s, c)
    <2>1. Greeted(s, c)
        BY <1>1, <1>3, <1>4, <1>8, Zenon DEF Phase, s
    <2>2. answer[s][c] \in {"", "1", "-1"}
        <3>1. answer \in [Servers -> [Clients -> {"", "1", "-1"}]]
            BY <1>1, Zenon DEF TypeOK
        <3>2. QED
            BY <1>3, <3>1, Zenon
    <2>3. answer[s][c] \in {"1", "-1"}
        BY <1>4, <1>8, <2>2, Zenon
    <2>4. \/ th[s][c].pc \in Admitted /\ cl'[c].cred
          \/ th[s][c].pc = "no"
        BY <1>1, <1>3, <1>4, <1>8, <2>3, Zenon DEF Answered
    <2>5. QED
        BY <2>1, <2>4, Zenon DEF Greeted, LetIn, Denied, Admitted
<1>9. ASSUME NEW z \in Servers, z \in cl[c].socks, up[z] = "on"
      PROVE  /\ z \in left => Fresh(z, c)'
             /\ z \notin left => (LetIn(z, c)' /\ cl'[c].cred) \/ Denied(z, c)'
    <2>1. Phase(z, c)
        BY <1>1, <1>9, Zenon
    <2>2. Fresh(z, c) => Fresh(z, c)'
        BY <1>4, Untouched, Zenon
    <2>3. (LetIn(z, c) => LetIn(z, c)') /\ (Denied(z, c) => Denied(z, c)')
        BY <1>4, Untouched, Zenon
    <2>4. z \in left => Fresh(z, c)
        BY <1>4, <1>5, <2>1, Zenon DEF Phase, s
    <2>5. z \notin left => (LetIn(z, c) /\ cl'[c].cred) \/ Denied(z, c)
        <3>1. CASE z = s
            BY <1>8, <1>9, <3>1, Zenon
        <3>2. CASE z # s
            <4>1. z \notin left => z \notin cl[c].todo
                BY <1>5, <3>2, Zenon
            <4>2. QED
                BY <1>4, <2>1, <4>1, Zenon DEF Phase
        <3>3. QED
            BY <3>1, <3>2, Zenon
    <2>6. QED
        BY <2>2, <2>3, <2>4, <2>5, Zenon
<1>10. /\ cl'[c].socks = cl[c].socks
       /\ \/ left = {} /\ cl'[c].cred /\ cl'[c].pc = "names" /\ cl'[c].todo = cl[c].socks
          \/ left = {} /\ ~cl'[c].cred /\ cl'[c].pc = "out"
          \/ left # {} /\ cl'[c].pc = "greet" /\ cl'[c].todo = left
    <2>1. CASE left = {}
        BY <1>6, <2>1, Zenon DEF Goes
    <2>2. CASE left # {}
        BY <1>6, <2>2, Zenon DEF Goes
    <2>3. QED
        BY <2>1, <2>2, Zenon
<1>11. ASSUME NEW z \in Servers, z \in cl'[c].socks, up'[z] = "on"
       PROVE  Phase(z, c)'
    <2>1. /\ z \in left => Fresh(z, c)'
          /\ z \notin left => (LetIn(z, c)' /\ cl'[c].cred) \/ Denied(z, c)'
          /\ z \in cl[c].socks
        <3>1. z \in cl[c].socks /\ up[z] = "on"
            BY <1>7, <1>10, <1>11, Zenon
        <3>2. QED
            BY <1>9, <3>1, Zenon
    <2>2. CASE left = {} /\ cl'[c].cred
        <3>1. LetIn(z, c)' \/ Denied(z, c)'
            BY <2>1, <2>2, Zenon
        <3>2. cl'[c].pc = "names" /\ z \in cl'[c].todo
            BY <1>10, <2>1, <2>2, Zenon
        <3>3. QED
            BY <3>1, <3>2, Zenon DEF Phase
    <2>3. CASE left = {} /\ ~cl'[c].cred
        <3>1. cl'[c].pc = "out" /\ Denied(z, c)'
            BY <1>10, <2>1, <2>3, Zenon
        <3>2. QED
            BY <3>1, Zenon DEF Phase
    <2>4. CASE left # {}
        <3>1. cl'[c].pc = "greet" /\ cl'[c].todo = left
            BY <1>10, <2>4, Zenon
        <3>2. QED
            BY <2>1, <3>1, Zenon DEF Phase
    <2>5. QED
        BY <2>2, <2>3, <2>4, Zenon
<1>12. ASSUME NEW z \in Servers, z \notin cl'[c].socks
       PROVE  Fresh(z, c)' /\ th'[z][c].pc = "none"
    <2>1. Fresh(z, c) /\ th[z][c].pc = "none"
        BY <1>1, <1>10, <1>12, Zenon DEF ClientInv
    <2>2. QED
        BY <1>4, <1>7, <2>1, Untouched, Zenon
<1>13. ClientInv(c)'
    <2>1. \A z \in cl'[c].socks : z \in Servers
        BY <1>1, <1>10
    <2>2. cl'[c].pc \in {"greet", "wait", "names"} => cl'[c].todo # {}
        BY <1>3, <1>10, Zenon
    <2>3. cl'[c].pc # "start"
        BY <1>10, Zenon
    <2>4. QED
        BY <1>11, <1>12, <2>1, <2>2, <2>3, Zenon DEF ClientInv
<1>14. \A z \in Servers : Mail(z, c)'
    BY <1>1, <1>4, Untouched, Zenon
<1>15. QED
    BY <1>4, <1>13, <1>14, Zenon DEF ClientKeeps

\* The server that comes next is sent the name, after it has let the client in or
\* refused it.
LEMMA SendNameKeeps ==
    ASSUME LoginInv, NEW c \in Clients, SendName(c)
    PROVE  ClientKeeps(c)
<1>0. PICK s : s = Min(cl[c].todo)
    OBVIOUS
<1> DEFINE left == cl[c].todo \ {s}
<1>1. /\ TypeOK /\ ClientInv(c)
      /\ cl[c].todo \subseteq cl[c].socks /\ cl[c].socks \subseteq Servers
      /\ \A z \in Servers : Mail(z, c)
      /\ \A z \in Servers : z \in cl[c].socks /\ up[z] = "on" => Phase(z, c)
    BY ClientKnows, Zenon
<1>2. cl[c].todo # {}
    <2>1. cl[c].pc = "names"
        BY Zenon DEF SendName
    <2>2. QED
        BY <1>1, <2>1, Zenon DEF ClientInv
<1>3. s \in cl[c].todo /\ s \in Servers /\ s \in cl[c].socks
    <2>1. s \in cl[c].todo
        BY <1>0, <1>1, <1>2, LeastServer, Zenon
    <2>2. QED
        BY <1>1, <2>1
<1>4. /\ TypeOK' /\ Alone(c) /\ cl[c].pc = "names"
      /\ \A z \in Servers : inbox'[z][c] =
            IF z = s /\ up[z] = "on" THEN Append(inbox[z][c], <<User[c]>>)
                                     ELSE inbox[z][c]
      /\ \/ Advances(c, "menu", "names")
         \/ Goes(c, "dead", cl[c].todo)
    BY <1>0, <1>1, <1>2, SendNameFacts, Zenon
<1>5. \A z : z \in left <=> z \in cl[c].todo /\ z # s
    OBVIOUS
<1>6. Advances(c, "menu", "names") => \/ left = {} /\ Goes(c, "menu", cl[c].socks)
                                      \/ left # {} /\ Goes(c, "names", left)
    BY <1>0, Zenon DEF Advances
<1> HIDE DEF left
<1>7. th' = th /\ up' = up
    BY <1>4, Zenon DEF Alone
<1>8. \A z \in Servers : z # s \/ up[z] # "on" => inbox'[z][c] = inbox[z][c]
    BY <1>4, Zenon
<1>9. ASSUME up[s] = "on"
      PROVE  Mail(s, c)' /\ Told(s, c)'
    <2>1. LetIn(s, c) \/ Denied(s, c)
        BY <1>1, <1>3, <1>4, <1>9, Zenon DEF Phase
    <2>2. inbox'[s][c] = <<<<User[c]>>>>
        <3>1. inbox'[s][c] = Append(<<>>, <<User[c]>>)
            BY <1>3, <1>4, <1>9, <2>1, Zenon DEF LetIn, Denied
        <3>2. \A x : Append(<<>>, x) = <<x>>
            OBVIOUS
        <3>3. QED
            BY <3>1, <3>2, Zenon
    <2>3. QED
        BY <1>7, <2>1, <2>2, Zenon DEF Mail, LetIn, Denied, Told
<1>10. \A z \in Servers : Mail(z, c)'
    <2>1. \A z \in Servers : z # s \/ up[z] # "on" => Mail(z, c)'
        BY <1>1, <1>4, <1>8, Untouched, Zenon
    <2>2. QED
        BY <1>9, <2>1, Zenon
<1>11. CASE Advances(c, "menu", "names")
    <2>1. /\ cl'[c].socks = cl[c].socks
          /\ \/ left = {} /\ cl'[c].pc = "menu"
             \/ left # {} /\ cl'[c].pc = "names" /\ cl'[c].todo = left
        <3>1. CASE left = {}
            BY <1>6, <1>11, <3>1, Zenon DEF Goes
        <3>2. CASE left # {}
            BY <1>6, <1>11, <3>2, Zenon DEF Goes
        <3>3. QED
            BY <3>1, <3>2, Zenon
    <2>2. ASSUME NEW z \in Servers, z \in cl'[c].socks, up'[z] = "on"
          PROVE  Phase(z, c)'
        <3>1. Phase(z, c) /\ up[z] = "on"
            BY <1>1, <1>7, <2>1, <2>2, Zenon
        <3>2. z \in left => LetIn(z, c)' \/ Denied(z, c)'
            <4>1. z \in left => (LetIn(z, c) \/ Denied(z, c)) /\ z # s
                BY <1>4, <1>5, <3>1, Zenon DEF Phase
            <4>2. QED
                BY <1>4, <1>8, <4>1, Untouched, Zenon
        <3>3. z \notin left => Told(z, c)'
            <4>1. CASE z = s
                BY <1>9, <3>1, <4>1, Zenon
            <4>2. CASE z # s
                <5>1. z \notin left => Told(z, c)
                    BY <1>4, <1>5, <3>1, <4>2, Zenon DEF Phase
                <5>2. QED
                    BY <1>4, <1>8, <4>2, <5>1, Untouched, Zenon
            <4>3. QED
                BY <4>1, <4>2, Zenon
        <3>4. CASE left = {}
            <4>1. cl'[c].pc = "menu" /\ Told(z, c)'
                BY <2>1, <3>3, <3>4, Zenon
            <4>2. QED
                BY <4>1, Zenon DEF Phase
        <3>5. CASE left # {}
            <4>1. cl'[c].pc = "names" /\ cl'[c].todo = left
                BY <2>1, <3>5, Zenon
            <4>2. QED
                BY <3>2, <3>3, <4>1, Zenon DEF Phase
        <3>6. QED
            BY <3>4, <3>5, Zenon
    <2>3. ASSUME NEW z \in Servers, z \notin cl'[c].socks
          PROVE  Fresh(z, c)' /\ th'[z][c].pc = "none"
        <3>1. Fresh(z, c) /\ th[z][c].pc = "none" /\ z # s
            BY <1>1, <1>3, <2>1, <2>3, Zenon DEF ClientInv
        <3>2. QED
            BY <1>4, <1>7, <1>8, <3>1, Untouched, Zenon
    <2>4. \A z \in cl'[c].socks : z \in Servers
        BY <1>1, <2>1
    <2>5. cl'[c].pc # "start"
        BY <2>1, Zenon
    <2>6. cl'[c].pc \in {"greet", "wait", "names"} => cl'[c].todo # {}
        BY <2>1, Zenon
    <2>7. ClientInv(c)'
        BY <2>2, <2>3, <2>4, <2>5, <2>6, Zenon DEF ClientInv
    <2>8. QED
        BY <1>4, <1>10, <2>7, Zenon DEF ClientKeeps
<1>12. CASE Goes(c, "dead", cl[c].todo)
    <2>1. \A z \in Servers : z \notin cl[c].socks => inbox'[z][c] = inbox[z][c]
        BY <1>3, <1>8, Zenon
    <2>2. ClientInv(c)'
        BY <1>4, <1>12, <2>1, DeadKeeps, Zenon
    <2>3. QED
        BY <1>4, <1>10, <2>2, Zenon DEF ClientKeeps
<1>13. QED
    BY <1>4, <1>11, <1>12, Zenon

-----------------------------------------------------------------------------
(* The invariant.                                                          *)

\* Initially every variable has its type.
LEMMA InitTypes == Init => TypeOK
<1> DEFINE W  == Seq(Bytes)
           MM == Seq(W)
<1> SUFFICES ASSUME Init
             PROVE  TypeOK
    OBVIOUS
<1>1. <<>> \in W
    <2>1. \A S : <<>> \in Seq(S)
        BY Tuples, Zenon
    <2>2. QED
        BY <2>1, Zenon
<1>2. <<>> \in MM
    <2>1. \A S : <<>> \in Seq(S)
        BY Tuples, Zenon
    <2>2. QED
        BY <2>1, Zenon
<1> HIDE DEF W, MM
<1>3. Empty \in Thread
    BY LenFact DEF Empty, Thread, Pointer
<1>4. AtHome \in Client /\ AtHome.todo \subseteq AtHome.socks
    BY DEF AtHome, Client
<1>5. up \in [Servers -> {"on", "off", "down"}]
    BY DEF Init
<1>6. fds \in [Servers -> Nat] /\ \A s \in Servers : fds[s] <= MaxFds[s]
    <2>1. PICK X : fds \in [Servers -> X] /\ \A s \in Servers : fds[s] \in Past[s]
        BY Zenon DEF Init
    <2>2. \A s \in Servers : fds[s] \in Nat /\ fds[s] <= MaxFds[s]
        BY <2>1, BoundsAssumption
    <2>3. QED
        BY <2>1, <2>2
<1>7. th \in [Servers -> [Clients -> Thread]]
    BY <1>3 DEF Init
<1>8. mem \in [Servers -> [Buffers -> W]]
    BY <1>1 DEF Init
<1>9. cur \in [Servers -> Pointer]
    <2>1. NULL \in Pointer
        BY Zenon DEF Pointer
    <2>2. QED
        BY <2>1 DEF Init
<1>10. inbox \in [Servers -> [Clients -> MM]]
    BY <1>2 DEF Init
<1>11. answer \in [Servers -> [Clients -> {"", "1", "-1"}]]
    BY Zenon DEF Init
<1>12. dirs \in [Servers -> SUBSET W]
    BY DEF Init
<1>13. cl \in [Clients -> Client] /\ \A c \in Clients : cl[c].todo \subseteq cl[c].socks
    <2>1. cl = [c \in Clients |-> AtHome]
        BY Zenon DEF Init
    <2>2. QED
        BY <1>4, <2>1, Zenon
<1>14. kills \in 0..MaxKills /\ gets \in 0..MaxGets
    <2>1. kills = 0 /\ gets = 0
        BY Zenon DEF Init
    <2>2. MaxKills \in Nat /\ MaxGets \in Nat
        BY BoundsAssumption, Zenon
    <2>3. QED
        BY <2>1, <2>2
<1>15. mixed \in [Servers -> SUBSET Clients]
    BY DEF Init
<1>16. number \in [Servers -> [Clients -> W]]
    BY <1>1 DEF Init
<1>17. QED
    BY <1>5, <1>6, <1>7, <1>8, <1>9, <1>10, <1>11, <1>12, <1>13, <1>14, <1>15, <1>16, Zenon
    DEF TypeOK, W, MM

\* At the start nothing was sent, and no thread has started.
LEMMA InitKeeps == Init => LoginInv
<1> SUFFICES ASSUME Init
             PROVE  LoginInv
    OBVIOUS
<1>1. ASSUME NEW s \in Servers, NEW t \in Clients
      PROVE  /\ th[s][t].pc = "none" /\ inbox[s][t] = <<>> /\ answer[s][t] = ""
             /\ number[s][t] = <<>> /\ cur[s] = NULL
    <2>1. th[s][t] = Empty /\ inbox[s][t] = <<>> /\ answer[s][t] = ""
          /\ number[s][t] = <<>> /\ cur[s] = NULL
        BY Zenon DEF Init
    <2>2. Empty.pc = "none"
        BY Zenon DEF Empty
    <2>3. QED
        BY <2>1, <2>2, Zenon
<1>2. ASSUME NEW c \in Clients
      PROVE  cl[c].pc = "start" /\ cl[c].socks = {}
    <2>1. cl[c] = AtHome
        BY Zenon DEF Init
    <2>2. AtHome.pc = "start" /\ AtHome.socks = {}
        BY Zenon DEF AtHome
    <2>3. QED
        BY <2>1, <2>2, Zenon
<1>3. ASSUME NEW s \in Servers
      PROVE  up[s] # "down"
    BY Zenon DEF Init
<1>4. ASSUME NEW s \in Servers, NEW t \in Clients
      PROVE  ThreadInv(s, t)
    <2>1. Mail(s, t) /\ Answered(s, t)
        <3>1. Mail(s, t)
            <4>1. /\ th[s][t].pc \notin {"pass", "line", "word", "no", "loop", "cut2", "cut3"}
                  /\ th[s][t].pc # "name"
                BY <1>1
            <4>2. inbox[s][t] \in {<<>>, <<Creds(t)>>}
                BY <1>1, Zenon
            <4>3. QED
                BY <4>1, <4>2, Zenon DEF Mail
        <3>2. answer[s][t] # "1" /\ answer[s][t] # "-1"
            BY <1>1
        <3>3. th[s][t].pc \notin Admitted /\ th[s][t].pc # "no"
            BY <1>1 DEF Admitted
        <3>4. QED
            BY <3>1, <3>2, <3>3, Zenon DEF Answered
    <2>2. Counted(s, t)
        BY <1>1, Zenon DEF Counted, Relies
    <2>3. Right(s, t) /\ Own(s, t)
        BY <1>1, Zenon DEF Right, Own, Admitted
    <2>4. QED
        BY <2>1, <2>2, <2>3, Zenon DEF ThreadInv
<1>5. ASSUME NEW c \in Clients
      PROVE  ClientInv(c)
    <2>1. \A s \in Servers : Fresh(s, c) /\ th[s][c].pc = "none"
        BY <1>1, Zenon DEF Fresh
    <2>2. QED
        BY <1>2, <2>1, Zenon DEF ClientInv
<1>6. QED
    BY <1>3, <1>4, <1>5, InitTypes, Zenon DEF LoginInv

\* A step that changes nothing.
LEMMA StutterKeeps ==
    ASSUME LoginInv, UNCHANGED vars
    PROVE  LoginInv'
<1>1. /\ up' = up /\ fds' = fds /\ th' = th /\ mem' = mem /\ cur' = cur /\ inbox' = inbox
      /\ answer' = answer /\ dirs' = dirs /\ cl' = cl /\ kills' = kills /\ gets' = gets
      /\ mixed' = mixed /\ number' = number
    BY Zenon DEF vars
<1>2. TypeOK'
    <2>1. TypeOK
        BY Zenon DEF LoginInv
    <2>2. QED
        BY <1>1, <2>1, Zenon DEF TypeOK
<1>3. ASSUME NEW s \in Servers, NEW t \in Clients
      PROVE  ThreadInv(s, t)'
    <2>1. ThreadInv(s, t)
        BY Zenon DEF LoginInv
    <2>2. Same(s)
        BY <1>1, Zenon DEF Same
    <2>3. QED
        BY <2>1, <2>2, SameKeeps, Zenon
<1>4. ASSUME NEW c \in Clients
      PROVE  ClientInv(c)'
    <2>1. ClientInv(c)
        BY Zenon DEF LoginInv
    <2>2. QED
        BY <1>1, <2>1, Zenon DEF ClientInv, Phase, Fresh, Greeted, LetIn, Denied, Told
<1>5. ASSUME NEW s \in Servers, up'[s] = "down"
      PROVE  Cause(s)'
    <2>1. Cause(s)
        BY <1>1, <1>5, Zenon DEF LoginInv
    <2>2. Used(s)' = Used(s)
        BY <1>1, UsedSame, Zenon
    <2>3. QED
        BY <1>1, <2>1, <2>2, Zenon DEF Cause
<1>6. QED
    BY <1>2, <1>3, <1>4, <1>5, Zenon DEF LoginInv

\* Every step preserves the invariant.
LEMMA NextKeeps == LoginInv /\ [Next]_vars => LoginInv'
<1> SUFFICES ASSUME LoginInv, [Next]_vars
             PROVE  LoginInv'
    OBVIOUS
<1>1. ASSUME NEW c \in Clients, Connect(c) \/ ClientStep(c) \/ Kill(c)
      PROVE  LoginInv'
    <2>1. Connect(c) \/ Greet(c) \/ Wait(c) \/ SendName(c) \/ Kill(c)
        BY <1>1, Zenon DEF ClientStep
    <2>2. ClientKeeps(c)
        BY <2>1, ConnectKeeps, GreetKeeps, WaitKeeps, SendNameKeeps, KillKeeps, Zenon
    <2>3. QED
        BY <2>2, ClientStepKeeps, Zenon
<1>2. ASSUME NEW s \in Servers, AcceptFails(s)
      PROVE  LoginInv'
    BY <1>2, FullKeeps, Zenon
<1>3. ASSUME NEW s \in Servers, NEW t \in Clients,
             ThreadStep(s, t) \/ GetCut(s, t) \/ GetFails(s, t)
      PROVE  LoginInv'
    <2>1. \/ Accept(s, t) \/ ReadCreds(s, t) \/ CutPass(s, t) \/ CutUser(s, t)
          \/ CutWord(s, t) \/ Deny(s, t) \/ ReadName(s, t)
          \/ GetCut(s, t) \/ GetCut2(s, t) \/ GetCut3(s, t)
          \/ Refuse(s, t) \/ GetFails(s, t)
        BY <1>3, Zenon DEF ThreadStep
    <2>2. CASE Refuse(s, t)
        BY <2>2, RefuseKeeps, Zenon
    <2>3. CASE GetFails(s, t)
        BY <2>3, FullKeeps, Zenon
    <2>4. Refuse(s, t) \/ GetFails(s, t) \/ Keeps(s, t)
        BY <2>1, AcceptKeeps, ReadCredsKeeps, CutPassKeeps, CutUserKeeps, CutWordKeeps,
           DenyKeeps, ReadNameKeeps, GetCutKeeps, GetCut2Keeps, GetCut3Keeps, Zenon
    <2>5. QED
        BY <2>2, <2>3, <2>4, ThreadStepKeeps, Zenon
<1>4. CASE Next
    BY <1>1, <1>2, <1>3, <1>4, Zenon DEF Next
<1>5. QED
    BY <1>4, StutterKeeps, Zenon

\* The invariant holds in every state that can be reached.
LEMMA Inductive == Spec => []LoginInv
<1>1. QED
    BY InitKeeps, NextKeeps, PTL DEF Spec

-----------------------------------------------------------------------------
(* Theorems.                                                               *)

\* Every variable has its type: a server never has more connections than it
\* can, and a client goes only through the sockets that it has
\* (client.c:203-243, server.c:44-120).
THEOREM TypeCorrect == Spec => []TypeOK
<1>1. LoginInv => TypeOK
    BY Zenon DEF LoginInv
<1>2. QED
    BY <1>1, Inductive, PTL

\* A server ends only for a cause: a client that it refused, for it has no account
\* or dfs.conf could not be opened; one that left before it sent anything or
\* during a GET; less than two descriptors left; or calls of strtok by two threads
\* that interrupted each other; however logins, GETs and departures of any number
\* of clients overlap (server.c:66-68, 88-101, 193-199).
THEOREM ServersEndForCause == Spec => []EndsForCause
<1>1. LoginInv => EndsForCause
    BY Zenon DEF LoginInv, EndsForCause, Cause
<1>2. QED
    BY <1>1, Inductive, PTL

\* The verdict on a client is that of dfs.conf, whatever it contains, unless
\* another thread has called strtok between two calls of the client's that
\* belong together, or dfs.conf could not be opened, which refuses anybody
\* (check_credentials, server.c:58-75).
THEOREM VerdictsRight == Spec => []VerdictRight
<1>1. LoginInv => VerdictRight
    BY Zenon DEF LoginInv, ThreadInv, Right, VerdictRight
<1>2. QED
    BY <1>1, Inductive, PTL

\* Every server that a client is connected to when it offers its menu, and that is
\* still up, has given it an answer, although it goes on after the first 1; and a
\* client gives up only when all of them have answered -1 and are about to exit
\* (client.c:221-236, server.c:92-101).
THEOREM LoginDecided == Spec => []LoginDecides
<1>1. ASSUME LoginInv, NEW c \in Clients, NEW s \in Servers,
             s \in cl[c].socks, up[s] = "on"
      PROVE  /\ cl[c].pc = "menu" => th[s][c].pc \in Admitted \cup {"no"}
             /\ cl[c].pc = "out" => th[s][c].pc = "no"
    <2>1. Phase(s, c)
        BY <1>1, Zenon DEF LoginInv, ClientInv
    <2>2. QED
        BY <2>1, Zenon DEF Phase, Told, Denied, Admitted
<1>2. LoginInv => LoginDecides
    BY <1>1, Zenon DEF LoginDecides
<1>3. QED
    BY <1>2, Inductive, PTL

\* GET sends the number of the piece, and not another part of its file's name,
\* unless another thread has moved the cursor of strtok in between
\* (server.c:193-198).
THEOREM NumbersRight == Spec => []NumberRight
<1>1. LoginInv => NumberRight
    BY Zenon DEF LoginInv, ThreadInv, Right, NumberRight
<1>2. QED
    BY <1>1, Inductive, PTL
=============================================================================
