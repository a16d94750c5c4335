---------------------------- MODULE Uftp_proofs ----------------------------
(***************************************************************************)
(* Proofs about Uftp, for any number of clients, any files of any size and *)
(* any size of the buffers.                                                *)
(***************************************************************************)
EXTENDS Uftp, Integers, SequenceTheorems, TLAPS

(* Types.  They are proved for any set S of bytes in which the commands,    *)
(* the replies and the byte 0 are: all, or all but the byte that equals EOF. *)

Carries(S) ==
    /\ S \subseteq Byte
    /\ Commands \subseteq S
    /\ \A w \in Answers : Reply(w) \in S
    /\ Data(0) \in S

Stored(S) == Seq(S) \cup {NoFile}

\* Files and datagrams consist of bytes of S; a file that is being received is
\* there.
DataInv(S) ==
    /\ local \in [Clients -> [Names -> Stored(S)]]
    /\ dir \in [Names -> Stored(S)]
    /\ c2s \in [Clients -> Seq(Seq(S))]
    /\ s2c \in [Clients -> Seq(Seq(S))]
    /\ \A c \in Clients : client[c].pc = "get" => local[c][client[c].cmd[2]] \in Seq(S)
    /\ server.pc = "put" => dir[server.file] \in Seq(S)

ControlInv ==
    /\ client \in [Clients -> ClientState]
    /\ server \in ServerState
    /\ pipes \in 0..MaxPipes
    /\ commands \in Nat
    /\ faults \in Nat
    /\ trouble \in SUBSET Troubles

-----------------------------------------------------------------------------
(* Sequences.                                                              *)

\* Datagrams that are sent, and the first and the others of those under way.
LEMMA QueueTypes ==
    ASSUME NEW S, NEW Q \in Seq(Seq(S))
    PROVE  /\ \A R \in Seq(Seq(S)) : Q \o R \in Seq(Seq(S))
           /\ \A q \in Seq(S) : Q \o <<q>> \in Seq(Seq(S)) /\ Append(Q, q) \in Seq(Seq(S))
           /\ Q # <<>> => Head(Q) \in Seq(S) /\ Tail(Q) \in Seq(Seq(S))
<1>1. ASSUME NEW R \in Seq(Seq(S))
      PROVE  Q \o R \in Seq(Seq(S))
    BY ConcatProperties
<1>2. ASSUME NEW q \in Seq(S)
      PROVE  <<q>> \in Seq(Seq(S)) /\ Append(Q, q) \in Seq(Seq(S))
    BY AppendProperties
<1>3. Q # <<>> => Head(Q) \in Seq(S) /\ Tail(Q) \in Seq(Seq(S))
    BY HeadTailProperties
<1>4. QED
    BY <1>1, <1>2, <1>3

\* How many full buffers a file has.
LEMMA Division ==
    ASSUME NEW n \in Nat
    PROVE  /\ n \div BUFSIZE \in Nat
           /\ (n \div BUFSIZE) * BUFSIZE <= n
           /\ n < (n \div BUFSIZE) * BUFSIZE + BUFSIZE
    BY BoundsAssumption

LEMMA Product ==
    ASSUME NEW i \in Nat
    PROVE  /\ i * BUFSIZE \in Nat
           /\ (i + 1) * BUFSIZE = i * BUFSIZE + BUFSIZE
           /\ \A j \in Nat : i <= j => i * BUFSIZE <= j * BUFSIZE
    BY BoundsAssumption

\* The buffers of a file: chunk i is what lies between i - 1 and i times
\* BUFSIZE, and only the last is shorter than a buffer.
Bound(q, i) == IF i * BUFSIZE < Len(q) THEN i * BUFSIZE ELSE Len(q)

LEMMA ChunkFacts ==
    ASSUME NEW S, NEW q \in Seq(S)
    PROVE  /\ Chunks(q) \in Seq(Seq(S))
           /\ Len(Chunks(q)) = Len(q) \div BUFSIZE + 1
           /\ Len(Chunks(q)) \in Nat \ {0}
           /\ \A i \in 1..Len(Chunks(q)) :
                /\ Chunks(q)[i] = SubSeq(q, (i - 1) * BUFSIZE + 1, Bound(q, i))
                /\ (i - 1) * BUFSIZE \in 0..Len(q)
                /\ Bound(q, i) \in (i - 1) * BUFSIZE..Len(q)
                /\ Len(Chunks(q)[i]) = Bound(q, i) - (i - 1) * BUFSIZE
                /\ Len(Chunks(q)[i]) = BUFSIZE <=> i < Len(Chunks(q))
<1> DEFINE n == Len(q) \div BUFSIZE + 1
           C(i) == SubSeq(q, (i - 1) * BUFSIZE + 1, Bound(q, i))
<1>1. Len(q) \in Nat /\ \A i \in 1..Len(q) : q[i] \in S
    BY LenProperties, ElementOfSeq
<1>2. n \in Nat \ {0}
    BY <1>1, Division
<1>3. ASSUME NEW i \in 1..n
      PROVE  /\ (i - 1) * BUFSIZE \in 0..Len(q)
             /\ Bound(q, i) \in (i - 1) * BUFSIZE..Len(q)
             /\ C(i) \in Seq(S) /\ Len(C(i)) = Bound(q, i) - (i - 1) * BUFSIZE
             /\ Len(C(i)) = BUFSIZE <=> i < n
    <2> DEFINE k == (i - 1) * BUFSIZE
               m == (n - 1) * BUFSIZE
               e == Bound(q, i)
    <2>1. i - 1 \in Nat /\ n - 1 \in Nat /\ i - 1 <= n - 1
        BY <1>2
    <2>2. k \in Nat /\ i * BUFSIZE = k + BUFSIZE /\ k <= m /\ m \in Nat
        <3>1. i - 1 + 1 = i
            OBVIOUS
        <3>2. QED
            BY <2>1, <3>1, Product
    <2>3. m <= Len(q) /\ Len(q) < m + BUFSIZE
        <3>1. n - 1 = Len(q) \div BUFSIZE
            BY <1>1, Division
        <3>2. QED
            BY <1>1, <3>1, Division
    <2>4. i < n => k + BUFSIZE <= m
        <3>1. i < n => i \in Nat /\ i <= n - 1
            BY <1>2
        <3>2. QED
            BY <2>1, <2>2, <3>1, Product
    <2>5. BUFSIZE \in Nat \ {0}
        BY BoundsAssumption
    <2>6. i = n => k = m
        OBVIOUS
    <2>7. e = IF k + BUFSIZE < Len(q) THEN k + BUFSIZE ELSE Len(q)
        BY <2>2 DEF Bound
    <2> HIDE DEF k, m, e
    <2>8. k \in 0..Len(q) /\ e \in k..Len(q)
        BY <1>1, <2>2, <2>3, <2>5, <2>7
    <2>9. \A j \in k + 1..e : q[j] \in S
        BY <1>1, <2>2, <2>8
    <2>10. /\ SubSeq(q, k + 1, e) \in Seq(S)
           /\ Len(SubSeq(q, k + 1, e)) = IF k + 1 <= e THEN e - (k + 1) + 1 ELSE 0
        <3>1. k + 1 \in Int /\ e \in Int
            BY <1>1, <2>2, <2>8
        <3>2. QED
            BY <2>9, <3>1, SubSeqProperties
    <2>11. Len(SubSeq(q, k + 1, e)) = e - k
        BY <1>1, <2>8, <2>10
    <2>12. e - k = BUFSIZE <=> i < n
        BY <1>1, <1>2, <2>2, <2>3, <2>4, <2>5, <2>6, <2>7
    <2>13. QED
        BY <2>8, <2>10, <2>11, <2>12 DEF k, e
<1>4. Chunks(q) = [i \in 1..n |-> C(i)]
    BY DEF Chunks, Bound
<1>5. Chunks(q) \in Seq(Seq(S)) /\ Len(Chunks(q)) = n
    <2>1. \A i \in 1..n : C(i) \in Seq(S)
        BY <1>3
    <2> HIDE DEF n, C
    <2>2. [i \in 1..n |-> C(i)] \in Seq(Seq(S)) /\ Len([i \in 1..n |-> C(i)]) = n
        BY <1>2, <2>1
    <2>3. QED
        BY <1>4, <2>2
<1>6. \A i \in 1..n : Chunks(q)[i] = C(i)
    BY <1>4
<1> HIDE DEF n, C
<1>7. \A i \in 1..Len(Chunks(q)) :
        /\ (i - 1) * BUFSIZE \in 0..Len(q)
        /\ Bound(q, i) \in (i - 1) * BUFSIZE..Len(q)
        /\ Chunks(q)[i] = C(i)
        /\ Len(Chunks(q)[i]) = Bound(q, i) - (i - 1) * BUFSIZE
        /\ Len(Chunks(q)[i]) = BUFSIZE <=> i < Len(Chunks(q))
    BY <1>3, <1>5, <1>6
<1>8. QED
    BY <1>2, <1>5, <1>7, Zenon DEF C, n

LEMMA WrittenType ==
    ASSUME NEW S, NEW q \in Seq(S)
    PROVE  Written(q) \in Seq(S)
<1>1. CASE q # <<>> /\ Last(q) = End
    <2>1. Len(q) \in Nat /\ \A i \in 1..Len(q) : q[i] \in S
        BY LenProperties, ElementOfSeq
    <2>2. SubSeq(q, 1, Len(q) - 1) \in Seq(S)
        <3>1. \A i \in 1..Len(q) - 1 : q[i] \in S
            BY <2>1
        <3>2. QED
            BY <2>1, <3>1, SubSeqProperties
    <2>3. QED
        BY <1>1, <2>2 DEF Written, Front
<1>2. CASE ~(q # <<>> /\ Last(q) = End)
    BY <1>2 DEF Written
<1>3. QED
    BY <1>1, <1>2

-----------------------------------------------------------------------------
(* The types of the commands and of the replies.                           *)

LEMMA CommandTypes ==
    ASSUME NEW cmd \in Commands
    PROVE  /\ cmd[2] \in Names
           /\ cmd[1] \in Filed \cup Bare
           /\ cmd = <<cmd[1], cmd[2]>>
<1>1. NoName \in Names
    BY FilesAssumption DEF NoName
<1>2. QED
    BY <1>1 DEF Commands, Filed, Bare

\* What a byte says, as a command.
LEMMA ByteTypes ==
    ASSUME NEW b \in Byte, b[1] \in {"get", "put", "delete"}
    PROVE  b[2] \in Names
<1>1. NoName \in Names
    BY FilesAssumption DEF NoName
<1>2. CASE b \in Commands
    BY <1>2, CommandTypes
<1>3. CASE b \in {"byte"} \X (0..255)
    BY <1>3
<1>4. CASE b \in {"reply"} \X Answers
    BY <1>4
<1>5. QED
    BY <1>2, <1>3, <1>4 DEF Byte

LEMMA AnswersAre ==
    /\ "listing" \in Answers /\ "written" \in Answers /\ "not created" \in Answers
    /\ "deleted" \in Answers /\ "not deleted" \in Answers /\ "not there" \in Answers
    /\ "read" \in Answers /\ "get" \in Answers /\ "unknown" \in Answers
    BY Zenon DEF Answers

LEMMA ReplyTypes ==
    ASSUME NEW S, Carries(S), NEW w \in Answers
    PROVE  /\ <<Reply(w)>> \in Seq(S)
           /\ <<<<Reply(w)>>>> \in Seq(Seq(S))
<1>1. Reply(w) \in S
    BY DEF Carries
<1>2. QED
    BY <1>1

LEMMA RequestTypes ==
    ASSUME NEW S, Carries(S), NEW cmd \in Commands
    PROVE  <<cmd>> \in Seq(S) /\ <<<<cmd>>>> \in Seq(Seq(S))
<1>1. cmd \in S
    BY DEF Carries
<1>2. QED
    BY <1>1

\* The datagrams that are sent for other lines.
LEMMA LineSent ==
    ASSUME NEW S, Carries(S), NEW cmd \in Commands
    PROVE  <<Line(cmd)>> \in Seq(Seq(S)) /\ <<NoFileText>> \in Seq(Seq(S))
<1>1. Line(cmd) \in Seq(S)
    BY RequestTypes, EmptySeq DEF Line
<1>2. NoFileText \in Seq(S)
    BY BoundsAssumption DEF NoFileText, Carries
<1>3. QED
    BY <1>1, <1>2

LEMMA AnswerTypes ==
    ASSUME NEW S, DataInv(S), NEW c \in Clients, NEW Q \in Seq(Seq(S)), Answer(c, Q)
    PROVE  s2c' \in [Clients -> Seq(Seq(S))]
<1>1. s2c \in [Clients -> Seq(Seq(S))] /\ s2c[c] \in Seq(Seq(S))
    BY DEF DataInv
<1>2. s2c[c] \o Q \in Seq(Seq(S))
    BY <1>1, QueueTypes
<1>3. QED
    BY <1>1, <1>2 DEF Answer

LEMMA SendTypes ==
    ASSUME NEW S, DataInv(S), NEW c \in Clients, NEW Q \in Seq(Seq(S)), Send(c, Q)
    PROVE  c2s' \in [Clients -> Seq(Seq(S))]
<1>1. c2s \in [Clients -> Seq(Seq(S))] /\ c2s[c] \in Seq(Seq(S))
    BY DEF DataInv
<1>2. c2s[c] \o Q \in Seq(Seq(S))
    BY <1>1, QueueTypes
<1>3. QED
    BY <1>1, <1>2 DEF Send

\* The server takes a command.
LEMMA CommandFacts ==
    ASSUME NEW S, Carries(S), DataInv(S), NEW c \in Clients, NEW op, Command(c, op)
    PROVE  /\ server.pc = "cmd" /\ c2s[c] # <<>>
           /\ Head(c2s[c]) \in Seq(S) /\ Head(c2s[c]) # <<>>
           /\ Head(c2s[c])[1] \in S /\ Head(c2s[c])[1][1] = op
           /\ op \in {"get", "put", "delete"} => Named(c) \in Names
           /\ c2s' = [c2s EXCEPT ![c] = Tail(c2s[c])]
           /\ c2s' \in [Clients -> Seq(Seq(S))]
           /\ UNCHANGED <<client, local, commands, faults>>
<1>1. c2s \in [Clients -> Seq(Seq(S))] /\ c2s[c] \in Seq(Seq(S))
    BY DEF DataInv
<1>2. /\ server.pc = "cmd" /\ c2s[c] # <<>>
      /\ Head(c2s[c]) # <<>> /\ Head(c2s[c])[1][1] = op
      /\ c2s' = [c2s EXCEPT ![c] = Tail(c2s[c])]
      /\ UNCHANGED <<client, local, commands, faults>>
    BY DEF Command
<1>3. Head(c2s[c]) \in Seq(S) /\ Tail(c2s[c]) \in Seq(Seq(S))
    BY <1>1, <1>2, QueueTypes
<1>4. Head(c2s[c])[1] \in S
    <2>1. \A q \in Seq(S) : q # <<>> => q[1] \in S
        <3>1. SUFFICES ASSUME NEW q \in Seq(S), q # <<>>
                       PROVE  q[1] \in S
            OBVIOUS
        <3>2. 1 \in 1..Len(q)
            BY <3>1, EmptySeq
        <3>3. QED
            BY <3>2, ElementOfSeq
    <2>2. QED
        BY <1>2, <1>3, <2>1
<1>5. op \in {"get", "put", "delete"} => Named(c) \in Names
    BY <1>2, <1>4, ByteTypes DEF Named, Carries
<1>6. c2s' \in [Clients -> Seq(Seq(S))]
    BY <1>1, <1>2, <1>3
<1>7. QED
    BY <1>2, <1>3, <1>4, <1>5, <1>6

\* The network.
LEMMA DisturbedType ==
    ASSUME NEW S, NEW Q \in Seq(S), NEW R \in Disturbed(Q)
    PROVE  R \in Seq(S)
<1> DEFINE n == Len(Q)
<1>1. n \in Nat /\ DOMAIN Q = 1..n /\ \A j \in 1..n : Q[j] \in S
    BY LenProperties, ElementOfSeq
<1>2. ASSUME NEW i \in 1..n, R = RemoveAt(Q, i)
      PROVE  R \in Seq(S)
    <2>1. (\A j \in 1..i - 1 : Q[j] \in S) /\ \A j \in i + 1..n : Q[j] \in S
        BY <1>1
    <2>2. SubSeq(Q, 1, i - 1) \in Seq(S) /\ SubSeq(Q, i + 1, n) \in Seq(S)
        BY <1>1, <2>1, SubSeqProperties
    <2>3. QED
        BY <1>2, <2>2, ConcatProperties DEF RemoveAt
<1>3. ASSUME NEW i \in 1..n, R = InsertAt(Q, i, Q[i])
      PROVE  R \in Seq(S)
    <2>1. (\A j \in 1..i - 1 : Q[j] \in S) /\ \A j \in i..n : Q[j] \in S
        BY <1>1
    <2>2. SubSeq(Q, 1, i - 1) \in Seq(S) /\ SubSeq(Q, i, n) \in Seq(S)
        BY <1>1, <2>1, SubSeqProperties
    <2>3. Q[i] \in S
        BY <1>1
    <2>4. <<Q[i]>> \in Seq(S)
        BY <2>3
    <2>5. QED
        BY <1>3, <2>2, <2>4, ConcatProperties DEF InsertAt
<1>4. ASSUME NEW i \in 1..n - 1, R = [Q EXCEPT ![i] = Q[i + 1], ![i + 1] = Q[i]]
      PROVE  R \in Seq(S)
    <2>1. i \in 1..n /\ i + 1 \in 1..n /\ Q[i] \in S /\ Q[i + 1] \in S
        BY <1>1
    <2> DEFINE T == [Q EXCEPT ![i] = Q[i + 1]]
    <2>2. T \in Seq(S) /\ Len(T) = n
        BY <2>1, ExceptSeq
    <2>3. R = [T EXCEPT ![i + 1] = Q[i]]
        BY <1>4
    <2> HIDE DEF T
    <2>4. [T EXCEPT ![i + 1] = Q[i]] \in Seq(S)
        BY <2>1, <2>2, ExceptSeq
    <2>5. QED
        BY <2>3, <2>4
<1>5. QED
    BY <1>1, <1>2, <1>3, <1>4 DEF Disturbed

-----------------------------------------------------------------------------
(* Every step keeps the types.                                             *)

LEMMA TypedFacts ==
    ASSUME ControlInv, NEW c \in Clients, NEW cmd \in Commands, NEW k, Typed(c, cmd, k)
    PROVE  /\ client[c].pc = "menu" /\ Class(cmd) = k
           /\ commands' \in Nat /\ trouble' \in SUBSET Troubles
           /\ trouble \subseteq trouble'
           /\ Overlaps(c, cmd) => "overlap" \in trouble'
           /\ Misread(cmd) => "line" \in trouble'
           /\ cmd[1] \in {"end", "cut"} => "end" \in trouble'
           /\ UNCHANGED <<server, dir, pipes, s2c, faults>>
    BY DEF Typed, ControlInv, Troubles

\* Client c is at pc with its command, and no other client moves.
Turns(c, pc, cmd) ==
    /\ client' \in [Clients -> ClientState]
    /\ client'[c].pc = pc /\ client'[c].cmd = cmd
    /\ \A d \in Clients \ {c} : client'[d] = client[d]

LEMMA WaitFacts ==
    ASSUME ControlInv, NEW c \in Clients, NEW cmd \in Commands,
           NEW pc \in {"menu", "get", "reply", "gone"}, Wait(c, cmd, pc)
    PROVE  Turns(c, pc, cmd)
    BY DEF Wait, ControlInv, ClientState, Turns

LEMMA LineTypes ==
    ASSUME NEW S, Carries(S), ControlInv, DataInv(S), NEW c \in Clients,
           NEW cmd \in Commands, Exit(c, cmd) \/ SendLine(c, cmd)
    PROVE  ControlInv' /\ DataInv(S)'
<1>1. CASE Exit(c, cmd)
    <2>1. /\ commands' \in Nat /\ trouble' \in SUBSET Troubles
          /\ UNCHANGED <<server, dir, pipes, s2c, faults, local, c2s>>
        BY <1>1, TypedFacts DEF Exit
    <2>2. Turns(c, "gone", cmd)
        BY <1>1, WaitFacts DEF Exit
    <2>3. QED
        BY <2>1, <2>2 DEF ControlInv, DataInv, Turns
<1>2. CASE SendLine(c, cmd)
    <2>1. /\ commands' \in Nat /\ trouble' \in SUBSET Troubles
          /\ UNCHANGED <<server, dir, pipes, s2c, faults, local>>
        BY <1>2, TypedFacts DEF SendLine
    <2>2. Turns(c, "reply", cmd)
        BY <1>2, WaitFacts DEF SendLine
    <2>3. c2s' \in [Clients -> Seq(Seq(S))]
        BY <1>2, LineSent, SendTypes DEF SendLine
    <2>4. QED
        BY <2>1, <2>2, <2>3 DEF ControlInv, DataInv, Turns
<1>3. QED
    BY <1>1, <1>2

LEMMA PutTypes ==
    ASSUME NEW S, Carries(S), ControlInv, DataInv(S), NEW c \in Clients,
           NEW cmd \in Commands, Put(c, cmd)
    PROVE  ControlInv' /\ DataInv(S)'
<1> DEFINE q == local[c][cmd[2]]
<1>1. /\ commands' \in Nat /\ trouble' \in SUBSET Troubles
      /\ UNCHANGED <<server, dir, pipes, s2c, faults, local>>
    BY TypedFacts DEF Put
<1>2. q \in Stored(S)
    BY CommandTypes DEF DataInv
<1>3. CASE q # NoFile /\ Wait(c, cmd, "reply") /\ Send(c, <<<<cmd>>>> \o Chunks(q))
    <2>1. Turns(c, "reply", cmd)
        BY <1>3, WaitFacts
    <2>2. q \in Seq(S)
        BY <1>2, <1>3 DEF Stored
    <2>3. <<<<cmd>>>> \in Seq(Seq(S)) /\ Chunks(q) \in Seq(Seq(S))
        BY <2>2, RequestTypes, ChunkFacts
    <2>4. <<<<cmd>>>> \o Chunks(q) \in Seq(Seq(S))
        BY <2>3, QueueTypes
    <2>5. c2s' \in [Clients -> Seq(Seq(S))]
        BY <1>3, <2>4, SendTypes
    <2>6. QED
        BY <1>1, <2>1, <2>5 DEF ControlInv, DataInv, Turns
<1>4. CASE UNCHANGED <<client, c2s>>
    BY <1>1, <1>4 DEF ControlInv, DataInv
<1>5. CASE Wait(c, cmd, "reply") /\ Send(c, <<NoFileText>>)
    <2>1. Turns(c, "reply", cmd)
        BY <1>5, WaitFacts
    <2>2. c2s' \in [Clients -> Seq(Seq(S))]
        BY <1>5, LineSent, SendTypes
    <2>3. QED
        BY <1>1, <2>1, <2>2 DEF ControlInv, DataInv, Turns
<1>6. QED
    BY <1>3, <1>4, <1>5 DEF Put

LEMMA GetTypes ==
    ASSUME NEW S, Carries(S), ControlInv, DataInv(S), NEW c \in Clients,
           NEW cmd \in Commands, Get(c, cmd)
    PROVE  ControlInv' /\ DataInv(S)'
<1>1. /\ commands' \in Nat /\ trouble' \in SUBSET Troubles
      /\ UNCHANGED <<server, dir, pipes, s2c, faults>>
    BY TypedFacts DEF Get
<1>2. c2s' \in [Clients -> Seq(Seq(S))]
    BY RequestTypes, SendTypes DEF Get
<1>3. CASE Wait(c, cmd, "get") /\ local' = [local EXCEPT ![c][cmd[2]] = <<>>]
    <2>1. Turns(c, "get", cmd)
        BY <1>3, WaitFacts
    <2>2. cmd[2] \in Names /\ <<>> \in Seq(S)
        BY CommandTypes, EmptySeq
    <2>3. /\ local' \in [Clients -> [Names -> Stored(S)]]
          /\ local'[c][cmd[2]] = <<>>
          /\ \A d \in Clients \ {c} : local'[d] = local[d]
        BY <1>3, <2>2 DEF DataInv, Stored
    <2>4. QED
        BY <1>1, <1>2, <2>1, <2>2, <2>3 DEF ControlInv, DataInv, Turns
<1>4. CASE (Wait(c, cmd, "reply") \/ Wait(c, cmd, "gone")) /\ local' = local
    <2>1. Turns(c, "reply", cmd) \/ Turns(c, "gone", cmd)
        BY <1>4, WaitFacts
    <2>2. QED
        BY <1>1, <1>2, <1>4, <2>1 DEF ControlInv, DataInv, Turns
<1>5. QED
    BY <1>3, <1>4 DEF Get

\* The client takes a datagram.
LEMMA GetChunkFacts ==
    ASSUME NEW S, ControlInv, DataInv(S), NEW c \in Clients, GetChunk(c)
    PROVE  /\ client[c].pc = "get" /\ s2c[c] # <<>>
           /\ Written(Head(s2c[c])) \in Seq(S)
           /\ local' \in [Clients -> [Names -> Stored(S)]]
           /\ local'[c][client[c].cmd[2]] =
                local[c][client[c].cmd[2]] \o Written(Head(s2c[c]))
           /\ local'[c][client[c].cmd[2]] \in Seq(S)
           /\ \A d \in Clients \ {c} : local'[d] = local[d]
           /\ Turns(c, IF Len(Written(Head(s2c[c]))) = BUFSIZE THEN "get" ELSE "reply",
                    client[c].cmd)
           /\ s2c' = [s2c EXCEPT ![c] = Tail(s2c[c])]
           /\ s2c' \in [Clients -> Seq(Seq(S))]
           /\ UNCHANGED <<server, dir, pipes, c2s, commands, faults, trouble>>
<1> DEFINE q == Written(Head(s2c[c]))
           f == client[c].cmd[2]
           pc == IF Len(q) = BUFSIZE THEN "get" ELSE "reply"
<1>1. /\ client[c].pc = "get" /\ s2c[c] # <<>>
      /\ local' = [local EXCEPT ![c][f] = local[c][f] \o q]
      /\ client' = [client EXCEPT ![c].pc = pc]
      /\ s2c' = [s2c EXCEPT ![c] = Tail(s2c[c])]
      /\ UNCHANGED <<server, dir, pipes, c2s, commands, faults, trouble>>
    BY DEF GetChunk
<1>2. s2c \in [Clients -> Seq(Seq(S))] /\ s2c[c] \in Seq(Seq(S))
    BY DEF DataInv
<1>3. Head(s2c[c]) \in Seq(S) /\ Tail(s2c[c]) \in Seq(Seq(S))
    BY <1>1, <1>2, QueueTypes
<1>4. q \in Seq(S)
    BY <1>3, WrittenType
<1>5. client[c] \in ClientState /\ client[c].cmd \in Commands /\ f \in Names
    BY CommandTypes DEF ControlInv, ClientState
<1> HIDE DEF q
<1>6. Turns(c, pc, client[c].cmd)
    BY <1>1, <1>5 DEF ControlInv, ClientState, Turns
<1>7. local[c][f] \in Seq(S) /\ local \in [Clients -> [Names -> Stored(S)]]
    BY <1>1 DEF DataInv
<1>8. local[c][f] \o q \in Seq(S)
    BY <1>4, <1>7, ConcatProperties
<1> HIDE DEF f, pc
<1>9. /\ local' \in [Clients -> [Names -> Stored(S)]]
      /\ local'[c][f] = local[c][f] \o q
      /\ \A d \in Clients \ {c} : local'[d] = local[d]
    BY <1>1, <1>5, <1>7, <1>8 DEF Stored
<1>10. s2c' \in [Clients -> Seq(Seq(S))]
    BY <1>1, <1>2, <1>3
<1>11. QED
    BY <1>1, <1>4, <1>6, <1>8, <1>9, <1>10 DEF q, f, pc

LEMMA GetReplyFacts ==
    ASSUME NEW S, ControlInv, DataInv(S), NEW c \in Clients, GetReply(c)
    PROVE  /\ client[c].pc = "reply" /\ s2c[c] # <<>>
           /\ Turns(c, "menu", client[c].cmd)
           /\ s2c' = [s2c EXCEPT ![c] = Tail(s2c[c])]
           /\ s2c' \in [Clients -> Seq(Seq(S))]
           /\ UNCHANGED <<local, server, dir, pipes, c2s, commands, faults, trouble>>
<1>1. /\ client[c].pc = "reply" /\ s2c[c] # <<>>
      /\ client' = [client EXCEPT ![c].pc = "menu"]
      /\ s2c' = [s2c EXCEPT ![c] = Tail(s2c[c])]
      /\ UNCHANGED <<local, server, dir, pipes, c2s, commands, faults, trouble>>
    BY DEF GetReply
<1>2. s2c \in [Clients -> Seq(Seq(S))] /\ s2c[c] \in Seq(Seq(S))
    BY DEF DataInv
<1>3. Tail(s2c[c]) \in Seq(Seq(S))
    BY <1>1, <1>2, QueueTypes
<1>4. Turns(c, "menu", client[c].cmd)
    BY <1>1 DEF ControlInv, ClientState, Turns
<1>5. s2c' \in [Clients -> Seq(Seq(S))]
    BY <1>1, <1>2, <1>3
<1>6. QED
    BY <1>1, <1>4, <1>5

LEMMA ReceiveTypes ==
    ASSUME NEW S, Carries(S), ControlInv, DataInv(S), NEW c \in Clients,
           GetChunk(c) \/ GetReply(c)
    PROVE  ControlInv' /\ DataInv(S)'
<1>1. CASE GetChunk(c)
    <2>1. PICK pc : Turns(c, pc, client[c].cmd)
        BY <1>1, GetChunkFacts
    <2>2. /\ local' \in [Clients -> [Names -> Stored(S)]]
          /\ local'[c][client[c].cmd[2]] \in Seq(S)
          /\ \A d \in Clients \ {c} : local'[d] = local[d]
          /\ s2c' \in [Clients -> Seq(Seq(S))]
          /\ UNCHANGED <<server, dir, pipes, c2s, commands, faults, trouble>>
        BY <1>1, GetChunkFacts
    <2>3. QED
        BY <2>1, <2>2 DEF ControlInv, DataInv, Turns
<1>2. CASE GetReply(c)
    <2>1. /\ Turns(c, "menu", client[c].cmd)
          /\ s2c' \in [Clients -> Seq(Seq(S))]
          /\ UNCHANGED <<local, server, dir, pipes, c2s, commands, faults, trouble>>
        BY <1>2, GetReplyFacts
    <2>2. QED
        BY <2>1 DEF ControlInv, DataInv, Turns
<1>3. QED
    BY <1>1, <1>2

LEMMA LimitFacts ==
    ASSUME ControlInv, Limit
    PROVE  /\ trouble' \in SUBSET Troubles /\ trouble \subseteq trouble'
           /\ ~CanOpen => "limit" \in trouble'
           /\ pipes \in 0..MaxPipes /\ (CanOpen => pipes + 1 \in 0..MaxPipes)
    BY BoundsAssumption DEF Limit, ControlInv, Troubles, CanOpen

LEMMA LsTypes ==
    ASSUME NEW S, Carries(S), ControlInv, DataInv(S), NEW c \in Clients, Ls(c)
    PROVE  ControlInv' /\ DataInv(S)'
<1>1. /\ server.pc = "cmd" /\ c2s' \in [Clients -> Seq(Seq(S))]
      /\ UNCHANGED <<client, local, commands, faults>>
    BY CommandFacts DEF Ls
<1>2. /\ trouble' \in SUBSET Troubles /\ UNCHANGED dir
      /\ pipes \in 0..MaxPipes /\ (CanOpen => pipes + 1 \in 0..MaxPipes)
    BY LimitFacts DEF Ls
<1>3. CASE CanOpen /\ pipes' = pipes + 1 /\ Answer(c, <<<<Reply("listing")>>>>)
           /\ UNCHANGED server
    <2>1. s2c' \in [Clients -> Seq(Seq(S))]
        BY <1>3, AnswersAre, ReplyTypes, AnswerTypes
    <2>2. QED
        BY <1>1, <1>2, <1>3, <2>1 DEF ControlInv, DataInv
<1>4. CASE server' = [server EXCEPT !.pc = "down"] /\ UNCHANGED <<pipes, s2c>>
    <2>1. server' \in ServerState /\ server'.pc = "down"
        BY <1>4 DEF ControlInv, ServerState
    <2>2. QED
        BY <1>1, <1>2, <1>4, <2>1 DEF ControlInv, DataInv
<1>5. QED
    BY <1>3, <1>4 DEF Ls

LEMMA StartPutTypes ==
    ASSUME NEW S, Carries(S), ControlInv, DataInv(S), NEW c \in Clients, StartPut(c)
    PROVE  ControlInv' /\ DataInv(S)'
<1>1. /\ server.pc = "cmd" /\ c2s' \in [Clients -> Seq(Seq(S))] /\ Named(c) \in Names
      /\ UNCHANGED <<client, local, commands, faults>>
    BY CommandFacts DEF StartPut
<1>2. trouble' \in SUBSET Troubles /\ UNCHANGED pipes
    BY DEF StartPut, ControlInv, Troubles
<1>3. CASE /\ server' = [pc |-> "put", file |-> Named(c)]
           /\ dir' = [dir EXCEPT ![Named(c)] = <<>>] /\ UNCHANGED s2c
    <2>1. server' \in ServerState /\ server'.pc = "put" /\ server'.file = Named(c)
        BY <1>1, <1>3 DEF ServerState
    <2>2. <<>> \in Seq(S)
        BY EmptySeq
    <2>3. dir' \in [Names -> Stored(S)] /\ dir'[Named(c)] \in Seq(S)
        BY <1>1, <1>3, <2>2 DEF DataInv, Stored
    <2>4. QED
        BY <1>1, <1>2, <1>3, <2>1, <2>3 DEF ControlInv, DataInv
<1>4. CASE Answer(c, <<<<Reply("not created")>>>>) /\ UNCHANGED <<server, dir>>
    <2>1. PICK w \in Answers : Answer(c, <<<<Reply(w)>>>>)
        BY <1>4, AnswersAre, Zenon
    <2>2. s2c' \in [Clients -> Seq(Seq(S))]
        BY <2>1, ReplyTypes, AnswerTypes
    <2>3. UNCHANGED <<server, dir>>
        BY <1>4, Zenon
    <2> HIDE <1>4
    <2>4. QED
        BY <1>1, <1>2, <2>2, <2>3 DEF ControlInv, DataInv
<1>5. QED
    BY <1>3, <1>4, Zenon DEF StartPut

LEMMA DeleteTypes ==
    ASSUME NEW S, Carries(S), ControlInv, DataInv(S), NEW c \in Clients, Delete(c)
    PROVE  ControlInv' /\ DataInv(S)'
<1>1. /\ server.pc = "cmd" /\ c2s' \in [Clients -> Seq(Seq(S))] /\ Named(c) \in Names
      /\ UNCHANGED <<client, local, commands, faults>>
    BY CommandFacts, Zenon DEF Delete
<1>2. trouble' \in SUBSET Troubles /\ UNCHANGED <<server, pipes>>
    <2>1. Limit /\ UNCHANGED <<server, pipes>>
        BY Zenon DEF Delete
    <2>2. QED
        BY <2>1, LimitFacts
<1>3. /\ dir' = [dir EXCEPT ![Named(c)] = NoFile] \/ dir' = dir
      /\ \E w \in Answers : Answer(c, <<<<Reply(w)>>>>)
    BY AnswersAre, Zenon DEF Delete
<1>4. s2c' \in [Clients -> Seq(Seq(S))]
    BY <1>3, ReplyTypes, AnswerTypes
<1>5. dir' \in [Names -> Stored(S)]
    BY <1>1, <1>3 DEF DataInv, Stored
<1>6. QED
    BY <1>1, <1>2, <1>4, <1>5 DEF ControlInv, DataInv

\* What the server answers to a get.
LEMMA ServeGetFacts ==
    ASSUME NEW S, Carries(S), ControlInv, DataInv(S), NEW c \in Clients, ServeGet(c)
    PROVE  /\ dir[Named(c)] \in Stored(S)
           /\ \/ /\ CanOpen /\ dir[Named(c)] # NoFile /\ dir[Named(c)] \in Seq(S)
                 /\ Answer(c, Append(Chunks(dir[Named(c)]), <<Reply("read")>>))
                 /\ Append(Chunks(dir[Named(c)]), <<Reply("read")>>) \in Seq(Seq(S))
              \/ /\ ~CanOpen \/ dir[Named(c)] = NoFile
                 /\ Answer(c, <<<<Reply("get")>>>>)
           /\ s2c' \in [Clients -> Seq(Seq(S))]
           /\ trouble' \in SUBSET Troubles /\ trouble \subseteq trouble'
           /\ ~CanOpen => "limit" \in trouble'
           /\ UNCHANGED <<server, dir, pipes>>
<1> DEFINE q == dir[Named(c)]
           T == Append(Chunks(q), <<Reply("read")>>)
<1>1. Named(c) \in Names
    BY CommandFacts DEF ServeGet
<1>2. q \in Stored(S)
    BY <1>1 DEF DataInv
<1>3. /\ trouble' \in SUBSET Troubles /\ trouble \subseteq trouble'
      /\ ~CanOpen => "limit" \in trouble'
      /\ UNCHANGED <<server, dir, pipes>>
    BY DEF ServeGet, ControlInv, Troubles
<1>4. q \in Seq(S) => T \in Seq(Seq(S))
    BY ChunkFacts, AnswersAre, ReplyTypes, QueueTypes
<1>5. CASE CanOpen /\ q # NoFile /\ Answer(c, T)
    <2>1. q \in Seq(S)
        BY <1>2, <1>5 DEF Stored
    <2>2. T \in Seq(Seq(S))
        BY <1>4, <2>1
    <2> HIDE DEF T
    <2>3. s2c' \in [Clients -> Seq(Seq(S))]
        BY <1>5, <2>2, AnswerTypes
    <2>4. QED
        BY <1>2, <1>3, <1>5, <2>1, <2>2, <2>3, Zenon DEF T, q
<1>6. CASE (~CanOpen \/ q = NoFile) /\ Answer(c, <<<<Reply("get")>>>>)
    <2>1. s2c' \in [Clients -> Seq(Seq(S))]
        BY <1>6, AnswersAre, ReplyTypes, AnswerTypes
    <2>2. QED
        BY <1>2, <1>3, <1>6, <2>1
<1>7. QED
    BY <1>5, <1>6 DEF ServeGet

LEMMA ServeGetTypes ==
    ASSUME NEW S, Carries(S), ControlInv, DataInv(S), NEW c \in Clients, ServeGet(c)
    PROVE  ControlInv' /\ DataInv(S)'
<1>1. /\ server.pc = "cmd" /\ c2s' \in [Clients -> Seq(Seq(S))]
      /\ UNCHANGED <<client, local, commands, faults>>
    BY CommandFacts DEF ServeGet
<1>2. /\ s2c' \in [Clients -> Seq(Seq(S))]
      /\ trouble' \in SUBSET Troubles
      /\ UNCHANGED <<server, dir, pipes>>
    BY ServeGetFacts
<1>3. QED
    BY <1>1, <1>2 DEF ControlInv, DataInv

LEMMA UnknownTypes ==
    ASSUME NEW S, Carries(S), ControlInv, DataInv(S), NEW c \in Clients, Unknown(c)
    PROVE  ControlInv' /\ DataInv(S)'
<1>1. PICK op : /\ Command(c, op) /\ Answer(c, <<<<Reply("unknown")>>>>)
                /\ UNCHANGED <<server, dir, pipes, trouble>>
    BY DEF Unknown
<1>2. /\ server.pc = "cmd" /\ c2s' \in [Clients -> Seq(Seq(S))]
      /\ UNCHANGED <<client, local, commands, faults>>
    BY <1>1, CommandFacts
<1>3. s2c' \in [Clients -> Seq(Seq(S))]
    BY <1>1, AnswersAre, ReplyTypes, AnswerTypes
<1>4. QED
    BY <1>1, <1>2, <1>3 DEF ControlInv, DataInv

\* The server takes a datagram for its file.
LEMMA PutChunkFacts ==
    ASSUME NEW S, Carries(S), ControlInv, DataInv(S), NEW c \in Clients, PutChunk(c)
    PROVE  /\ server.pc = "put" /\ server.file \in Names /\ c2s[c] # <<>>
           /\ Written(Head(c2s[c])) \in Seq(S)
           /\ dir' \in [Names -> Stored(S)]
           /\ dir'[server.file] = dir[server.file] \o Written(Head(c2s[c]))
           /\ dir'[server.file] \in Seq(S)
           /\ c2s' = [c2s EXCEPT ![c] = Tail(c2s[c])]
           /\ c2s' \in [Clients -> Seq(Seq(S))]
           /\ server' \in ServerState /\ s2c' \in [Clients -> Seq(Seq(S))]
           /\ \/ Len(Written(Head(c2s[c]))) = BUFSIZE /\ UNCHANGED <<server, s2c>>
              \/ /\ Len(Written(Head(c2s[c]))) # BUFSIZE
                 /\ server'.pc = "cmd" /\ server'.file = server.file
                 /\ Answer(c, <<<<Reply("written")>>>>)
           /\ UNCHANGED <<client, local, pipes, commands, faults, trouble>>
<1> DEFINE q == Written(Head(c2s[c]))
<1>1. /\ server.pc = "put" /\ c2s[c] # <<>>
      /\ c2s' = [c2s EXCEPT ![c] = Tail(c2s[c])]
      /\ dir' = [dir EXCEPT ![server.file] = dir[server.file] \o q]
      /\ \/ Len(q) = BUFSIZE /\ UNCHANGED <<server, s2c>>
         \/ /\ Len(q) # BUFSIZE
            /\ server' = [server EXCEPT !.pc = "cmd"]
            /\ Answer(c, <<<<Reply("written")>>>>)
      /\ UNCHANGED <<client, local, pipes, commands, faults, trouble>>
    BY DEF PutChunk
<1>2. c2s \in [Clients -> Seq(Seq(S))] /\ c2s[c] \in Seq(Seq(S))
    BY DEF DataInv
<1>3. Head(c2s[c]) \in Seq(S) /\ Tail(c2s[c]) \in Seq(Seq(S))
    BY <1>1, <1>2, QueueTypes
<1>4. q \in Seq(S)
    BY <1>3, WrittenType
<1> HIDE DEF q
<1>5. server \in ServerState /\ server.file \in Names
    BY DEF ControlInv, ServerState
<1>6. dir[server.file] \in Seq(S) /\ dir \in [Names -> Stored(S)]
    BY <1>1 DEF DataInv
<1>7. dir[server.file] \o q \in Seq(S)
    BY <1>4, <1>6, ConcatProperties
<1>8. /\ dir' \in [Names -> Stored(S)]
      /\ dir'[server.file] = dir[server.file] \o q
    BY <1>1, <1>5, <1>6, <1>7 DEF Stored
<1>9. c2s' \in [Clients -> Seq(Seq(S))]
    BY <1>1, <1>2, <1>3
<1>10. CASE Len(q) = BUFSIZE /\ UNCHANGED <<server, s2c>>
    BY <1>1, <1>4, <1>5, <1>7, <1>8, <1>9, <1>10 DEF q, DataInv
<1>11. CASE /\ Len(q) # BUFSIZE
            /\ server' = [server EXCEPT !.pc = "cmd"]
            /\ Answer(c, <<<<Reply("written")>>>>)
    <2>1. s2c' \in [Clients -> Seq(Seq(S))]
        BY <1>11, AnswersAre, ReplyTypes, AnswerTypes
    <2>2. server' \in ServerState /\ server'.pc = "cmd" /\ server'.file = server.file
        BY <1>5, <1>11 DEF ServerState
    <2>3. QED
        BY <1>1, <1>4, <1>5, <1>7, <1>8, <1>9, <1>11, <2>1, <2>2 DEF q
<1>12. QED
    BY <1>1, <1>10, <1>11

LEMMA PutChunkTypes ==
    ASSUME NEW S, Carries(S), ControlInv, DataInv(S), NEW c \in Clients, PutChunk(c)
    PROVE  ControlInv' /\ DataInv(S)'
<1>1. /\ dir' \in [Names -> Stored(S)] /\ dir'[server.file] \in Seq(S)
      /\ c2s' \in [Clients -> Seq(Seq(S))] /\ s2c' \in [Clients -> Seq(Seq(S))]
      /\ server' \in ServerState /\ server'.file = server.file
      /\ UNCHANGED <<client, local, pipes, commands, faults, trouble>>
    BY PutChunkFacts
<1>2. QED
    BY <1>1 DEF ControlInv, DataInv

LEMMA CrashTypes ==
    ASSUME NEW S, ControlInv, DataInv(S), NEW c \in Clients, Crash(c)
    PROVE  ControlInv' /\ DataInv(S)'
<1>1. /\ c2s' = [c2s EXCEPT ![c] = Tail(c2s[c])] /\ c2s[c] # <<>>
      /\ server' = [server EXCEPT !.pc = "down"]
      /\ UNCHANGED <<client, local, dir, pipes, s2c, commands, faults, trouble>>
    BY DEF Crash
<1>2. c2s \in [Clients -> Seq(Seq(S))] /\ c2s[c] \in Seq(Seq(S))
    BY DEF DataInv
<1>3. Tail(c2s[c]) \in Seq(Seq(S))
    BY <1>1, <1>2, QueueTypes
<1>4. c2s' \in [Clients -> Seq(Seq(S))]
    BY <1>1, <1>2, <1>3
<1>5. server' \in ServerState /\ server'.pc = "down"
    BY <1>1 DEF ControlInv, ServerState
<1>6. QED
    BY <1>1, <1>4, <1>5 DEF ControlInv, DataInv

LEMMA EndServerTypes ==
    ASSUME NEW S, ControlInv, DataInv(S), NEW c \in Clients, EndServer(c)
    PROVE  ControlInv' /\ DataInv(S)' /\ "nameless" \in trouble'
<1>1. /\ c2s' = [c2s EXCEPT ![c] = Tail(c2s[c])] /\ c2s[c] # <<>>
      /\ server' = [server EXCEPT !.pc = "down"]
      /\ trouble' = trouble \cup {"nameless"}
      /\ UNCHANGED <<client, local, dir, pipes, s2c, commands, faults>>
    BY DEF EndServer
<1>2. c2s \in [Clients -> Seq(Seq(S))] /\ c2s[c] \in Seq(Seq(S))
    BY DEF DataInv
<1>3. Tail(c2s[c]) \in Seq(Seq(S))
    BY <1>1, <1>2, QueueTypes
<1>4. c2s' \in [Clients -> Seq(Seq(S))]
    BY <1>1, <1>2, <1>3
<1>5. server' \in ServerState /\ server'.pc = "down"
    BY <1>1 DEF ControlInv, ServerState
<1>6. QED
    BY <1>1, <1>4, <1>5 DEF ControlInv, DataInv, Troubles

LEMMA FaultTypes ==
    ASSUME NEW S, ControlInv, DataInv(S), Fault
    PROVE  ControlInv' /\ DataInv(S)' /\ "fault" \in trouble'
<1>1. /\ faults' = faults + 1 /\ trouble' = trouble \cup {"fault"}
      /\ UNCHANGED <<client, local, server, dir, pipes, commands>>
    BY DEF Fault
<1>2. /\ c2s \in [Clients -> Seq(Seq(S))] /\ s2c \in [Clients -> Seq(Seq(S))]
      /\ \A c \in Clients : c2s[c] \in Seq(Seq(S)) /\ s2c[c] \in Seq(Seq(S))
    BY DEF DataInv
<1>3. PICK c \in Clients :
        \/ \E Q \in Disturbed(c2s[c]) : c2s' = [c2s EXCEPT ![c] = Q] /\ UNCHANGED s2c
        \/ \E Q \in Disturbed(s2c[c]) : s2c' = [s2c EXCEPT ![c] = Q] /\ UNCHANGED c2s
    BY DEF Fault
<1>4. c2s' \in [Clients -> Seq(Seq(S))] /\ s2c' \in [Clients -> Seq(Seq(S))]
    <2>1. ASSUME NEW Q \in Disturbed(c2s[c]), c2s' = [c2s EXCEPT ![c] = Q], UNCHANGED s2c
          PROVE  c2s' \in [Clients -> Seq(Seq(S))] /\ s2c' \in [Clients -> Seq(Seq(S))]
        BY <1>2, <2>1, DisturbedType
    <2>2. ASSUME NEW Q \in Disturbed(s2c[c]), s2c' = [s2c EXCEPT ![c] = Q], UNCHANGED c2s
          PROVE  c2s' \in [Clients -> Seq(Seq(S))] /\ s2c' \in [Clients -> Seq(Seq(S))]
        BY <1>2, <2>2, DisturbedType
    <2>3. QED
        BY <1>3, <2>1, <2>2
<1>5. QED
    BY <1>1, <1>4 DEF ControlInv, DataInv, Troubles

\* The lines that are typed are commands.
LEMMA LinesAre ==
    \A c \in Clients : Lines[c] \subseteq Commands
    BY FilesAssumption

LEMMA NextTypes ==
    ASSUME NEW S, Carries(S), ControlInv, DataInv(S), [Next]_vars
    PROVE  ControlInv' /\ DataInv(S)'
<1>1. ASSUME NEW c \in Clients, NEW cmd \in Commands,
             Exit(c, cmd) \/ SendLine(c, cmd) \/ Put(c, cmd) \/ Get(c, cmd)
      PROVE  ControlInv' /\ DataInv(S)'
    BY <1>1, LineTypes, PutTypes, GetTypes
<1>2. ASSUME NEW c \in Clients, Serve(c)
      PROVE  ControlInv' /\ DataInv(S)'
    BY <1>2, LsTypes, StartPutTypes, PutChunkTypes, DeleteTypes, ServeGetTypes,
       UnknownTypes, CrashTypes, EndServerTypes DEF Serve
<1>3. ASSUME NEW c \in Clients, GetChunk(c) \/ GetReply(c)
      PROVE  ControlInv' /\ DataInv(S)'
    BY <1>3, ReceiveTypes
<1>4. CASE UNCHANGED vars
    BY <1>4 DEF vars, ControlInv, DataInv
<1>5. QED
    BY <1>1, <1>2, <1>3, <1>4, FaultTypes, LinesAre DEF Next

-----------------------------------------------------------------------------
(* The start, and the type theorem.                                        *)

LEMMA InitTypes ==
    ASSUME NEW S, Init,
           \A s \in Starts : /\ s.local \in [Clients -> [Names -> Stored(S)]]
                             /\ s.dir \in [Names -> Stored(S)]
    PROVE  ControlInv /\ DataInv(S)
<1>1. <<"other", NoName>> \in Commands /\ NoName \in Names
    BY FilesAssumption DEF NoName, Commands, Bare
<1>2. client \in [Clients -> ClientState] /\ \A c \in Clients : client[c].pc = "menu"
    BY <1>1 DEF Init, ClientState
<1>3. server \in ServerState /\ server.pc = "cmd"
    BY <1>1 DEF Init, ServerState
<1>4. local \in [Clients -> [Names -> Stored(S)]] /\ dir \in [Names -> Stored(S)]
    BY DEF Init
<1>5. <<>> \in Seq(Seq(S))
    BY EmptySeq
<1>6. c2s \in [Clients -> Seq(Seq(S))] /\ s2c \in [Clients -> Seq(Seq(S))]
    BY <1>5 DEF Init
<1>7. pipes \in 0..MaxPipes /\ commands \in Nat /\ faults \in Nat
      /\ trouble \in SUBSET Troubles
    BY BoundsAssumption DEF Init
<1>8. QED
    BY <1>2, <1>3, <1>4, <1>6, <1>7 DEF ControlInv, DataInv

\* Every variable has its type, for any number of clients, files and buffers.
THEOREM TypeCorrect == Spec => []TypeOK
<1>1. Carries(Byte)
    BY DEF Carries, Byte, Reply, Data
<1>2. Init => ControlInv /\ DataInv(Byte)
    <2>1. Stored(Byte) = File
        BY DEF Stored, File
    <2>2. \A s \in Starts : /\ s.local \in [Clients -> [Names -> Stored(Byte)]]
                            /\ s.dir \in [Names -> Stored(Byte)]
        BY <2>1, FilesAssumption
    <2>3. QED
        BY <2>2, InitTypes
<1>3. ControlInv /\ DataInv(Byte) /\ [Next]_vars => ControlInv' /\ DataInv(Byte)'
    BY <1>1, NextTypes
<1>4. ControlInv /\ DataInv(Byte) => TypeOK
    BY DEF ControlInv, DataInv, TypeOK, Stored, File
<1>5. QED
    BY <1>2, <1>3, <1>4, PTL DEF Spec

-----------------------------------------------------------------------------
(* The protocol.  As long as nothing happens for which it has no provision *)
(* each client is in one of four stages of its command, and what is under  *)
(* way is what is left of it.                                              *)

\* Bytes that are written as they are.
Plain == Byte \ {End}

From(Q, k) == SubSeq(Q, k, Len(Q))
Upto(q, k) == SubSeq(q, 1, (k - 1) * BUFSIZE)

\* The file of the command, on the client and on the server.
Here(c)  == local[c][client[c].cmd[2]]
There(c) == dir[client[c].cmd[2]]

Active(c)  == client[c].pc \in {"get", "reply"}
Empty(c)   == c2s[c] = <<>> /\ s2c[c] = <<>>
Asked(c)   == c2s[c] = <<<<client[c].cmd>>>> /\ s2c[c] = <<>>
Got(c, w)  == c2s[c] = <<>> /\ s2c[c] = <<<<Reply(w)>>>>

\* At the prompt, or gone.
Quiet(c) == ~Active(c) /\ Empty(c)

\* A command of one line, and its reply.
Asking(c) ==
    /\ client[c].pc = "reply" /\ client[c].cmd[1] \in {"ls", "delete", "other"}
    /\ Asked(c) \/ \E w \in AnswersTo(client[c].cmd[1]) : Got(c, w)

\* A put: the server has not read the line yet; it has k - 1 datagrams; it has all.
PutAsked(c) ==
    /\ server.pc = "cmd"
    /\ c2s[c] = <<<<client[c].cmd>>>> \o Chunks(Here(c)) /\ s2c[c] = <<>>
PutGoes(c) ==
    /\ server.pc = "put" /\ server.file = client[c].cmd[2] /\ s2c[c] = <<>>
    /\ \E k \in 1..Len(Chunks(Here(c))) :
        c2s[c] = From(Chunks(Here(c)), k) /\ There(c) = Upto(Here(c), k)
PutDone(c) == server.pc = "cmd" /\ Got(c, "written") /\ There(c) = Here(c)
Putting(c) ==
    /\ client[c].pc = "reply" /\ client[c].cmd[1] = "put" /\ Here(c) \in Seq(Plain)
    /\ PutAsked(c) \/ PutGoes(c) \/ PutDone(c)

\* A get: the client has k - 1 datagrams of the file D, which may since have
\* been deleted.
GetGoes(c) ==
    /\ c2s[c] = <<>>
    /\ \E D \in Seq(Plain) : \E k \in 1..Len(Chunks(D)) :
        /\ s2c[c] = Append(From(Chunks(D), k), <<Reply("read")>>)
        /\ Here(c) = Upto(D, k) /\ There(c) \in {D, NoFile}
Getting(c) ==
    /\ client[c].cmd[1] = "get"
    /\ \/ client[c].pc = "get" /\ Here(c) = <<>> /\ (Asked(c) \/ Got(c, "get"))
       \/ client[c].pc = "get" /\ GetGoes(c)
       \/ client[c].pc = "reply" /\ Got(c, "read") /\ There(c) \in {Here(c), NoFile}
       \/ client[c].pc = "reply" /\ Empty(c)

Stage(c) == Quiet(c) \/ Asking(c) \/ Putting(c) \/ Getting(c)

\* A put is alone, and a server that expects its datagrams gets them.
Alone ==
    \A c, d \in Clients :
        c # d /\ Active(c) /\ Active(d) => client[c].cmd[1] # "put"
Receives ==
    /\ server.pc # "down"
    /\ server.pc = "put" => \E c \in Clients : Putting(c) /\ PutGoes(c)
Protocol == (\A c \in Clients : Stage(c)) /\ Alone /\ Receives

LEMMA PlainCarries == Carries(Plain)
<1>1. \A cmd \in Commands : cmd # End
    BY CommandTypes DEF End, Filed, Bare
<1>2. \A w \in Answers : Reply(w) # End
    BY DEF Reply, End
<1>3. Commands \subseteq Byte /\ \A w \in Answers : Reply(w) \in Byte
    BY DEF Byte, Reply
<1>4. Data(0) \in Byte /\ Data(0) # End
    BY DEF Byte, Data, End
<1>5. QED
    BY <1>1, <1>2, <1>3, <1>4 DEF Carries, Plain

LEMMA WrittenPlain ==
    ASSUME NEW q \in Seq(Plain)
    PROVE  Written(q) = q
<1>1. q # <<>> => Last(q) \in Plain
    <2>1. q # <<>> => Len(q) \in 1..Len(q)
        BY LenProperties, EmptySeq
    <2>2. QED
        BY <2>1, ElementOfSeq DEF Last
<1>2. QED
    BY <1>1 DEF Written, Plain

\* A transfer starts with the first chunk and with nothing written.
LEMMA TransferStart ==
    ASSUME NEW S, NEW q \in Seq(S)
    PROVE  /\ 1 \in 1..Len(Chunks(q))
           /\ From(Chunks(q), 1) = Chunks(q) /\ Upto(q, 1) = <<>>
<1>1. Chunks(q) \in Seq(Seq(S)) /\ Len(Chunks(q)) \in Nat \ {0}
    BY ChunkFacts
<1>2. From(Chunks(q), 1) = Chunks(q)
    BY <1>1, SubSeqFull DEF From
<1>3. Upto(q, 1) = <<>>
    <2>1. (1 - 1) * BUFSIZE = 0
        BY BoundsAssumption
    <2>2. SubSeq(q, 1, 0) = <<>>
        BY SubSeqEmpty
    <2>3. QED
        BY <2>1, <2>2 DEF Upto
<1>4. QED
    BY <1>1, <1>2, <1>3

\* One datagram of a transfer: what is left begins with chunk k, which takes
\* what has been written from its start to the next chunk or to the end.
Piece(q, k, C, R) ==
    /\ Head(From(Chunks(q), k)) = C /\ Tail(From(Chunks(q), k)) = R
    /\ \/ /\ Len(C) = BUFSIZE /\ k + 1 \in 1..Len(Chunks(q))
          /\ R = From(Chunks(q), k + 1)
          /\ Upto(q, k) \o C = Upto(q, k + 1)
       \/ Len(C) # BUFSIZE /\ R = <<>> /\ Upto(q, k) \o C = q

LEMMA Transfer ==
    ASSUME NEW S, NEW q \in Seq(S), NEW k \in 1..Len(Chunks(q))
    PROVE  /\ From(Chunks(q), k) \in Seq(Seq(S)) /\ From(Chunks(q), k) # <<>>
           /\ \E C \in Seq(S), R \in Seq(Seq(S)) : Piece(q, k, C, R)
<1> DEFINE C == Chunks(q)
           n == Len(C)
           m == (k - 1) * BUFSIZE
           e == Bound(q, k)
<1>1. /\ C \in Seq(Seq(S)) /\ n \in Nat \ {0}
      /\ C[k] = SubSeq(q, m + 1, e) /\ m \in 0..Len(q) /\ e \in m..Len(q)
      /\ Len(C[k]) = e - m
      /\ Len(C[k]) = BUFSIZE <=> k < n
    BY ChunkFacts
<1>2. Len(q) \in Nat /\ BUFSIZE \in Nat \ {0} /\ k \in Nat /\ k \in 1..n
    BY <1>1, LenProperties, BoundsAssumption
<1> HIDE DEF C, n, m, e
<1>3. C[k] \in Seq(S)
    BY <1>1, <1>2, ElementOfSeq DEF n
<1>4. Head(SubSeq(C, k, n)) = C[k] /\ Tail(SubSeq(C, k, n)) = SubSeq(C, k + 1, n)
    <2>1. n \in k..Len(C) /\ k \in 1..Len(C)
        BY <1>1, <1>2 DEF n
    <2>2. QED
        BY <1>1, <2>1, HeadTailOfSubSeq
<1>5. SubSeq(C, k, n) \in Seq(Seq(S)) /\ SubSeq(C, k, n) # <<>>
    <2>1. \A i \in k..n : C[i] \in Seq(S)
        BY <1>1, <1>2, ElementOfSeq DEF n
    <2>2. k \in Int /\ n \in Int
        BY <1>1, <1>2
    <2>3. SubSeq(C, k, n) \in Seq(Seq(S)) /\ Len(SubSeq(C, k, n)) = IF k <= n THEN n - k + 1 ELSE 0
        BY <2>1, <2>2, SubSeqProperties
    <2>4. Len(SubSeq(C, k, n)) # 0
        BY <1>1, <1>2, <2>3
    <2>5. Len(<<>>) = 0
        OBVIOUS
    <2>6. QED
        BY <2>3, <2>4, <2>5, Zenon
<1>6. k = n => SubSeq(C, k + 1, n) = <<>>
    BY <1>1, <1>2, SubSeqEmpty
<1>7. SubSeq(q, 1, m) \o C[k] = SubSeq(q, 1, e)
    <2>1. 1 \in 1..Len(q) + 1 /\ m \in 1 - 1..Len(q) /\ e \in m..Len(q)
        BY <1>1, <1>2
    <2>2. QED
        BY <1>1, <2>1, ConcatAdjacentSubSeq
<1>8. k < n => e = k * BUFSIZE
    <2>1. SUFFICES ASSUME k < n
                   PROVE  e = k * BUFSIZE
        OBVIOUS
    <2>2. k - 1 \in Nat /\ k - 1 + 1 = k
        BY <1>2
    <2>3. k * BUFSIZE = m + BUFSIZE
        BY <2>2, Product DEF m
    <2>4. e - m = BUFSIZE
        BY <1>1, <2>1
    <2>5. QED
        BY <1>1, <1>2, <2>3, <2>4
<1>9. k = n => e = Len(q)
    <2>1. SUFFICES ASSUME k = n
                   PROVE  e = Len(q)
        OBVIOUS
    <2>2. k - 1 \in Nat /\ k - 1 + 1 = k
        BY <1>2
    <2>3. k * BUFSIZE = m + BUFSIZE
        BY <2>2, Product DEF m
    <2>4. e = IF k * BUFSIZE < Len(q) THEN k * BUFSIZE ELSE Len(q)
        BY DEF e, Bound
    <2>5. e - m # BUFSIZE
        BY <1>1, <2>1
    <2>6. QED
        BY <1>1, <1>2, <2>3, <2>4, <2>5
<1>10. SubSeq(q, 1, Len(q)) = q
    BY SubSeqFull
<1>11. /\ From(C, k) = SubSeq(C, k, n) /\ From(C, k + 1) = SubSeq(C, k + 1, n)
       /\ Upto(q, k) = SubSeq(q, 1, m)
       /\ Upto(q, k + 1) = SubSeq(q, 1, k * BUFSIZE)
    <2>1. From(C, k) = SubSeq(C, k, n)
        BY DEF From, n
    <2>2. From(C, k + 1) = SubSeq(C, k + 1, n)
        BY DEF From, n
    <2>3. Upto(q, k) = SubSeq(q, 1, m)
        BY Zenon DEF Upto, m
    <2>4. Upto(q, k + 1) = SubSeq(q, 1, k * BUFSIZE)
        <3>1. \A i : i - 1 = k => Upto(q, i) = SubSeq(q, 1, k * BUFSIZE)
            BY Zenon DEF Upto
        <3>2. k + 1 - 1 = k
            BY <1>2
        <3>3. QED
            BY <3>1, <3>2
    <2>5. QED
        BY <2>1, <2>2, <2>3, <2>4, Zenon
<1>12. /\ From(C, k) \in Seq(Seq(S)) /\ From(C, k) # <<>>
       /\ Head(From(C, k)) = C[k] /\ C[k] \in Seq(S)
       /\ Tail(From(C, k)) = From(C, k + 1)
       /\ Tail(From(C, k)) \in Seq(Seq(S))
    BY <1>3, <1>4, <1>5, <1>11, QueueTypes
<1>13. CASE k < n
    <2>1. k + 1 \in 1..n /\ Len(C[k]) = BUFSIZE
        BY <1>1, <1>2, <1>13
    <2>2. Upto(q, k) \o C[k] = Upto(q, k + 1)
        BY <1>7, <1>8, <1>11, <1>13
    <2>3. QED
        BY <1>12, <2>1, <2>2, Zenon DEF C, n, Piece
<1>14. CASE k = n
    <2>1. Upto(q, k) \o C[k] = q /\ Tail(From(C, k)) = <<>>
        BY <1>6, <1>7, <1>9, <1>10, <1>11, <1>12, <1>14
    <2>2. Len(C[k]) # BUFSIZE
        BY <1>1, <1>2, <1>14
    <2>3. QED
        BY <1>12, <2>1, <2>2, Zenon DEF C, n, Piece
<1>15. k < n \/ k = n
    BY <1>1, <1>2
<1>16. QED
    BY <1>13, <1>14, <1>15, Zenon

-----------------------------------------------------------------------------
(* The stages are kept: by the steps of the server for a client.           *)

LEMMA StageTypes ==
    ASSUME ControlInv, DataInv(Plain), NEW c \in Clients
    PROVE  /\ client[c] \in ClientState /\ client[c].cmd \in Commands
           /\ client[c].pc \in {"menu", "get", "reply", "gone"}
           /\ client[c].cmd[2] \in Names
           /\ Here(c) \in Stored(Plain) /\ There(c) \in Stored(Plain)
           /\ c2s[c] \in Seq(Seq(Plain)) /\ s2c[c] \in Seq(Seq(Plain))
<1>1. client[c] \in ClientState
    BY DEF ControlInv
<1>2. client[c].cmd \in Commands /\ client[c].pc \in {"menu", "get", "reply", "gone"}
    BY <1>1 DEF ClientState
<1>3. client[c].cmd[2] \in Names
    BY <1>2, CommandTypes
<1>4. QED
    BY <1>1, <1>2, <1>3 DEF DataInv, Here, There

\* Sequences of one element, and with one element more.
LEMMA One ==
    \A x : /\ Head(<<x>>) = x /\ Tail(<<x>>) = <<>> /\ Len(<<x>>) = 1
           /\ <<x>> # <<>> /\ <<>> \o <<x>> = <<x>> /\ <<x>>[1] = x
    OBVIOUS

LEMMA OneMore ==
    ASSUME NEW S, NEW x \in S, NEW q \in Seq(S)
    PROVE  /\ Head(<<x>> \o q) = x /\ Tail(<<x>> \o q) = q /\ <<x>> \o q # <<>>
           /\ <<>> \o q = q
<1>1. <<x>> \in Seq(S) /\ Len(<<x>>) = 1 /\ <<x>>[1] = x
    OBVIOUS
<1>2. /\ <<x>> \o q \in Seq(S) /\ Len(<<x>> \o q) = 1 + Len(q)
      /\ \A i \in 1..1 + Len(q) : (<<x>> \o q)[i] = IF i <= 1 THEN x ELSE q[i - 1]
    BY <1>1, ConcatProperties
<1>3. Len(q) \in Nat
    BY LenProperties
<1>4. <<x>> \o q # <<>> /\ (<<x>> \o q)[1] = x
    BY <1>2, <1>3
<1>5. /\ Head(<<x>> \o q) = (<<x>> \o q)[1]
      /\ Tail(<<x>> \o q) \in Seq(S) /\ Len(Tail(<<x>> \o q)) = Len(<<x>> \o q) - 1
      /\ \A i \in 1..Len(Tail(<<x>> \o q)) : Tail(<<x>> \o q)[i] = (<<x>> \o q)[i + 1]
    BY <1>2, <1>4, HeadTailProperties
<1>6. Tail(<<x>> \o q) = q
    <2>1. Len(Tail(<<x>> \o q)) = Len(q)
        BY <1>2, <1>3, <1>5
    <2>2. \A i \in 1..Len(q) : Tail(<<x>> \o q)[i] = q[i]
        BY <1>2, <1>3, <1>5
    <2>3. QED
        BY <1>5, <2>1, <2>2, SeqEqual
<1>7. QED
    BY <1>4, <1>5, <1>6, ConcatEmptySeq

\* The server can take a command from a client only at the start of its stage.
LEMMA CommandStage ==
    ASSUME ControlInv, DataInv(Plain), NEW c \in Clients, Stage(c), NEW op, Command(c, op)
    PROVE  /\ op = client[c].cmd[1] /\ Named(c) = client[c].cmd[2] /\ s2c[c] = <<>>
           /\ server.pc = "cmd"
           /\ UNCHANGED <<client, local, commands, faults>>
           /\ c2s' = [c2s EXCEPT ![c] = Tail(c2s[c])]
           /\ c2s'[c] = Tail(c2s[c])
           /\ \/ /\ client[c].pc = "reply" /\ op \in {"ls", "delete", "other"}
                 /\ c2s'[c] = <<>>
              \/ /\ client[c].pc = "reply" /\ op = "put"
                 /\ Here(c) \in Seq(Plain) /\ c2s'[c] = Chunks(Here(c))
              \/ /\ client[c].pc = "get" /\ op = "get"
                 /\ Here(c) = <<>> /\ c2s'[c] = <<>>
<1>1. /\ server.pc = "cmd" /\ c2s[c] # <<>>
      /\ Head(c2s[c])[1][1] = op
      /\ c2s' = [c2s EXCEPT ![c] = Tail(c2s[c])]
      /\ UNCHANGED <<client, local, commands, faults>>
    BY DEF Command
<1>2. /\ client[c].cmd \in Commands
      /\ c2s \in [Clients -> Seq(Seq(Plain))]
    BY StageTypes DEF DataInv
<1>3. c2s'[c] = Tail(c2s[c])
    BY <1>1, <1>2
<1>4. ASSUME Head(c2s[c]) = <<client[c].cmd>>
      PROVE  op = client[c].cmd[1] /\ Named(c) = client[c].cmd[2]
    BY <1>1, <1>4, One DEF Named
<1>5. ASSUME Asked(c)
      PROVE  /\ op = client[c].cmd[1] /\ Named(c) = client[c].cmd[2]
             /\ s2c[c] = <<>> /\ c2s'[c] = <<>>
    BY <1>3, <1>4, <1>5, One DEF Asked
<1>6. CASE Asking(c)
    <2>1. Asked(c) /\ client[c].pc = "reply" /\ client[c].cmd[1] \in {"ls", "delete", "other"}
        BY <1>1, <1>6, Zenon DEF Asking, Got
    <2>2. QED
        BY <1>1, <1>3, <1>5, <2>1
<1>7. CASE Putting(c)
    <2>1. /\ client[c].pc = "reply" /\ client[c].cmd[1] = "put" /\ Here(c) \in Seq(Plain)
          /\ c2s[c] = <<<<client[c].cmd>>>> \o Chunks(Here(c)) /\ s2c[c] = <<>>
        BY <1>1, <1>7 DEF Putting, PutAsked, PutGoes, PutDone, Got
    <2>2. <<client[c].cmd>> \in Seq(Plain) /\ Chunks(Here(c)) \in Seq(Seq(Plain))
        BY <1>2, <2>1, PlainCarries, RequestTypes, ChunkFacts
    <2>3. Head(c2s[c]) = <<client[c].cmd>> /\ Tail(c2s[c]) = Chunks(Here(c))
        BY <2>1, <2>2, OneMore
    <2>4. QED
        BY <1>1, <1>3, <1>4, <2>1, <2>3
<1>8. CASE Getting(c)
    <2>1. /\ client[c].pc = "get" /\ client[c].cmd[1] = "get" /\ Here(c) = <<>> /\ Asked(c)
        BY <1>1, <1>8 DEF Getting, GetGoes, Empty, Got
    <2>2. QED
        BY <1>1, <1>3, <1>5, <2>1
<1>9. ~Quiet(c)
    BY <1>1 DEF Quiet, Empty
<1>10. QED
    BY <1>6, <1>7, <1>8, <1>9 DEF Stage

\* The server answers a client that has no other answer under way.
LEMMA AnswerStage ==
    ASSUME DataInv(Plain), NEW c \in Clients, s2c[c] = <<>>,
           NEW Q \in Seq(Seq(Plain)), Answer(c, Q)
    PROVE  s2c'[c] = Q /\ \A d \in Clients \ {c} : s2c'[d] = s2c[d]
<1>1. s2c \in [Clients -> Seq(Seq(Plain))] /\ s2c' = [s2c EXCEPT ![c] = s2c[c] \o Q]
    BY DEF DataInv, Answer
<1>2. <<>> \o Q = Q
    BY ConcatEmptySeq
<1>3. QED
    BY <1>1, <1>2

\* What belongs to a client is not touched, or only what cannot matter to it:
\* the server is not concerned with it, and files may be deleted.
Rests(d) ==
    /\ client'[d] = client[d] /\ local'[d] = local[d]
    /\ c2s'[d] = c2s[d] /\ s2c'[d] = s2c[d]
    /\ Active(d) =>
        \/ UNCHANGED <<server, dir>>
        \/ client[d].cmd[1] # "put" /\ \A f \in Names : dir'[f] \in {dir[f], NoFile}

LEMMA RestingStage ==
    ASSUME ControlInv, DataInv(Plain), NEW d \in Clients, Stage(d), Rests(d)
    PROVE  Stage(d)' /\ (Putting(d) /\ PutGoes(d) => Putting(d)' /\ PutGoes(d)')
<1>1. /\ client'[d] = client[d] /\ local'[d] = local[d]
      /\ c2s'[d] = c2s[d] /\ s2c'[d] = s2c[d]
    BY DEF Rests
<1>2. /\ Here(d)' = Here(d) /\ (Active(d)' <=> Active(d)) /\ (Empty(d)' <=> Empty(d))
      /\ (Asked(d)' <=> Asked(d)) /\ \A w : Got(d, w)' <=> Got(d, w)
    BY <1>1 DEF Here, Active, Empty, Asked, Got
<1>3. client[d].cmd[2] \in Names
    BY StageTypes
<1>4. CASE Quiet(d)
    BY <1>2, <1>4 DEF Quiet, Stage, Putting, Active
<1>5. CASE Asking(d)
    BY <1>1, <1>2, <1>5, Zenon DEF Asking, Stage, Putting
<1>6. CASE Putting(d)
    <2>1. UNCHANGED <<server, dir>>
        BY <1>6 DEF Rests, Putting, Active
    <2>2. There(d)' = There(d)
        BY <1>1, <2>1 DEF There
    <2>3. /\ (PutAsked(d)' <=> PutAsked(d)) /\ (PutGoes(d)' <=> PutGoes(d))
          /\ (PutDone(d)' <=> PutDone(d))
        BY <1>1, <1>2, <2>1, <2>2 DEF PutAsked, PutGoes, PutDone
    <2>4. QED
        BY <1>1, <1>2, <1>6, <2>3 DEF Putting, Stage
<1>7. CASE Getting(d)
    <2>1. Active(d) => There(d)' \in {There(d), NoFile}
        BY <1>1, <1>3 DEF Rests, There
    <2>2. Active(d) /\ client[d].cmd[1] = "get"
        BY <1>7 DEF Getting, Active
    <2>3. GetGoes(d) => GetGoes(d)'
        BY <1>1, <1>2, <2>1, <2>2 DEF GetGoes
    <2>4. \A x : There(d) \in {x, NoFile} => There(d)' \in {x, NoFile}
        BY <2>1, <2>2
    <2>5. Getting(d)'
        BY <1>1, <1>2, <1>7, <2>3, <2>4 DEF Getting
    <2>6. ~Putting(d)
        BY <2>2 DEF Putting
    <2>7. QED
        BY <2>5, <2>6 DEF Stage
<1>8. QED
    BY <1>4, <1>5, <1>6, <1>7 DEF Stage

\* One client moves, or the server for it; what remains to be shown of the step.
LEMMA Kept ==
    ASSUME ControlInv, DataInv(Plain), Protocol, NEW c \in Clients,
           \A d \in Clients \ {c} : Rests(d),
           Stage(c)',
           \A d \in Clients \ {c} :
                Active(c)' /\ Active(d) => "put" \notin {client'[c].cmd[1], client[d].cmd[1]},
           server'.pc = "cmd" \/ (Putting(c)' /\ PutGoes(c)') \/ (server' = server /\ ~(Putting(c) /\ PutGoes(c)))
    PROVE  Protocol'
<1>1. \A d \in Clients \ {c} : client'[d] = client[d]
    BY DEF Rests
<1>2. \A d \in Clients \ {c} :
        Stage(d)' /\ (Putting(d) /\ PutGoes(d) => Putting(d)' /\ PutGoes(d)')
    <2>1. SUFFICES ASSUME NEW d \in Clients \ {c}
                   PROVE  Stage(d)' /\ (Putting(d) /\ PutGoes(d) => Putting(d)' /\ PutGoes(d)')
        BY Zenon
    <2>2. Stage(d) /\ Rests(d) /\ d \in Clients
        BY DEF Protocol
    <2>3. QED
        BY <2>2, RestingStage
<1>3. Alone'
    <2>1. SUFFICES ASSUME NEW d \in Clients, NEW e \in Clients,
                          d # e, Active(d)', Active(e)'
                   PROVE  client'[d].cmd[1] # "put"
        BY DEF Alone
    <2>2. \A b \in Clients \ {c} : Active(b)' => Active(b) /\ client'[b] = client[b]
        BY <1>1 DEF Active
    <2>3. CASE d = c
        BY <2>1, <2>2, <2>3
    <2>4. CASE e = c
        BY <2>1, <2>2, <2>4
    <2>5. CASE d # c /\ e # c
        BY <2>1, <2>2, <2>5 DEF Protocol, Alone
    <2>6. QED
        BY <2>3, <2>4, <2>5
<1>4. Receives'
    <2>1. CASE server'.pc = "cmd"
        BY <2>1 DEF Receives
    <2>2. CASE Putting(c)' /\ PutGoes(c)'
        BY <2>2 DEF Receives, PutGoes
    <2>3. CASE server' = server /\ ~(Putting(c) /\ PutGoes(c))
        <3>1. server.pc = "put" => \E d \in Clients \ {c} : Putting(d) /\ PutGoes(d)
            BY <2>3 DEF Protocol, Receives
        <3>2. server.pc = "put" => \E d \in Clients : Putting(d)' /\ PutGoes(d)'
            BY <1>2, <3>1
        <3>3. QED
            BY <2>3, <3>2 DEF Protocol, Receives
    <2>4. QED
        BY <2>1, <2>2, <2>3
<1>5. QED
    BY <1>2, <1>3, <1>4 DEF Protocol

\* The same when the clients do not move, and the server answers client c.
LEMMA KeptByServer ==
    ASSUME ControlInv, DataInv(Plain), Protocol, NEW c \in Clients, Active(c),
           UNCHANGED <<client, local>>,
           \A d \in Clients \ {c} : c2s'[d] = c2s[d] /\ s2c'[d] = s2c[d],
           \/ UNCHANGED dir
           \/ client[c].cmd[1] = "put"
           \/ \A f \in Names : dir'[f] \in {dir[f], NoFile},
           Stage(c)',
           server'.pc = "cmd" \/ (Putting(c)' /\ PutGoes(c)') \/ (server' = server /\ ~(Putting(c) /\ PutGoes(c))),
           client[c].cmd[1] # "put" => server' = server
    PROVE  Protocol'
<1>1. ASSUME NEW d \in Clients \ {c}, Active(d)
      PROVE  client[c].cmd[1] # "put" /\ client[d].cmd[1] # "put"
    BY <1>1 DEF Protocol, Alone
<1>2. \A d \in Clients \ {c} : Rests(d)
    BY <1>1 DEF Rests
<1>3. \A d \in Clients \ {c} :
        Active(c)' /\ Active(d) => "put" \notin {client'[c].cmd[1], client[d].cmd[1]}
    BY <1>1
<1>4. QED
    BY <1>2, <1>3, Kept

\* What the server answers is an answer to the command.
LEMMA AnswersRight ==
    /\ AnswersTo("put") = {"written"} /\ AnswersTo("get") = {"read"}
    /\ AnswersTo("ls") = {"listing"} /\ AnswersTo("other") = {"unknown"}
    /\ AnswersTo("delete") = {"deleted", "not deleted", "not there"}
    BY Zenon DEF AnswersTo

\* The server answers a command of one line.
LEMMA AskedAnswered ==
    ASSUME ControlInv, DataInv(Plain), Protocol, NEW c \in Clients,
           client[c].cmd[1] \in {"ls", "delete", "other"},
           Command(c, client[c].cmd[1]), NEW w \in AnswersTo(client[c].cmd[1]), w \in Answers,
           Answer(c, <<<<Reply(w)>>>>), UNCHANGED server,
           \A f \in Names : dir'[f] \in {dir[f], NoFile}
    PROVE  Protocol'
<1>1. /\ s2c[c] = <<>> /\ server.pc = "cmd" /\ UNCHANGED <<client, local, commands, faults>>
      /\ c2s' = [c2s EXCEPT ![c] = Tail(c2s[c])]
      /\ client[c].pc = "reply" /\ c2s'[c] = <<>>
    BY CommandStage DEF Protocol
<1>2. s2c'[c] = <<<<Reply(w)>>>> /\ \A d \in Clients \ {c} : s2c'[d] = s2c[d]
    BY <1>1, PlainCarries, ReplyTypes, AnswerStage
<1>3. \A d \in Clients \ {c} : c2s'[d] = c2s[d]
    BY <1>1 DEF DataInv
<1>4. Stage(c)'
    <2>1. client'[c] = client[c] /\ Got(c, w)'
        BY <1>1, <1>2 DEF Got
    <2>2. QED
        BY <1>1, <2>1, Zenon DEF Stage, Asking
<1>5. Active(c)
    BY <1>1 DEF Active
<1>6. server'.pc = "cmd" /\ server' = server
    BY <1>1
<1>7. QED
    BY <1>1, <1>2, <1>3, <1>4, <1>5, <1>6, KeptByServer

LEMMA LsKeeps ==
    ASSUME ControlInv, DataInv(Plain), Protocol, NEW c \in Clients, Ls(c), "limit" \notin trouble'
    PROVE  Protocol'
<1>1. Command(c, "ls") /\ CanOpen /\ UNCHANGED dir
    BY LimitFacts DEF Ls
<1>2. Answer(c, <<<<Reply("listing")>>>>) /\ UNCHANGED server
    BY <1>1 DEF Ls
<1>3. client[c].cmd[1] = "ls"
    BY <1>1, CommandStage DEF Protocol
<1>4. "listing" \in AnswersTo(client[c].cmd[1]) /\ "listing" \in Answers
    BY <1>3, AnswersRight, AnswersAre
<1>5. QED
    BY <1>1, <1>2, <1>3, <1>4, AskedAnswered

LEMMA DeleteKeeps ==
    ASSUME ControlInv, DataInv(Plain), Protocol, NEW c \in Clients, Delete(c)
    PROVE  Protocol'
<1>1. Command(c, "delete") /\ UNCHANGED server
    BY Zenon DEF Delete
<1>2. /\ dir' = [dir EXCEPT ![Named(c)] = NoFile] \/ dir' = dir
      /\ \E w \in AnswersTo("delete") : w \in Answers /\ Answer(c, <<<<Reply(w)>>>>)
    BY AnswersRight, AnswersAre, Zenon DEF Delete
<1>3. client[c].cmd[1] = "delete"
    BY <1>1, CommandStage DEF Protocol
<1>4. \A f \in Names : dir'[f] \in {dir[f], NoFile}
    BY <1>2 DEF DataInv
<1>5. PICK w \in AnswersTo(client[c].cmd[1]) : w \in Answers /\ Answer(c, <<<<Reply(w)>>>>)
    BY <1>2, <1>3, Zenon
<1>6. QED
    BY <1>1, <1>3, <1>4, <1>5, AskedAnswered

LEMMA UnknownKeeps ==
    ASSUME ControlInv, DataInv(Plain), Protocol, NEW c \in Clients, Unknown(c)
    PROVE  Protocol'
<1>1. PICK op \in {"other", "puts", "forget", "noget", "byte", "reply"} :
        Command(c, op) /\ Answer(c, <<<<Reply("unknown")>>>>) /\ UNCHANGED <<server, dir>>
    BY DEF Unknown
<1>2. op = client[c].cmd[1] /\ op = "other"
    BY <1>1, CommandStage DEF Protocol
<1>3. "unknown" \in AnswersTo(client[c].cmd[1]) /\ "unknown" \in Answers
    BY <1>2, AnswersRight, AnswersAre
<1>4. QED
    BY <1>1, <1>2, <1>3, AskedAnswered

LEMMA StartPutKeeps ==
    ASSUME ControlInv, DataInv(Plain), Protocol, NEW c \in Clients, StartPut(c),
           "limit" \notin trouble', "refused" \notin trouble'
    PROVE  Protocol'
<1>1. Command(c, "put")
    BY Zenon DEF StartPut
<1>2. CanOpen /\ Named(c) \notin Refused
    <2>1. trouble' = trouble \cup (IF CanOpen THEN {} ELSE {"limit"})
                             \cup (IF Named(c) \in Refused THEN {"refused"} ELSE {})
        BY Zenon DEF StartPut
    <2>2. QED
        BY <2>1
<1>3. /\ server' = [pc |-> "put", file |-> Named(c)]
      /\ dir' = [dir EXCEPT ![Named(c)] = <<>>] /\ UNCHANGED s2c
    BY <1>2, Zenon DEF StartPut
<1>4. /\ client[c].cmd[1] = "put" /\ Named(c) = client[c].cmd[2] /\ s2c[c] = <<>>
      /\ UNCHANGED <<client, local>> /\ client[c].pc = "reply"
      /\ c2s' = [c2s EXCEPT ![c] = Tail(c2s[c])]
      /\ Here(c) \in Seq(Plain) /\ c2s'[c] = Chunks(Here(c))
    BY <1>1, CommandStage DEF Protocol
<1>5. client[c].cmd[2] \in Names
    BY StageTypes
<1>6. dir'[client[c].cmd[2]] = <<>> /\ server'.pc = "put" /\ server'.file = client[c].cmd[2]
    BY <1>3, <1>4, <1>5 DEF DataInv
<1>7. /\ From(Chunks(Here(c)), 1) = Chunks(Here(c)) /\ Upto(Here(c), 1) = <<>>
      /\ 1 \in 1..Len(Chunks(Here(c)))
    BY <1>4, TransferStart
<1>8. Here(c)' = Here(c) /\ There(c)' = <<>> /\ client'[c] = client[c]
    BY <1>4, <1>6 DEF Here, There
<1>9. PutGoes(c)'
    BY <1>3, <1>4, <1>6, <1>7, <1>8 DEF PutGoes
<1>10. Putting(c)'
    BY <1>4, <1>8, <1>9 DEF Putting
<1>11. \A d \in Clients \ {c} : c2s'[d] = c2s[d] /\ s2c'[d] = s2c[d]
    BY <1>3, <1>4 DEF DataInv
<1>12. Active(c) /\ Stage(c)'
    BY <1>4, <1>10 DEF Active, Stage
<1>13. QED
    BY <1>4, <1>9, <1>10, <1>11, <1>12, KeptByServer

LEMMA ServeGetKeeps ==
    ASSUME ControlInv, DataInv(Plain), Protocol, NEW c \in Clients, ServeGet(c),
           "limit" \notin trouble'
    PROVE  Protocol'
<1>1. Command(c, "get") /\ UNCHANGED <<server, dir>>
    BY DEF ServeGet
<1>2. /\ client[c].cmd[1] = "get" /\ Named(c) = client[c].cmd[2] /\ s2c[c] = <<>>
      /\ server.pc = "cmd"
      /\ UNCHANGED <<client, local>> /\ client[c].pc = "get"
      /\ c2s' = [c2s EXCEPT ![c] = Tail(c2s[c])]
      /\ Here(c) = <<>> /\ c2s'[c] = <<>>
    BY <1>1, CommandStage DEF Protocol
<1>3. /\ Here(c)' = <<>> /\ There(c)' = dir[Named(c)] /\ client'[c] = client[c]
    BY <1>1, <1>2 DEF Here, There
<1>4. Getting(c)' /\ \A d \in Clients \ {c} : s2c'[d] = s2c[d]
    <2>1. CASE (~CanOpen \/ dir[Named(c)] = NoFile) /\ Answer(c, <<<<Reply("get")>>>>)
        <3>1. Answer(c, <<<<Reply("get")>>>>)
            BY <2>1, PlainCarries, ServeGetFacts
        <3>2. s2c'[c] = <<<<Reply("get")>>>> /\ \A d \in Clients \ {c} : s2c'[d] = s2c[d]
            BY <1>2, <3>1, AnswersAre, PlainCarries, ReplyTypes, AnswerStage
        <3>3. Got(c, "get")'
            BY <1>2, <3>2 DEF Got
        <3>4. QED
            BY <1>2, <1>3, <3>2, <3>3 DEF Getting
    <2>2. CASE /\ dir[Named(c)] # NoFile /\ dir[Named(c)] \in Seq(Plain)
               /\ Answer(c, Append(Chunks(dir[Named(c)]), <<Reply("read")>>))
               /\ Append(Chunks(dir[Named(c)]), <<Reply("read")>>) \in Seq(Seq(Plain))
        <3> DEFINE D == dir[Named(c)]
        <3>1. /\ D \in Seq(Plain) /\ Answer(c, Append(Chunks(D), <<Reply("read")>>))
              /\ Append(Chunks(D), <<Reply("read")>>) \in Seq(Seq(Plain))
              /\ There(c)' = D
            BY <1>3, <2>2
        <3> HIDE DEF D
        <3>2. /\ s2c'[c] = Append(Chunks(D), <<Reply("read")>>)
              /\ \A d \in Clients \ {c} : s2c'[d] = s2c[d]
            BY <1>2, <3>1, AnswerStage
        <3>3. /\ 1 \in 1..Len(Chunks(D))
              /\ From(Chunks(D), 1) = Chunks(D) /\ Upto(D, 1) = <<>>
            BY <3>1, TransferStart
        <3>4. GetGoes(c)'
            BY <1>2, <1>3, <3>1, <3>2, <3>3 DEF GetGoes
        <3>5. QED
            BY <1>2, <1>3, <3>2, <3>4 DEF Getting
    <2>3. QED
        BY <2>1, <2>2, PlainCarries, ServeGetFacts
<1>5. Active(c) /\ Stage(c)'
    BY <1>2, <1>4 DEF Active, Stage
<1>6. \A d \in Clients \ {c} : c2s'[d] = c2s[d]
    BY <1>2 DEF DataInv
<1>7. server'.pc = "cmd" /\ server' = server
    BY <1>1, <1>2
<1>8. QED
    BY <1>1, <1>2, <1>4, <1>5, <1>6, <1>7, KeptByServer

LEMMA PutChunkKeeps ==
    ASSUME ControlInv, DataInv(Plain), Protocol, NEW c \in Clients, PutChunk(c)
    PROVE  Protocol'
<1> DEFINE q == Here(c)
           n == Len(Chunks(q))
<1>1. /\ server.pc = "put" /\ c2s[c] # <<>>
      /\ dir' \in [Names -> Stored(Plain)]
      /\ dir'[server.file] = dir[server.file] \o Written(Head(c2s[c]))
      /\ c2s' = [c2s EXCEPT ![c] = Tail(c2s[c])]
      /\ \/ Len(Written(Head(c2s[c]))) = BUFSIZE /\ UNCHANGED <<server, s2c>>
         \/ /\ Len(Written(Head(c2s[c]))) # BUFSIZE
            /\ server'.pc = "cmd" /\ server'.file = server.file
            /\ Answer(c, <<<<Reply("written")>>>>)
      /\ UNCHANGED <<client, local, pipes, commands, faults, trouble>>
    BY PlainCarries, PutChunkFacts
<1>2. PICK e \in Clients : Putting(e) /\ PutGoes(e)
    BY <1>1 DEF Protocol, Receives
<1>3. Active(e) /\ client[e].cmd[1] = "put"
    BY <1>2 DEF Putting, Active
<1>4. Active(c)
    BY <1>1 DEF Protocol, Stage, Quiet, Empty, Asking, Putting, Getting, Active
<1>5. e = c
    BY <1>3, <1>4 DEF Protocol, Alone
<1>6. /\ client[c].pc = "reply" /\ client[c].cmd[1] = "put" /\ q \in Seq(Plain)
      /\ server.file = client[c].cmd[2] /\ s2c[c] = <<>>
    BY <1>2, <1>5 DEF Putting, PutGoes
<1>7. PICK k \in 1..n : c2s[c] = From(Chunks(q), k) /\ There(c) = Upto(q, k)
    BY <1>2, <1>5 DEF PutGoes
<1> HIDE DEF q, n
<1>8. PICK C \in Seq(Plain), R \in Seq(Seq(Plain)) : Piece(q, k, C, R)
    BY <1>6, <1>7, Transfer DEF n
<1>9. Written(Head(c2s[c])) = C
    BY <1>7, <1>8, WrittenPlain DEF Piece
<1>10. c2s'[c] = R /\ \A d \in Clients \ {c} : c2s'[d] = c2s[d]
    BY <1>1, <1>7, <1>8 DEF DataInv, Piece
<1>11. Here(c)' = q /\ There(c)' = Upto(q, k) \o C /\ client'[c] = client[c]
    <2>1. Here(c)' = Here(c) /\ client'[c] = client[c]
        BY <1>1 DEF Here
    <2>2. There(c)' = dir'[server.file] /\ There(c) = dir[server.file]
        BY <1>1, <1>6 DEF There
    <2>3. QED
        BY <1>1, <1>7, <1>9, <2>1, <2>2 DEF q
<1>12. CASE /\ Len(C) = BUFSIZE /\ k + 1 \in 1..Len(Chunks(q))
            /\ R = From(Chunks(q), k + 1)
            /\ Upto(q, k) \o C = Upto(q, k + 1)
    <2>1. UNCHANGED <<server, s2c>>
        BY <1>1, <1>9, <1>12
    <2>2. PutGoes(c)'
        <3>1. /\ server'.pc = "put" /\ server'.file = client'[c].cmd[2] /\ s2c'[c] = <<>>
              /\ k + 1 \in 1..Len(Chunks(Here(c)'))
              /\ c2s'[c] = From(Chunks(Here(c)'), k + 1) /\ There(c)' = Upto(Here(c)', k + 1)
            BY <1>1, <1>6, <1>10, <1>11, <1>12, <2>1
        <3>2. QED
            BY <3>1 DEF PutGoes
    <2>3. Putting(c)'
        BY <1>6, <1>11, <2>2 DEF Putting
    <2>4. Stage(c)' /\ \A d \in Clients \ {c} : s2c'[d] = s2c[d]
        BY <2>1, <2>3 DEF Stage
    <2>5. QED
        BY <1>1, <1>4, <1>6, <1>10, <2>2, <2>3, <2>4, KeptByServer
<1>13. CASE Len(C) # BUFSIZE /\ R = <<>> /\ Upto(q, k) \o C = q
    <2>1. server'.pc = "cmd" /\ Answer(c, <<<<Reply("written")>>>>)
        BY <1>1, <1>9, <1>13
    <2>2. s2c'[c] = <<<<Reply("written")>>>> /\ \A d \in Clients \ {c} : s2c'[d] = s2c[d]
        BY <1>6, <2>1, AnswersAre, PlainCarries, ReplyTypes, AnswerStage
    <2>3. PutDone(c)'
        BY <1>10, <1>11, <1>13, <2>1, <2>2 DEF PutDone, Got
    <2>4. Stage(c)'
        BY <1>6, <1>11, <2>3 DEF Putting, Stage
    <2>5. QED
        BY <1>1, <1>4, <1>6, <1>10, <2>1, <2>2, <2>4, KeptByServer
<1>14. QED
    BY <1>8, <1>12, <1>13 DEF Piece

LEMMA NoCrash ==
    ASSUME ControlInv, DataInv(Plain), Protocol, NEW c \in Clients
    PROVE  ~Crash(c)
<1>1. SUFFICES ASSUME server.pc = "cmd", c2s[c] # <<>>,
                      Head(c2s[c]) \in {<<>>, <<<<"cut", NoName>>>>}
               PROVE  FALSE
    BY DEF Crash
<1>2. ASSUME Head(c2s[c]) = <<client[c].cmd>>
      PROVE  client[c].cmd[1] = "cut"
    BY <1>1, <1>2, One
<1>3. ~Asking(c)
    <2>1. Asking(c) => Asked(c)
        BY <1>1, Zenon DEF Asking, Got
    <2>2. Asked(c) => Head(c2s[c]) = <<client[c].cmd>>
        BY One DEF Asked
    <2>3. QED
        BY <1>2, <2>1, <2>2 DEF Asking
<1>4. ~Getting(c)
    <2>1. Getting(c) => Asked(c) /\ client[c].cmd[1] = "get"
        BY <1>1 DEF Getting, Empty, Got, GetGoes
    <2>2. Asked(c) => Head(c2s[c]) = <<client[c].cmd>>
        BY One DEF Asked
    <2>3. QED
        BY <1>2, <2>1, <2>2
<1>5. ~PutAsked(c) \/ ~Putting(c)
    <2>1. SUFFICES ASSUME PutAsked(c), Putting(c)
                   PROVE  FALSE
        OBVIOUS
    <2>2. Here(c) \in Seq(Plain) /\ client[c].cmd \in Commands /\ client[c].cmd[1] = "put"
        BY <2>1, StageTypes DEF Putting
    <2>3. <<client[c].cmd>> \in Seq(Plain) /\ Chunks(Here(c)) \in Seq(Seq(Plain))
        BY <2>2, PlainCarries, RequestTypes, ChunkFacts
    <2>4. Head(c2s[c]) = <<client[c].cmd>>
        BY <2>1, <2>3, OneMore DEF PutAsked
    <2>5. QED
        BY <1>2, <2>2, <2>4
<1>6. Stage(c)
    BY DEF Protocol
<1>7. QED
    BY <1>1, <1>3, <1>4, <1>5, <1>6
       DEF Stage, Quiet, Empty, Putting, PutGoes, PutDone, Got

-----------------------------------------------------------------------------
(* The stages are kept by the steps of the clients.                        *)

\* A line that is typed as it should be begins a stage.
LEMMA LineKeeps ==
    ASSUME ControlInv, DataInv(Plain), Protocol, NEW c \in Clients, NEW cmd \in Commands,
           Exit(c, cmd) \/ SendLine(c, cmd) \/ Put(c, cmd) \/ Get(c, cmd), Calm'
    PROVE  Protocol'
<1>1. PICK k : Typed(c, cmd, k)
    BY DEF Exit, SendLine, Put, Get
<1>2. client[c].pc = "menu" /\ UNCHANGED <<server, dir, pipes, s2c, faults>>
    BY <1>1 DEF Typed
<1>3. ~Overlaps(c, cmd) /\ ~Misread(cmd) /\ cmd[1] \notin {"end", "cut"}
    BY <1>1, TypedFacts DEF Calm
<1>4. /\ cmd[1] \in {"get", "put", "delete", "ls", "exit", "other"} /\ cmd[2] \in Names
      /\ Class(cmd) = (IF cmd[1] \in {"exit", "put", "get"} THEN cmd[1] ELSE "send")
      /\ cmd[1] = "get" => cmd[2] \notin NoDirectory
    BY <1>3, CommandTypes DEF Misread, Filed, Bare
<1>5. c2s[c] = <<>> /\ s2c[c] = <<>> /\ ~Active(c)
    BY <1>2 DEF Protocol, Stage, Quiet, Empty, Active, Asking, Putting, Getting
<1>6. \A d \in Clients \ {c} : Active(d) => "put" \notin {cmd[1], client[d].cmd[1]}
    BY <1>3 DEF Overlaps, Active
<1>7. ~(Putting(c) /\ PutGoes(c))
    BY <1>2 DEF Putting
<1>8. ASSUME \A d \in Clients \ {c} : client'[d] = client[d] /\ local'[d] = local[d],
             \A d \in Clients \ {c} : c2s'[d] = c2s[d],
             client'[c].cmd = cmd, Stage(c)'
      PROVE  Protocol'
    <2>1. \A d \in Clients \ {c} : Rests(d)
        BY <1>2, <1>8 DEF Rests
    <2>2. \A d \in Clients \ {c} :
            Active(c)' /\ Active(d) => "put" \notin {client'[c].cmd[1], client[d].cmd[1]}
        BY <1>6, <1>8
    <2>3. QED
        BY <1>2, <1>7, <1>8, <2>1, <2>2, Kept
<1>9. ASSUME NEW Q \in Seq(Seq(Plain)), Send(c, Q)
      PROVE  c2s'[c] = Q /\ \A d \in Clients \ {c} : c2s'[d] = c2s[d]
    <2>1. c2s \in [Clients -> Seq(Seq(Plain))] /\ c2s' = [c2s EXCEPT ![c] = c2s[c] \o Q]
        BY <1>9 DEF DataInv, Send
    <2>2. <<>> \o Q = Q
        BY ConcatEmptySeq
    <2>3. QED
        BY <1>5, <2>1, <2>2
<1>10. <<cmd>> \in Seq(Plain) /\ <<<<cmd>>>> \in Seq(Seq(Plain))
    BY PlainCarries, RequestTypes
<1>11. CASE Exit(c, cmd)
    <2>1. Turns(c, "gone", cmd) /\ UNCHANGED <<local, c2s>>
        BY <1>11, WaitFacts DEF Exit
    <2>2. Stage(c)'
        BY <1>2, <1>5, <2>1 DEF Turns, Stage, Quiet, Active, Empty
    <2>3. QED
        BY <1>8, <2>1, <2>2 DEF Turns
<1>12. CASE SendLine(c, cmd)
    <2>1. Turns(c, "reply", cmd) /\ UNCHANGED local /\ Send(c, <<<<cmd>>>>) /\ Class(cmd) = "send"
        BY <1>3, <1>12, WaitFacts DEF SendLine, Typed, Line
    <2>2. cmd[1] \in {"ls", "delete", "other"}
        BY <1>4, <2>1
    <2>3. c2s'[c] = <<<<cmd>>>> /\ \A d \in Clients \ {c} : c2s'[d] = c2s[d]
        BY <1>9, <1>10, <2>1
    <2>4. Asked(c)'
        BY <1>2, <1>5, <2>1, <2>3 DEF Asked, Turns
    <2>5. Stage(c)'
        BY <2>1, <2>2, <2>4 DEF Turns, Stage, Asking
    <2>6. QED
        BY <1>8, <2>1, <2>3, <2>5 DEF Turns
<1>13. CASE Put(c, cmd)
    <2> DEFINE q == local[c][cmd[2]]
    <2>1. /\ UNCHANGED local /\ Class(cmd) = "put"
          /\ \/ q # NoFile /\ Wait(c, cmd, "reply") /\ Send(c, <<<<cmd>>>> \o Chunks(q))
             \/ UNCHANGED <<client, c2s>>
        BY <1>4, <1>13 DEF Put, Typed
    <2>2. cmd[1] = "put"
        BY <1>4, <2>1
    <2>3. CASE q # NoFile /\ Wait(c, cmd, "reply") /\ Send(c, <<<<cmd>>>> \o Chunks(q))
        <3>1. Turns(c, "reply", cmd)
            BY <2>3, WaitFacts
        <3>2. q \in Seq(Plain)
            BY <1>4, <2>3 DEF DataInv, Stored
        <3>3. <<<<cmd>>>> \o Chunks(q) \in Seq(Seq(Plain))
            BY <1>10, <3>2, ChunkFacts, QueueTypes
        <3>4. /\ c2s'[c] = <<<<cmd>>>> \o Chunks(q)
              /\ \A d \in Clients \ {c} : c2s'[d] = c2s[d]
            BY <1>9, <2>3, <3>3
        <3>5. Here(c)' = q
            BY <2>1, <3>1 DEF Here, Turns
        <3>6. server.pc = "cmd"
            <4>1. ASSUME server.pc = "put"
                  PROVE  FALSE
                <5>1. PICK e \in Clients : Putting(e)
                    BY <4>1 DEF Protocol, Receives
                <5>2. Active(e) /\ e # c
                    BY <1>2, <5>1 DEF Putting, Active
                <5>3. QED
                    BY <1>6, <2>2, <5>2
            <4>2. QED
                BY <4>1 DEF Protocol, Receives, ControlInv, ServerState
        <3>7. PutAsked(c)'
            BY <1>2, <1>5, <3>1, <3>4, <3>5, <3>6 DEF PutAsked, Turns
        <3>8. Stage(c)'
            BY <2>2, <3>1, <3>2, <3>5, <3>7 DEF Stage, Putting, Turns
        <3>9. QED
            BY <1>8, <2>1, <3>1, <3>4, <3>8 DEF Turns
    <2>4. CASE UNCHANGED <<client, c2s>>
        <3>1. \A d \in Clients : Rests(d)
            BY <1>2, <2>1, <2>4 DEF Rests
        <3>2. Stage(c)'
            BY <3>1, RestingStage DEF Protocol
        <3>3. \A d \in Clients \ {c} :
                Active(c)' /\ Active(d) => "put" \notin {client'[c].cmd[1], client[d].cmd[1]}
            BY <1>5, <2>4 DEF Active
        <3>4. QED
            BY <1>2, <1>7, <3>1, <3>2, <3>3, Kept
    <2>5. QED
        BY <2>1, <2>3, <2>4
<1>14. CASE Get(c, cmd)
    <2>1. /\ Class(cmd) = "get" /\ Send(c, <<<<cmd>>>>)
          /\ \/ Wait(c, cmd, "get") /\ local' = [local EXCEPT ![c][cmd[2]] = <<>>]
             \/ cmd[2] \in NoDirectory
        BY <1>4, <1>14 DEF Get, Typed
    <2>2. cmd[1] = "get" /\ cmd[2] \notin NoDirectory
        BY <1>4, <2>1
    <2>3. Turns(c, "get", cmd)
        BY <2>1, <2>2, WaitFacts
    <2>4. /\ local'[c][cmd[2]] = <<>>
          /\ \A d \in Clients \ {c} : local'[d] = local[d]
        BY <1>4, <2>1, <2>2 DEF DataInv
    <2>5. c2s'[c] = <<<<cmd>>>> /\ \A d \in Clients \ {c} : c2s'[d] = c2s[d]
        BY <1>9, <1>10, <2>1
    <2>6. Here(c)' = <<>> /\ Asked(c)'
        BY <1>2, <1>5, <2>3, <2>4, <2>5 DEF Here, Asked, Turns
    <2>7. Stage(c)'
        BY <2>2, <2>3, <2>6 DEF Stage, Getting, Turns
    <2>8. QED
        BY <1>8, <2>3, <2>4, <2>5, <2>7 DEF Turns
<1>15. QED
    BY <1>11, <1>12, <1>13, <1>14

\* The client takes a datagram: a piece of the file, or the reply.
LEMMA GetChunkStage ==
    ASSUME ControlInv, DataInv(Plain), Protocol, NEW c \in Clients, GetChunk(c)
    PROVE  Getting(c)'
<1> DEFINE m == Written(Head(s2c[c]))
<1>1. /\ client[c].pc = "get" /\ s2c[c] # <<>>
      /\ local'[c][client[c].cmd[2]] = local[c][client[c].cmd[2]] \o m
      /\ Turns(c, IF Len(m) = BUFSIZE THEN "get" ELSE "reply", client[c].cmd)
      /\ s2c' = [s2c EXCEPT ![c] = Tail(s2c[c])]
      /\ UNCHANGED <<server, dir, pipes, c2s, commands, faults, trouble>>
    BY GetChunkFacts
<1>2. /\ client[c].cmd[1] = "get" /\ c2s[c] = <<>>
      /\ Got(c, "get") \/ GetGoes(c)
    BY <1>1 DEF Protocol, Stage, Quiet, Active, Asking, Putting, Getting, Asked, Got, GetGoes
<1>3. /\ client'[c].cmd = client[c].cmd
      /\ client'[c].pc = IF Len(m) = BUFSIZE THEN "get" ELSE "reply"
    BY <1>1 DEF Turns
<1>4. /\ s2c'[c] = Tail(s2c[c]) /\ c2s'[c] = <<>>
      /\ Here(c)' = Here(c) \o m /\ There(c)' = There(c)
    BY <1>1, <1>2, <1>3 DEF DataInv, Here, There
<1> HIDE DEF m
<1>5. CASE Got(c, "get")
    <2>1. Head(s2c[c]) = <<Reply("get")>> /\ Tail(s2c[c]) = <<>>
        BY <1>5, One DEF Got
    <2>2. m = <<Reply("get")>>
        BY <2>1, AnswersAre, PlainCarries, ReplyTypes, WrittenPlain DEF m
    <2>3. Len(m) = 1 /\ BUFSIZE # 1
        BY <2>2, One, BoundsAssumption
    <2>4. client'[c].pc = "reply" /\ Empty(c)'
        BY <1>3, <1>4, <2>1, <2>3 DEF Empty
    <2>5. QED
        BY <1>2, <1>3, <2>4 DEF Getting
<1>6. CASE GetGoes(c)
    <2>1. PICK D \in Seq(Plain) : \E k \in 1..Len(Chunks(D)) :
            /\ s2c[c] = Append(From(Chunks(D), k), <<Reply("read")>>)
            /\ Here(c) = Upto(D, k) /\ There(c) \in {D, NoFile}
        BY <1>6 DEF GetGoes
    <2> DEFINE n == Len(Chunks(D))
    <2>2. PICK k \in 1..n :
            /\ s2c[c] = Append(From(Chunks(D), k), <<Reply("read")>>)
            /\ Here(c) = Upto(D, k) /\ There(c) \in {D, NoFile}
        BY <2>1
    <2> DEFINE Q == From(Chunks(D), k)
               e == <<Reply("read")>>
    <2> HIDE DEF n, Q, e
    <2>3. k \in 1..Len(Chunks(D)) /\ D \in Seq(Plain)
        BY DEF n
    <2>4. From(Chunks(D), k) \in Seq(Seq(Plain)) /\ From(Chunks(D), k) # <<>>
        BY <2>3, Transfer
    <2>5. PICK C \in Seq(Plain), R \in Seq(Seq(Plain)) : Piece(D, k, C, R)
        BY <2>3, Transfer
    <2>6. Head(Q) = C /\ Tail(Q) = R
        BY <2>5 DEF Piece, Q
    <2>7. e \in Seq(Plain)
        BY AnswersAre, PlainCarries, ReplyTypes DEF e
    <2>8. Head(Append(Q, e)) = Head(Q) /\ Tail(Append(Q, e)) = Append(Tail(Q), e)
        BY <2>4, <2>7, HeadTailAppend DEF Q
    <2>9. s2c[c] = Append(Q, e)
        BY <2>2 DEF Q, e
    <2>10. m = C
        BY <2>6, <2>8, <2>9, WrittenPlain DEF m
    <2>11. s2c'[c] = Append(R, e) /\ Here(c)' = Upto(D, k) \o C /\ There(c)' \in {D, NoFile}
        BY <1>4, <2>2, <2>6, <2>8, <2>9, <2>10
    <2>12. CASE /\ Len(C) = BUFSIZE /\ k + 1 \in 1..Len(Chunks(D))
                /\ R = From(Chunks(D), k + 1)
                /\ Upto(D, k) \o C = Upto(D, k + 1)
        <3>1. client'[c].pc = "get"
            BY <1>3, <2>10, <2>12
        <3>2. /\ k + 1 \in 1..Len(Chunks(D))
              /\ s2c'[c] = Append(From(Chunks(D), k + 1), <<Reply("read")>>)
              /\ Here(c)' = Upto(D, k + 1) /\ There(c)' \in {D, NoFile}
            BY <2>11, <2>12, Zenon DEF e
        <3>3. GetGoes(c)'
            BY <1>4, <3>2 DEF GetGoes
        <3>4. QED
            BY <1>2, <1>3, <3>1, <3>3 DEF Getting
    <2>13. CASE Len(C) # BUFSIZE /\ R = <<>> /\ Upto(D, k) \o C = D
        <3>1. client'[c].pc = "reply"
            BY <1>3, <2>10, <2>13
        <3>2. Append(<<>>, e) = <<e>>
            OBVIOUS
        <3>3. Got(c, "read")'
            BY <1>4, <2>11, <2>13, <3>2 DEF Got, e
        <3>4. There(c)' \in {Here(c)', NoFile}
            BY <2>11, <2>13
        <3>5. QED
            BY <1>2, <1>3, <3>1, <3>3, <3>4 DEF Getting
    <2>14. QED
        BY <2>5, <2>12, <2>13 DEF Piece
<1>7. QED
    BY <1>2, <1>5, <1>6

LEMMA GetChunkKeeps ==
    ASSUME ControlInv, DataInv(Plain), Protocol, NEW c \in Clients, GetChunk(c)
    PROVE  Protocol'
<1>1. /\ client[c].pc = "get" /\ s2c[c] # <<>>
      /\ \A d \in Clients \ {c} : local'[d] = local[d] /\ client'[d] = client[d]
      /\ client'[c].cmd = client[c].cmd
      /\ s2c' = [s2c EXCEPT ![c] = Tail(s2c[c])]
      /\ UNCHANGED <<server, dir, pipes, c2s, commands, faults, trouble>>
    BY GetChunkFacts DEF Turns
<1>2. \A d \in Clients \ {c} : Rests(d)
    BY <1>1 DEF Rests, DataInv
<1>3. Getting(c)'
    BY GetChunkStage
<1>4. client[c].cmd[1] = "get" /\ Active(c)
    BY <1>1, <1>3 DEF Getting, Active
<1>5. \A d \in Clients \ {c} :
        Active(c)' /\ Active(d) => "put" \notin {client'[c].cmd[1], client[d].cmd[1]}
    BY <1>1, <1>4 DEF Protocol, Alone
<1>6. ~(Putting(c) /\ PutGoes(c)) /\ Stage(c)'
    BY <1>3, <1>4 DEF Putting, Stage
<1>7. QED
    BY <1>1, <1>2, <1>5, <1>6, Kept

\* A client gets a reply only when its command is done: the reply is its own,
\* and, for a put or a get, the file is the same on both sides, or deleted.
LEMMA ReplyStage ==
    ASSUME ControlInv, DataInv(Plain), Protocol, NEW c \in Clients, client[c].pc = "reply",
           s2c[c] # <<>>
    PROVE  /\ c2s[c] = <<>>
           /\ \E w \in AnswersTo(client[c].cmd[1]) : s2c[c] = <<<<Reply(w)>>>>
           /\ client[c].cmd[1] \in {"put", "get"} => There(c) \in {Here(c), NoFile}
           /\ ~(Putting(c) /\ PutGoes(c))
<1>1. Stage(c) /\ Active(c)
    BY DEF Protocol, Active
<1>2. CASE Asking(c)
    <2>1. PICK w \in AnswersTo(client[c].cmd[1]) : Got(c, w)
        BY <1>2, Zenon DEF Asking, Asked
    <2>2. client[c].cmd[1] \notin {"put", "get"}
        BY <1>2 DEF Asking
    <2>3. QED
        BY <2>1, <2>2 DEF Got, Putting
<1>3. CASE Putting(c)
    <2>1. PutDone(c) /\ client[c].cmd[1] = "put" /\ ~PutGoes(c)
        BY <1>3 DEF Putting, PutAsked, PutGoes, PutDone
    <2>2. QED
        BY <2>1, AnswersRight DEF PutDone, Got
<1>4. CASE Getting(c)
    <2>1. Got(c, "read") /\ There(c) \in {Here(c), NoFile} /\ client[c].cmd[1] = "get"
        BY <1>4 DEF Getting, Empty
    <2>2. QED
        BY <2>1, AnswersRight DEF Got, Putting
<1>5. QED
    BY <1>1, <1>2, <1>3, <1>4 DEF Stage, Quiet

LEMMA GetReplyKeeps ==
    ASSUME ControlInv, DataInv(Plain), Protocol, NEW c \in Clients, GetReply(c)
    PROVE  Protocol'
<1>1. /\ client[c].pc = "reply" /\ s2c[c] # <<>>
      /\ \A d \in Clients \ {c} : client'[d] = client[d]
      /\ client'[c].pc = "menu"
      /\ s2c' = [s2c EXCEPT ![c] = Tail(s2c[c])]
      /\ UNCHANGED <<local, server, dir, pipes, c2s, commands, faults, trouble>>
    BY GetReplyFacts DEF Turns
<1>2. \A d \in Clients \ {c} : Rests(d)
    BY <1>1 DEF Rests, DataInv
<1>3. /\ c2s[c] = <<>> /\ ~(Putting(c) /\ PutGoes(c))
      /\ \E w : s2c[c] = <<<<Reply(w)>>>>
    BY <1>1, ReplyStage
<1>4. s2c'[c] = <<>> /\ c2s'[c] = <<>>
    <2>1. s2c'[c] = Tail(s2c[c]) /\ c2s'[c] = c2s[c]
        BY <1>1 DEF DataInv
    <2>2. QED
        BY <1>3, <2>1, One
<1>5. Stage(c)' /\ ~Active(c)'
    BY <1>1, <1>4 DEF Stage, Quiet, Empty, Active
<1>6. \A d \in Clients \ {c} :
        Active(c)' /\ Active(d) => "put" \notin {client'[c].cmd[1], client[d].cmd[1]}
    BY <1>5
<1>7. QED
    BY <1>1, <1>2, <1>3, <1>5, <1>6, Kept

-----------------------------------------------------------------------------
(* The theorems.                                                           *)

\* What has gone wrong is not forgotten.
LEMMA TroubleStays ==
    ASSUME [Next]_vars
    PROVE  trouble \subseteq trouble'
<1>1. ASSUME NEW c \in Clients, NEW cmd \in Commands,
             Exit(c, cmd) \/ SendLine(c, cmd) \/ Put(c, cmd) \/ Get(c, cmd)
      PROVE  trouble \subseteq trouble'
    <2>1. PICK k : Typed(c, cmd, k)
        BY <1>1 DEF Exit, SendLine, Put, Get
    <2>2. QED
        BY <2>1 DEF Typed
<1>2. ASSUME NEW c \in Clients, Serve(c)
      PROVE  trouble \subseteq trouble'
    <2>1. \/ Limit \/ UNCHANGED trouble \/ trouble' = trouble \cup {"nameless"}
          \/ trouble' = trouble \cup (IF dir[Named(c)] = NoFile THEN {"missing"} ELSE {})
                                \cup (IF CanOpen THEN {} ELSE {"limit"})
          \/ trouble' = trouble \cup (IF CanOpen THEN {} ELSE {"limit"})
                                \cup (IF Named(c) \in Refused THEN {"refused"} ELSE {})
        BY <1>2, Zenon DEF Serve, Ls, StartPut, PutChunk, Delete, ServeGet, Unknown, Crash, EndServer
    <2>2. QED
        BY <2>1 DEF Limit
<1>3. ASSUME NEW c \in Clients, GetChunk(c) \/ GetReply(c)
      PROVE  trouble \subseteq trouble'
    BY <1>3 DEF GetChunk, GetReply
<1>4. CASE Fault
    BY <1>4 DEF Fault
<1>5. CASE UNCHANGED vars
    BY <1>5 DEF vars
<1>6. QED
    BY <1>1, <1>2, <1>3, <1>4, <1>5, LinesAre DEF Next

Calmly == Calm => Protocol

LEMMA NextKeeps ==
    ASSUME ControlInv, DataInv(Plain), Calmly, [Next]_vars
    PROVE  Calmly'
<1>1. SUFFICES ASSUME Calm'
               PROVE  Protocol'
    BY DEF Calmly
<1>2. /\ Calm /\ "limit" \notin trouble' /\ "fault" \notin trouble'
      /\ "refused" \notin trouble' /\ "nameless" \notin trouble'
    BY <1>1, TroubleStays DEF Calm
<1>3. Protocol
    BY <1>2 DEF Calmly
<1>4. ASSUME NEW c \in Clients, Serve(c)
      PROVE  Protocol'
    BY <1>2, <1>3, <1>4, LsKeeps, StartPutKeeps, PutChunkKeeps, DeleteKeeps, ServeGetKeeps,
       UnknownKeeps, NoCrash, EndServerTypes DEF Serve
<1>5. ASSUME NEW c \in Clients, GetChunk(c) \/ GetReply(c)
      PROVE  Protocol'
    BY <1>3, <1>5, GetChunkKeeps, GetReplyKeeps
<1>6. CASE UNCHANGED vars
    <2>1. \A c \in Clients : Rests(c)
        BY <1>6 DEF vars, Rests
    <2>2. \A c \in Clients : Stage(c)' /\ (Putting(c) /\ PutGoes(c) => Putting(c)' /\ PutGoes(c)')
        BY <1>3, <2>1, RestingStage DEF Protocol
    <2>3. Alone'
        BY <1>3, <1>6 DEF vars, Protocol, Alone, Active
    <2>4. Receives'
        BY <1>3, <1>6, <2>2 DEF vars, Protocol, Receives
    <2>5. QED
        BY <2>2, <2>3, <2>4 DEF Protocol
<1>7. ASSUME NEW c \in Clients, NEW cmd \in Commands,
             Exit(c, cmd) \/ SendLine(c, cmd) \/ Put(c, cmd) \/ Get(c, cmd)
      PROVE  Protocol'
    BY <1>1, <1>3, <1>7, LineKeeps
<1>8. ~Fault
    BY <1>2, FaultTypes
<1>9. QED
    BY <1>4, <1>5, <1>6, <1>7, <1>8, LinesAre DEF Next

\* A client that gets a reply takes a step of its own, GetReply.
LEMMA RepliedStep ==
    ASSUME ControlInv, DataInv(Plain), [Next]_vars, NEW c \in Clients, Replied(c)
    PROVE  client[c].pc = "reply" /\ s2c[c] # <<>>
<1>1. client[c].pc = "reply" /\ client'[c].pc = "menu"
    BY DEF Replied
<1>2. ASSUME NEW d \in Clients, NEW cmd \in Commands,
             Exit(d, cmd) \/ SendLine(d, cmd) \/ Put(d, cmd) \/ Get(d, cmd)
      PROVE  FALSE
    <2>1. /\ client[d].pc = "menu"
          /\ \/ \E pc : Wait(d, cmd, pc)
             \/ UNCHANGED client
        BY <1>2 DEF Exit, SendLine, Put, Get, Typed
    <2>2. QED
        BY <1>1, <2>1 DEF Wait, ControlInv
<1>3. ASSUME NEW d \in Clients, Serve(d)
      PROVE  FALSE
    <2>1. UNCHANGED client
        BY <1>3, Zenon DEF Serve, Ls, StartPut, PutChunk, Delete, ServeGet, Unknown, Crash,
                           EndServer, Command
    <2>2. QED
        BY <1>1, <2>1
<1>4. ASSUME NEW d \in Clients, GetChunk(d)
      PROVE  FALSE
    BY <1>1, <1>4, GetChunkFacts DEF Turns
<1>5. ASSUME NEW d \in Clients, GetReply(d)
      PROVE  s2c[c] # <<>>
    BY <1>1, <1>5, GetReplyFacts DEF Turns
<1>6. ~Fault /\ ~UNCHANGED vars
    BY <1>1 DEF Fault, vars
<1>7. QED
    BY <1>1, <1>2, <1>3, <1>4, <1>5, <1>6, LinesAre DEF Next

\* The files are without the byte that equals EOF.  For others what follows is
\* false: the server and the client do not write that byte when it is the last
\* of a datagram, and take a full buffer that ends with it for a short one
\* (uftp_server.c:134-140, uftp_client.c:149-154).
PlainFiles ==
    \A s \in Starts : /\ s.local \in [Clients -> [Names -> Stored(Plain)]]
                      /\ s.dir \in [Names -> Stored(Plain)]

Inv == ControlInv /\ DataInv(Plain) /\ Calmly

LEMMA Invariance ==
    ASSUME PlainFiles
    PROVE  Spec => []Inv
<1>1. Init => Inv
    <2>1. SUFFICES ASSUME Init
                   PROVE  Inv
        OBVIOUS
    <2>2. ControlInv /\ DataInv(Plain)
        BY <2>1, InitTypes DEF PlainFiles
    <2>3. /\ \A c \in Clients : client[c].pc = "menu" /\ c2s[c] = <<>> /\ s2c[c] = <<>>
          /\ server.pc = "cmd"
        BY <2>1 DEF Init
    <2>4. Protocol
        BY <2>3 DEF Protocol, Stage, Quiet, Active, Empty, Alone, Receives
    <2>5. QED
        BY <2>2, <2>4 DEF Inv, Calmly
<1>2. Inv /\ [Next]_vars => Inv'
    BY PlainCarries, NextTypes, NextKeeps DEF Inv
<1>3. QED
    BY <1>1, <1>2, PTL DEF Spec

\* The server does not go down without a cause: Spec => []ServerStaysUp.
THEOREM ServerUp ==
    ASSUME PlainFiles
    PROVE  Spec => []ServerStaysUp
<1>1. Inv => ServerStaysUp
    BY DEF Inv, Calmly, Protocol, Receives, ServerStaysUp
<1>2. Spec => []Inv
    BY Invariance
<1>3. QED
    BY <1>1, <1>2, PTL

\* What a client takes for its reply is its reply, and nothing is left.
THEOREM RepliesMatch ==
    ASSUME PlainFiles
    PROVE  Spec => OwnAnswer
<1> DEFINE A == \A c \in Clients :
                    Replied(c) /\ Calm =>
                        /\ \E w \in AnswersTo(client[c].cmd[1]) : Head(s2c[c]) = <<Reply(w)>>
                        /\ Len(s2c[c]) = 1
<1>1. Inv /\ [Next]_vars => A
    <2>1. SUFFICES ASSUME Inv, [Next]_vars, NEW c \in Clients, Replied(c), Calm
                   PROVE  /\ \E w \in AnswersTo(client[c].cmd[1]) : Head(s2c[c]) = <<Reply(w)>>
                          /\ Len(s2c[c]) = 1
        BY Zenon
    <2>2. PICK w \in AnswersTo(client[c].cmd[1]) : s2c[c] = <<<<Reply(w)>>>>
        BY <2>1, RepliedStep, ReplyStage DEF Inv, Calmly
    <2>3. QED
        BY <2>2, One
<1>2. Spec => []Inv
    BY Invariance
<1> HIDE DEF A
<1>3. Spec => [][A]_vars
    BY <1>1, <1>2, PTL DEF Spec
<1>4. QED
    BY <1>3 DEF A, OwnAnswer

\* When the reply has come the file is the same on both sides, whatever its
\* length modulo BUFSIZE.
THEOREM FilesDelivered ==
    ASSUME PlainFiles
    PROVE  Spec => Delivered
<1> DEFINE A == \A c \in Clients :
                    Replied(c) /\ Calm /\ client[c].cmd[1] \in {"put", "get"} =>
                        dir[client[c].cmd[2]] \in {local[c][client[c].cmd[2]], NoFile}
<1>1. Inv /\ [Next]_vars => A
    <2>1. SUFFICES ASSUME Inv, [Next]_vars, NEW c \in Clients, Replied(c), Calm,
                          client[c].cmd[1] \in {"put", "get"}
                   PROVE  dir[client[c].cmd[2]] \in {local[c][client[c].cmd[2]], NoFile}
        OBVIOUS
    <2>2. There(c) \in {Here(c), NoFile}
        BY <2>1, RepliedStep, ReplyStage DEF Inv, Calmly
    <2>3. QED
        BY <2>2 DEF There, Here
<1>2. Spec => []Inv
    BY Invariance
<1> HIDE DEF A
<1>3. Spec => [][A]_vars
    BY <1>1, <1>2, PTL DEF Spec
<1>4. QED
    BY <1>3 DEF A, Delivered
=============================================================================
