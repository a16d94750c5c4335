--------------------------- MODULE UdpEcho_proofs ---------------------------
(***************************************************************************)
(* Proofs about UdpEcho, for any number of clients, any lines, any size of *)
(* the buffers and any number of faults.                                   *)
(***************************************************************************)
EXTENDS UdpEcho, SequenceTheorems, TLAPS

(* Buffers.                                                                *)

\* Into an empty buffer goes what is received, and nothing else.
LEMMA IntoEmpty ==
    ASSUME NEW S, NEW q \in Seq(S)
    PROVE  Into(<<>>, q) = q
<1>1. Len(q) \in Nat /\ Len(<<>>) = 0
    BY LenProperties, EmptySeq
<1>2. SubSeq(<<>>, Len(q) + 1, Len(<<>>)) = <<>>
    BY <1>1, SubSeqEmpty
<1>3. QED
    BY <1>2, ConcatEmptySeq DEF Into

\* The first k elements of a sequence, and the others.
LEMMA FirstPart ==
    ASSUME NEW S, NEW q \in Seq(S), NEW k \in 0..Len(q)
    PROVE  /\ SubSeq(q, 1, k) \in Seq(S) /\ Len(SubSeq(q, 1, k)) = k
           /\ \A i \in 1..k : SubSeq(q, 1, k)[i] = q[i]
<1>1. Len(q) \in Nat /\ \A i \in 1..k : q[i] \in S
    BY LenProperties, ElementOfSeq
<1>2. QED
    BY <1>1, SubSeqProperties

LEMMA OtherPart ==
    ASSUME NEW S, NEW q \in Seq(S), NEW k \in 0..Len(q)
    PROVE  /\ SubSeq(q, k + 1, Len(q)) \in Seq(S)
           /\ Len(SubSeq(q, k + 1, Len(q))) = Len(q) - k
           /\ \A i \in 1..Len(q) - k : SubSeq(q, k + 1, Len(q))[i] = q[k + i]
<1> DEFINE n == Len(q)
           r == SubSeq(q, k + 1, n)
<1>1. n \in Nat /\ k \in Nat /\ k <= n /\ \A i \in k + 1..n : q[i] \in S
    BY LenProperties, ElementOfSeq
<1>2. /\ r \in Seq(S) /\ Len(r) = IF k + 1 <= n THEN n - (k + 1) + 1 ELSE 0
      /\ \A i \in 1..n - (k + 1) + 1 : r[i] = q[k + 1 + i - 1]
    BY <1>1, SubSeqProperties
<1> HIDE DEF r
<1>3. Len(r) = n - k
    BY <1>1, <1>2
<1>4. ASSUME NEW i \in 1..n - k
      PROVE  r[i] = q[k + i]
    <2>1. i \in 1..n - (k + 1) + 1 /\ k + 1 + i - 1 = k + i
        BY <1>1
    <2>2. QED
        BY <1>2, <2>1
<1>5. QED
    BY <1>2, <1>3, <1>4 DEF r

\* The smaller of two numbers.
LEMMA MinOfTwo ==
    ASSUME NEW m \in Nat, NEW n \in Nat
    PROVE  Min({m, n}) = IF m <= n THEN m ELSE n
    BY DEF Min

\* What is in the buffer that holds q after as much of d is received.
Shown(q, d) == Into(q, SubSeq(d, 1, Min({Len(q), Len(d)})))

\* It is as long as q, and each byte is that of d or of q at its place.
LEMMA Overlay ==
    ASSUME NEW S, NEW q \in Seq(S), NEW d \in Seq(S)
    PROVE  /\ Shown(q, d) \in Seq(S)
           /\ Len(Shown(q, d)) = Len(q)
           /\ \A i \in 1..Len(q) :
                \/ i \in 1..Len(d) /\ Shown(q, d)[i] = d[i]
                \/ Shown(q, d)[i] = q[i]
<1> DEFINE n == Len(q)
           m == Len(d)
           k == IF n <= m THEN n ELSE m
           p == SubSeq(d, 1, k)
           r == SubSeq(q, k + 1, n)
<1>1. n \in Nat /\ m \in Nat /\ k \in 0..n /\ k \in 0..m
    BY LenProperties
<1>3. /\ p \in Seq(S) /\ Len(p) = k
      /\ \A i \in 1..k : p[i] = d[i]
    BY <1>1, FirstPart
<1>4. /\ r \in Seq(S) /\ Len(r) = n - k
      /\ \A i \in 1..n - k : r[i] = q[k + i]
    BY <1>1, OtherPart
<1>5. Shown(q, d) = p \o r
    BY <1>1, <1>3, MinOfTwo DEF Shown, Into
<1> HIDE DEF p, r
<1>6. /\ p \o r \in Seq(S) /\ Len(p \o r) = k + (n - k)
      /\ \A i \in 1..k + (n - k) : (p \o r)[i] = IF i <= k THEN p[i] ELSE r[i - k]
    BY <1>3, <1>4, ConcatProperties
<1>7. ASSUME NEW i \in 1..n
      PROVE  \/ i \in 1..m /\ (p \o r)[i] = d[i]
             \/ (p \o r)[i] = q[i]
    <2>1. CASE i <= k
        BY <1>1, <1>3, <1>6, <2>1
    <2>2. CASE ~(i <= k)
        <3>1. i - k \in 1..n - k /\ k + (i - k) = i
            BY <1>1, <2>2
        <3>2. r[i - k] = q[i]
            BY <1>4, <3>1
        <3>3. QED
            BY <1>1, <1>6, <2>2, <3>2
    <2>3. QED
        BY <2>1, <2>2
<1>8. QED
    BY <1>1, <1>5, <1>6, <1>7

\* The echo of what was in the buffer leaves it as it is.
LEMMA OverlaySame ==
    ASSUME NEW S, NEW q \in Seq(S)
    PROVE  Shown(q, q) = q
    BY Overlay, SeqEqual, LenProperties

-----------------------------------------------------------------------------
(* The network.                                                            *)

\* Faults bring no new datagrams.
LEMMA DisturbedType ==
    ASSUME NEW S, NEW Q \in Seq(S), NEW R \in Disturbed(Q)
    PROVE  R \in Seq(S)
<1> DEFINE n == Len(Q)
<1>1. n \in Nat /\ DOMAIN Q = 1..n /\ \A j \in 1..n : Q[j] \in S
    BY LenProperties, ElementOfSeq
<1>2. ASSUME NEW i \in 1..n
      PROVE  RemoveAt(Q, i) \in Seq(S) /\ Len(RemoveAt(Q, i)) = n - 1
    <2> DEFINE f == SubSeq(Q, 1, i - 1)
               o == SubSeq(Q, i + 1, n)
    <2>1. f \in Seq(S) /\ Len(f) = i - 1 /\ o \in Seq(S) /\ Len(o) = n - i
        <3>1. i - 1 \in 0..n /\ i \in 0..n
            BY <1>1
        <3>2. QED
            BY <3>1, FirstPart, OtherPart
    <2>2. RemoveAt(Q, i) = f \o o
        BY DEF RemoveAt
    <2> HIDE DEF f, o
    <2>3. f \o o \in Seq(S) /\ Len(f \o o) = Len(f) + Len(o)
        BY <2>1, ConcatProperties
    <2>4. Len(f) + Len(o) = n - 1
        BY <1>1, <2>1
    <2>5. QED
        BY <2>2, <2>3, <2>4
<1>3. ASSUME NEW T \in Seq(S), NEW i \in 1..Len(T) + 1, NEW e \in S
      PROVE  InsertAt(T, i, e) \in Seq(S)
    <2>1. Len(T) \in Nat /\ \A j \in 1..Len(T) : T[j] \in S
        BY LenProperties, ElementOfSeq
    <2>2. SubSeq(T, 1, i - 1) \in Seq(S) /\ SubSeq(T, i, Len(T)) \in Seq(S)
        BY <2>1, SubSeqProperties
    <2>3. <<e>> \in Seq(S)
        OBVIOUS
    <2>4. QED
        BY <2>2, <2>3, ConcatProperties DEF InsertAt
<1>4. ASSUME NEW i \in DOMAIN Q, R = RemoveAt(Q, i)
      PROVE  R \in Seq(S)
    BY <1>1, <1>2, <1>4
<1>5. ASSUME NEW i \in DOMAIN Q, R = InsertAt(Q, i, Q[i])
      PROVE  R \in Seq(S)
    <2>1. i \in 1..n + 1 /\ Q[i] \in S
        BY <1>1
    <2>2. QED
        BY <1>3, <1>5, <2>1
<1>6. ASSUME NEW i \in 1..n - 1, R = InsertAt(RemoveAt(Q, i), i + 1, Q[i])
      PROVE  R \in Seq(S)
    <2>1. i \in 1..n /\ Q[i] \in S
        BY <1>1
    <2>2. RemoveAt(Q, i) \in Seq(S) /\ Len(RemoveAt(Q, i)) = n - 1
        BY <1>2, <2>1
    <2>3. i + 1 \in 1..Len(RemoveAt(Q, i)) + 1
        BY <1>1, <2>2
    <2>4. QED
        BY <1>3, <1>6, <2>1, <2>2, <2>3
<1>7. QED
    BY <1>4, <1>5, <1>6 DEF Disturbed

-----------------------------------------------------------------------------
(* The invariant.                                                          *)

\* The lines that client c has sent.
Sent(c) == {typed[c][k] : k \in DOMAIN typed[c]}

\* What a client prints is as long as the line it typed last, and made of its
\* own lines.
OwnText(c) ==
    /\ Len(cbuf[c]) = Len(Last(typed[c]))
    /\ \A i \in DOMAIN cbuf[c] :
        \E q \in Sent(c) : i \in DOMAIN q /\ q[i] = cbuf[c][i]

\* Without faults: one datagram at most is under way for a client, while it
\* waits, and a client that does not wait has printed what it typed.
Calm(c) ==
    /\ \/ c2s[c] = <<>> /\ s2c[c] = <<>>
       \/ waits[c] /\ c2s[c] = <<Last(typed[c])>> /\ s2c[c] = <<>>
       \/ waits[c] /\ c2s[c] = <<>> /\ s2c[c] = <<Last(typed[c])>>
    /\ HasPrinted(c) => cbuf[c] = Last(typed[c])

\* The datagrams of a client are lines that it sent; while it waits, its buffer
\* holds the last.
ClientInv(c) ==
    /\ waits[c] \in BOOLEAN
    /\ cbuf[c] \in Text /\ Len(cbuf[c]) < BUFSIZE
    /\ typed[c] \in Seq(Text)
    /\ \A q \in Sent(c) : q \in Text /\ Len(q) < BUFSIZE
    /\ c2s[c] \in Seq(Sent(c)) /\ s2c[c] \in Seq(Sent(c))
    /\ waits[c] => typed[c] # <<>> /\ cbuf[c] = Last(typed[c])
    /\ HasPrinted(c) => OwnText(c)
    /\ faults = 0 => Calm(c)

ServerInv ==
    /\ serving \in BOOLEAN
    /\ sbuf \in Text /\ Len(sbuf) < BUFSIZE
    /\ faults \in 0..MaxFaults

EchoInv ==
    /\ ServerInv
    /\ waits = [c \in Clients |-> waits[c]] /\ cbuf = [c \in Clients |-> cbuf[c]]
    /\ c2s = [c \in Clients |-> c2s[c]] /\ s2c = [c \in Clients |-> s2c[c]]
    /\ typed = [c \in Clients |-> typed[c]]
    /\ \A c \in Clients : ClientInv(c)

\* The last of the lines is one of them.
LEMMA LastIsSent ==
    ASSUME NEW c, typed[c] \in Seq(Text), typed[c] # <<>>
    PROVE  Last(typed[c]) \in Sent(c)
<1>1. Len(typed[c]) \in DOMAIN typed[c]
    BY EmptySeq, LenProperties
<1>2. QED
    BY <1>1 DEF Sent, Last

\* What was said of the types, and of the echo, follows.
LEMMA EchoInvGivesTypes ==
    ASSUME EchoInv
    PROVE  TypeOK
<1>1. ASSUME NEW c \in Clients
      PROVE  /\ waits[c] \in BOOLEAN
             /\ cbuf[c] \in Text /\ Len(cbuf[c]) < BUFSIZE
             /\ c2s[c] \in Seq(Text) /\ s2c[c] \in Seq(Text)
             /\ typed[c] \in Seq(Text)
    <2>1. ClientInv(c)
        BY DEF EchoInv
    <2>2. Sent(c) \subseteq Text
        BY <2>1 DEF ClientInv
    <2>3. QED
        BY <2>1, <2>2, SeqMonotonic DEF ClientInv
<1>2. QED
    BY <1>1 DEF EchoInv, ServerInv, TypeOK

LEMMA EchoInvGivesExact ==
    ASSUME EchoInv
    PROVE  EchoExact
<1>1. ASSUME NEW c \in Clients, faults = 0
      PROVE  /\ c2s[c] \o s2c[c] \in {<<>>} \cup (IF waits[c] THEN {<<Last(typed[c])>>} ELSE {})
             /\ HasPrinted(c) => cbuf[c] = Last(typed[c])
    <2>1. Calm(c) /\ ClientInv(c)
        BY <1>1 DEF EchoInv, ClientInv
    <2>2. c2s[c] \in Seq(Sent(c)) /\ s2c[c] \in Seq(Sent(c))
        BY <2>1 DEF ClientInv
    <2>3. c2s[c] = <<>> \/ s2c[c] = <<>>
        BY <2>1 DEF Calm
    <2>4. c2s[c] \o s2c[c] = IF c2s[c] = <<>> THEN s2c[c] ELSE c2s[c]
        BY <2>2, <2>3, ConcatEmptySeq
    <2>5. QED
        BY <2>1, <2>4 DEF Calm
<1>2. QED
    BY <1>1 DEF EchoExact

LEMMA EchoInvGivesOwn ==
    ASSUME EchoInv
    PROVE  OwnBytes
<1>1. ASSUME NEW c \in Clients, HasPrinted(c)
      PROVE  OwnText(c)
    BY <1>1 DEF EchoInv, ClientInv
<1>2. QED
    BY <1>1 DEF OwnBytes, OwnText, Sent

-----------------------------------------------------------------------------
(* The steps.                                                              *)

\* A step that concerns client c alone.
LEMMA OneClient ==
    ASSUME EchoInv, NEW c \in Clients,
           \A d \in Clients \ {c} :
                /\ waits'[d] = waits[d] /\ cbuf'[d] = cbuf[d] /\ typed'[d] = typed[d]
                /\ c2s'[d] = c2s[d] /\ s2c'[d] = s2c[d],
           faults' = 0 => faults = 0,
           waits' = [d \in Clients |-> waits'[d]], cbuf' = [d \in Clients |-> cbuf'[d]],
           c2s' = [d \in Clients |-> c2s'[d]], s2c' = [d \in Clients |-> s2c'[d]],
           typed' = [d \in Clients |-> typed'[d]],
           ServerInv', ClientInv(c)'
    PROVE  EchoInv'
<1>1. ASSUME NEW d \in Clients, d # c
      PROVE  ClientInv(d)'
    <2>1. /\ waits'[d] = waits[d] /\ cbuf'[d] = cbuf[d] /\ typed'[d] = typed[d]
          /\ c2s'[d] = c2s[d] /\ s2c'[d] = s2c[d] /\ ClientInv(d)
        BY <1>1 DEF EchoInv
    <2>2. QED
        BY <2>1 DEF ClientInv, Sent, HasPrinted, OwnText, Calm
<1>2. QED
    BY <1>1 DEF EchoInv

\* What is added to the lines of a client is one of them then, and the others
\* remain.
LEMMA SentAfter ==
    ASSUME NEW c \in Clients, typed[c] \in Seq(Text), NEW q \in Text,
           typed'[c] = Append(typed[c], q)
    PROVE  /\ typed'[c] \in Seq(Text) /\ typed'[c] # <<>> /\ Last(typed'[c]) = q
           /\ Sent(c)' = Sent(c) \cup {q}
<1> DEFINE n == Len(typed[c])
<1>1. /\ n \in Nat /\ DOMAIN typed[c] = 1..n
    BY LenProperties
<1>2. /\ typed'[c] \in Seq(Text) /\ typed'[c] # <<>> /\ Len(typed'[c]) = n + 1
      /\ \A i \in 1..n : typed'[c][i] = typed[c][i]
      /\ typed'[c][n + 1] = q
    BY AppendProperties
<1>3. DOMAIN typed'[c] = 1..n + 1
    BY <1>2, LenProperties
<1>4. Last(typed'[c]) = q
    BY <1>2 DEF Last
<1>5. Sent(c)' = {typed'[c][k] : k \in 1..n + 1}
    BY <1>3 DEF Sent
<1>6. Sent(c) = {typed[c][k] : k \in 1..n}
    BY <1>1 DEF Sent
<1>7. \A k \in 1..n + 1 : k \in 1..n \/ k = n + 1
    BY <1>1
<1>8. 1..n \subseteq 1..n + 1 /\ n + 1 \in 1..n + 1
    BY <1>1
<1>9. Sent(c)' = Sent(c) \cup {q}
    BY <1>2, <1>5, <1>6, <1>7, <1>8
<1>10. QED
    BY <1>2, <1>4, <1>9

\* A client sends a line.
LEMMA AskKeeps ==
    ASSUME EchoInv, NEW c \in Clients, NEW q \in Lines[c], Ask(c, q)
    PROVE  EchoInv'
<1>1. q \in Text /\ Len(q) < BUFSIZE
    BY LinesAssumption DEF Text
<1>2. ClientInv(c)
    BY DEF EchoInv
<1>3. /\ ~waits[c] /\ waits' = [waits EXCEPT ![c] = TRUE]
      /\ cbuf' = [cbuf EXCEPT ![c] = q]
      /\ typed' = [typed EXCEPT ![c] = Append(typed[c], q)]
      /\ c2s' = [c2s EXCEPT ![c] = Append(c2s[c], q)] \/ c2s' = c2s
      /\ serving' = serving /\ sbuf' = sbuf /\ s2c' = s2c /\ faults' = faults
    BY DEF Ask
<1>4. /\ waits'[c] /\ cbuf'[c] = q /\ typed'[c] = Append(typed[c], q)
      /\ c2s'[c] = Append(c2s[c], q) \/ c2s'[c] = c2s[c]
      /\ s2c'[c] = s2c[c]
    BY <1>3 DEF EchoInv
<1>5. /\ typed'[c] \in Seq(Text) /\ typed'[c] # <<>> /\ Last(typed'[c]) = q
      /\ Sent(c)' = Sent(c) \cup {q}
    BY <1>1, <1>2, <1>4, SentAfter DEF ClientInv
<1>6. c2s[c] \in Seq(Sent(c)') /\ s2c'[c] \in Seq(Sent(c)')
    BY <1>2, <1>4, <1>5, SeqMonotonic DEF ClientInv
<1>7. c2s'[c] \in Seq(Sent(c)')
    <2>1. q \in Sent(c)'
        BY <1>5
    <2>2. QED
        BY <1>4, <1>6, <2>1, AppendProperties
<1>8. faults = 0 => Calm(c)'
    <2>1. ASSUME faults = 0
          PROVE  c2s[c] = <<>> /\ s2c[c] = <<>>
        BY <1>2, <1>3, <2>1 DEF ClientInv, Calm
    <2>2. Append(<<>>, q) = <<q>>
        OBVIOUS
    <2>3. QED
        BY <1>4, <1>5, <2>1, <2>2 DEF Calm, HasPrinted
<1>9. ClientInv(c)'
    <2>1. \A d \in Sent(c)' : d \in Text /\ Len(d) < BUFSIZE
        BY <1>1, <1>2, <1>5 DEF ClientInv
    <2>2. waits'[c] \in BOOLEAN
        BY <1>3 DEF EchoInv
    <2>3. QED
        BY <1>1, <1>3, <1>4, <1>5, <1>6, <1>7, <1>8, <2>1, <2>2 DEF ClientInv, HasPrinted
<1>10. ServerInv'
    BY <1>3 DEF EchoInv, ServerInv
<1>11. QED
    BY <1>3, <1>9, <1>10, OneClient DEF EchoInv

\* A client prints a reply.
LEMMA ShowKeeps ==
    ASSUME EchoInv, NEW c \in Clients, Show(c)
    PROVE  EchoInv'
<1>1. ClientInv(c)
    BY DEF EchoInv
<1>2. /\ waits[c] /\ waits' = [waits EXCEPT ![c] = FALSE]
      /\ s2c[c] # <<>> /\ s2c' = [s2c EXCEPT ![c] = Tail(s2c[c])]
      /\ cbuf' = [cbuf EXCEPT ![c] = Shown(cbuf[c], Head(s2c[c]))]
      /\ serving' = serving /\ sbuf' = sbuf /\ c2s' = c2s /\ typed' = typed
      /\ faults' = faults
    BY DEF Show, Receive, Shown
<1>3. /\ ~waits'[c] /\ cbuf'[c] = Shown(cbuf[c], Head(s2c[c]))
      /\ s2c'[c] = Tail(s2c[c]) /\ c2s'[c] = c2s[c] /\ typed'[c] = typed[c]
    BY <1>2 DEF EchoInv
<1>4. /\ Head(s2c[c]) \in Sent(c) /\ Tail(s2c[c]) \in Seq(Sent(c))
    BY <1>1, <1>2, HeadTailProperties DEF ClientInv
<1>5. /\ cbuf[c] = Last(typed[c]) /\ typed[c] # <<>> /\ cbuf[c] \in Sent(c)
      /\ cbuf[c] \in Text /\ Head(s2c[c]) \in Text /\ Len(cbuf[c]) < BUFSIZE
    BY <1>1, <1>2, <1>4, LastIsSent DEF ClientInv
<1> DEFINE b == cbuf[c]
           d == Head(s2c[c])
<1>6. /\ Shown(b, d) \in Text /\ Len(Shown(b, d)) = Len(b)
      /\ \A i \in 1..Len(b) : \/ i \in 1..Len(d) /\ Shown(b, d)[i] = d[i]
                              \/ Shown(b, d)[i] = b[i]
    BY <1>5, Overlay DEF Text
<1>7. /\ DOMAIN b = 1..Len(b) /\ DOMAIN d = 1..Len(d)
      /\ DOMAIN Shown(b, d) = 1..Len(b)
    BY <1>5, <1>6, LenProperties DEF Text
<1>8. OwnText(c)'
    <2>1. Sent(c)' = Sent(c) /\ Last(typed'[c]) = b
        BY <1>3, <1>5 DEF Sent
    <2>2. \A i \in 1..Len(b) : \E q \in Sent(c) : i \in DOMAIN q /\ q[i] = Shown(b, d)[i]
        BY <1>4, <1>5, <1>6, <1>7
    <2>3. QED
        BY <1>3, <1>6, <1>7, <2>1, <2>2 DEF OwnText
<1>9. ASSUME faults = 0
      PROVE  Calm(c)'
    <2>1. c2s[c] = <<>> /\ s2c[c] = <<b>>
        BY <1>1, <1>2, <1>5, <1>9 DEF ClientInv, Calm
    <2>2. d = b /\ Tail(s2c[c]) = <<>>
        BY <2>1
    <2>3. Shown(b, d) = b
        BY <1>5, <2>2, OverlaySame DEF Text
    <2>4. QED
        BY <1>3, <1>5, <2>1, <2>2, <2>3 DEF Calm
<1>10. ClientInv(c)'
    <2>1. Sent(c)' = Sent(c)
        BY <1>3 DEF Sent
    <2>2. waits'[c] \in BOOLEAN
        BY <1>2 DEF EchoInv
    <2>3. QED
        BY <1>1, <1>2, <1>3, <1>4, <1>5, <1>6, <1>8, <1>9, <2>1, <2>2 DEF ClientInv
<1>11. ServerInv'
    BY <1>2 DEF EchoInv, ServerInv
<1>12. QED
    BY <1>2, <1>10, <1>11, OneClient DEF EchoInv

\* The server returns a datagram as it came.
LEMMA EchoKeeps ==
    ASSUME EchoInv, NEW c \in Clients, Echo(c)
    PROVE  EchoInv'
<1>1. ClientInv(c)
    BY DEF EchoInv
<1> DEFINE d == Head(c2s[c])
<1>2. /\ c2s[c] # <<>> /\ sbuf' = Into(<<>>, d)
      /\ c2s' = [c2s EXCEPT ![c] = Tail(c2s[c])]
      /\ s2c' = [s2c EXCEPT ![c] = Append(s2c[c], sbuf')]
      /\ serving' = serving /\ waits' = waits /\ cbuf' = cbuf /\ typed' = typed
      /\ faults' = faults
    BY DEF Echo, Return
<1>3. d \in Sent(c) /\ Tail(c2s[c]) \in Seq(Sent(c))
    BY <1>1, <1>2, HeadTailProperties DEF ClientInv
<1>4. d \in Text /\ Len(d) < BUFSIZE
    BY <1>1, <1>3 DEF ClientInv
<1>5. sbuf' = d
    BY <1>2, <1>4, IntoEmpty DEF Text
<1>6. /\ c2s'[c] = Tail(c2s[c]) /\ s2c'[c] = Append(s2c[c], d)
      /\ waits'[c] = waits[c] /\ cbuf'[c] = cbuf[c] /\ typed'[c] = typed[c]
    BY <1>2, <1>5 DEF EchoInv
<1>7. Sent(c)' = Sent(c)
    BY <1>6 DEF Sent
<1>8. s2c'[c] \in Seq(Sent(c))
    BY <1>1, <1>3, <1>6, AppendProperties DEF ClientInv
<1>9. ASSUME faults = 0
      PROVE  Calm(c)'
    <2>1. /\ waits[c] /\ c2s[c] = <<Last(typed[c])>> /\ s2c[c] = <<>>
          /\ HasPrinted(c) => cbuf[c] = Last(typed[c])
        BY <1>1, <1>2, <1>9 DEF ClientInv, Calm
    <2>2. d = Last(typed[c]) /\ Tail(c2s[c]) = <<>> /\ Append(<<>>, d) = <<d>>
        BY <2>1
    <2>3. QED
        BY <1>6, <2>1, <2>2 DEF Calm, HasPrinted
<1>10. ClientInv(c)'
    BY <1>1, <1>2, <1>3, <1>6, <1>7, <1>8, <1>9 DEF ClientInv, HasPrinted, OwnText
<1>11. ServerInv'
    BY <1>2, <1>4, <1>5 DEF EchoInv, ServerInv
<1>12. QED
    BY <1>2, <1>10, <1>11, OneClient DEF EchoInv

\* The server ends.
LEMMA EndServerKeeps ==
    ASSUME EchoInv, NEW c \in Clients, EndServer(c)
    PROVE  EchoInv'
<1>1. /\ c2s[c] # <<>> /\ sbuf' = Into(<<>>, Head(c2s[c])) /\ serving' = FALSE
      /\ c2s' = [d \in Clients |-> <<>>]
      /\ waits' = waits /\ cbuf' = cbuf /\ s2c' = s2c /\ typed' = typed /\ faults' = faults
    BY DEF EndServer
<1>2. ServerInv'
    <2>1. Head(c2s[c]) \in Text /\ Len(Head(c2s[c])) < BUFSIZE
        BY <1>1, HeadTailProperties DEF EchoInv, ClientInv
    <2>2. sbuf' = Head(c2s[c])
        BY <1>1, <2>1, IntoEmpty DEF Text
    <2>3. QED
        BY <1>1, <2>1, <2>2 DEF EchoInv, ServerInv
<1>3. ASSUME NEW d \in Clients
      PROVE  ClientInv(d)'
    <2>1. ClientInv(d) /\ c2s'[d] = <<>>
        BY <1>1 DEF EchoInv
    <2>2. <<>> \in Seq(Sent(d))
        BY EmptySeq
    <2>3. faults = 0 => Calm(d)'
        BY <1>1, <2>1 DEF ClientInv, Calm, HasPrinted
    <2>4. QED
        BY <1>1, <2>1, <2>2, <2>3 DEF ClientInv, Sent, HasPrinted, OwnText
<1>4. QED
    BY <1>1, <1>2, <1>3 DEF EchoInv

\* The network loses, repeats or reorders.
LEMMA FaultKeeps ==
    ASSUME EchoInv, Fault
    PROVE  EchoInv'
<1>1. /\ faults < MaxFaults /\ faults' = faults + 1
      /\ serving' = serving /\ sbuf' = sbuf /\ waits' = waits /\ cbuf' = cbuf
      /\ typed' = typed
    BY DEF Fault
<1>2. faults' # 0 /\ ServerInv'
    BY <1>1, LinesAssumption DEF EchoInv, ServerInv
<1>3. PICK c \in Clients :
        \/ \E Q \in Disturbed(c2s[c]) : c2s' = [c2s EXCEPT ![c] = Q] /\ s2c' = s2c
        \/ \E Q \in Disturbed(s2c[c]) : s2c' = [s2c EXCEPT ![c] = Q] /\ c2s' = c2s
    BY DEF Fault
<1>4. ClientInv(c)
    BY DEF EchoInv
<1>5. c2s'[c] \in Seq(Sent(c)) /\ s2c'[c] \in Seq(Sent(c))
    BY <1>3, <1>4, DisturbedType DEF EchoInv, ClientInv
<1>6. ClientInv(c)'
    BY <1>1, <1>2, <1>4, <1>5 DEF ClientInv, Sent, HasPrinted, OwnText
<1>7. /\ c2s' = [d \in Clients |-> c2s'[d]] /\ s2c' = [d \in Clients |-> s2c'[d]]
      /\ \A d \in Clients \ {c} : c2s'[d] = c2s[d] /\ s2c'[d] = s2c[d]
    BY <1>3 DEF EchoInv
<1>8. QED
    BY <1>1, <1>2, <1>6, <1>7, OneClient DEF EchoInv

\* At the start.
LEMMA InitEcho ==
    ASSUME Init
    PROVE  EchoInv
<1>1. ServerInv
    BY LinesAssumption, EmptySeq DEF Init, ServerInv, Text
<1>2. ASSUME NEW c \in Clients
      PROVE  ClientInv(c)
    <2>1. /\ waits[c] = FALSE /\ cbuf[c] = <<>> /\ c2s[c] = <<>> /\ s2c[c] = <<>>
          /\ typed[c] = <<>>
        BY DEF Init
    <2>2. Sent(c) = {}
        BY <2>1 DEF Sent
    <2>3. /\ <<>> \in Text /\ Len(<<>>) = 0 /\ <<>> \in Seq(Text)
          /\ <<>> \in Seq(Sent(c))
        BY EmptySeq DEF Text
    <2>4. Calm(c) /\ ~HasPrinted(c)
        BY <2>1 DEF Calm, HasPrinted
    <2>5. c2s[c] \in Seq(Sent(c)) /\ s2c[c] \in Seq(Sent(c)) /\ Len(cbuf[c]) < BUFSIZE
        BY <2>1, <2>3, LinesAssumption
    <2>6. \A q \in Sent(c) : q \in Text /\ Len(q) < BUFSIZE
        BY <2>2
    <2>7. QED
        BY <2>1, <2>3, <2>4, <2>5, <2>6 DEF ClientInv
<1>3. QED
    BY <1>1, <1>2 DEF Init, EchoInv

LEMMA NextKeepsEcho ==
    ASSUME EchoInv, [Next]_vars
    PROVE  EchoInv'
<1>1. CASE UNCHANGED vars
    <2>1. ASSUME NEW c \in Clients
          PROVE  ClientInv(c)'
        <3>1. /\ waits'[c] = waits[c] /\ cbuf'[c] = cbuf[c] /\ typed'[c] = typed[c]
              /\ c2s'[c] = c2s[c] /\ s2c'[c] = s2c[c] /\ faults' = faults /\ ClientInv(c)
            BY <1>1 DEF EchoInv, vars
        <3>2. QED
            BY <3>1 DEF ClientInv, Sent, HasPrinted, OwnText, Calm
    <2>2. QED
        BY <1>1, <2>1 DEF EchoInv, ServerInv, vars
<1>2. CASE Next
    BY <1>2, AskKeeps, ShowKeeps, EchoKeeps, EndServerKeeps, FaultKeeps DEF Next
<1>3. QED
    BY <1>1, <1>2

LEMMA EchoCorrect == Spec => []EchoInv
    BY InitEcho, NextKeepsEcho, PTL DEF Spec

\* Every variable has its type, and no text is longer than its buffer.
THEOREM TypeCorrect == Spec => []TypeOK
    BY EchoCorrect, EchoInvGivesTypes, PTL

\* Without faults question and answer stay in step, for any number of clients,
\* and every line comes back as it was typed.
THEOREM ExactWithoutFaults == Spec => []EchoExact
    BY EchoCorrect, EchoInvGivesExact, PTL

\* Whatever the network does: nobody sees a byte that he did not type.
THEOREM NothingForeign == Spec => []OwnBytes
    BY EchoCorrect, EchoInvGivesOwn, PTL
=============================================================================
