----------------------------- MODULE Dfs_proofs -----------------------------
(***************************************************************************)
(* Proofs about Dfs, for any number of clients, any names and files, any   *)
(* connections, any earlier contents of the servers and any bounds.        *)
(***************************************************************************)
EXTENDS Dfs, DfsPlacement_proofs, FiniteSetTheorems

(* What the two programs write are bytes.                                  *)

\* The single bytes.
LEMMA ByteTypes ==
    /\ \A w \in Words : Text(w) \in Byte
    /\ \A n \in 0..9 : Num(n) \in Byte
    /\ \A n \in Nat : Bin(n) \in Byte
    /\ \A f \in Names : Name(f) \in Byte
    /\ \A k \in Keys : Piece(k) \in Byte
    /\ NUL \in Byte /\ Junk \in Byte
    /\ FileByte \subseteq Byte
    BY DEF Byte, Text, Num, Bin, Name, Piece

\* A padded field.
LEMMA BlockType ==
    ASSUME NEW e \in Byte
    PROVE  Block(e) \in Seq(Byte)
<1>1. MaxLine \in Nat
    BY BoundsAssumption
<1>2. Block(e) \in [1..MaxLine -> Byte]
    BY ByteTypes DEF Block
<1>3. QED
    BY <1>1, <1>2, SeqDef

\* A length and the bytes it counts.
LEMMA PrefixedType ==
    ASSUME NEW q \in Seq(Byte)
    PROVE  Prefixed(q) \in Seq(Byte)
<1>1. Len(q) \in Nat
    BY LenProperties
<1>2. <<Bin(Len(q))>> \in Seq(Byte)
    BY <1>1, ByteTypes
<1>3. QED
    BY <1>2, ConcatProperties DEF Prefixed

\* One word, in a message.
LEMMA WordType ==
    ASSUME NEW w \in Words
    PROVE  /\ <<Text(w)>> \in Seq(Byte)
           /\ Prefixed(<<Text(w)>>) \in Seq(Byte)
           /\ Block(Text(w)) \in Seq(Byte)
<1>1. Text(w) \in Byte
    BY ByteTypes
<1>2. <<Text(w)>> \in Seq(Byte)
    BY <1>1
<1>3. QED
    BY <1>1, <1>2, PrefixedType, BlockType

-----------------------------------------------------------------------------
(* What the two programs read from a stream of bytes are bytes.            *)

\* A read of n bytes, and what it leaves.
LEMMA ReadTypes ==
    ASSUME NEW q \in Seq(Byte), NEW n \in Nat
    PROVE  /\ Taken(q, n) \in Seq(Byte)
           /\ Len(Taken(q, n)) = IF n < Len(q) THEN n ELSE Len(q)
           /\ Left(q, n) \in Seq(Byte)
<1>1. Len(q) \in Nat
    BY LenProperties
<1>2. CASE n < Len(q)
    <2>1. SubSeq(q, 1, n) \in Seq(Byte) /\ SubSeq(q, n + 1, Len(q)) \in Seq(Byte)
        BY <1>1, <1>2, SubSeqType
    <2>2. Len(SubSeq(q, 1, n)) = IF 1 <= n THEN n - 1 + 1 ELSE 0
        BY <1>1, <1>2, SubSeqProperties, ElementOfSeq
    <2>3. QED
        BY <1>2, <2>1, <2>2 DEF Taken, Left
<1>3. CASE ~(n < Len(q))
    <2>1. SubSeq(q, 1, Len(q)) = q
        BY SubSeqFull
    <2>2. SubSeq(q, Len(q) + 1, Len(q)) \in Seq(Byte)
        BY <1>1, SubSeqType
    <2>3. QED
        BY <1>1, <1>3, <2>1, <2>2 DEF Taken, Left
<1>4. QED
    BY <1>2, <1>3

\* The text in a buffer.
LEMMA TextType ==
    ASSUME NEW q \in Seq(Byte)
    PROVE  /\ TextOf(q) \in Seq(Byte)
           /\ Len(TextOf(q)) <= Len(q)
<1> DEFINE T == {n \in DOMAIN q : \A i \in 1..n : q[i] # NUL}
           t == Cardinality(T)
<1>1. Len(q) \in Nat /\ DOMAIN q = 1..Len(q)
    BY LenProperties
<1>2. IsFiniteSet(1..Len(q)) /\ Cardinality(1..Len(q)) = Len(q)
    BY <1>1, FS_Interval
<1>3. T \in SUBSET (1..Len(q))
    BY <1>1
<1> HIDE DEF T
<1>4. t \in Nat /\ t <= Len(q)
    BY <1>2, <1>3, FS_Subset, FS_CardinalityType
<1> HIDE DEF t
<1>5. SubSeq(q, 1, t) \in Seq(Byte)
    BY <1>1, <1>4, SubSeqType
<1>6. Len(SubSeq(q, 1, t)) = IF 1 <= t THEN t - 1 + 1 ELSE 0
    BY <1>1, <1>4, SubSeqProperties, ElementOfSeq
<1>7. TextOf(q) = SubSeq(q, 1, t)
    BY DEF TextOf, T, t
<1>8. QED
    BY <1>1, <1>4, <1>5, <1>6, <1>7

\* The first byte of a stream that is not empty.
LEMMA FirstByte ==
    ASSUME NEW q \in Seq(Byte), q # <<>>
    PROVE  q[1] \in Byte /\ Len(q) \in Nat \ {0}
<1>1. Len(q) \in Nat \ {0}
    BY EmptySeq
<1>2. QED
    BY <1>1, ElementOfSeq

\* atoi of a buffer is a digit of the model.
LEMMA NumberType ==
    ASSUME NEW q \in Seq(Byte)
    PROVE  Number(q) \in 0..9
<1>1. CASE q # <<>> /\ q[1][1] = "num"
    <2>1. q[1] \in {"num"} \X (0..9)
        BY <1>1, FirstByte DEF Byte, FileByte, NUL, Junk, Text
    <2>2. QED
        BY <1>1, <2>1 DEF Number
<1>2. QED
    BY <1>1 DEF Number

\* A complete message, and what follows it.
LEMMA MessageTypes ==
    ASSUME NEW q \in Seq(Byte), HasMessage(q)
    PROVE  /\ q[1][2] \in Nat
           /\ Message(q) \in Seq(Byte)
           /\ AfterMessage(q) \in Seq(Byte)
<1>1. q[1] \in {"int"} \X Nat
    BY FirstByte DEF HasMessage, Byte, FileByte, NUL, Junk, Text
<1>2. PICK n \in Nat : q[1][2] = n /\ n < Len(q) /\ Len(q) \in Nat
    BY <1>1, FirstByte DEF HasMessage
<1>3. SubSeq(q, 2, n + 1) \in Seq(Byte)
    BY <1>2, SubSeqType
<1>4. SubSeq(q, n + 2, Len(q)) \in Seq(Byte)
    BY <1>2, SubSeqType
<1>5. QED
    BY <1>2, <1>3, <1>4 DEF Message, AfterMessage

-----------------------------------------------------------------------------
(* What each command and each reply writes.                                *)

\* The listing of a directory is a sequence of its entries.
LEMMA ListingOrder ==
    ASSUME NEW K \in SUBSET Keys
    PROVE  SetToSeq(K) \in Seq(K)
<1>1. IsFiniteSet(K)
    <2>1. IsFiniteSet(0..9)
        <3>1. \A n \in Nat : IsFiniteSet(0..n)
            BY FS_Interval
        <3>2. QED
            BY <3>1
    <2>2. IsFiniteSet(Keys)
        BY <2>1, NamesAssumption, FS_Product DEF Keys
    <2>3. QED
        BY <2>2, FS_Subset
<1>2. Cardinality(K) \in Nat /\ ExistsBijection(1..Cardinality(K), K)
    BY <1>1, FS_CardinalityType
<1>3. \E g \in [1..Cardinality(K) -> K] : IsInjective(g)
    BY <1>2 DEF ExistsBijection, Bijection, Injection, IsInjective
<1>4. SetToSeq(K) \in [1..Cardinality(K) -> K]
    BY <1>3 DEF SetToSeq
<1>5. QED
    BY <1>2, <1>4, SeqDef

\* Byte i of a sequence of fields lies in one of the fields.
LEMMA FieldIndex ==
    ASSUME NEW m \in Nat \ {0, 1}, NEW n \in Nat, NEW i \in 1..n * m, i % m = 1
    PROVE  (i \div m) + 1 \in 1..n
<1>1. PICK q : q = i \div m
    OBVIOUS
<1>2. q \in Nat /\ i = m * q + 1
    BY <1>1
<1>3. ASSUME q >= n
      PROVE  FALSE
    <2>1. PICK d \in Nat : q = n + d
        BY <1>2, <1>3
    <2>2. i = m * n + m * d + 1 /\ m * d \in Nat /\ m * n = n * m
        BY <1>2, <2>1
    <2>3. QED
        BY <2>2
<1>4. QED
    BY <1>1, <1>2, <1>3

\* LIST's answer.
LEMMA ListingType ==
    ASSUME NEW K \in SUBSET Keys
    PROVE  Listing(K) \in Seq(Byte)
<1>1. PICK ls : ls = SetToSeq(K) /\ ls \in Seq(K)
    BY ListingOrder
<1>2. PICK n : n = Len(ls) /\ n \in Nat
    BY <1>1, LenProperties
<1> DEFINE B == [i \in 1..n * MaxLine |->
                    IF i % MaxLine = 1 THEN Piece(ls[(i \div MaxLine) + 1]) ELSE NUL]
<1>3. n * MaxLine \in Nat
    BY <1>2, BoundsAssumption
<1>4. ASSUME NEW i \in 1..n * MaxLine, i % MaxLine = 1
      PROVE  Piece(ls[(i \div MaxLine) + 1]) \in Byte
    <2>1. (i \div MaxLine) + 1 \in 1..n
        BY <1>2, <1>4, BoundsAssumption, FieldIndex
    <2>2. ls[(i \div MaxLine) + 1] \in K
        BY <1>1, <1>2, <2>1, ElementOfSeq
    <2>3. QED
        BY <2>2, ByteTypes
<1>5. B \in [1..n * MaxLine -> Byte]
    BY <1>4, ByteTypes
<1>6. B \in Seq(Byte)
    BY <1>3, <1>5, SeqDef
<1>7. Listing(K) = B \o Block(Text("DONE"))
    BY <1>1, <1>2 DEF Listing
<1> HIDE DEF B
<1>8. QED
    BY <1>6, <1>7, WordType, ConcatProperties DEF Words

\* GET's piece numbers.
LEMMA NumbersType ==
    ASSUME NEW K \in SUBSET Keys
    PROVE  Numbers(K) \in Seq(Byte)
<1>1. PICK ls : ls = SetToSeq(K) /\ ls \in Seq(K)
    BY ListingOrder
<1>2. PICK n : n = Len(ls) /\ n \in Nat
    BY <1>1, LenProperties
<1> DEFINE B == [i \in 1..2 * n |-> IF i % 2 = 1 THEN Bin(1) ELSE Num(ls[i \div 2][2])]
<1>3. ASSUME NEW i \in 1..2 * n, i % 2 # 1
      PROVE  Num(ls[i \div 2][2]) \in Byte
    <2>1. i \div 2 \in 1..n
        BY <1>2, <1>3
    <2>2. ls[i \div 2] \in Keys
        BY <1>1, <1>2, <2>1, ElementOfSeq
    <2>3. QED
        BY <2>2, ByteTypes DEF Keys
<1>4. Bin(1) \in Byte
    BY ByteTypes
<1>5. B \in [1..2 * n -> Byte]
    BY <1>3, <1>4
<1>6. B \in Seq(Byte)
    BY <1>2, <1>5, SeqDef
<1>7. Numbers(K) = B \o Prefixed(<<Text("DONE")>>)
    BY <1>1, <1>2 DEF Numbers
<1> HIDE DEF B
<1>8. QED
    BY <1>6, <1>7, WordType, ConcatProperties DEF Words

\* The pieces of a stored file.
LEMMA StoredPieceType ==
    ASSUME NEW f \in Names, NEW p \in Parts
    PROVE  PartOf(Contents[f], p) \in Seq(Byte)
<1>1. Contents[f] \in Seq(FileByte)
    BY NamesAssumption
<1>2. Contents[f] \in Seq(Byte)
    BY <1>1, ByteTypes, SeqMonotonic
<1>3. QED
    BY <1>2, PartOfType

\* The writes that carry one piece.
LEMMA UploadType ==
    ASSUME NEW f \in Names, NEW p \in Parts
    PROVE  Upload(f, p) \in Seq(Byte)
<1>1. Len(Contents[f]) \in Nat
    BY NamesAssumption, LenProperties
<1>2. PartLen(Len(Contents[f]), p) \in 0..9
    <2>1. PICK n \in Nat : n = Len(Contents[f])
        BY <1>1
    <2>2. PartLen(n, 4) <= 9
        BY <2>1, NamesAssumption
    <2>3. PieceSize(n) \in Nat /\ Extra(n) \in Nat /\ PieceSize(n) + Extra(n) <= 9
        BY <2>2, CutPoints DEF PartLen
    <2>4. QED
        BY <2>1, <2>3, SMTT(30) DEF PartLen
<1>3. Block(Num(PartLen(Len(Contents[f]), p))) \in Seq(Byte)
    BY <1>2, ByteTypes, BlockType
<1>4. <<Num(p)>> \in Seq(Byte)
    BY ByteTypes DEF Parts
<1>5. QED
    BY <1>3, <1>4, StoredPieceType, ConcatProperties DEF Upload

\* All that PUT writes after the name.
LEMMA UploadedType ==
    ASSUME NEW f \in Names, NEW h \in Hashes, NEW s \in Servers
    PROVE  Uploaded(f, h, s) \in Seq(Byte)
<1>1. CASE h \in 0..3
    <2>1. Uploads(h, s) = RingUploads(h, s)
        BY <1>1, LayoutRing
    <2>2. ((s - h) % 4) + 1 \in Parts /\ ((s - h + 1) % 4) + 1 \in Parts
        BY <1>1 DEF Servers, Parts
    <2>3. Uploads(h, s) # <<>> /\ Uploads(h, s)[1] \in Parts /\ Uploads(h, s)[2] \in Parts
        BY <2>1, <2>2 DEF RingUploads
    <2>4. QED
        BY <2>3, UploadType, ConcatProperties DEF Uploaded
<1>2. CASE h \notin 0..3
    <2>1. Uploads(h, s) = <<>>
        BY <1>2 DEF Uploads
    <2>2. QED
        BY <2>1 DEF Uploaded
<1>3. QED
    BY <1>1, <1>2

\* A loop over the servers that were reached is at one of them, or over.
LEMMA FirstFromType ==
    ASSUME NEW c \in Clients, NEW s \in 0..4, conn[c] \in (SUBSET Servers) \ {{}}
    PROVE  /\ FirstFrom(c, s) \in Servers \cup {4}
           /\ FirstFrom(c, 0) \in Servers
<1>1. ASSUME NEW m \in 0..4, \E t \in conn[c] : t >= m
      PROVE  FirstFrom(c, m) \in Servers
    <2>1. \E t \in conn[c] : t >= m /\ \A u \in conn[c] : u >= m => t <= u
        <3>1. PICK t \in conn[c] : t >= m
            BY <1>1
        <3>2. \A u \in conn[c] : u = 0 \/ u = 1 \/ u = 2 \/ u = 3
            BY DEF Servers
        <3>3. CASE 0 \in conn[c] /\ m = 0
            BY <3>2, <3>3
        <3>4. CASE 1 \in conn[c] /\ m <= 1 /\ ~(0 \in conn[c] /\ m = 0)
            BY <3>2, <3>4
        <3>5. CASE 2 \in conn[c] /\ m <= 2 /\ ~(1 \in conn[c] /\ m <= 1)
                   /\ ~(0 \in conn[c] /\ m = 0)
            BY <3>2, <3>5
        <3>6. CASE 3 \in conn[c] /\ m <= 3 /\ ~(2 \in conn[c] /\ m <= 2)
                   /\ ~(1 \in conn[c] /\ m <= 1) /\ ~(0 \in conn[c] /\ m = 0)
            BY <3>2, <3>6
        <3>7. QED
            BY <3>1, <3>2, <3>3, <3>4, <3>5, <3>6
    <2>2. QED
        BY <1>1, <2>1 DEF FirstFrom
<1>2. ASSUME NEW m \in 0..4, ~(\E t \in conn[c] : t >= m)
      PROVE  FirstFrom(c, m) = 4
    BY <1>2 DEF FirstFrom
<1>3. \E t \in conn[c] : t >= 0
    BY DEF Servers
<1>4. QED
    BY <1>1, <1>2, <1>3

\* What List prints.
LEMMA SummaryType ==
    ASSUME NEW q
    PROVE  Summary(q) \in [full : SUBSET Names, partial : SUBSET Names]
<1>1. \A K \in SUBSET Keys : {k[1] : k \in K} \in SUBSET Names
    BY DEF Keys
<1>2. QED
    BY <1>1 DEF Summary

-----------------------------------------------------------------------------
(* Type correctness.                                                       *)

\* Initially every variable has its type.
LEMMA InitTypes ==
    ASSUME Init
    PROVE  TypeOK
<1>1. AnyName \in Names
    BY NamesAssumption DEF AnyName
<1>2. conn \in [Clients -> (SUBSET Servers) \ {{}}]
    BY ClientsAssumption DEF Init
<1>3. AtMenu \in Client
    BY <1>1 DEF AtMenu, Client, ClientPcs, Servers, Parts
<1>4. Idle \in Thread
    BY <1>1 DEF Idle, Thread, ThreadPcs
<1>5. PICK old \in Preloads :
        /\ files = [s \in Servers |-> {k \in Names \X Parts :
                        k[2] \in Holds(old[k[1]].layout, s) \ old[k[1]].lost}]
        /\ puts = [f \in Names |-> IF old[f].layout = -1 THEN 0 ELSE 1]
    BY DEF Init
<1>6. Names \X Parts \subseteq Keys
    BY DEF Keys, Parts
<1>7. files \in [Servers -> SUBSET (Names \X Parts)]
    BY <1>5
<1>8. files \in [Servers -> SUBSET Keys]
    BY <1>6, <1>7
<1>9. ASSUME NEW s \in Servers, NEW k \in Keys
      PROVE  (IF k \in files[s] THEN PartOf(Contents[k[1]], k[2]) ELSE <<>>) \in Seq(Byte)
    <2>1. CASE k \in files[s]
        <3>1. k[1] \in Names /\ k[2] \in Parts
            BY <1>7, <2>1
        <3>2. QED
            BY <2>1, <3>1, StoredPieceType
    <2>2. QED
        BY <2>1
<1>10. store \in [Servers -> [Keys -> Seq(Byte)]]
    BY <1>9 DEF Init
<1>11. puts \in [Names -> Nat]
    BY <1>5
<1>12. /\ client \in [Clients -> Client]
       /\ thread \in [Clients -> [Servers -> Thread]]
    BY <1>3, <1>4 DEF Init
<1>13. /\ c2s \in [Clients -> [Servers -> Seq(Byte)]]
       /\ s2c \in [Clients -> [Servers -> Seq(Byte)]]
    BY DEF Init
<1>14. /\ gets \in [Clients -> [Names -> Nat]]
       /\ lists \in [Clients -> Nat]
       /\ sent \in SUBSET (Servers \X (Names \X Parts))
       /\ due \in [Clients -> [Names -> SUBSET Parts]]
    BY DEF Init
<1>15. QED
    BY <1>2, <1>8, <1>10, <1>11, <1>12, <1>13, <1>14 DEF TypeOK

\* Writing to every server keeps the streams streams of bytes.
LEMMA WriteAllType ==
    ASSUME TypeOK, NEW c \in Clients, NEW q \in Seq(Byte), WriteAll(c, q)
    PROVE  c2s' \in [Clients -> [Servers -> Seq(Byte)]]
<1>1. ASSUME NEW s \in Servers
      PROVE  c2s[c][s] \in Seq(Byte) /\ c2s[c][s] \o q \in Seq(Byte)
    BY ConcatProperties DEF TypeOK
<1>2. QED
    BY <1>1 DEF TypeOK, WriteAll

\* What a client's record has in a state of the right type.
LEMMA ClientFacts ==
    ASSUME TypeOK, NEW c \in Clients
    PROVE  /\ client[c] \in Client
           /\ conn[c] \in (SUBSET Servers) \ {{}}
           /\ client[c].at \in Servers
           /\ s2c[c][client[c].at] \in Seq(Byte)
           /\ c2s[c][client[c].at] \in Seq(Byte)
           /\ FirstFrom(c, client[c].at + 1) \in Servers \cup {4}
           /\ FirstFrom(c, 0) \in Servers
<1>1. client[c] \in Client /\ conn[c] \in (SUBSET Servers) \ {{}}
    BY DEF TypeOK
<1>2. client[c].at \in Servers
    BY <1>1 DEF Client
<1>3. client[c].at + 1 \in 0..4
    BY <1>2 DEF Servers
<1>4. s2c[c][client[c].at] \in Seq(Byte) /\ c2s[c][client[c].at] \in Seq(Byte)
    BY <1>2 DEF TypeOK
<1>5. QED
    BY <1>1, <1>2, <1>3, <1>4, FirstFromType

\* The record after an iteration of the retrieval loop.
LEMMA AfterAskType ==
    ASSUME TypeOK, NEW c \in Clients, NEW me \in Client, me.at = client[c].at
    PROVE  AfterAsk(c, me) \in Client
<1>1. FirstFrom(c, me.at + 1) \in Servers \cup {4} /\ FirstFrom(c, 0) \in Servers
    BY ClientFacts
<1>2. CASE FirstFrom(c, me.at + 1) # 4
    <2>1. AfterAsk(c, me) = [me EXCEPT !.pc = "fetch", !.at = FirstFrom(c, me.at + 1)]
        BY <1>2 DEF AfterAsk
    <2>2. QED
        BY <1>1, <1>2, <2>1 DEF Client, ClientPcs
<1>3. CASE FirstFrom(c, me.at + 1) = 4 /\ me.part < 4
    <2>1. AfterAsk(c, me)
            = [me EXCEPT !.pc = "fetch", !.at = FirstFrom(c, 0), !.part = @ + 1]
        BY <1>3 DEF AfterAsk
    <2>2. me.part + 1 \in Parts
        BY <1>3 DEF Client, Parts
    <2>3. QED
        BY <1>1, <2>1, <2>2 DEF Client, ClientPcs
<1>4. CASE FirstFrom(c, me.at + 1) = 4 /\ ~(me.part < 4)
    <2>1. AfterAsk(c, me) = [me EXCEPT !.pc = "menu"]
        BY <1>4 DEF AfterAsk
    <2>2. QED
        BY <2>1 DEF Client, ClientPcs
<1>5. QED
    BY <1>2, <1>3, <1>4

\* LIST is sent.
LEMMA ListStep ==
    ASSUME TypeOK, NEW c \in Clients, List(c)
    PROVE  TypeOK'
<1>1. c2s' \in [Clients -> [Servers -> Seq(Byte)]]
    BY WordType, WriteAllType DEF List, Words
<1>2. [client[c] EXCEPT !.pc = "list", !.at = FirstFrom(c, 0), !.entries = <<>>] \in Client
    <2>1. client[c] \in Client /\ FirstFrom(c, 0) \in Servers
        BY ClientFacts
    <2>2. "list" \in ClientPcs /\ <<>> \in Seq(Byte)
        BY DEF ClientPcs
    <2>3. QED
        BY <2>1, <2>2 DEF Client
<1>3. client' \in [Clients -> Client]
    BY <1>2 DEF List, TypeOK
<1>4. lists' \in [Clients -> Nat]
    BY DEF List, TypeOK
<1>5. QED
    BY <1>1, <1>3, <1>4 DEF List, TypeOK

\* List reads a block.
LEMMA ListReadStep ==
    ASSUME TypeOK, NEW c \in Clients, ListRead(c)
    PROVE  TypeOK'
<1> DEFINE me == client[c]
           q  == Taken(s2c[c][me.at], MaxLine)
<1>1. /\ me \in Client /\ me.at \in Servers
      /\ s2c[c][me.at] \in Seq(Byte) /\ s2c[c][me.at] # <<>>
      /\ FirstFrom(c, me.at + 1) \in Servers \cup {4}
    BY ClientFacts DEF ListRead
<1>2. MaxLine \in Nat \ {0}
    BY BoundsAssumption
<1>3. q \in Seq(Byte) /\ Left(s2c[c][me.at], MaxLine) \in Seq(Byte)
    BY <1>1, <1>2, ReadTypes
<1>4. s2c' \in [Clients -> [Servers -> Seq(Byte)]]
    BY <1>1, <1>3 DEF ListRead, TypeOK
<1>5. q # <<>>
    <2>1. Len(s2c[c][me.at]) \in Nat \ {0}
        BY <1>1, FirstByte
    <2>2. Len(q) # 0
        BY <1>1, <1>2, <2>1, ReadTypes
    <2>3. QED
        BY <2>2, EmptySeq
<1>6. q[1] \in Byte
    BY <1>3, <1>5, FirstByte
<1> HIDE DEF q
<1>7. [me EXCEPT !.entries = Append(@, q[1])] \in Client
    BY <1>1, <1>6, AppendProperties DEF Client
<1>8. [me EXCEPT !.pc = "ub"] \in Client
    BY <1>1 DEF Client, ClientPcs
<1>9. FirstFrom(c, me.at + 1) # 4 => [me EXCEPT !.at = FirstFrom(c, me.at + 1)] \in Client
    BY <1>1 DEF Client
<1>10. [me EXCEPT !.pc = "menu", !.shown = Summary(me.entries)] \in Client
    BY <1>1, SummaryType DEF Client, ClientPcs
<1>11. client' \in [Clients -> Client]
    BY <1>7, <1>8, <1>9, <1>10 DEF ListRead, TypeOK, q
<1>12. QED
    BY <1>4, <1>11 DEF ListRead, TypeOK, hvars

\* PUT is sent, with the pieces when the file exists.
LEMMA PutStep ==
    ASSUME TypeOK, NEW c \in Clients, NEW f \in Names, NEW h \in Hashes, Put(c, f, h)
    PROVE  TypeOK'
<1>1. ASSUME NEW s \in Servers
      PROVE  c2s[c][s] \o Block(Text("PUT")) \o Block(Name(f))
               \o (IF f \in Local[c] THEN Uploaded(f, h, s) ELSE <<>>) \in Seq(Byte)
    <2>1. c2s[c][s] \in Seq(Byte)
        BY DEF TypeOK
    <2>2. Block(Text("PUT")) \in Seq(Byte)
        BY WordType DEF Words
    <2>3. Block(Name(f)) \in Seq(Byte)
        BY ByteTypes, BlockType
    <2>4. (IF f \in Local[c] THEN Uploaded(f, h, s) ELSE <<>>) \in Seq(Byte)
        BY UploadedType
    <2>5. QED
        BY <2>1, <2>2, <2>3, <2>4, ConcatProperties
<1>2. c2s' \in [Clients -> [Servers -> Seq(Byte)]]
    BY <1>1 DEF Put, TypeOK
<1>3. puts' \in [Names -> Nat]
    BY DEF Put, TypeOK
<1>4. sent' \in SUBSET (Servers \X (Names \X Parts))
    <2>1. conn[c] \subseteq Servers /\ sent \in SUBSET (Servers \X (Names \X Parts))
        BY DEF TypeOK
    <2>2. conn[c] \X ({f} \X Parts) \subseteq Servers \X (Names \X Parts)
        BY <2>1
    <2>3. sent' \subseteq sent \cup (conn[c] \X ({f} \X Parts))
        BY DEF Put
    <2>4. QED
        BY <2>1, <2>2, <2>3
<1>5. QED
    BY <1>2, <1>3, <1>4 DEF Put, TypeOK

\* GET is sent.
LEMMA GetStep ==
    ASSUME TypeOK, NEW c \in Clients, NEW f \in Names, Get(c, f)
    PROVE  TypeOK'
<1>1. Block(Text("GET")) \o Prefixed(<<Name(f)>>) \in Seq(Byte)
    <2>1. <<Name(f)>> \in Seq(Byte)
        BY ByteTypes
    <2>2. QED
        BY <2>1, PrefixedType, WordType, ConcatProperties DEF Words
<1>2. c2s' \in [Clients -> [Servers -> Seq(Byte)]]
    BY <1>1, WriteAllType DEF Get
<1>3. [client[c] EXCEPT !.pc = "collect", !.file = f, !.at = FirstFrom(c, 0),
                        !.marks = {}] \in Client
    BY ClientFacts, ZenonT(60) DEF Client, ClientPcs
<1>4. client' \in [Clients -> Client]
    BY <1>3 DEF Get, TypeOK
<1>5. gets' \in [Clients -> [Names -> Nat]]
    BY DEF Get, TypeOK
<1>6. due' \in [Clients -> [Names -> SUBSET Parts]]
    <2> DEFINE D == IF Parts \subseteq UNION {SentParts(g, conn[c]) : g \in Within[f]}
                    THEN SentParts(f, conn[c]) ELSE {}
    <2>1. D \in SUBSET Parts
        BY DEF SentParts
    <2>2. due' = [due EXCEPT ![c][f] = D]
        BY DEF Get
    <2> HIDE DEF D
    <2>3. QED
        BY <2>1, <2>2, Zenon DEF TypeOK
<1>7. QED
    BY <1>2, <1>4, <1>5, <1>6 DEF Get, TypeOK

\* A piece number or a DONE is read.
LEMMA CollectStep ==
    ASSUME TypeOK, NEW c \in Clients, Collect(c)
    PROVE  TypeOK'
<1> DEFINE me == client[c]
           q  == Message(s2c[c][me.at])
           next == FirstFrom(c, me.at + 1)
<1>1. /\ me \in Client /\ me.at \in Servers
      /\ s2c[c][me.at] \in Seq(Byte)
      /\ next \in Servers \cup {4} /\ FirstFrom(c, 0) \in Servers
    BY ClientFacts
<1>2. HasMessage(s2c[c][me.at])
    BY DEF Collect
<1>3. s2c' \in [Clients -> [Servers -> Seq(Byte)]]
    <2>1. AfterMessage(s2c[c][me.at]) \in Seq(Byte)
        BY <1>1, <1>2, MessageTypes
    <2>2. QED
        BY <1>1, <2>1 DEF Collect, TypeOK
<1>4. UNCHANGED <<conn, thread, files, store, hvars>>
    BY DEF Collect
<1>5. CASE Number(q) \in Parts /\ client' = [client EXCEPT ![c].marks = @ \cup {Number(q)}]
           /\ UNCHANGED c2s
    <2>1. client' \in [Clients -> Client]
        BY <1>1, <1>5 DEF TypeOK, Client
    <2>2. QED
        BY <1>3, <1>4, <1>5, <2>1 DEF TypeOK, hvars
<1>6. CASE client' = [client EXCEPT ![c].pc = "ub"] /\ UNCHANGED c2s
    <2>1. client' \in [Clients -> Client]
        BY <1>1, <1>6 DEF TypeOK, Client, ClientPcs
    <2>2. QED
        BY <1>3, <1>4, <1>6, <2>1 DEF TypeOK, hvars
<1>7. CASE next # 4 /\ client' = [client EXCEPT ![c].at = next] /\ UNCHANGED c2s
    <2>1. client' \in [Clients -> Client]
        BY <1>1, <1>7 DEF TypeOK, Client
    <2>2. QED
        BY <1>3, <1>4, <1>7, <2>1 DEF TypeOK, hvars
<1>8. CASE /\ WriteAll(c, Prefixed(<<Text("YES")>>))
           /\ client' = [client EXCEPT ![c] =
                           [@ EXCEPT !.pc = "fetch", !.at = FirstFrom(c, 0),
                                     !.part = 1, !.marks = {}]]
    <2>1. [me EXCEPT !.pc = "fetch", !.at = FirstFrom(c, 0), !.part = 1, !.marks = {}]
            \in Client
        <3>1. "fetch" \in ClientPcs /\ 1 \in Parts /\ {} \in SUBSET Parts
            BY DEF ClientPcs, Parts
        <3>2. QED
            BY <1>1, <3>1 DEF Client
    <2>2. client' \in [Clients -> Client]
        BY <1>8, <2>1 DEF TypeOK
    <2>3. c2s' \in [Clients -> [Servers -> Seq(Byte)]]
        BY <1>8, WordType, WriteAllType DEF Words
    <2>4. QED
        BY <1>3, <1>4, <2>2, <2>3 DEF TypeOK, hvars
<1>9. CASE /\ WriteAll(c, Prefixed(<<Text("NO")>>))
           /\ client' = [client EXCEPT ![c].pc = "menu"]
    <2>1. client' \in [Clients -> Client]
        BY <1>1, <1>9 DEF TypeOK, Client, ClientPcs
    <2>2. c2s' \in [Clients -> [Servers -> Seq(Byte)]]
        BY <1>9, WordType, WriteAllType DEF Words
    <2>3. QED
        BY <1>3, <1>4, <2>1, <2>2 DEF TypeOK, hvars
<1>10. QED
    BY <1>5, <1>6, <1>7, <1>8, <1>9 DEF Collect

\* A piece is declined.
LEMMA DeclineStep ==
    ASSUME TypeOK, NEW c \in Clients, Decline(c)
    PROVE  TypeOK'
<1>1. client[c] \in Client /\ client[c].at \in Servers
      /\ c2s[c][client[c].at] \in Seq(Byte)
    BY ClientFacts
<1>2. c2s[c][client[c].at] \o Prefixed(<<Text("DN")>>) \in Seq(Byte)
    BY <1>1, WordType, ConcatProperties DEF Words
<1>3. c2s' \in [Clients -> [Servers -> Seq(Byte)]]
    BY <1>1, <1>2 DEF Decline, TypeOK
<1>4. client' \in [Clients -> Client]
    BY <1>1, AfterAskType DEF Decline, TypeOK
<1>5. QED
    BY <1>3, <1>4 DEF Decline, TypeOK, hvars

\* A piece is asked for.
LEMMA AskStep ==
    ASSUME TypeOK, NEW c \in Clients, Ask(c)
    PROVE  TypeOK'
<1> DEFINE me == client[c]
<1>1. me \in Client /\ me.at \in Servers /\ c2s[c][me.at] \in Seq(Byte)
    BY ClientFacts
<1>2. <<me.file, me.part>> \in Keys
    BY <1>1 DEF Client, Keys, Parts
<1>3. <<Piece(<<me.file, me.part>>)>> \in Seq(Byte)
    BY <1>2, ByteTypes
<1>4. c2s[c][me.at] \o Prefixed(<<Text("NEED")>>) \o Prefixed(<<Piece(<<me.file, me.part>>)>>)
        \in Seq(Byte)
    BY <1>1, <1>3, WordType, PrefixedType, ConcatProperties DEF Words
<1>5. c2s' \in [Clients -> [Servers -> Seq(Byte)]]
    BY <1>1, <1>4 DEF Ask, TypeOK
<1>6. client' \in [Clients -> Client]
    BY <1>1 DEF Ask, TypeOK, Client, ClientPcs
<1>7. QED
    BY <1>5, <1>6 DEF Ask, TypeOK, hvars

\* The record after an answer was read.
LEMMA ReceivedType ==
    ASSUME NEW me \in Client, NEW q \in Seq(Byte)
    PROVE  Received(me, q) \in Client /\ Received(me, q).at = me.at
<1> DEFINE m == me.marks \cup {me.part}
           o == [me.out EXCEPT ![me.file] = @ \o q]
<1>1. me.file \in Names /\ me.out \in [Names -> Seq(Byte)]
    BY DEF Client
<1>2. me.out[me.file] \o q \in Seq(Byte)
    BY <1>1, ConcatProperties
<1>3. o \in [Names -> Seq(Byte)]
    BY <1>1, <1>2
<1>4. m \in SUBSET Parts
    BY DEF Client
<1>5. Received(me, q) = IF q = <<Text("NO")>> THEN me
                        ELSE [me EXCEPT !.marks = m, !.out = o]
    BY DEF Received
<1> HIDE DEF m, o
<1>6. [me EXCEPT !.marks = m, !.out = o] \in Client
    BY <1>3, <1>4 DEF Client
<1>7. [me EXCEPT !.marks = m, !.out = o].at = me.at
    BY DEF Client
<1>8. CASE q = <<Text("NO")>>
    BY <1>5, <1>8
<1>9. CASE q # <<Text("NO")>>
    BY <1>5, <1>6, <1>7, <1>9
<1>10. QED
    BY <1>8, <1>9

\* The answer for a piece is read and written to the output file.
LEMMA ReplyStep ==
    ASSUME TypeOK, NEW c \in Clients, Reply(c)
    PROVE  TypeOK'
<1> DEFINE me == client[c]
           q  == Message(s2c[c][me.at])
<1>1. /\ me \in Client /\ me.at \in Servers
      /\ s2c[c][me.at] \in Seq(Byte) /\ HasMessage(s2c[c][me.at])
    BY ClientFacts DEF Reply
<1>2. q \in Seq(Byte) /\ AfterMessage(s2c[c][me.at]) \in Seq(Byte)
    BY <1>1, MessageTypes
<1>3. s2c' \in [Clients -> [Servers -> Seq(Byte)]]
    BY <1>1, <1>2 DEF Reply, TypeOK
<1>4. Received(me, q) \in Client /\ Received(me, q).at = me.at
    <2> HIDE DEF me, q
    <2>1. QED
        BY <1>1, <1>2, ReceivedType
<1>5. AfterAsk(c, Received(me, q)) \in Client
    BY <1>4, AfterAskType
<1>6. client' = [client EXCEPT ![c] = AfterAsk(c, Received(me, q))]
    BY DEF Reply
<1>7. client' \in [Clients -> Client]
    BY <1>5, <1>6 DEF TypeOK
<1>8. QED
    BY <1>3, <1>7 DEF Reply, TypeOK, hvars

\* The client is stopped.
LEMMA QuitStep ==
    ASSUME TypeOK, NEW c \in Clients, Quit(c)
    PROVE  TypeOK'
<1>1. client' \in [Clients -> Client]
    <2>1. "gone" \in ClientPcs
        BY DEF ClientPcs
    <2>2. [client[c] EXCEPT !.pc = "gone"] \in Client
        BY <2>1, ClientFacts DEF Client
    <2>3. QED
        BY <2>2 DEF Quit, TypeOK
<1>2. QED
    BY <1>1 DEF Quit, TypeOK, hvars

-----------------------------------------------------------------------------
(* The server threads.                                                     *)

\* What a thread's locals and its streams are in a state of the right type.
LEMMA ThreadFacts ==
    ASSUME TypeOK, NEW c \in Clients, NEW s \in Servers
    PROVE  /\ thread[c][s] \in Thread
           /\ c2s[c][s] \in Seq(Byte)
           /\ s2c[c][s] \in Seq(Byte)
           /\ files[s] \in SUBSET Keys
           /\ store[s] \in [Keys -> Seq(Byte)]
           /\ MaxLine \in Nat
    BY BoundsAssumption DEF TypeOK

\* Reading keeps the streams streams of bytes.
LEMMA ConsumeType ==
    ASSUME TypeOK, NEW c \in Clients, NEW s \in Servers, NEW n \in Nat,
           NEW t \in Thread, Consume(c, s, n, t)
    PROVE  /\ c2s' \in [Clients -> [Servers -> Seq(Byte)]]
           /\ thread' \in [Clients -> [Servers -> Thread]]
<1>1. Left(c2s[c][s], n) \in Seq(Byte)
    BY ThreadFacts, ReadTypes
<1>2. QED
    BY <1>1 DEF Consume, TypeOK

\* Answering does too.
LEMMA AnswerType ==
    ASSUME TypeOK, NEW c \in Clients, NEW s \in Servers, NEW q \in Seq(Byte),
           s2c' = [s2c EXCEPT ![c][s] = @ \o q]
    PROVE  s2c' \in [Clients -> [Servers -> Seq(Byte)]]
<1>1. s2c[c][s] \o q \in Seq(Byte)
    BY ThreadFacts, ConcatProperties
<1>2. QED
    BY <1>1 DEF TypeOK

\* A command is read.
LEMMA CommandStep ==
    ASSUME TypeOK, NEW c \in Clients, NEW s \in Servers, Command(c, s)
    PROVE  TypeOK'
<1> DEFINE th == thread[c][s]
           q  == Buf(c, s, MaxLine)
           pc == IF Says(q, "PUT") THEN "name" ELSE IF Says(q, "GET") THEN "file" ELSE "cmd"
<1>1. UNCHANGED <<conn, client, files, store, hvars>>
    BY DEF Command
<1>2. th \in Thread /\ MaxLine \in Nat
    BY ThreadFacts
<1>3. CASE s2c' = [s2c EXCEPT ![c][s] = @ \o Listing(files[s])] /\ Consume(c, s, MaxLine, th)
    <2>1. s2c' \in [Clients -> [Servers -> Seq(Byte)]]
        BY <1>3, ThreadFacts, ListingType, AnswerType
    <2>2. /\ c2s' \in [Clients -> [Servers -> Seq(Byte)]]
          /\ thread' \in [Clients -> [Servers -> Thread]]
        BY <1>2, <1>3, ConsumeType
    <2>3. QED
        BY <1>1, <2>1, <2>2 DEF TypeOK, hvars
<1>4. CASE Consume(c, s, MaxLine, [th EXCEPT !.pc = pc]) /\ UNCHANGED s2c
    <2>1. pc \in ThreadPcs
        BY DEF ThreadPcs
    <2> HIDE DEF pc
    <2>2. [th EXCEPT !.pc = pc] \in Thread
        BY <1>2, <2>1 DEF Thread
    <2>3. /\ c2s' \in [Clients -> [Servers -> Seq(Byte)]]
          /\ thread' \in [Clients -> [Servers -> Thread]]
        BY <1>2, <1>4, <2>2, ConsumeType
    <2>4. QED
        BY <1>1, <1>4, <2>3 DEF TypeOK, hvars
<1>5. QED
    BY <1>3, <1>4 DEF Command

\* The thread of a client that has gone goes round.
LEMMA SpinStep ==
    ASSUME TypeOK, NEW c \in Clients, NEW s \in Servers, Spin(c, s)
    PROVE  TypeOK'
<1>1. thread' \in [Clients -> [Servers -> Thread]]
    <2>1. "spin" \in ThreadPcs
        BY DEF ThreadPcs
    <2>2. [thread[c][s] EXCEPT !.pc = "spin"] \in Thread
        BY <2>1, ThreadFacts DEF Thread
    <2>3. thread' = [thread EXCEPT ![c][s] = [thread[c][s] EXCEPT !.pc = "spin"]]
        BY DEF Spin, TypeOK
    <2>4. QED
        BY <2>2, <2>3 DEF TypeOK
<1>2. QED
    BY <1>1 DEF Spin, TypeOK, hvars

\* A step that reads n bytes and sets the thread's locals, and nothing else.
LEMMA ReadStep ==
    ASSUME TypeOK, NEW c \in Clients, NEW s \in Servers, NEW n \in Nat,
           NEW t \in Thread, Consume(c, s, n, t),
           UNCHANGED <<conn, client, s2c, files, store, hvars>>
    PROVE  TypeOK'
<1>1. /\ c2s' \in [Clients -> [Servers -> Seq(Byte)]]
      /\ thread' \in [Clients -> [Servers -> Thread]]
    BY ConsumeType
<1>2. QED
    BY <1>1 DEF TypeOK, hvars

\* PUT's reads.
LEMMA PutNameStep ==
    ASSUME TypeOK, NEW c \in Clients, NEW s \in Servers, PutName(c, s)
    PROVE  TypeOK'
<1> DEFINE th == thread[c][s]
           q  == Buf(c, s, MaxLine)
           t  == IF q # <<>> /\ q[1][1] = "name"
                 THEN [th EXCEPT !.pc = "size", !.name = q[1][2], !.round = 1]
                 ELSE [th EXCEPT !.pc = "astray"]
<1>1. th \in Thread /\ MaxLine \in Nat /\ q \in Seq(Byte)
    BY ThreadFacts, ReadTypes DEF Buf
<1>2. t \in Thread
    <2>1. CASE q # <<>> /\ q[1][1] = "name"
        <3>1. q[1] \in {"name"} \X Names
            BY <1>1, <2>1, FirstByte DEF Byte, FileByte, NUL, Junk, Text
        <3>2. q[1][2] \in Names
            BY <3>1
        <3>3. t = [th EXCEPT !.pc = "size", !.name = q[1][2], !.round = 1]
            BY <2>1
        <3>4. "size" \in ThreadPcs /\ 1 \in 0..4
            BY DEF ThreadPcs
        <3> HIDE DEF q, t
        <3>5. QED
            BY <1>1, <3>2, <3>3, <3>4 DEF Thread
    <2>2. CASE ~(q # <<>> /\ q[1][1] = "name")
        <3>1. t = [th EXCEPT !.pc = "astray"] /\ "astray" \in ThreadPcs
            BY <2>2 DEF ThreadPcs
        <3> HIDE DEF q, t
        <3>2. QED
            BY <1>1, <3>1 DEF Thread
    <2>3. QED
        BY <2>1, <2>2
<1>3. Consume(c, s, MaxLine, t) /\ UNCHANGED <<conn, client, s2c, files, store, hvars>>
    BY DEF PutName
<1> HIDE DEF t
<1>4. QED
    BY <1>1, <1>2, <1>3, ReadStep

LEMMA PutSizeStep ==
    ASSUME TypeOK, NEW c \in Clients, NEW s \in Servers, PutSize(c, s)
    PROVE  TypeOK'
<1> DEFINE n == Number(Buf(c, s, MaxLine))
           t == [thread[c][s] EXCEPT !.pc = "data", !.size = n]
<1>1. thread[c][s] \in Thread /\ MaxLine \in Nat
    BY ThreadFacts
<1>2. n \in 0..9
    BY ThreadFacts, ReadTypes, NumberType DEF Buf
<1> HIDE DEF n
<1>3. t \in Thread
    BY <1>1, <1>2 DEF Thread, ThreadPcs
<1>4. Consume(c, s, MaxLine, t) /\ UNCHANGED <<conn, client, s2c, files, store, hvars>>
    BY DEF PutSize, n
<1> HIDE DEF t
<1>5. QED
    BY <1>1, <1>3, <1>4, ReadStep

LEMMA PutDataStep ==
    ASSUME TypeOK, NEW c \in Clients, NEW s \in Servers, PutData(c, s)
    PROVE  TypeOK'
<1> DEFINE th == thread[c][s]
           q  == TextOf(Buf(c, s, th.size))
           d  == q \o [i \in 1..(th.size - Len(q)) |-> Junk]
           t  == [th EXCEPT !.pc = "num", !.data = d]
<1>1. th \in Thread /\ th.size \in Nat
    BY ThreadFacts DEF Thread
<1>2. /\ Buf(c, s, th.size) \in Seq(Byte)
      /\ Len(Buf(c, s, th.size)) <= th.size
    <2>1. Len(c2s[c][s]) \in Nat
        BY ThreadFacts, LenProperties
    <2>2. QED
        BY <1>1, <2>1, ThreadFacts, ReadTypes DEF Buf
<1>3. q \in Seq(Byte) /\ Len(q) \in Nat /\ Len(q) <= th.size
    <2>1. Len(Buf(c, s, th.size)) \in Nat
        BY <1>2, LenProperties
    <2>2. q \in Seq(Byte) /\ Len(q) <= Len(Buf(c, s, th.size))
        BY <1>2, TextType
    <2>3. Len(q) \in Nat
        BY <2>2, LenProperties
    <2>4. QED
        BY <1>1, <1>2, <2>1, <2>2, <2>3
<1> HIDE DEF q
<1>4. d \in Seq(Byte)
    <2>1. th.size - Len(q) \in Nat
        BY <1>1, <1>3
    <2>2. [i \in 1..(th.size - Len(q)) |-> Junk] \in [1..(th.size - Len(q)) -> Byte]
        BY ByteTypes
    <2>3. [i \in 1..(th.size - Len(q)) |-> Junk] \in Seq(Byte)
        BY <2>1, <2>2, SeqDef
    <2>4. QED
        BY <1>3, <2>3, ConcatProperties
<1> HIDE DEF d
<1>5. t \in Thread
    BY <1>1, <1>4 DEF Thread, ThreadPcs
<1>6. Consume(c, s, th.size, t) /\ UNCHANGED <<conn, client, s2c, files, store, hvars>>
    BY DEF PutData, d, q
<1> HIDE DEF t
<1>7. QED
    BY <1>1, <1>5, <1>6, ReadStep

\* PUT creates the piece file, ...
LEMMA PutNumStep ==
    ASSUME TypeOK, NEW c \in Clients, NEW s \in Servers, PutNum(c, s)
    PROVE  TypeOK'
<1> DEFINE th == thread[c][s]
           p  == Number(Buf(c, s, 1))
           t  == [th EXCEPT !.pc = "flush", !.num = p]
<1>1. th \in Thread
    BY ThreadFacts
<1>2. p \in 0..9
    BY ThreadFacts, ReadTypes, NumberType DEF Buf
<1>3. /\ Consume(c, s, 1, t)
      /\ files' = [files EXCEPT ![s] = @ \cup {<<th.name, p>>}]
      /\ UNCHANGED <<conn, client, s2c, store, hvars>>
    BY DEF PutNum
<1> HIDE DEF p
<1>4. t \in Thread
    BY <1>1, <1>2 DEF Thread, ThreadPcs
<1>5. /\ c2s' \in [Clients -> [Servers -> Seq(Byte)]]
      /\ thread' \in [Clients -> [Servers -> Thread]]
    <2> HIDE DEF t
    <2>1. QED
        BY <1>3, <1>4, ConsumeType
<1>6. <<th.name, p>> \in Keys
    BY <1>1, <1>2 DEF Thread, Keys
<1>7. files' \in [Servers -> SUBSET Keys]
    BY <1>3, <1>6 DEF TypeOK
<1>8. QED
    BY <1>3, <1>5, <1>7 DEF TypeOK, hvars

\* ... and closes it.
LEMMA PutFlushStep ==
    ASSUME TypeOK, NEW c \in Clients, NEW s \in Servers, PutFlush(c, s)
    PROVE  TypeOK'
<1> DEFINE th == thread[c][s]
           k  == <<th.name, th.num>>
<1>1. th \in Thread /\ k \in Keys /\ th.data \in Seq(Byte)
    BY ThreadFacts DEF Thread, Keys
<1>2. store[s][k] \in Seq(Byte)
    BY <1>1, ThreadFacts
<1>3. store[s][k] \o th.data \in Seq(Byte)
    BY <1>1, <1>2, ConcatProperties
<1>4. store' = [store EXCEPT ![s][k] = @ \o th.data]
    BY DEF PutFlush
<1> HIDE DEF k
<1>5. store' \in [Servers -> [Keys -> Seq(Byte)]]
    BY <1>1, <1>3, <1>4 DEF TypeOK
<1>6. /\ [th EXCEPT !.pc = "size", !.round = 2] \in Thread
      /\ [th EXCEPT !.pc = "cmd", !.round = 0] \in Thread
    <2>1. {"size", "cmd"} \subseteq ThreadPcs /\ {0, 2} \subseteq 0..4
        BY DEF ThreadPcs
    <2>2. [th EXCEPT !.pc = "size", !.round = 2] \in Thread
        BY <1>1, <2>1 DEF Thread
    <2>3. [th EXCEPT !.pc = "cmd", !.round = 0] \in Thread
        BY <1>1, <2>1 DEF Thread
    <2>4. QED
        BY <2>2, <2>3
<1>7. thread' \in [Clients -> [Servers -> Thread]]
    BY <1>6 DEF PutFlush, TypeOK
<1>8. QED
    BY <1>5, <1>7 DEF PutFlush, TypeOK, hvars

\* GET's reads and answers.
LEMMA GetFileStep ==
    ASSUME TypeOK, NEW c \in Clients, NEW s \in Servers, GetFile(c, s)
    PROVE  TypeOK'
<1> DEFINE q == c2s[c][s]
           K == {k \in files[s] : k[1] \in Within[Message(q)[1][2]]}
           t == [thread[c][s] EXCEPT !.pc = "answer"]
<1>1. q[1][2] + 1 \in Nat
    BY ThreadFacts, MessageTypes, SMTT(30) DEF GetFile
<1>2. K \in SUBSET Keys
    BY ThreadFacts
<1>3. t \in Thread
    <2>1. "answer" \in ThreadPcs
        BY DEF ThreadPcs
    <2>2. QED
        BY <2>1, ThreadFacts DEF Thread
<1>4. /\ s2c' = [s2c EXCEPT ![c][s] = @ \o Numbers(K)]
      /\ Consume(c, s, q[1][2] + 1, t)
      /\ UNCHANGED <<conn, client, files, store, hvars>>
    BY DEF GetFile
<1> HIDE DEF K, t
<1>5. s2c' \in [Clients -> [Servers -> Seq(Byte)]]
    BY <1>2, <1>4, NumbersType, AnswerType
<1>6. /\ c2s' \in [Clients -> [Servers -> Seq(Byte)]]
      /\ thread' \in [Clients -> [Servers -> Thread]]
    BY <1>1, <1>3, <1>4, ConsumeType
<1>7. QED
    BY <1>4, <1>5, <1>6 DEF TypeOK, hvars

LEMMA GetAnswerStep ==
    ASSUME TypeOK, NEW c \in Clients, NEW s \in Servers, GetAnswer(c, s)
    PROVE  TypeOK'
<1> DEFINE q == c2s[c][s]
           th == thread[c][s]
           t == IF Message(q) = <<Text("YES")>>
                THEN [th EXCEPT !.pc = "need", !.round = 1]
                ELSE [th EXCEPT !.pc = "cmd"]
<1>1. q[1][2] + 1 \in Nat
    BY ThreadFacts, MessageTypes DEF GetAnswer
<1>2. th \in Thread /\ {"need", "cmd"} \subseteq ThreadPcs /\ 1 \in 0..4
    BY ThreadFacts DEF ThreadPcs
<1>3. [th EXCEPT !.pc = "need", !.round = 1] \in Thread
    BY <1>2 DEF Thread
<1>4. [th EXCEPT !.pc = "cmd"] \in Thread
    BY <1>2 DEF Thread
<1>5. t \in Thread
    BY <1>3, <1>4
<1>6. /\ Consume(c, s, q[1][2] + 1, t)
      /\ UNCHANGED <<conn, client, s2c, files, store, hvars>>
    BY DEF GetAnswer
<1> HIDE DEF t
<1>7. QED
    BY <1>1, <1>5, <1>6, ReadStep

\* The thread after a round of the retrieval loop.
LEMMA NextRoundType ==
    ASSUME NEW th \in Thread
    PROVE  NextRound(th) \in Thread
<1>1. CASE th.round < 4
    <2>1. th.round + 1 \in 0..4
        BY <1>1 DEF Thread
    <2>2. NextRound(th) = [th EXCEPT !.round = @ + 1]
        BY <1>1 DEF NextRound
    <2>3. QED
        BY <2>1, <2>2 DEF Thread
<1>2. CASE ~(th.round < 4)
    <2>1. "cmd" \in ThreadPcs /\ 0 \in 0..4
        BY DEF ThreadPcs
    <2>2. NextRound(th) = [th EXCEPT !.pc = "cmd", !.round = 0]
        BY <1>2 DEF NextRound
    <2>3. QED
        BY <2>1, <2>2 DEF Thread
<1>3. QED
    BY <1>1, <1>2

LEMMA GetDeclinedStep ==
    ASSUME TypeOK, NEW c \in Clients, NEW s \in Servers, GetDeclined(c, s)
    PROVE  TypeOK'
<1>1. c2s[c][s][1][2] + 1 \in Nat
    BY ThreadFacts, MessageTypes, SMTT(30) DEF GetDeclined
<1>2. NextRound(thread[c][s]) \in Thread
    BY ThreadFacts, NextRoundType
<1>3. /\ Consume(c, s, c2s[c][s][1][2] + 1, NextRound(thread[c][s]))
      /\ UNCHANGED <<conn, client, s2c, files, store, hvars>>
    BY DEF GetDeclined
<1>4. QED
    BY <1>1, <1>2, <1>3, ReadStep

LEMMA GetPieceStep ==
    ASSUME TypeOK, NEW c \in Clients, NEW s \in Servers, GetPiece(c, s)
    PROVE  TypeOK'
<1> DEFINE q == c2s[c][s]
           r == AfterMessage(q)
           k == Message(r)[1][2]
           d == IF k \in files[s] THEN Taken(store[s][k], MaxLine) ELSE <<Text("NO")>>
           n == q[1][2] + 1 + r[1][2] + 1
<1>1. r \in Seq(Byte) /\ q[1][2] \in Nat
    BY ThreadFacts, MessageTypes, ZenonT(60) DEF GetPiece
<1>2. HasMessage(r)
    BY Zenon DEF GetPiece
<1>3. r[1][2] \in Nat
    BY <1>1, <1>2, MessageTypes
<1>4. n \in Nat
    <2>1. PICK i \in Nat : i = q[1][2]
        BY <1>1
    <2>2. PICK j \in Nat : j = r[1][2]
        BY <1>3
    <2>3. n = i + 1 + j + 1
        BY <2>1, <2>2
    <2> HIDE DEF n
    <2>4. QED
        BY <2>3
<1>5. d \in Seq(Byte)
    <2>1. k \in files[s] => store[s][k] \in Seq(Byte)
        BY ThreadFacts, SMTT(30)
    <2>2. k \in files[s] => Taken(store[s][k], MaxLine) \in Seq(Byte)
        BY <2>1, ReadTypes, BoundsAssumption
    <2>3. <<Text("NO")>> \in Seq(Byte)
        BY WordType, SMTT(30) DEF Words
    <2>4. QED
        BY <2>2, <2>3, Zenon
<1>6. /\ s2c' = [s2c EXCEPT ![c][s] = @ \o Prefixed(d)]
      /\ Consume(c, s, n, NextRound(thread[c][s]))
      /\ UNCHANGED <<conn, client, files, store, hvars>>
    BY Zenon DEF GetPiece
<1> HIDE DEF d, n
<1>7. s2c' \in [Clients -> [Servers -> Seq(Byte)]]
    BY <1>5, <1>6, PrefixedType, AnswerType
<1>8. /\ c2s' \in [Clients -> [Servers -> Seq(Byte)]]
      /\ thread' \in [Clients -> [Servers -> Thread]]
    BY <1>4, <1>6, ThreadFacts, NextRoundType, ConsumeType
<1>9. QED
    BY <1>6, <1>7, <1>8, ZenonT(60) DEF TypeOK, hvars

-----------------------------------------------------------------------------
\* A step of any client or thread keeps the types.
LEMMA NextTypes ==
    ASSUME TypeOK, [Next]_vars
    PROVE  TypeOK'
<1>1. CASE Next
    <2>1. ASSUME NEW c \in Clients, List(c)
          PROVE  TypeOK'
        BY <2>1, ListStep
    <2>2. ASSUME NEW c \in Clients, NEW f \in Names, NEW h \in Hashes, Put(c, f, h)
          PROVE  TypeOK'
        BY <2>2, PutStep
    <2>3. ASSUME NEW c \in Clients, NEW f \in Names, Get(c, f)
          PROVE  TypeOK'
        BY <2>3, GetStep
    <2>4. ASSUME NEW c \in Clients, Quit(c)
          PROVE  TypeOK'
        BY <2>4, QuitStep
    <2>5. ASSUME NEW c \in Clients, ClientStep(c)
          PROVE  TypeOK'
        BY <2>5, ListReadStep, CollectStep, DeclineStep, AskStep, ReplyStep DEF ClientStep
    <2>6. ASSUME NEW c \in Clients, NEW s \in Servers, ThreadStep(c, s)
          PROVE  TypeOK'
        BY <2>6, CommandStep, SpinStep, PutNameStep, PutSizeStep, PutDataStep,
           PutNumStep, PutFlushStep, GetFileStep, GetAnswerStep, GetDeclinedStep,
           GetPieceStep DEF ThreadStep
    <2>7. QED
        BY <1>1, <2>1, <2>2, <2>3, <2>4, <2>5, <2>6 DEF Next
<1>2. CASE UNCHANGED vars
    BY <1>2 DEF TypeOK, vars, hvars
<1>3. QED
    BY <1>1, <1>2

\* Every variable keeps its type: the streams carry only bytes that the two
\* programs write, and the servers' files hold only such bytes.
THEOREM TypeCorrect == Spec => []TypeOK
<1>1. Init => TypeOK
    BY InitTypes
<1>2. TypeOK /\ [Next]_vars => TypeOK'
    BY NextTypes
<1>3. QED
    BY <1>1, <1>2, PTL DEF Spec
-----------------------------------------------------------------------------
(* The servers lose nothing.                                               *)

\* A sequence is a prefix of itself and of what is appended to it.
LEMMA GrowsByAppending ==
    ASSUME NEW q \in Seq(Byte), NEW r \in Seq(Byte)
    PROVE  IsPrefix(q, q) /\ IsPrefix(q, q \o r)
<1>1. Len(q) \in Nat /\ Len(r) \in Nat
    BY LenProperties
<1>2. SubSeq(q, 1, Len(q)) = q
    BY SubSeqFull
<1>3. Len(q) <= Len(q \o r)
    BY <1>1, ConcatProperties
<1>4. SubSeq(q \o r, 1, Len(q)) = q
    <2>1. CASE Len(q) = 0
        <3>1. q = <<>>
            BY <2>1, EmptySeq
        <3>2. SubSeq(q \o r, 1, 0) = <<>>
            BY SubSeqEmpty
        <3>3. QED
            BY <2>1, <3>1, <3>2
    <2>2. CASE Len(q) # 0
        <3>1. 1 \in 1..Len(q) /\ Len(q) \in 1..Len(q)
            BY <1>1, <2>2
        <3>2. SubSeq(q \o r, 1, Len(q)) = SubSeq(q, 1, Len(q))
            BY <3>1, SubSeqOfConcat1
        <3>3. QED
            BY <1>2, <3>2
    <2>3. QED
        BY <2>1, <2>2
<1>5. QED
    BY <1>1, <1>2, <1>3, <1>4 DEF IsPrefix

\* What a step may do to the directory of server s and to its files.
Grown(s) ==
    /\ files[s] \subseteq files'[s]
    /\ \A k \in Keys : IsPrefix(store[s][k], store'[s][k])

\* A step that leaves them alone.
LEMMA UnchangedGrows ==
    ASSUME TypeOK, UNCHANGED <<files, store>>, NEW s \in Servers
    PROVE  Grown(s)
<1>1. \A k \in Keys : store[s][k] \in Seq(Byte)
    BY DEF TypeOK
<1>2. QED
    BY <1>1, GrowsByAppending DEF Grown

\* The two steps of PUT that do not.
LEMMA PutNumGrows ==
    ASSUME TypeOK, NEW c \in Clients, NEW t \in Servers, PutNum(c, t), NEW s \in Servers
    PROVE  Grown(s)
<1>1. \A k \in Keys : store[s][k] \in Seq(Byte)
    BY DEF TypeOK
<1>2. files[s] \subseteq files'[s] /\ store' = store
    BY DEF PutNum, TypeOK
<1>3. QED
    BY <1>1, <1>2, GrowsByAppending DEF Grown

LEMMA PutFlushGrows ==
    ASSUME TypeOK, NEW c \in Clients, NEW t \in Servers, PutFlush(c, t), NEW s \in Servers
    PROVE  Grown(s)
<1> DEFINE k0 == <<thread[c][t].name, thread[c][t].num>>
           d  == thread[c][t].data
<1>1. d \in Seq(Byte)
    BY ThreadFacts DEF Thread
<1>2. files' = files /\ store' = [store EXCEPT ![t][k0] = @ \o d]
    BY DEF PutFlush
<1> HIDE DEF k0, d
<1>3. ASSUME NEW k \in Keys
      PROVE  store'[s][k] = store[s][k] \/ store'[s][k] = store[s][k] \o d
    BY <1>2, ZenonT(60) DEF TypeOK
<1>4. \A k \in Keys : store[s][k] \in Seq(Byte)
    BY DEF TypeOK
<1>5. QED
    BY <1>1, <1>2, <1>3, <1>4, GrowsByAppending DEF Grown

\* Every step.
LEMMA NextGrows ==
    ASSUME TypeOK, [Next]_vars, NEW s \in Servers
    PROVE  Grown(s)
<1>1. CASE \E c \in Clients, t \in Servers : PutNum(c, t) \/ PutFlush(c, t)
    BY <1>1, PutNumGrows, PutFlushGrows
<1>2. CASE ~ \E c \in Clients, t \in Servers : PutNum(c, t) \/ PutFlush(c, t)
    <2>1. ASSUME NEW c \in Clients, NEW t \in Servers, ThreadStep(c, t)
          PROVE  UNCHANGED <<files, store>>
        BY <1>2, <2>1, ZenonT(60) DEF ThreadStep, Command, Spin, PutName, PutSize, PutData,
           GetFile, GetAnswer, GetDeclined, GetPiece
    <2>2. ASSUME NEW c \in Clients, ClientStep(c)
          PROVE  UNCHANGED <<files, store>>
        BY <2>2, Zenon DEF ClientStep, ListRead, Collect, Decline, Ask, Reply
    <2>3. ASSUME NEW c \in Clients, NEW f \in Names, NEW h \in Hashes,
                 List(c) \/ Put(c, f, h) \/ Get(c, f) \/ Quit(c)
          PROVE  UNCHANGED <<files, store>>
        BY <2>3 DEF List, Put, Get, Quit
    <2>4. ASSUME NEW c \in Clients, List(c) \/ (\E f \in Names : Get(c, f)) \/ Quit(c)
          PROVE  UNCHANGED <<files, store>>
        BY <2>4 DEF List, Get, Quit
    <2>5. UNCHANGED <<files, store>>
        BY <2>1, <2>2, <2>3, <2>4 DEF Next, vars
    <2>6. QED
        BY <2>5, UnchangedGrows, SMTT(30)
<1>3. QED
    BY <1>1, <1>2

\* Nothing a server has stored is lost or overwritten, whatever the clients do
\* and in whatever order their threads run: files only grow.
THEOREM NothingLost == Spec => PiecesGrow
<1>1. TypeOK /\ [Next]_vars =>
        [\A s \in Servers :
            /\ files[s] \subseteq files'[s]
            /\ \A k \in Keys : IsPrefix(store[s][k], store'[s][k])]_<<files, store>>
    BY NextGrows DEF Grown
<1>2. Spec => [][Next]_vars
    BY DEF Spec
<1>3. QED
    BY <1>1, <1>2, TypeCorrect, PTL DEF PiecesGrow
-----------------------------------------------------------------------------
(* The protocol of a connection.  What the client has written and the      *)
(* thread has not yet read is the rest H of the command the thread is in,  *)
(* a queue Q of PUTs, and the command E the client is waiting for, if any; *)
(* K is the set of pieces in H and Q that are not yet on the disk.         *)

\* Every client's PUTs name files it has, and no name is PUT twice.
AllLocalOnce == MaxPuts <= 1 /\ \A c \in Clients : Local[c] = Names

Size(f, p) == PartLen(Len(Contents[f]), p)
Word(w)    == Prefixed(<<Text(w)>>)
Asks(f)    == Prefixed(<<Name(f)>>)

\* What follows the size of a piece, and a piece.
DataText(f, p, e) == PartOf(Contents[f], p) \o (<<Num(p)>> \o e)
UploadText(f, p, e) == Block(Num(Size(f, p))) \o DataText(f, p, e)

\* What follows the name, and all that a PUT writes to one server.
Named(f, p1, p2) == UploadText(f, p1, UploadText(f, p2, <<>>))
PutText(f, p1, p2) == Block(Text("PUT")) \o (Block(Name(f)) \o Named(f, p1, p2))
PutKeys(f, p1, p2) == {<<f, p1>>, <<f, p2>>}

\* A set of pairs of a stream and the pieces in it that has the empty queue
\* and, with a queue, the same with one more PUT.
Closed(S) ==
    /\ << <<>>, {} >> \in S
    /\ \A u \in S, f \in Names, p1 \in Parts, p2 \in Parts :
        /\ p1 # p2
        /\ AllLocalOnce => u[2] \cap PutKeys(f, p1, p2) = {}
        => <<u[1] \o PutText(f, p1, p2), u[2] \cup PutKeys(f, p1, p2)>> \in S

\* The queues of PUTs: the least of these sets.
Queues == {u \in Seq(Byte) \X SUBSET Keys :
            \A S \in SUBSET (Seq(Byte) \X SUBSET Keys) : Closed(S) => u \in S}

\* The thread is in round n of a PUT, at piece p; E follows the piece.
InRound(n, f, p, e, K) ==
    \/ n = 1 /\ \E p2 \in Parts \ {p} : e = UploadText(f, p2, <<>>) /\ K = PutKeys(f, p, p2)
    \/ n = 2 /\ e = <<>> /\ K = {<<f, p>>}

\* The thread is in a PUT, of which H is to come.
InPut(th, H, K) ==
    \/ th.pc = "name" /\ \E f \in Names, p1 \in Parts, p2 \in Parts :
            p1 # p2 /\ H = Block(Name(f)) \o Named(f, p1, p2) /\ K = PutKeys(f, p1, p2)
    \/ \E p \in Parts, e \in Seq(Byte) :
        /\ InRound(th.round, th.name, p, e, K)
        /\ \/ th.pc = "size" /\ H = UploadText(th.name, p, e)
           \/ th.pc = "data" /\ th.size = Size(th.name, p) /\ H = DataText(th.name, p, e)
           \/ th.pc = "num" /\ th.data = PartOf(Contents[th.name], p) /\ H = <<Num(p)>> \o e
           \/ th.pc = "flush" /\ th.data = PartOf(Contents[th.name], p) /\ th.num = p /\ H = e

\* n refusals.
Declines(n) ==
    IF n = 0 THEN <<>>
    ELSE IF n = 1 THEN Word("DN")
    ELSE IF n = 2 THEN Word("DN") \o Word("DN")
    ELSE IF n = 3 THEN Word("DN") \o (Word("DN") \o Word("DN"))
    ELSE Word("DN") \o (Word("DN") \o (Word("DN") \o Word("DN")))

\* The thread is in the retrieval loop, after which m rounds were answered or
\* refused and those that it has still to read were refused.
Fetches(th, m, H) ==
    \/ th.pc = "answer" /\ H = Word("YES") \o Declines(m)
    \/ th.pc = "need" /\ th.round \in 1..4 /\ th.round <= m + 1 /\ H = Declines(m + 1 - th.round)
    \/ th.pc = "cmd" /\ m = 4 /\ H = <<>>

\* H is the rest of the command the thread is in, and it has all of it.
Rest(th, H, K) ==
    \/ InPut(th, H, K)
    \/ K = {} /\ th.pc = "cmd" /\ H = <<>>
    \/ K = {} /\ th.pc = "answer" /\ H = Word("NO")
    \/ K = {} /\ Fetches(th, 4, H)

Busy(th, q, E, K) ==
    \E H \in Seq(Byte), K1 \in SUBSET Keys, u \in Queues :
        /\ Rest(th, H, K1)
        /\ q = H \o (u[1] \o E)
        /\ K = K1 \cup u[2]
        /\ AllLocalOnce => K1 \cap u[2] = {}

ListWord     == Block(Text("LIST"))
GetWords(f)  == Block(Text("GET")) \o Asks(f)

\* The client has written E and waits for s to answer it.
Waits(me, s, E, r) ==
    \/ me.pc = "ub" /\ (E = ListWord \/ \E f \in Names : E = GetWords(f))
    \/ me.pc \in {"menu", "gone"} /\ E = <<>> /\ r = <<>>
    \/ me.pc = "list" /\ s >= me.at /\ E = ListWord /\ r = <<>>
    \/ me.pc = "collect" /\ s >= me.at /\ r = <<>> /\ me.file \in Names /\ E = GetWords(me.file)

\* What is left of a listing, and of the piece numbers.
ListRest(ls) ==
    [i \in 1..Len(ls) * MaxLine |->
        IF i % MaxLine = 1 THEN Piece(ls[(i \div MaxLine) + 1]) ELSE NUL]
    \o Block(Text("DONE"))
NumberRest(ls) ==
    [i \in 1..2 * Len(ls) |-> IF i % 2 = 1 THEN Bin(1) ELSE Num(ls[i \div 2][2])]
    \o Word("DONE")

\* The rounds of the retrieval loop in which server s was asked.
Asked(me, s) == me.part - 1 + (IF s < me.at THEN 1 ELSE 0)

\* The thread has read the client's last command, or retrieval goes on.
InLast(me, s, th, q, r) ==
    \/ /\ th.pc = "cmd" /\ q = <<>>
       /\ \/ me.pc = "ub"
          \/ me.pc = "list" /\ s < me.at /\ r = <<>>
          \/ me.pc = "list" /\ s >= me.at /\ \E ls \in Seq(Keys) : r = ListRest(ls)
    \/ /\ th.pc = "file" /\ \E f \in Names : q = Asks(f) /\ (me.pc = "collect" => f = me.file)
       /\ \/ me.pc = "ub"
          \/ me.pc = "collect" /\ s >= me.at /\ r = <<>>
    \/ /\ th.pc = "answer" /\ q = <<>>
       /\ \/ me.pc = "ub"
          \/ me.pc = "collect" /\ s < me.at /\ r = <<>>
          \/ me.pc = "collect" /\ s >= me.at /\ \E ls \in Seq(Keys) : r = NumberRest(ls)
    \/ me.pc = "gone" /\ th.pc = "spin" /\ q = <<>>

InFetch(me, s, th, q, r) ==
    \/ /\ me.pc \in {"fetch", "reply"} /\ (me.pc = "reply" => s # me.at)
       /\ r = <<>> /\ Fetches(th, Asked(me, s), q)
    \/ /\ me.pc = "reply" /\ s = me.at /\ r = <<>>
       /\ \E H \in Seq(Byte), k \in Keys :
            /\ k = <<me.file, me.part>>
            /\ q = H \o (Word("NEED") \o Prefixed(<<Piece(k)>>))
            /\ Fetches(th, me.part - 1, H)
    \/ /\ me.pc = "reply" /\ s = me.at /\ q = <<>> /\ Fetches(th, me.part, <<>>)
       /\ \E d \in Seq(Byte) : r = Prefixed(d)

\* The two ends of a connection, in step.
Link(me, s, th, q, r, K) ==
    \/ \E E \in Seq(Byte) : Busy(th, q, E, K) /\ Waits(me, s, E, r)
    \/ K = {} /\ InLast(me, s, th, q, r)
    \/ K = {} /\ InFetch(me, s, th, q, r)

LinkOf(c, s, K) == Link(client[c], s, thread[c][s], c2s[c][s], s2c[c][s], K)

\* The ledger of server s: what was sent is on the disk or on its way.
Ledger(s, K) ==
    /\ \A c \in Clients : s \notin conn[c] =>
            K[c][s] = {}
    /\ \A c \in Clients, d \in Clients : c # d => K[c][s] \cap K[d][s] = {}
    /\ \A k \in Names \X Parts :
        /\ <<s, k>> \in sent <=> k \in files[s] \/ \E c \in Clients : k \in K[c][s]
        /\ store[s][k] = IF k \in files[s] /\ ~ \E c \in Clients : k \in K[c][s]
                         THEN PartOf(Contents[k[1]], k[2]) ELSE <<>>
    /\ files[s] \subseteq Names \X Parts

\* The invariant.
Good == {c \in Clients : Local[c] = Names}
AtReached ==
    \A c \in Good :
        client[c].pc \in {"list", "collect", "fetch", "reply"} => client[c].at \in conn[c]
Linked(K) == \A c \in Good : \A s \in conn[c] : LinkOf(c, s, K[c][s])
Opened ==
    \A c \in Clients, s \in Servers : thread[c][s].pc = "flush" =>
        <<thread[c][s].name, thread[c][s].num>> \in files[s]
OncePut   == \A f \in Names : puts[f] = 0 =>
                \A s \in Servers, p \in Parts : <<s, <<f, p>>>> \notin sent

Book(K) == AllLocalOnce => OncePut /\ \A s \in Servers : Ledger(s, K)

Sync ==
    /\ AtReached /\ Opened
    /\ \E K \in [Clients -> [Servers -> SUBSET Keys]] : Linked(K) /\ Book(K)
-----------------------------------------------------------------------------
(* What a read takes from what was written.                                *)

\* Concatenating bytes is associative.
LEMMA Regroup ==
    ASSUME NEW d \in Seq(Byte), NEW r \in Seq(Byte), NEW q \in Seq(Byte)
    PROVE  (d \o r) \o q = d \o (r \o q)
    BY ConcatAssociative

\* A read as long as what was written first takes that.
LEMMA ReadFirst ==
    ASSUME NEW d \in Seq(Byte), NEW r \in Seq(Byte)
    PROVE  /\ Taken(d \o r, Len(d)) = d
           /\ Left(d \o r, Len(d)) = r
<1>1. /\ Len(d) \in Nat /\ Len(r) \in Nat
      /\ d \o r \in Seq(Byte) /\ Len(d \o r) = Len(d) + Len(r)
    BY LenProperties, ConcatProperties
<1>2. SubSeq(d \o r, 1, Len(d)) = d
    <2>1. CASE Len(d) = 0
        <3>1. d = <<>>
            BY <2>1, EmptySeq
        <3>2. SubSeq(d \o r, 1, 0) = <<>>
            BY SubSeqEmpty
        <3>3. QED
            BY <2>1, <3>1, <3>2
    <2>2. CASE Len(d) # 0
        <3>1. 1 \in 1..Len(d) /\ Len(d) \in 1..Len(d)
            BY <1>1, <2>2
        <3>2. SubSeq(d \o r, 1, Len(d)) = SubSeq(d, 1, Len(d))
            BY <3>1, SubSeqOfConcat1
        <3>3. QED
            BY <3>2, SubSeqFull
    <2>3. QED
        BY <2>1, <2>2
<1>3. SubSeq(d \o r, Len(d) + 1, Len(d \o r)) = r
    <2>1. CASE Len(r) = 0
        <3>1. r = <<>>
            BY <2>1, EmptySeq
        <3>2. SubSeq(d \o r, Len(d) + 1, Len(d)) = <<>>
            BY <1>1, SubSeqEmpty
        <3>3. Len(d \o r) = Len(d)
            BY <1>1, <2>1
        <3>4. QED
            BY <3>1, <3>2, <3>3
    <2>2. CASE Len(r) # 0
        <3>1. /\ Len(d) + 1 \in Len(d) + 1..Len(d) + Len(r)
              /\ Len(d) + Len(r) \in Len(d) + 1..Len(d) + Len(r)
            BY <1>1, <2>2
        <3>2. SubSeq(d \o r, Len(d) + 1, Len(d) + Len(r))
                = SubSeq(r, Len(d) + 1 - Len(d), Len(d) + Len(r) - Len(d))
            BY <3>1, SubSeqOfConcat2
        <3>3. Len(d) + 1 - Len(d) = 1 /\ Len(d) + Len(r) - Len(d) = Len(r)
            BY <1>1
        <3>4. QED
            BY <1>1, <3>2, <3>3, SubSeqFull
    <2>3. QED
        BY <2>1, <2>2
<1>4. CASE Len(d) < Len(d \o r)
    BY <1>2, <1>3, <1>4 DEF Taken, Left
<1>5. CASE ~(Len(d) < Len(d \o r))
    <2>1. Len(d) = Len(d \o r)
        BY <1>1, <1>5
    <2>2. QED
        BY <1>2, <1>3, <1>5, <2>1 DEF Taken, Left
<1>6. QED
    BY <1>4, <1>5

\* A sequence without NUL is text.
LEMMA TextWhole ==
    ASSUME NEW d \in Seq(FileByte)
    PROVE  TextOf(d) = d
<1>1. Len(d) \in Nat /\ DOMAIN d = 1..Len(d)
    BY LenProperties
<1>2. \A i \in 1..Len(d) : d[i] # NUL
    <2>1. NUL \notin FileByte
        BY DEF NUL, FileByte, Text
    <2>2. QED
        BY <2>1, ElementOfSeq
<1>3. {n \in DOMAIN d : \A i \in 1..n : d[i] # NUL} = 1..Len(d)
    BY <1>1, <1>2
<1>4. Cardinality(1..Len(d)) = Len(d)
    BY <1>1, FS_Interval
<1>5. QED
    BY <1>3, <1>4, SubSeqFull DEF TextOf

\* A field of MAXLINE bytes holds its word and nothing else.
LEMMA BlockFacts ==
    ASSUME NEW e \in Byte
    PROVE  /\ Block(e) \in Seq(Byte)
           /\ Len(Block(e)) = MaxLine
           /\ Block(e)[1] = e
           /\ Block(e) # <<>>
           /\ e # NUL => \A w : Says(Block(e), w) <=> e = Text(w)
<1>1. MaxLine \in Nat \ {0, 1}
    BY BoundsAssumption
<1>2. Block(e) \in Seq(Byte)
    BY BlockType
<1>3. Len(Block(e)) = MaxLine /\ Block(e)[1] = e /\ DOMAIN Block(e) = 1..MaxLine
      /\ Block(e)[2] = NUL
    BY <1>1 DEF Block
<1>4. ASSUME e # NUL
      PROVE  TextOf(Block(e)) = <<e>>
    <2>1. {n \in DOMAIN Block(e) : \A i \in 1..n : Block(e)[i] # NUL} = {1}
        <3>1. ASSUME NEW n \in 1..MaxLine, \A i \in 1..n : Block(e)[i] # NUL
              PROVE  n = 1
            <4>1. n >= 2 => 2 \in 1..n
                BY <1>1
            <4>2. QED
                BY <1>1, <1>3, <3>1, <4>1
        <3>2. 1 \in 1..MaxLine /\ \A i \in 1..1 : Block(e)[i] # NUL
            BY <1>1, <1>3, <1>4
        <3>3. QED
            BY <1>3, <3>1, <3>2
    <2>2. Cardinality({1}) = 1
        BY FS_Singleton
    <2>3. SubSeq(Block(e), 1, 1) = <<e>>
        <3>1. 1 \in 1..Len(Block(e)) /\ 1 \in 1..Len(Block(e))
            BY <1>1, <1>3
        <3>2. SubSeq(Block(e), 1, 1) = <<Block(e)[1]>> \o SubSeq(Block(e), 2, 1)
            BY <1>2, <3>1, SubSeqRecursiveFirst
        <3>3. SubSeq(Block(e), 2, 1) = <<>>
            BY SubSeqEmpty
        <3>4. <<e>> \in Seq(Byte)
            OBVIOUS
        <3>5. QED
            BY <1>3, <3>2, <3>3, <3>4, ConcatEmptySeq
    <2>4. QED
        BY <1>3, <2>1, <2>2, <2>3 DEF TextOf
<1>5. QED
    BY <1>1, <1>2, <1>3, <1>4, EmptySeq DEF Says

\* A message with its length in front is read back.
LEMMA MessageFirst ==
    ASSUME NEW d \in Seq(Byte), NEW r \in Seq(Byte)
    PROVE  /\ Prefixed(d) \in Seq(Byte) /\ Prefixed(d) \o r \in Seq(Byte)
           /\ Prefixed(d) \o r # <<>>
           /\ HasMessage(Prefixed(d) \o r)
           /\ Message(Prefixed(d) \o r) = d
           /\ AfterMessage(Prefixed(d) \o r) = r
           /\ Left(Prefixed(d) \o r, (Prefixed(d) \o r)[1][2] + 1) = r
<1> DEFINE q == Prefixed(d) \o r
           b == <<Bin(Len(d))>>
<1>1. Len(d) \in Nat /\ Len(r) \in Nat
    BY LenProperties
<1>2. Prefixed(d) \in Seq(Byte) /\ b \in Seq(Byte) /\ Len(b) = 1
    BY <1>1, PrefixedType, ByteTypes
<1>3. q = b \o (d \o r) /\ d \o r \in Seq(Byte)
    BY <1>2, Regroup, ConcatProperties DEF Prefixed
<1>4. q \in Seq(Byte) /\ Len(q) = 1 + Len(d) + Len(r) /\ Len(Prefixed(d)) = 1 + Len(d)
    BY <1>1, <1>2, <1>3, ConcatProperties DEF Prefixed
<1>5. q[1] = Bin(Len(d))
    <2>1. 1 \in 1..Len(b) + Len(d \o r)
        BY <1>1, <1>2, <1>3, LenProperties
    <2>2. (b \o (d \o r))[1] = b[1]
        BY <1>2, <1>3, <2>1, ConcatProperties
    <2>3. QED
        BY <1>3, <2>2
<1>6. q[1][1] = "int" /\ q[1][2] = Len(d)
    BY <1>5 DEF Bin
<1>7. q # <<>>
    BY <1>1, <1>4, EmptySeq
<1>8. HasMessage(q)
    BY <1>1, <1>4, <1>6, <1>7 DEF HasMessage
<1>9. Left(q, Len(d) + 1) = r /\ Taken(q, Len(d) + 1) = Prefixed(d)
    BY <1>1, <1>2, <1>4, ReadFirst
<1> HIDE DEF q
<1>10. AfterMessage(q) = r
    <2>1. CASE Len(d) + 1 < Len(q)
        <3>1. Len(d) + 1 + 1 = Len(d) + 2
            BY <1>1
        <3>2. QED
            BY <1>6, <1>9, <2>1, <3>1 DEF AfterMessage, Left
    <2>2. CASE ~(Len(d) + 1 < Len(q))
        <3>1. Len(q) + 1 = Len(d) + 2
            BY <1>1, <1>4, <2>2
        <3>2. QED
            BY <1>6, <1>9, <2>2, <3>1 DEF AfterMessage, Left
    <2>3. QED
        BY <2>1, <2>2
<1>11. Message(q) = d
    <2>1. Message(q) = SubSeq(q, 2, Len(d) + 1)
        BY <1>6 DEF Message
    <2>2. CASE Len(d) = 0
        <3>1. d = <<>>
            BY <2>2, EmptySeq
        <3>2. SubSeq(q, 2, 1) = <<>>
            BY SubSeqEmpty
        <3>3. QED
            BY <2>1, <2>2, <3>1, <3>2
    <2>3. CASE Len(d) # 0
        <3>1. Len(d \o r) = Len(d) + Len(r)
            BY ConcatProperties
        <3>2. /\ 2 \in Len(b) + 1..Len(b) + Len(d \o r)
              /\ Len(d) + 1 \in Len(b) + 1..Len(b) + Len(d \o r)
            BY <1>1, <1>2, <2>3, <3>1
        <3>3. SubSeq(b \o (d \o r), 2, Len(d) + 1)
                = SubSeq(d \o r, 2 - Len(b), Len(d) + 1 - Len(b))
            BY <1>2, <1>3, <3>2, SubSeqOfConcat2
        <3>4. 2 - Len(b) = 1 /\ Len(d) + 1 - Len(b) = Len(d)
            BY <1>1, <1>2
        <3>5. 1 \in 1..Len(d) /\ Len(d) \in 1..Len(d)
            BY <1>1, <2>3
        <3>6. SubSeq(d \o r, 1, Len(d)) = SubSeq(d, 1, Len(d))
            BY <3>5, SubSeqOfConcat1
        <3>7. QED
            BY <1>3, <2>1, <3>3, <3>4, <3>6, SubSeqFull
    <2>4. QED
        BY <2>2, <2>3
<1>12. QED
    BY <1>2, <1>4, <1>6, <1>7, <1>8, <1>9, <1>10, <1>11 DEF q
-----------------------------------------------------------------------------
(* What is written.                                                        *)

\* The single messages.
LEMMA WordFacts ==
    /\ \A w \in Words : Text(w) \in Byte /\ <<Text(w)>> \in Seq(Byte)
                        /\ Word(w) \in Seq(Byte) /\ Word(w) # <<>>
    /\ \A f \in Names : Name(f) \in Byte /\ <<Name(f)>> \in Seq(Byte)
                        /\ Asks(f) \in Seq(Byte) /\ Asks(f) # <<>>
    /\ \A p \in 0..9 : Num(p) \in Byte /\ <<Num(p)>> \in Seq(Byte)
    /\ \A k \in Keys : Piece(k) \in Byte /\ <<Piece(k)>> \in Seq(Byte)
                       /\ Prefixed(<<Piece(k)>>) \in Seq(Byte)
                       /\ Prefixed(<<Piece(k)>>) # <<>>
<1>1. ASSUME NEW e \in Byte
      PROVE  /\ <<e>> \in Seq(Byte) /\ Prefixed(<<e>>) \in Seq(Byte)
             /\ Prefixed(<<e>>) # <<>>
    <2>1. <<e>> \in Seq(Byte)
        OBVIOUS
    <2>2. Prefixed(<<e>>) \in Seq(Byte) /\ <<>> \in Seq(Byte)
        BY <2>1, PrefixedType, EmptySeq
    <2>3. Prefixed(<<e>>) \o <<>> = Prefixed(<<e>>)
        BY <2>2, ConcatEmptySeq
    <2>4. QED
        BY <2>1, <2>2, <2>3, MessageFirst
<1>2. QED
    BY <1>1, ByteTypes DEF Word, Asks

\* The size of a piece is a digit.
LEMMA SizeType ==
    ASSUME NEW f \in Names, NEW p \in Parts
    PROVE  /\ Size(f, p) \in 0..9
           /\ PartOf(Contents[f], p) \in Seq(FileByte)
           /\ PartOf(Contents[f], p) \in Seq(Byte)
           /\ Len(PartOf(Contents[f], p)) = Size(f, p)
<1>1. Contents[f] \in Seq(FileByte)
    BY NamesAssumption
<1>2. PICK d : d = Contents[f] /\ d \in Seq(FileByte)
    BY <1>1
<1>3. PICK k : k = PieceSize(Len(d))
    OBVIOUS
<1>4. /\ k \in Nat /\ Len(d) \in Nat /\ 4 * k <= Len(d)
      /\ PartOf(d, 1) = SubSeq(d, 1, k)
      /\ PartOf(d, 2) = SubSeq(d, k + 1, 2 * k)
      /\ PartOf(d, 3) = SubSeq(d, 2 * k + 1, 3 * k)
      /\ PartOf(d, 4) = SubSeq(d, 3 * k + 1, Len(d))
    BY <1>2, <1>3, PieceBounds
<1>5. Extra(Len(d)) \in 0..3 /\ Len(d) = 4 * k + Extra(Len(d))
    BY <1>3, <1>4, CutPoints
<1>6. ASSUME NEW m \in Int, NEW n \in Int, 1 <= m, n <= Len(d), n >= m - 1
      PROVE  Len(SubSeq(d, m, n)) = n - m + 1
    <2>1. \A i \in m..n : d[i] \in FileByte
        BY <1>2, <1>4, <1>6, ElementOfSeq
    <2>2. QED
        BY <1>6, <2>1, SubSeqProperties
<1>7. /\ Len(PartOf(d, 1)) = k /\ Len(PartOf(d, 2)) = k
      /\ Len(PartOf(d, 3)) = k /\ Len(PartOf(d, 4)) = k + Extra(Len(d))
    <2>1. Len(PartOf(d, 1)) = k
        BY <1>4, <1>6
    <2>2. Len(PartOf(d, 2)) = 2 * k - (k + 1) + 1
        BY <1>4, <1>6, SMTT(30)
    <2>3. Len(PartOf(d, 3)) = 3 * k - (2 * k + 1) + 1
        <3>1. 2 * k + 1 \in Int /\ 3 * k \in Int /\ 1 <= 2 * k + 1
              /\ 3 * k <= Len(d) /\ 3 * k >= 2 * k + 1 - 1
            BY <1>4
        <3>2. PICK m \in Int : m = 2 * k + 1
            BY <3>1
        <3>3. PICK n \in Int : n = 3 * k
            BY <3>1
        <3>4. Len(SubSeq(d, m, n)) = n - m + 1
            <4>1. 1 <= m /\ n <= Len(d) /\ n >= m - 1
                <5>1. k \in Nat /\ Len(d) \in Nat /\ 4 * k <= Len(d)
                    BY <1>4
                <5>2. QED
                    BY <3>2, <3>3, <5>1
            <4>2. QED
                BY <1>6, <4>1
        <3>5. QED
            BY <1>4, <3>2, <3>3, <3>4
    <2>4. Len(PartOf(d, 4)) = Len(d) - (3 * k + 1) + 1
        BY <1>4, <1>6
    <2>5. QED
        BY <1>4, <1>5, <2>1, <2>2, <2>3, <2>4, SMTT(30)
<1>8. p \in {1, 2, 3, 4}
    BY DEF Parts
<1>9. Len(PartOf(d, p)) = PartLen(Len(d), p)
    BY <1>3, <1>7, <1>8 DEF PartLen
<1>10. PartLen(Len(d), p) \in 0..9
    <2>1. PartLen(Len(d), 4) <= 9
        BY <1>2, NamesAssumption
    <2>2. k + Extra(Len(d)) <= 9
        BY <1>3, <2>1 DEF PartLen
    <2>3. PICK j : j = Extra(Len(d)) /\ j \in 0..3
        BY <1>5
    <2>4. PartLen(Len(d), p) = IF p = 4 THEN k + j ELSE k
        BY <1>3, <2>3 DEF PartLen
    <2>5. k \in 0..9 /\ k + j \in 0..9
        <3>1. k \in Nat /\ j \in 0..3 /\ k + j <= 9
            BY <1>4, <2>2, <2>3
        <3>2. QED
            BY <3>1
    <2>6. QED
        BY <2>4, <2>5
<1>11. PartOf(Contents[f], p) \in Seq(FileByte)
    BY <1>1, PartOfType
<1>12. QED
    BY <1>2, <1>9, <1>10, <1>11, StoredPieceType DEF Size

\* A piece that was stored once, or not yet, is read in full.
LEMMA ReadWhole ==
    ASSUME NEW f \in Names, NEW p \in Parts
    PROVE  /\ Taken(<<>>, MaxLine) = <<>>
           /\ Taken(PartOf(Contents[f], p), MaxLine) = PartOf(Contents[f], p)
<1>1. ASSUME NEW q \in Seq(Byte), Len(q) <= MaxLine
      PROVE  Taken(q, MaxLine) = q
    <2>1. Len(q) \in Nat /\ MaxLine \in Nat /\ SubSeq(q, 1, Len(q)) = q
        BY SubSeqFull, LenProperties, BoundsAssumption
    <2>2. (IF MaxLine < Len(q) THEN MaxLine ELSE Len(q)) = Len(q)
        <3>1. PICK n, m : n = Len(q) /\ m = MaxLine
            OBVIOUS
        <3>2. n \in Nat /\ m \in Nat /\ n <= m
            BY <1>1, <2>1, <3>1, Zenon
        <3>3. (IF m < n THEN m ELSE n) = n
            BY <3>2
        <3>4. QED
            BY <3>1, <3>3, Zenon
    <2>3. QED
        BY <2>1, <2>2, Zenon DEF Taken
<1>2. Size(f, p) <= MaxLine
    <2>1. PICK n \in Nat : n = Len(Contents[f])
        BY NamesAssumption, LenProperties
    <2>2. PartLen(n, 4) <= MaxLine
        BY <2>1, NamesAssumption
    <2>3. PICK k, e : k = PieceSize(n) /\ e = Extra(n)
        OBVIOUS
    <2>4. k \in Nat /\ e \in Nat /\ k + e <= MaxLine /\ MaxLine \in Nat
        <3>1. k + e <= MaxLine
            BY <2>2, <2>3 DEF PartLen
        <3>2. k \in Nat /\ e \in 0..3
            BY <2>1, <2>3, CutPoints
        <3>3. QED
            BY <3>1, <3>2, BoundsAssumption
    <2>5. PartLen(n, p) = IF p = 4 THEN k + e ELSE k
        BY <2>3 DEF PartLen
    <2>6. QED
        BY <2>1, <2>4, <2>5 DEF Size
<1>3. <<>> \in Seq(Byte) /\ Len(<<>>) <= MaxLine
    BY EmptySeq, BoundsAssumption
<1>4. QED
    BY <1>1, <1>2, <1>3, SizeType

\* What carries a piece.
LEMMA UploadFacts ==
    ASSUME NEW f \in Names, NEW p \in Parts, NEW e \in Seq(Byte)
    PROVE  /\ <<Num(p)>> \in Seq(Byte) /\ <<Num(p)>> \o e \in Seq(Byte)
           /\ <<Num(p)>> \o e # <<>>
           /\ DataText(f, p, e) \in Seq(Byte) /\ DataText(f, p, e) # <<>>
           /\ UploadText(f, p, e) \in Seq(Byte) /\ UploadText(f, p, e) # <<>>
           /\ Num(Size(f, p)) \in Byte
<1>1. Num(p) \in Byte /\ Num(Size(f, p)) \in Byte
    <2>1. p \in 0..9 /\ Size(f, p) \in 0..9
        BY SizeType DEF Parts
    <2>2. QED
        BY <2>1, ByteTypes
<1>2. <<Num(p)>> \in Seq(Byte) /\ <<Num(p)>> # <<>>
    BY <1>1
<1>3. <<Num(p)>> \o e \in Seq(Byte) /\ <<Num(p)>> \o e # <<>>
    BY <1>2, ConcatProperties, ConcatEqualIffEmpty
<1>4. DataText(f, p, e) \in Seq(Byte) /\ DataText(f, p, e) # <<>>
    BY <1>3, SizeType, ConcatProperties, ConcatEqualIffEmpty DEF DataText
<1>5. Block(Num(Size(f, p))) \in Seq(Byte) /\ Block(Num(Size(f, p))) # <<>>
    BY <1>1, BlockFacts
<1>6. UploadText(f, p, e) \in Seq(Byte) /\ UploadText(f, p, e) # <<>>
    BY <1>4, <1>5, ConcatProperties, ConcatEqualIffEmpty DEF UploadText
<1>7. QED
    BY <1>1, <1>2, <1>3, <1>4, <1>6

\* What PUT writes.
LEMMA PutTextFacts ==
    ASSUME NEW f \in Names, NEW p1 \in Parts, NEW p2 \in Parts
    PROVE  /\ Named(f, p1, p2) \in Seq(Byte)
           /\ Block(Name(f)) \o Named(f, p1, p2) \in Seq(Byte)
           /\ Block(Name(f)) \o Named(f, p1, p2) # <<>>
           /\ PutText(f, p1, p2) \in Seq(Byte) /\ PutText(f, p1, p2) # <<>>
           /\ PutKeys(f, p1, p2) \in SUBSET Keys
           /\ PutKeys(f, p1, p2) \in SUBSET (Names \X Parts)
<1>1. UploadText(f, p2, <<>>) \in Seq(Byte)
    BY UploadFacts, EmptySeq
<1>2. Named(f, p1, p2) \in Seq(Byte)
    BY <1>1, UploadFacts DEF Named
<1>3. Block(Name(f)) \in Seq(Byte) /\ Block(Name(f)) # <<>>
    BY WordFacts, BlockFacts
<1>4. /\ Block(Name(f)) \o Named(f, p1, p2) \in Seq(Byte)
      /\ Block(Name(f)) \o Named(f, p1, p2) # <<>>
    BY <1>2, <1>3, ConcatProperties, ConcatEqualIffEmpty
<1>5. Text("PUT") \in Byte
    BY ByteTypes DEF Words
<1>6. Block(Text("PUT")) \in Seq(Byte) /\ Block(Text("PUT")) # <<>>
    BY <1>5, BlockFacts
<1>7. PutText(f, p1, p2) \in Seq(Byte) /\ PutText(f, p1, p2) # <<>>
    BY <1>4, <1>6, ConcatProperties, ConcatEqualIffEmpty DEF PutText
<1>8. PutKeys(f, p1, p2) \in SUBSET (Names \X Parts) /\ Names \X Parts \subseteq Keys
    BY DEF PutKeys, Keys, Parts
<1>9. QED
    BY <1>2, <1>4, <1>7, <1>8

-----------------------------------------------------------------------------
(* The queues of PUTs.                                                     *)

\* A queue is a stream and a set of pieces.
LEMMA QueueType ==
    ASSUME NEW u \in Queues
    PROVE  u[1] \in Seq(Byte) /\ u[2] \in SUBSET Keys /\ u = <<u[1], u[2]>>
    BY DEF Queues

\* The set of queues has the two closure properties itself.
LEMMA QueuesClosed == Closed(Queues)
<1> DEFINE U == Seq(Byte) \X SUBSET Keys
<1>1. << <<>>, {} >> \in U
    BY EmptySeq
<1>2. << <<>>, {} >> \in Queues
    BY <1>1 DEF Queues, Closed
<1>3. ASSUME NEW u \in Queues, NEW f \in Names, NEW p1 \in Parts, NEW p2 \in Parts,
             p1 # p2, AllLocalOnce => u[2] \cap PutKeys(f, p1, p2) = {}
      PROVE  <<u[1] \o PutText(f, p1, p2), u[2] \cup PutKeys(f, p1, p2)>> \in Queues
    <2> DEFINE v == <<u[1] \o PutText(f, p1, p2), u[2] \cup PutKeys(f, p1, p2)>>
    <2>1. v \in U
        <3>1. u[1] \o PutText(f, p1, p2) \in Seq(Byte)
            BY QueueType, PutTextFacts, ConcatProperties
        <3>2. u[2] \cup PutKeys(f, p1, p2) \in SUBSET Keys
            BY QueueType, PutTextFacts
        <3>3. QED
            BY <3>1, <3>2
    <2>2. ASSUME NEW S \in SUBSET U, Closed(S)
          PROVE  v \in S
        <3>1. u \in S
            BY <2>2 DEF Queues
        <3>2. QED
            BY <1>3, <2>2, <3>1 DEF Closed
    <2> HIDE DEF v
    <2>3. v \in Queues
        BY <2>1, <2>2 DEF Queues
    <2>4. QED
        BY <2>3 DEF v
<1>4. QED
    BY <1>2, <1>3 DEF Closed

\* A queue u starts with a PUT, and the rest of it is the queue v.
StartsWithPut(u) ==
    \E f \in Names, p1 \in Parts, p2 \in Parts, v \in Queues :
        /\ p1 # p2
        /\ u[1] = PutText(f, p1, p2) \o v[1]
        /\ u[2] = PutKeys(f, p1, p2) \cup v[2]
        /\ AllLocalOnce => PutKeys(f, p1, p2) \cap v[2] = {}

\* A queue that is not empty starts with a PUT, which a queue follows.
LEMMA QueueStarts ==
    ASSUME NEW u \in Queues
    PROVE  u = << <<>>, {} >> \/ StartsWithPut(u)
<1> DEFINE U == Seq(Byte) \X SUBSET Keys
           S == {x \in Queues : x = << <<>>, {} >> \/ StartsWithPut(x)}
<1>1. S \in SUBSET U
    BY DEF Queues
<1>2. << <<>>, {} >> \in S
    BY QueuesClosed DEF Closed
<1>3. ASSUME NEW x \in S, NEW g \in Names, NEW m \in Parts, NEW n \in Parts,
             m # n, AllLocalOnce => x[2] \cap PutKeys(g, m, n) = {}
      PROVE  <<x[1] \o PutText(g, m, n), x[2] \cup PutKeys(g, m, n)>> \in S
    <2> DEFINE y == <<x[1] \o PutText(g, m, n), x[2] \cup PutKeys(g, m, n)>>
    <2>1. x \in Queues
        OBVIOUS
    <2>2. y \in Queues
        BY <1>3, <2>1, QueuesClosed DEF Closed
    <2>3. PutText(g, m, n) \in Seq(Byte)
        BY PutTextFacts
    <2>4. StartsWithPut(y)
        <3>1. CASE x = << <<>>, {} >>
            <4>1. << <<>>, {} >> \in Queues
                BY QueuesClosed DEF Closed
            <4>2. y[1] = PutText(g, m, n) /\ y[2] = PutKeys(g, m, n)
                BY <3>1, <2>3, ConcatEmptySeq
            <4>3. /\ y[1] = PutText(g, m, n) \o << <<>>, {} >>[1]
                  /\ y[2] = PutKeys(g, m, n) \cup << <<>>, {} >>[2]
                BY <4>2, <2>3, ConcatEmptySeq
            <4>4. << <<>>, {} >>[2] = {}
                OBVIOUS
            <4>5. AllLocalOnce => PutKeys(g, m, n) \cap << <<>>, {} >>[2] = {}
                BY <4>4
            <4> HIDE DEF y
            <4>6. PICK o \in Queues : o = << <<>>, {} >>
                BY <4>1
            <4>7. /\ y[1] = PutText(g, m, n) \o o[1] /\ y[2] = PutKeys(g, m, n) \cup o[2]
                  /\ AllLocalOnce => PutKeys(g, m, n) \cap o[2] = {}
                BY <4>3, <4>5, <4>6
            <4>8. QED
                BY <1>3, <4>7 DEF StartsWithPut
        <3>2. CASE StartsWithPut(x)
            <4>1. PICK f \in Names, p1 \in Parts, p2 \in Parts, v \in Queues :
                    /\ p1 # p2
                    /\ x[1] = PutText(f, p1, p2) \o v[1]
                    /\ x[2] = PutKeys(f, p1, p2) \cup v[2]
                    /\ AllLocalOnce => PutKeys(f, p1, p2) \cap v[2] = {}
                BY <3>2 DEF StartsWithPut
            <4>2. PICK w : w = <<v[1] \o PutText(g, m, n), v[2] \cup PutKeys(g, m, n)>>
                OBVIOUS
            <4>3. AllLocalOnce => v[2] \cap PutKeys(g, m, n) = {}
                BY <1>3, <4>1
            <4>4. w \in Queues
                BY <1>3, <4>2, <4>3, QueuesClosed DEF Closed
            <4>5. v[1] \in Seq(Byte) /\ PutText(f, p1, p2) \in Seq(Byte)
                BY QueueType, PutTextFacts
            <4>6. y[1] = PutText(f, p1, p2) \o w[1]
                <5>1. PICK a : a = PutText(f, p1, p2) /\ a \in Seq(Byte)
                    BY <4>5
                <5>2. PICK b : b = PutText(g, m, n) /\ b \in Seq(Byte)
                    BY <2>3
                <5>3. PICK d : d = v[1] /\ d \in Seq(Byte)
                    BY <4>5
                <5>4. (a \o d) \o b = a \o (d \o b)
                    <6>1. a \in Seq(Byte) /\ d \in Seq(Byte) /\ b \in Seq(Byte)
                        BY <5>1, <5>2, <5>3
                    <6>2. QED
                        BY <6>1, Regroup
                <5>5. QED
                    BY <4>1, <4>2, <5>1, <5>2, <5>3, <5>4
            <4>7. y[2] = PutKeys(f, p1, p2) \cup w[2]
                BY <4>1, <4>2
            <4>8. AllLocalOnce => PutKeys(f, p1, p2) \cap w[2] = {}
                BY <1>3, <4>1, <4>2
            <4> HIDE DEF y
            <4>9. QED
                BY <4>1, <4>4, <4>6, <4>7, <4>8 DEF StartsWithPut
        <3>3. QED
            BY <3>1, <3>2
    <2> HIDE DEF y
    <2>5. QED
        BY <2>2, <2>4 DEF y
<1>4. Closed(S)
    <2> HIDE DEF S
    <2>1. QED
        BY <1>2, <1>3 DEF Closed
<1>5. u \in S
    <2> HIDE DEF S
    <2>1. QED
        BY <1>1, <1>4 DEF Queues
<1>6. QED
    BY <1>5

-----------------------------------------------------------------------------
(* The refusals.                                                           *)

\* One more refusal, at either end.
LEMMA DeclinesFacts ==
    /\ Declines(0) = <<>>
    /\ \A n \in 0..4 : Declines(n) \in Seq(Byte)
    /\ \A n \in 0..3 : /\ Declines(n + 1) = Word("DN") \o Declines(n)
                       /\ Declines(n + 1) = Declines(n) \o Word("DN")
                       /\ Declines(n + 1) # <<>>
<1>1. PICK d : d = Word("DN") /\ d \in Seq(Byte) /\ d # <<>>
    BY WordFacts DEF Words
<1>2. PICK d2 : d2 = d \o d /\ d2 \in Seq(Byte)
    BY <1>1, ConcatProperties
<1>3. PICK d3 : d3 = d \o d2 /\ d3 \in Seq(Byte)
    BY <1>1, <1>2, ConcatProperties
<1>4. PICK d4 : d4 = d \o d3 /\ d4 \in Seq(Byte)
    BY <1>1, <1>3, ConcatProperties
<1>5. /\ Declines(0) = <<>> /\ Declines(1) = d /\ Declines(2) = d2
      /\ Declines(3) = d3 /\ Declines(4) = d4
    BY <1>1, <1>2, <1>3, <1>4 DEF Declines
<1>6. d \o <<>> = d /\ <<>> \o d = d /\ <<>> \in Seq(Byte)
    BY <1>1, ConcatEmptySeq, EmptySeq
<1>7. d3 = d2 \o d
    BY <1>1, <1>2, <1>3, Regroup
<1>8. d4 = d3 \o d
    <2>1. (d \o d2) \o d = d \o (d2 \o d)
        BY <1>1, <1>2, Regroup
    <2>2. QED
        BY <1>3, <1>4, <1>7, <2>1
<1>9. d2 # <<>> /\ d3 # <<>> /\ d4 # <<>>
    BY <1>1, <1>2, <1>3, <1>4, ConcatEqualIffEmpty
<1>10. ASSUME NEW n \in 0..4
       PROVE  Declines(n) \in Seq(Byte)
    <2>1. n \in {0, 1, 2, 3, 4}
        OBVIOUS
    <2>2. QED
        BY <1>1, <1>2, <1>3, <1>4, <1>5, <1>6, <2>1
<1>11. ASSUME NEW n \in 0..3
       PROVE  /\ Declines(n + 1) = d \o Declines(n)
              /\ Declines(n + 1) = Declines(n) \o d
              /\ Declines(n + 1) # <<>>
    <2>1. CASE n = 0
        BY <1>1, <1>5, <1>6, <2>1
    <2>2. CASE n = 1
        BY <1>2, <1>5, <1>9, <2>2
    <2>3. CASE n = 2
        <3>1. Declines(n + 1) = d3 /\ Declines(n) = d2
            BY <1>5, <2>3
        <3>2. QED
            BY <1>3, <1>7, <1>9, <3>1
    <2>4. CASE n = 3
        <3>1. Declines(n + 1) = d4 /\ Declines(n) = d3
            BY <1>5, <2>4
        <3>2. QED
            BY <1>4, <1>8, <1>9, <3>1
    <2>5. QED
        BY <2>1, <2>2, <2>3, <2>4
<1>12. QED
    BY <1>1, <1>5, <1>10, <1>11
-----------------------------------------------------------------------------
(* The answers to LIST and GET, message by message.                        *)

\* A quotient and a remainder are the only ones.
LEMMA DivUnique ==
    ASSUME NEW m \in Nat \ {0}, NEW q \in Nat, NEW r \in 0..m - 1,
           NEW j \in Nat, j = m * q + r
    PROVE  j \div m = q /\ j % m = r
<1>1. PICK a, b : a = j \div m /\ b = j % m
    OBVIOUS
<1>2. a \in Nat /\ b \in 0..m - 1 /\ j = m * a + b
    BY <1>1
<1>3. ASSUME NEW x \in Nat, NEW y \in 0..m - 1, NEW u \in Nat, NEW v \in 0..m - 1,
             m * x + y = m * u + v, x < u
      PROVE  FALSE
    <2>1. PICK d \in Nat : u = x + 1 + d
        <3>1. u - x - 1 \in Nat /\ u = x + 1 + (u - x - 1)
            BY <1>3
        <3>2. QED
            BY <3>1
    <2>2. m * u = m * x + m + m * d /\ m * d \in Nat /\ m * x \in Nat
        BY <2>1
    <2>3. PICK e \in Nat : e = m * d
        BY <2>2
    <2>4. PICK g \in Nat : g = m * x
        BY <2>2
    <2>5. g + y = g + m + e + v
        BY <1>3, <2>2, <2>3, <2>4
    <2>6. QED
        BY <2>5
<1>4. ~(a < q) /\ ~(q < a)
    BY <1>2, <1>3
<1>5. a = q
    BY <1>2, <1>4
<1>6. b = r
    BY <1>2, <1>5
<1>7. QED
    BY <1>1, <1>5, <1>6

\* A number less than the divisor.
LEMMA DivSmall ==
    ASSUME NEW m \in Nat \ {0}, NEW i \in 0..m - 1
    PROVE  i \div m = 0 /\ i % m = i
<1>1. i \in Nat /\ i = m * 0 + i
    OBVIOUS
<1>2. QED
    BY <1>1, DivUnique

\* One field further on.
LEMMA NextField ==
    ASSUME NEW m \in Nat \ {0}, NEW j \in Nat
    PROVE  (j + m) \div m = j \div m + 1 /\ (j + m) % m = j % m /\ j \div m \in Nat
<1>1. PICK a \in Nat, b \in 0..m - 1 : a = j \div m /\ b = j % m /\ j = m * a + b
    OBVIOUS
<1>2. PICK k \in Nat, d \in Nat : k = j + m /\ d = a + 1
    BY <1>1
<1>3. k = m * d + b
    <2>1. m * d = m * a + m /\ m * a \in Nat
        BY <1>2
    <2>2. QED
        BY <1>1, <1>2, <2>1
<1>4. k \div m = d /\ k % m = b
    BY <1>3, DivUnique
<1>5. QED
    BY <1>1, <1>2, <1>4

\* The list without its first name.
LEMMA TailFacts ==
    ASSUME NEW ls \in Seq(Keys), NEW n, n = Len(ls), ls # <<>>
    PROVE  /\ Tail(ls) \in Seq(Keys) /\ Len(Tail(ls)) = n - 1
           /\ \A i \in 1..n - 1 : Tail(ls)[i] = ls[i + 1]
    BY HeadTailProperties

\* The fields of a listing before DONE.
Fields(ls) ==
    [i \in 1..Len(ls) * MaxLine |->
        IF i % MaxLine = 1 THEN Piece(ls[(i \div MaxLine) + 1]) ELSE NUL]

\* They are bytes.
LEMMA FieldsType ==
    ASSUME NEW ls \in Seq(Keys)
    PROVE  /\ Fields(ls) \in Seq(Byte)
           /\ Len(Fields(ls)) = Len(ls) * MaxLine
           /\ Len(ls) * MaxLine \in Nat
           /\ ListRest(ls) = Fields(ls) \o Block(Text("DONE"))
           /\ ListRest(ls) \in Seq(Byte)
<1>1. Len(ls) \in Nat /\ MaxLine \in Nat \ {0, 1}
    BY LenProperties, BoundsAssumption
<1>2. Len(ls) * MaxLine \in Nat
    BY <1>1
<1>3. ASSUME NEW i \in 1..Len(ls) * MaxLine, i % MaxLine = 1
      PROVE  Piece(ls[(i \div MaxLine) + 1]) \in Byte
    <2>1. (i \div MaxLine) + 1 \in 1..Len(ls)
        BY <1>1, <1>3, FieldIndex
    <2>2. ls[(i \div MaxLine) + 1] \in Keys
        BY <2>1, ElementOfSeq
    <2>3. QED
        BY <2>2, ByteTypes
<1>4. Fields(ls) \in [1..Len(ls) * MaxLine -> Byte]
    BY <1>3, ByteTypes DEF Fields
<1>5. Fields(ls) \in Seq(Byte)
    BY <1>2, <1>4, SeqDef
<1>6. Len(Fields(ls)) = Len(ls) * MaxLine
    BY <1>2, <1>4, <1>5, LenProperties
<1>7. ListRest(ls) = Fields(ls) \o Block(Text("DONE"))
    BY DEF ListRest, Fields
<1>8. Text("DONE") \in Byte
    BY ByteTypes DEF Words
<1>9. Block(Text("DONE")) \in Seq(Byte)
    BY <1>8, BlockType
<1>10. QED
    BY <1>2, <1>5, <1>6, <1>7, <1>9, ConcatProperties

\* The first field is the first name, and the others list the others.
LEMMA FieldsFirst ==
    ASSUME NEW ls \in Seq(Keys), ls # <<>>
    PROVE  Fields(ls) = Block(Piece(ls[1])) \o Fields(Tail(ls))
<1>1. PICK m \in Nat \ {0, 1} : m = MaxLine
    BY BoundsAssumption
<1>2. PICK n \in Nat \ {0} : n = Len(ls)
    BY EmptySeq
<1>3. PICK t \in Seq(Keys) : t = Tail(ls) /\ Len(t) = n - 1 /\ \A i \in 1..n - 1 : t[i] = ls[i + 1]
    BY <1>2, TailFacts
<1>4. PICK e \in Byte : e = Piece(ls[1])
    <2>1. 1 \in 1..Len(ls)
        BY <1>2
    <2>2. ls[1] \in Keys
        BY <2>1, ElementOfSeq
    <2>3. QED
        BY <2>2, ByteTypes
<1>5. PICK B \in Seq(Byte) : B = Block(e) /\ Len(B) = m
    BY <1>1, BlockFacts
<1>6. \A i \in 1..m : B[i] = IF i = 1 THEN e ELSE NUL
    BY <1>1, <1>5 DEF Block
<1>7. PICK w \in Nat : w = (n - 1) * m
    BY <1>1, <1>2
<1>8. n * m = m + w
    BY <1>7
<1>9. /\ Fields(ls) \in Seq(Byte) /\ Len(Fields(ls)) = m + w
      /\ Fields(t) \in Seq(Byte) /\ Len(Fields(t)) = w
    BY <1>1, <1>2, <1>3, <1>7, <1>8, FieldsType
<1>10. B \o Fields(t) \in Seq(Byte) /\ Len(B \o Fields(t)) = m + w
    BY <1>5, <1>9, ConcatProperties
<1>11. ASSUME NEW i \in 1..m + w
       PROVE  Fields(ls)[i] = (B \o Fields(t))[i]
    <2>1. (B \o Fields(t))[i] = IF i <= m THEN B[i] ELSE Fields(t)[i - m]
        BY <1>5, <1>9, ConcatProperties
    <2>2. Fields(ls)[i] = IF i % m = 1 THEN Piece(ls[(i \div m) + 1]) ELSE NUL
        BY <1>1, <1>2, <1>8 DEF Fields
    <2>3. CASE i < m
        <3>1. i = m * 0 + i /\ i \in 0..m - 1 /\ i \in Nat /\ i \in 1..m
            BY <2>3
        <3>2. i \div m = 0 /\ i % m = i
            <4>1. m \in Nat \ {0} /\ 0 \in Nat
                OBVIOUS
            <4>2. QED
                BY <3>1, <4>1, DivSmall
        <3>3. (i \div m) + 1 = 1
            BY <3>2
        <3>4. (B \o Fields(t))[i] = IF i = 1 THEN e ELSE NUL
            BY <1>6, <2>1, <2>3, <3>1
        <3>5. Fields(ls)[i] = IF i = 1 THEN e ELSE NUL
            BY <1>4, <2>2, <3>2, <3>3
        <3>6. QED
            BY <3>4, <3>5
    <2>4. CASE i = m
        <3>1. i = m * 1 + 0 /\ 0 \in 0..m - 1 /\ i \in Nat /\ i \in 1..m /\ i # 1 /\ i <= m
            BY <2>4
        <3>2. i % m = 0
            BY <3>1, DivUnique
        <3>3. B[i] = NUL
            BY <1>6, <3>1
        <3>4. QED
            BY <2>1, <2>2, <3>1, <3>2, <3>3
    <2>5. CASE i > m
        <3>1. PICK j \in 1..w : i = j + m /\ j = i - m
            <4>1. i - m \in 1..w /\ i = (i - m) + m
                BY <2>5
            <4>2. QED
                BY <4>1
        <3>2. i \div m = j \div m + 1 /\ i % m = j % m /\ j \div m \in Nat
            <4>1. m \in Nat \ {0} /\ j \in Nat
                OBVIOUS
            <4>2. QED
                BY <3>1, <4>1, NextField, Zenon
        <3>3. Fields(t)[j] = IF j % m = 1 THEN Piece(t[(j \div m) + 1]) ELSE NUL
            BY <1>1, <1>3, <1>7, <3>1 DEF Fields
        <3>4. ASSUME j % m = 1
              PROVE  t[(j \div m) + 1] = ls[(i \div m) + 1]
            <4>1. (j \div m) + 1 \in 1..n - 1
                <5>1. n - 1 \in Nat /\ j \in 1..(n - 1) * m
                    BY <1>7
                <5>2. QED
                    BY <3>4, <5>1, FieldIndex
            <4>2. QED
                BY <1>3, <3>2, <4>1
        <3>5. Fields(ls)[i] = Fields(t)[j]
            BY <2>2, <3>2, <3>3, <3>4
        <3>6. (B \o Fields(t))[i] = Fields(t)[j]
            BY <2>1, <2>5, <3>1
        <3>7. QED
            BY <3>5, <3>6
    <2>6. i < m \/ i = m \/ i > m
        OBVIOUS
    <2>7. QED
        BY <2>3, <2>4, <2>5, <2>6, Zenon
<1>12. Fields(ls) = B \o Fields(t)
    BY <1>9, <1>10, <1>11, SeqEqual
<1>13. QED
    BY <1>3, <1>4, <1>5, <1>12

\* What is left of a listing starts with a name, or is DONE.
LEMMA ListRestFirst ==
    ASSUME NEW ls \in Seq(Keys)
    PROVE  /\ ListRest(ls) \in Seq(Byte)
           /\ ls = <<>> => ListRest(ls) = Block(Text("DONE"))
           /\ ls # <<>> => /\ ls[1] \in Keys /\ Tail(ls) \in Seq(Keys)
                           /\ ListRest(ls) = Block(Piece(ls[1])) \o ListRest(Tail(ls))
<1>1. Text("DONE") \in Byte
    BY ByteTypes DEF Words
<1>2. Block(Text("DONE")) \in Seq(Byte)
    BY <1>1, BlockType
<1>3. CASE ls = <<>>
    <2>1. Len(ls) = 0 /\ Len(ls) * MaxLine = 0
        BY <1>3, BoundsAssumption, EmptySeq
    <2>2. Fields(ls) = <<>>
        BY <2>1, FieldsType, EmptySeq
    <2>3. QED
        BY <1>2, <1>3, <2>2, FieldsType, ConcatEmptySeq
<1>4. CASE ls # <<>>
    <2>1. Len(ls) \in Nat \ {0}
        BY <1>4, EmptySeq
    <2>2. ls[1] \in Keys /\ Tail(ls) \in Seq(Keys)
        BY <1>4, <2>1, ElementOfSeq, HeadTailProperties
    <2>3. Block(Piece(ls[1])) \in Seq(Byte) /\ Fields(Tail(ls)) \in Seq(Byte)
        BY <2>2, ByteTypes, BlockType, FieldsType
    <2>4. (Block(Piece(ls[1])) \o Fields(Tail(ls))) \o Block(Text("DONE"))
            = Block(Piece(ls[1])) \o (Fields(Tail(ls)) \o Block(Text("DONE")))
        BY <1>2, <2>3, Regroup
    <2>5. ListRest(ls) = Block(Piece(ls[1])) \o ListRest(Tail(ls))
        BY <1>4, <2>2, <2>4, FieldsFirst, FieldsType
    <2>6. QED
        BY <1>4, <2>2, <2>5, FieldsType
<1>5. QED
    BY <1>3, <1>4

\* The piece numbers before DONE.
Digits(ls) == [i \in 1..2 * Len(ls) |-> IF i % 2 = 1 THEN Bin(1) ELSE Num(ls[i \div 2][2])]

\* They are bytes.
LEMMA DigitsType ==
    ASSUME NEW ls \in Seq(Keys)
    PROVE  /\ Digits(ls) \in Seq(Byte)
           /\ Len(Digits(ls)) = 2 * Len(ls)
           /\ NumberRest(ls) = Digits(ls) \o Word("DONE")
           /\ NumberRest(ls) \in Seq(Byte)
<1>1. Len(ls) \in Nat
    BY LenProperties
<1>2. ASSUME NEW i \in 1..2 * Len(ls), i % 2 # 1
      PROVE  Num(ls[i \div 2][2]) \in Byte
    <2>1. i \div 2 \in 1..Len(ls)
        BY <1>1, <1>2
    <2>2. ls[i \div 2] \in Keys
        BY <2>1, ElementOfSeq
    <2>3. QED
        BY <2>2, ByteTypes DEF Keys
<1>3. Digits(ls) \in [1..2 * Len(ls) -> Byte]
    BY <1>2, ByteTypes DEF Digits
<1>4. Digits(ls) \in Seq(Byte) /\ 2 * Len(ls) \in Nat
    BY <1>1, <1>3, SeqDef
<1>5. Len(Digits(ls)) = 2 * Len(ls)
    BY <1>3, <1>4, LenProperties
<1>6. NumberRest(ls) = Digits(ls) \o Word("DONE")
    BY DEF NumberRest, Digits
<1>7. Word("DONE") \in Seq(Byte)
    BY WordFacts DEF Words
<1>8. QED
    BY <1>4, <1>5, <1>6, <1>7, ConcatProperties

\* The first two bytes are the first number.
LEMMA DigitsFirst ==
    ASSUME NEW ls \in Seq(Keys), ls # <<>>
    PROVE  Digits(ls) = Prefixed(<<Num(ls[1][2])>>) \o Digits(Tail(ls))
<1>1. PICK n \in Nat \ {0} : n = Len(ls)
    BY EmptySeq
<1>2. PICK t \in Seq(Keys) : t = Tail(ls) /\ Len(t) = n - 1 /\ \A i \in 1..n - 1 : t[i] = ls[i + 1]
    BY <1>1, TailFacts
<1>3. PICK e \in Byte : e = Num(ls[1][2])
    <2>1. 1 \in 1..Len(ls)
        BY <1>1
    <2>2. ls[1] \in Keys
        BY <2>1, ElementOfSeq
    <2>3. QED
        BY <2>2, ByteTypes DEF Keys
<1>4. PICK B \in Seq(Byte) : B = Prefixed(<<e>>) /\ Len(B) = 2 /\ B[1] = Bin(1) /\ B[2] = e
    <2>1. <<e>> \in Seq(Byte) /\ Len(<<e>>) = 1
        OBVIOUS
    <2>2. Prefixed(<<e>>) = <<Bin(1)>> \o <<e>>
        BY <2>1 DEF Prefixed
    <2>3. Prefixed(<<e>>) = <<Bin(1), e>>
        BY <2>2
    <2>4. Len(<<Bin(1), e>>) = 2 /\ <<Bin(1), e>>[1] = Bin(1) /\ <<Bin(1), e>>[2] = e
        OBVIOUS
    <2>5. QED
        BY <2>1, <2>3, <2>4, PrefixedType
<1>5. PICK w \in Nat : w = 2 * (n - 1) /\ 2 * n = w + 2
    BY <1>1
<1>6. /\ Digits(ls) \in Seq(Byte) /\ Len(Digits(ls)) = w + 2
      /\ Digits(t) \in Seq(Byte) /\ Len(Digits(t)) = w
    BY <1>1, <1>2, <1>5, DigitsType
<1>7. B \o Digits(t) \in Seq(Byte) /\ Len(B \o Digits(t)) = w + 2
    <2>1. Len(B) = 2 /\ Digits(t) \in Seq(Byte) /\ Len(Digits(t)) = w
        BY <1>4, <1>6
    <2>2. Len(B \o Digits(t)) = Len(B) + Len(Digits(t)) /\ B \o Digits(t) \in Seq(Byte)
        BY <2>1, ConcatProperties, Zenon
    <2>3. QED
        BY <2>1, <2>2
<1>8. ASSUME NEW i \in 1..w + 2
      PROVE  Digits(ls)[i] = (B \o Digits(t))[i]
    <2>1. i \in 1..Len(B) + Len(Digits(t))
        BY <1>4, <1>6
    <2>2. (B \o Digits(t))[i] = IF i <= 2 THEN B[i] ELSE Digits(t)[i - 2]
        <3>1. Len(B) = 2 /\ Digits(t) \in Seq(Byte)
            BY <1>4, <1>6
        <3>2. (B \o Digits(t))[i] = IF i <= Len(B) THEN B[i] ELSE Digits(t)[i - Len(B)]
            BY <2>1, <3>1, ConcatProperties, Zenon
        <3>3. QED
            BY <3>1, <3>2
    <2>3. Digits(ls)[i] = IF i % 2 = 1 THEN Bin(1) ELSE Num(ls[i \div 2][2])
        BY <1>1, <1>5 DEF Digits
    <2>4. CASE i <= 2
        <3>1. i = 1 \/ i = 2
            BY <2>4
        <3>2. 1 % 2 = 1 /\ 2 % 2 = 0 /\ 2 \div 2 = 1
            OBVIOUS
        <3>3. QED
            BY <1>3, <1>4, <2>2, <2>3, <2>4, <3>1, <3>2
    <2>5. CASE i > 2
        <3>1. PICK j \in 1..w : i = j + 2 /\ j = i - 2
            <4>1. i - 2 \in 1..w /\ i = (i - 2) + 2
                BY <2>5
            <4>2. QED
                BY <4>1
        <3>2. i \div 2 = j \div 2 + 1 /\ i % 2 = j % 2
            BY <3>1
        <3>3. Digits(t)[j] = IF j % 2 = 1 THEN Bin(1) ELSE Num(t[j \div 2][2])
            BY <1>2, <1>5, <3>1 DEF Digits
        <3>4. ASSUME j % 2 # 1
              PROVE  t[j \div 2] = ls[i \div 2]
            <4>1. j \div 2 \in 1..n - 1
                BY <1>5, <3>1, <3>4
            <4>2. QED
                BY <1>2, <3>2, <4>1
        <3>5. Digits(ls)[i] = Digits(t)[j]
            BY <2>3, <3>2, <3>3, <3>4
        <3>6. (B \o Digits(t))[i] = Digits(t)[j]
            BY <2>2, <2>5, <3>1
        <3>7. QED
            BY <3>5, <3>6
    <2>6. i <= 2 \/ i > 2
        OBVIOUS
    <2>7. QED
        BY <2>4, <2>5, <2>6, Zenon
<1>9. Digits(ls) = B \o Digits(t)
    BY <1>6, <1>7, <1>8, SeqEqual
<1>10. QED
    BY <1>2, <1>3, <1>4, <1>9

\* What is left of the piece numbers starts with a number, or is DONE.
LEMMA NumberRestFirst ==
    ASSUME NEW ls \in Seq(Keys)
    PROVE  /\ NumberRest(ls) \in Seq(Byte)
           /\ ls = <<>> => NumberRest(ls) = Word("DONE")
           /\ ls # <<>> => /\ ls[1] \in Keys /\ Tail(ls) \in Seq(Keys)
                           /\ NumberRest(ls)
                                = Prefixed(<<Num(ls[1][2])>>) \o NumberRest(Tail(ls))
<1>1. Word("DONE") \in Seq(Byte)
    BY WordFacts DEF Words
<1>2. CASE ls = <<>>
    <2>1. 2 * Len(ls) = 0
        BY <1>2, EmptySeq
    <2>2. Digits(ls) = <<>>
        BY <2>1, DigitsType, EmptySeq
    <2>3. QED
        BY <1>1, <1>2, <2>2, DigitsType, ConcatEmptySeq
<1>3. CASE ls # <<>>
    <2>1. Len(ls) \in Nat \ {0}
        BY <1>3, EmptySeq
    <2>2. ls[1] \in Keys /\ Tail(ls) \in Seq(Keys)
        BY <1>3, <2>1, ElementOfSeq, HeadTailProperties
    <2>3. <<Num(ls[1][2])>> \in Seq(Byte)
        BY <2>2, ByteTypes DEF Keys
    <2>4. PICK b : b = Prefixed(<<Num(ls[1][2])>>) /\ b \in Seq(Byte)
        BY <2>3, PrefixedType
    <2>5. Digits(Tail(ls)) \in Seq(Byte)
        BY <2>2, DigitsType
    <2>6. (b \o Digits(Tail(ls))) \o Word("DONE") = b \o (Digits(Tail(ls)) \o Word("DONE"))
        BY <1>1, <2>4, <2>5, Regroup
    <2>7. NumberRest(ls) = b \o NumberRest(Tail(ls))
        BY <1>3, <2>2, <2>4, <2>6, DigitsFirst, DigitsType
    <2>8. QED
        BY <1>3, <2>2, <2>4, <2>7, DigitsType
<1>4. QED
    BY <1>2, <1>3

\* What the thread writes is such a rest.
LEMMA AnswersAre ==
    ASSUME NEW F \in SUBSET Keys
    PROVE  /\ \E ls \in Seq(Keys) : Listing(F) = ListRest(ls)
           /\ \E ls \in Seq(Keys) : Numbers(F) = NumberRest(ls)
<1>1. SetToSeq(F) \in Seq(F)
    BY ListingOrder
<1>2. SetToSeq(F) \in Seq(Keys)
    BY <1>1, SeqMonotonic
<1>3. Listing(F) = ListRest(SetToSeq(F)) /\ Numbers(F) = NumberRest(SetToSeq(F))
    BY DEF Listing, ListRest, Numbers, NumberRest, Word
<1>4. QED
    BY <1>2, <1>3
-----------------------------------------------------------------------------
(* A thread that is behind its client.                                     *)

\* What follows the first part of what is to come.
Moved(d, H, Q, E) ==
    /\ Q \o E \in Seq(Byte) /\ H \o (Q \o E) \in Seq(Byte)
    /\ d \o (H \o (Q \o E)) \in Seq(Byte)
    /\ (d \o H) \o (Q \o E) = d \o (H \o (Q \o E))

LEMMA Shift ==
    ASSUME NEW d \in Seq(Byte), NEW H \in Seq(Byte), NEW Q \in Seq(Byte), NEW E \in Seq(Byte)
    PROVE  Moved(d, H, Q, E)
<1>1. PICK R \in Seq(Byte) : R = Q \o E
    BY ConcatProperties
<1>2. PICK S \in Seq(Byte) : S = H \o R
    BY ConcatProperties
<1>3. d \o S \in Seq(Byte)
    BY ConcatProperties
<1>4. (d \o H) \o R = d \o (H \o R)
    BY Regroup, SMTT(30)
<1>5. QED
    BY <1>1, <1>2, <1>3, <1>4 DEF Moved

\* The parts of what is to come.
Split(th, q, E, K, H, K1, Q, K2) ==
    /\ <<Q, K2>> \in Queues
    /\ Rest(th, H, K1)
    /\ q = H \o (Q \o E)
    /\ K = K1 \cup K2
    /\ AllLocalOnce => K1 \cap K2 = {}

LEMMA BusyParts ==
    ASSUME NEW th, NEW q, NEW E, NEW K, Busy(th, q, E, K)
    PROVE  \E H \in Seq(Byte), K1 \in SUBSET Keys, Q \in Seq(Byte), K2 \in SUBSET Keys :
              Split(th, q, E, K, H, K1, Q, K2)
<1>1. PICK H \in Seq(Byte), K1 \in SUBSET Keys, u \in Queues :
        /\ Rest(th, H, K1)
        /\ q = H \o (u[1] \o E)
        /\ K = K1 \cup u[2]
        /\ AllLocalOnce => K1 \cap u[2] = {}
    BY DEF Busy
<1>2. u[1] \in Seq(Byte) /\ u[2] \in SUBSET Keys /\ <<u[1], u[2]>> \in Queues
    BY QueueType
<1>3. Split(th, q, E, K, H, K1, u[1], u[2])
    BY <1>1, <1>2 DEF Split
<1>4. QED
    BY <1>2, <1>3

LEMMA BusyOf ==
    ASSUME NEW th, NEW E, NEW H \in Seq(Byte), NEW K1 \in SUBSET Keys,
           NEW Q, NEW K2, <<Q, K2>> \in Queues, Rest(th, H, K1),
           AllLocalOnce => K1 \cap K2 = {}
    PROVE  Busy(th, H \o (Q \o E), E, K1 \cup K2)
<1>1. PICK u \in Queues : u = <<Q, K2>>
    OBVIOUS
<1>2. u[1] = Q /\ u[2] = K2
    BY <1>1
<1>3. QED
    BY <1>2 DEF Busy

\* The thread in a PUT.
LEMMA InPutPcs ==
    ASSUME NEW th, NEW H, NEW K, Rest(th, H, K),
           th.pc \in {"name", "size", "data", "num", "flush"}
    PROVE  InPut(th, H, K)
    BY DEF Rest, Fetches

\* The rounds of a PUT.
LEMMA RoundFacts ==
    ASSUME NEW n, NEW f \in Names, NEW p \in Parts, NEW e, NEW K, InRound(n, f, p, e, K)
    PROVE  e \in Seq(Byte) /\ K \in SUBSET Keys /\ <<f, p>> \in K
<1>1. UploadText(f, p, <<>>) \in Seq(Byte)
    BY UploadFacts, EmptySeq
<1>2. \A p2 \in Parts : UploadText(f, p2, <<>>) \in Seq(Byte)
    BY UploadFacts, EmptySeq
<1>3. Names \X Parts \subseteq Keys
    BY DEF Keys, Parts
<1>4. QED
    BY <1>2, <1>3, EmptySeq DEF InRound, PutKeys

\* PUT: the name is read, ...
LEMMA NameRead ==
    ASSUME NEW th \in Thread, NEW q \in Seq(Byte), NEW E \in Seq(Byte), NEW K,
           Busy(th, q, E, K), th.pc = "name"
    PROVE  \E f \in Names :
              /\ Taken(q, MaxLine) # <<>> /\ Taken(q, MaxLine)[1] = Name(f)
              /\ Busy([th EXCEPT !.pc = "size", !.name = f, !.round = 1],
                      Left(q, MaxLine), E, K)
<1>0. PICK H \in Seq(Byte), K1 \in SUBSET Keys, Q \in Seq(Byte), K2 \in SUBSET Keys :
        Split(th, q, E, K, H, K1, Q, K2)
    BY BusyParts, Zenon
<1>1. /\ <<Q, K2>> \in Queues /\ Rest(th, H, K1) /\ q = H \o (Q \o E)
      /\ K = K1 \cup K2 /\ (AllLocalOnce => K1 \cap K2 = {})
    BY <1>0 DEF Split
<1>2. PICK f \in Names, p1 \in Parts, p2 \in Parts :
        p1 # p2 /\ H = Block(Name(f)) \o Named(f, p1, p2) /\ K1 = PutKeys(f, p1, p2)
    BY <1>1, InPutPcs DEF InPut
<1>3. PICK d \in Seq(Byte) : d = Block(Name(f)) /\ Len(d) = MaxLine /\ d # <<>> /\ d[1] = Name(f)
    BY WordFacts, BlockFacts
<1>4. PICK N \in Seq(Byte) : N = Named(f, p1, p2)
    BY PutTextFacts
<1>5. q = d \o (N \o (Q \o E)) /\ N \o (Q \o E) \in Seq(Byte)
    <2>1. Moved(d, N, Q, E)
        BY Shift, Zenon
    <2>2. H = d \o N
        BY <1>2, <1>3, <1>4
    <2>3. QED
        BY <1>1, <2>1, <2>2 DEF Moved
<1>6. Taken(q, MaxLine) = d /\ Left(q, MaxLine) = N \o (Q \o E)
    BY <1>3, <1>5, ReadFirst
<1> DEFINE t == [th EXCEPT !.pc = "size", !.name = f, !.round = 1]
<1>7. t.pc = "size" /\ t.name = f /\ t.round = 1
    BY DEF Thread
<1> HIDE DEF t
<1>8. PICK e \in Seq(Byte) : e = UploadText(f, p2, <<>>)
    BY UploadFacts, EmptySeq
<1>9. InRound(1, f, p1, e, K1)
    BY <1>2, <1>8 DEF InRound
<1>10. N = UploadText(f, p1, e)
    BY <1>4, <1>8 DEF Named
<1>11. Rest(t, N, K1)
    BY <1>7, <1>9, <1>10 DEF Rest, InPut
<1>12. Busy(t, N \o (Q \o E), E, K)
    BY <1>1, <1>11, BusyOf
<1>13. QED
    BY <1>3, <1>6, <1>12 DEF t

\* ... the size of a piece, ...
LEMMA SizeRead ==
    ASSUME NEW th \in Thread, NEW q \in Seq(Byte), NEW E \in Seq(Byte), NEW K,
           Busy(th, q, E, K), th.pc = "size"
    PROVE  Busy([th EXCEPT !.pc = "data", !.size = Number(Taken(q, MaxLine))],
                Left(q, MaxLine), E, K)
<1>0. PICK H \in Seq(Byte), K1 \in SUBSET Keys, Q \in Seq(Byte), K2 \in SUBSET Keys :
        Split(th, q, E, K, H, K1, Q, K2)
    BY BusyParts, Zenon
<1>1. /\ <<Q, K2>> \in Queues /\ Rest(th, H, K1) /\ q = H \o (Q \o E)
      /\ K = K1 \cup K2 /\ (AllLocalOnce => K1 \cap K2 = {})
    BY <1>0 DEF Split
<1>2. PICK f \in Names : f = th.name
    BY DEF Thread
<1>3. PICK p \in Parts, e \in Seq(Byte) :
        InRound(th.round, f, p, e, K1) /\ H = UploadText(f, p, e)
    <2>1. InPut(th, H, K1)
        BY <1>1, InPutPcs
    <2>2. QED
        BY <1>2, <2>1 DEF InPut
<1>4. PICK d \in Seq(Byte) : /\ d = Block(Num(Size(f, p))) /\ Len(d) = MaxLine
                             /\ d # <<>> /\ d[1] = Num(Size(f, p))
    BY UploadFacts, BlockFacts
<1>5. PICK N \in Seq(Byte) : N = DataText(f, p, e)
    BY UploadFacts
<1>6. q = d \o (N \o (Q \o E)) /\ N \o (Q \o E) \in Seq(Byte)
    <2>1. Moved(d, N, Q, E)
        BY Shift, Zenon
    <2>2. H = d \o N
        BY <1>3, <1>4, <1>5 DEF UploadText
    <2>3. QED
        BY <1>1, <2>1, <2>2 DEF Moved
<1>7. Taken(q, MaxLine) = d /\ Left(q, MaxLine) = N \o (Q \o E)
    BY <1>4, <1>6, ReadFirst
<1>8. Number(d) = Size(f, p)
    <2>1. d # <<>> /\ d[1] = <<"num", Size(f, p)>>
        BY <1>4 DEF Num
    <2>2. QED
        BY <2>1 DEF Number
<1> DEFINE t == [th EXCEPT !.pc = "data", !.size = Number(Taken(q, MaxLine))]
<1>9. t.pc = "data" /\ t.name = f /\ t.round = th.round /\ t.size = Size(f, p)
    BY <1>2, <1>7, <1>8 DEF Thread
<1> HIDE DEF t
<1>10. Rest(t, N, K1)
    BY <1>3, <1>5, <1>9 DEF Rest, InPut
<1>11. Busy(t, N \o (Q \o E), E, K)
    BY <1>1, <1>10, BusyOf
<1>12. QED
    BY <1>7, <1>11 DEF t

\* ... its bytes, which are stored as they were sent, ...
LEMMA DataRead ==
    ASSUME NEW th \in Thread, NEW q \in Seq(Byte), NEW E \in Seq(Byte), NEW K,
           Busy(th, q, E, K), th.pc = "data", NEW x, x = TextOf(Taken(q, th.size))
    PROVE  Busy([th EXCEPT !.pc = "num",
                           !.data = x \o [i \in 1..(th.size - Len(x)) |-> Junk]],
                Left(q, th.size), E, K)
<1>0. PICK H \in Seq(Byte), K1 \in SUBSET Keys, Q \in Seq(Byte), K2 \in SUBSET Keys :
        Split(th, q, E, K, H, K1, Q, K2)
    BY BusyParts, Zenon
<1>1. /\ <<Q, K2>> \in Queues /\ Rest(th, H, K1) /\ q = H \o (Q \o E)
      /\ K = K1 \cup K2 /\ (AllLocalOnce => K1 \cap K2 = {})
    BY <1>0 DEF Split
<1>2. PICK f \in Names : f = th.name
    BY DEF Thread
<1>3. PICK p \in Parts, e \in Seq(Byte) :
        InRound(th.round, f, p, e, K1) /\ th.size = Size(f, p) /\ H = DataText(f, p, e)
    <2>1. InPut(th, H, K1)
        BY <1>1, InPutPcs
    <2>2. QED
        BY <1>2, <2>1 DEF InPut
<1>4. PICK d \in Seq(Byte) : /\ d = PartOf(Contents[f], p) /\ Len(d) = th.size
                             /\ d \in Seq(FileByte)
    BY <1>3, SizeType
<1>5. PICK N \in Seq(Byte) : N = <<Num(p)>> \o e
    BY UploadFacts
<1>6. q = d \o (N \o (Q \o E)) /\ N \o (Q \o E) \in Seq(Byte)
    <2>1. Moved(d, N, Q, E)
        BY Shift, Zenon
    <2>2. H = d \o N
        BY <1>3, <1>4, <1>5 DEF DataText
    <2>3. QED
        BY <1>1, <2>1, <2>2 DEF Moved
<1>7. Taken(q, th.size) = d /\ Left(q, th.size) = N \o (Q \o E)
    <2>1. Taken(q, Len(d)) = d /\ Left(q, Len(d)) = N \o (Q \o E)
        BY <1>6, ReadFirst
    <2>2. QED
        BY <1>4, <2>1
<1>8. x = d
    BY <1>4, <1>7, TextWhole
<1>9. x \o [i \in 1..(th.size - Len(x)) |-> Junk] = d
    <2>1. th.size - Len(x) = 0
        BY <1>4, <1>8, LenProperties
    <2>2. [i \in 1..(th.size - Len(x)) |-> Junk] = <<>>
        BY <2>1
    <2>3. QED
        BY <1>8, <2>2, ConcatEmptySeq
<1> DEFINE t == [th EXCEPT !.pc = "num", !.data = x \o [i \in 1..(th.size - Len(x)) |-> Junk]]
<1>10. t = [th EXCEPT !.pc = "num", !.data = d]
    BY <1>9
<1> HIDE DEF t
<1>11. t.pc = "num" /\ t.name = f /\ t.round = th.round /\ t.data = d
    BY <1>2, <1>10 DEF Thread
<1>12. Rest(t, N, K1)
    BY <1>3, <1>4, <1>5, <1>11 DEF Rest, InPut
<1>13. Busy(t, N \o (Q \o E), E, K)
    BY <1>1, <1>12, BusyOf
<1>14. QED
    BY <1>7, <1>13 DEF t

\* ... and its number.
LEMMA NumRead ==
    ASSUME NEW th \in Thread, NEW q \in Seq(Byte), NEW E \in Seq(Byte), NEW K,
           Busy(th, q, E, K), th.pc = "num", NEW p, p = Number(Taken(q, 1))
    PROVE  /\ p \in Parts /\ <<th.name, p>> \in K
           /\ Busy([th EXCEPT !.pc = "flush", !.num = p], Left(q, 1), E, K)
<1>0. PICK H \in Seq(Byte), K1 \in SUBSET Keys, Q \in Seq(Byte), K2 \in SUBSET Keys :
        Split(th, q, E, K, H, K1, Q, K2)
    BY BusyParts, Zenon
<1>1. /\ <<Q, K2>> \in Queues /\ Rest(th, H, K1) /\ q = H \o (Q \o E)
      /\ K = K1 \cup K2 /\ (AllLocalOnce => K1 \cap K2 = {})
    BY <1>0 DEF Split
<1>2. PICK f \in Names : f = th.name
    BY DEF Thread
<1>3. PICK n \in Parts, e \in Seq(Byte) :
        /\ InRound(th.round, f, n, e, K1) /\ th.data = PartOf(Contents[f], n)
        /\ H = <<Num(n)>> \o e
    <2>1. InPut(th, H, K1)
        BY <1>1, InPutPcs
    <2>2. QED
        BY <1>2, <2>1 DEF InPut
<1>4. PICK d \in Seq(Byte) : d = <<Num(n)>> /\ Len(d) = 1 /\ d # <<>> /\ d[1] = Num(n)
    BY UploadFacts, EmptySeq
<1>5. q = d \o (e \o (Q \o E)) /\ e \o (Q \o E) \in Seq(Byte)
    <2>1. Moved(d, e, Q, E)
        BY Shift, Zenon
    <2>2. H = d \o e
        BY <1>3, <1>4
    <2>3. QED
        BY <1>1, <2>1, <2>2 DEF Moved
<1>6. Taken(q, 1) = d /\ Left(q, 1) = e \o (Q \o E)
    BY <1>4, <1>5, ReadFirst
<1>7. p = n
    BY <1>4, <1>6 DEF Number, Num
<1> DEFINE t == [th EXCEPT !.pc = "flush", !.num = p]
<1>8. t.pc = "flush" /\ t.name = f /\ t.round = th.round /\ t.data = th.data /\ t.num = n
    BY <1>2, <1>7 DEF Thread
<1> HIDE DEF t
<1>9. Rest(t, e, K1)
    BY <1>3, <1>8 DEF Rest, InPut
<1>10. Busy(t, e \o (Q \o E), E, K)
    BY <1>1, <1>9, BusyOf
<1>11. <<th.name, p>> \in K
    BY <1>1, <1>2, <1>3, <1>7, RoundFacts
<1>12. QED
    BY <1>6, <1>7, <1>10, <1>11 DEF t

\* Then the piece is flushed.
Flushes(th, t, q, E, K) ==
    /\ th.num \in Parts /\ <<th.name, th.num>> \in K
    /\ th.data = PartOf(Contents[th.name], th.num)
    /\ \E L \in SUBSET K : /\ Busy(t, q, E, L)
                           /\ AllLocalOnce => L = K \ {<<th.name, th.num>>}

LEMMA Flushed ==
    ASSUME NEW th \in Thread, NEW q \in Seq(Byte), NEW E \in Seq(Byte), NEW K,
           Busy(th, q, E, K), th.pc = "flush",
           NEW t, t = IF th.round = 1 THEN [th EXCEPT !.pc = "size", !.round = 2]
                                      ELSE [th EXCEPT !.pc = "cmd", !.round = 0]
    PROVE  Flushes(th, t, q, E, K)
<1>0. PICK H \in Seq(Byte), K1 \in SUBSET Keys, Q \in Seq(Byte), K2 \in SUBSET Keys :
        Split(th, q, E, K, H, K1, Q, K2)
    BY BusyParts, Zenon
<1>1. /\ <<Q, K2>> \in Queues /\ Rest(th, H, K1) /\ q = H \o (Q \o E)
      /\ K = K1 \cup K2 /\ (AllLocalOnce => K1 \cap K2 = {})
    BY <1>0 DEF Split
<1>2. PICK f \in Names : f = th.name
    BY DEF Thread
<1>3. PICK p \in Parts :
        /\ InRound(th.round, f, p, H, K1) /\ th.data = PartOf(Contents[f], p)
        /\ th.num = p
    <2>1. InPut(th, H, K1)
        BY <1>1, InPutPcs
    <2>2. QED
        BY <1>2, <2>1 DEF InPut
<1>4. <<f, p>> \in K1
    BY <1>3, RoundFacts
<1>5. CASE th.round = 1
    <2>1. PICK p2 \in Parts \ {p} : H = UploadText(f, p2, <<>>) /\ K1 = PutKeys(f, p, p2)
        BY <1>3, <1>5 DEF InRound
    <2>2. t.pc = "size" /\ t.name = f /\ t.round = 2
        BY <1>2, <1>5 DEF Thread
    <2>3. PICK L1 : L1 = {<<f, p2>>}
        OBVIOUS
    <2>4. L1 \in SUBSET Keys /\ L1 = K1 \ {<<f, p>>}
        BY <2>1, <2>3 DEF PutKeys, Keys, Parts
    <2>5. InRound(2, f, p2, <<>>, L1)
        BY <2>3 DEF InRound
    <2>6. Rest(t, H, L1)
        BY <2>1, <2>2, <2>5, EmptySeq DEF Rest, InPut
    <2>7. AllLocalOnce => L1 \cap K2 = {}
        BY <1>1, <2>4
    <2>8. Busy(t, q, E, L1 \cup K2)
        BY <1>1, <2>4, <2>6, <2>7, BusyOf
    <2>9. L1 \cup K2 \in SUBSET K /\ (AllLocalOnce => L1 \cup K2 = K \ {<<f, p>>})
        BY <1>1, <1>4, <2>4
    <2>10. QED
        BY <1>1, <1>2, <1>3, <1>4, <2>8, <2>9 DEF Flushes
<1>6. CASE th.round # 1
    <2>1. H = <<>> /\ K1 = {<<f, p>>}
        BY <1>3, <1>6 DEF InRound
    <2>2. t.pc = "cmd"
        BY <1>6 DEF Thread
    <2>3. Rest(t, H, {})
        BY <2>1, <2>2 DEF Rest
    <2>4. Busy(t, q, E, {} \cup K2)
        BY <1>1, <2>3, BusyOf
    <2>5. {} \cup K2 \in SUBSET K /\ (AllLocalOnce => {} \cup K2 = K \ {<<f, p>>})
        BY <1>1, <2>1
    <2>6. QED
        BY <1>1, <1>2, <1>3, <1>4, <2>4, <2>5 DEF Flushes
<1>7. QED
    BY <1>5, <1>6
-----------------------------------------------------------------------------
(* What a stream holds when it is empty, when it is read, and when the      *)
(* client writes more.                                                      *)

\* A message before what follows it.
LeadsOff(d, r, q) ==
    /\ q \in Seq(Byte) /\ q # <<>>
    /\ HasMessage(q) /\ Message(q) = d
    /\ AfterMessage(q) = r
    /\ Left(q, q[1][2] + 1) = r

LEMMA FrontOf ==
    ASSUME NEW d \in Seq(Byte), NEW r \in Seq(Byte), NEW q, q = Prefixed(d) \o r
    PROVE  LeadsOff(d, r, q)
    BY MessageFirst DEF LeadsOff

\* A message that nothing follows.
LEMMA FrontAlone ==
    ASSUME NEW d \in Seq(Byte), NEW q, q = Prefixed(d)
    PROVE  LeadsOff(d, <<>>, q)
<1>1. PICK b \in Seq(Byte) : b = Prefixed(d)
    BY MessageFirst, EmptySeq
<1>2. b \o <<>> = b /\ <<>> \in Seq(Byte)
    BY ConcatEmptySeq, EmptySeq
<1>3. q = Prefixed(d) \o <<>>
    BY <1>1, <1>2
<1>4. QED
    BY <1>2, <1>3, FrontOf

\* The words are different.
LEMMA WordsDiffer ==
    \A v \in Words, w \in Words : <<Text(v)>> = <<Text(w)>> => v = w
    BY DEF Text

\* A queue that holds nothing.
LEMMA QueueEmpty ==
    ASSUME NEW u \in Queues, u[1] = <<>>
    PROVE  u[2] = {}
<1>1. CASE u = << <<>>, {} >>
    BY <1>1
<1>2. CASE StartsWithPut(u)
    <2>1. PICK f \in Names, p1 \in Parts, p2 \in Parts, v \in Queues :
            u[1] = PutText(f, p1, p2) \o v[1]
        BY <1>2 DEF StartsWithPut
    <2>2. PICK a \in Seq(Byte) : a = PutText(f, p1, p2) /\ a # <<>>
        BY PutTextFacts
    <2>3. PICK b \in Seq(Byte) : b = v[1]
        BY QueueType
    <2>4. a \o b # <<>>
        BY <2>2, ConcatEqualIffEmpty
    <2>5. QED
        BY <2>1, <2>2, <2>3, <2>4
<1>3. QED
    BY <1>1, <1>2, QueueStarts

\* A thread at the top of its loop has read all of the last command.
LEMMA RestCmd ==
    ASSUME NEW th, NEW H, NEW K, Rest(th, H, K), th.pc = "cmd"
    PROVE  H = <<>> /\ K = {}
    BY DEF Rest, InPut, Fetches

\* A thread in the retrieval loop has some of it to read.
LEMMA FetchEmpty ==
    ASSUME NEW th, NEW m \in 0..4, Fetches(th, m, <<>>)
    PROVE  \/ th.pc = "cmd" /\ m = 4
           \/ th.pc = "need" /\ th.round = m + 1 /\ m # 4
<1>1. CASE th.pc = "answer" /\ <<>> = Word("YES") \o Declines(m)
    <2>1. PICK a \in Seq(Byte) : a = Word("YES") /\ a # <<>>
        BY WordFacts DEF Words
    <2>2. PICK b \in Seq(Byte) : b = Declines(m)
        BY DeclinesFacts
    <2>3. a \o b # <<>>
        BY <2>1, ConcatEqualIffEmpty
    <2>4. QED
        BY <1>1, <2>1, <2>2, <2>3
<1>2. CASE th.pc = "need" /\ th.round \in 1..4 /\ th.round <= m + 1
           /\ <<>> = Declines(m + 1 - th.round)
    <2>1. PICK n \in 0..4 : n = m + 1 - th.round
        <3>1. m + 1 - th.round \in 0..4
            BY <1>2
        <3>2. QED
            BY <3>1
    <2>2. ASSUME n # 0
          PROVE  FALSE
        <3>1. PICK k \in 0..3 : n = k + 1
            <4>1. n - 1 \in 0..3 /\ n = (n - 1) + 1
                BY <2>2
            <4>2. QED
                BY <4>1
        <3>2. Declines(k + 1) # <<>>
            BY DeclinesFacts
        <3>3. QED
            BY <1>2, <2>1, <3>1, <3>2
    <2>3. QED
        BY <1>2, <2>1, <2>2
<1>3. CASE th.pc = "cmd" /\ m = 4
    BY <1>3
<1>4. QED
    BY <1>1, <1>2, <1>3 DEF Fetches

\* Nothing is left only when the command is over.
LEMMA RestEmpty ==
    ASSUME NEW th \in Thread, NEW K, Rest(th, <<>>, K), th.pc # "flush"
    PROVE  th.pc = "cmd" /\ K = {}
<1>1. CASE InPut(th, <<>>, K)
    <2>1. CASE th.pc = "name"
        <3>1. PICK f \in Names, p1 \in Parts, p2 \in Parts :
                <<>> = Block(Name(f)) \o Named(f, p1, p2)
            BY <1>1, <2>1 DEF InPut
        <3>2. QED
            BY <3>1, PutTextFacts
    <2>2. CASE th.pc # "name"
        <3>1. th.name \in Names
            BY DEF Thread
        <3>2. PICK p \in Parts, e \in Seq(Byte) :
                \/ <<>> = UploadText(th.name, p, e)
                \/ <<>> = DataText(th.name, p, e)
                \/ <<>> = <<Num(p)>> \o e
            BY <1>1, <2>2 DEF InPut
        <3>3. QED
            BY <3>1, <3>2, UploadFacts
    <2>3. QED
        BY <2>1, <2>2
<1>2. CASE K = {} /\ th.pc = "cmd"
    BY <1>2
<1>3. CASE K = {} /\ <<>> = Word("NO")
    BY <1>3, WordFacts DEF Words
<1>4. CASE K = {} /\ Fetches(th, 4, <<>>)
    BY <1>4, FetchEmpty
<1>5. QED
    BY <1>1, <1>2, <1>3, <1>4 DEF Rest

\* A stream with nothing in it.
LEMMA BusyEmpty ==
    ASSUME NEW th \in Thread, NEW E \in Seq(Byte), NEW K, Busy(th, <<>>, E, K)
    PROVE  E = <<>> /\ (th.pc # "flush" => th.pc = "cmd" /\ K = {})
<1>0. PICK H \in Seq(Byte), K1 \in SUBSET Keys, Q \in Seq(Byte), K2 \in SUBSET Keys :
        Split(th, <<>>, E, K, H, K1, Q, K2)
    BY BusyParts, Zenon
<1>1. /\ <<Q, K2>> \in Queues /\ Rest(th, H, K1) /\ <<>> = H \o (Q \o E)
      /\ K = K1 \cup K2
    BY <1>0 DEF Split
<1>2. PICK R \in Seq(Byte) : R = Q \o E
    BY ConcatProperties
<1>3. H = <<>> /\ R = <<>>
    <2>1. H \o R = <<>> <=> H = <<>> /\ R = <<>>
        BY ConcatEqualIffEmpty
    <2>2. QED
        BY <1>1, <1>2, <2>1
<1>4. Q = <<>> /\ E = <<>>
    <2>1. Q \o E = <<>> <=> Q = <<>> /\ E = <<>>
        BY ConcatEqualIffEmpty
    <2>2. QED
        BY <1>2, <1>3, <2>1
<1>5. K2 = {}
    <2>1. PICK u \in Queues : u = <<Q, K2>>
        BY <1>1
    <2>2. u[1] = <<>> /\ u[2] = K2
        BY <1>4, <2>1
    <2>3. QED
        BY <2>2, QueueEmpty
<1>6. QED
    BY <1>1, <1>3, <1>4, <1>5, RestEmpty

\* A command is over, or was never there.
LEMMA BusyDone ==
    ASSUME NEW th, th.pc = "cmd"
    PROVE  Busy(th, <<>>, <<>>, {})
<1>1. << <<>>, {} >> \in Queues
    BY QueuesClosed DEF Closed
<1>2. Rest(th, <<>>, {})
    BY DEF Rest
<1>3. Busy(th, <<>> \o (<<>> \o <<>>), <<>>, {} \cup {})
    <2>1. PICK o : o = <<>> /\ o \in Seq(Byte)
        BY EmptySeq
    <2>2. PICK N \in SUBSET Keys : N = {}
        OBVIOUS
    <2>3. Busy(th, o \o (o \o o), o, N \cup N)
        <3>1. <<o, N>> \in Queues /\ Rest(th, o, N) /\ N \cap N = {}
            BY <1>1, <1>2, <2>1, <2>2
        <3>2. QED
            BY <2>1, <2>2, <3>1, BusyOf, Zenon
    <2>4. QED
        BY <2>1, <2>2, <2>3
<1>4. <<>> \o (<<>> \o <<>>) = <<>> /\ {} \cup {} = {}
    OBVIOUS
<1>5. QED
    BY <1>3, <1>4

\* What is left of a command, with no PUT behind it.
LEMMA BusyRest ==
    ASSUME NEW th, NEW H \in Seq(Byte), Rest(th, H, {})
    PROVE  Busy(th, H, <<>>, {})
<1>1. PICK o : o = <<>> /\ o \in Seq(Byte)
    BY EmptySeq
<1>2. PICK N \in SUBSET Keys : N = {}
    OBVIOUS
<1>3. <<o, N>> \in Queues /\ Rest(th, H, N) /\ N \cap N = {}
    BY <1>1, <1>2, QueuesClosed DEF Closed
<1>4. Busy(th, H \o (o \o o), o, N \cup N)
    BY <1>1, <1>2, <1>3, BusyOf, Zenon
<1>5. o \o o = <<>> /\ H \o <<>> = H /\ N \cup N = {}
    BY <1>1, <1>2, ConcatEmptySeq
<1>6. QED
    BY <1>1, <1>4, <1>5

\* The client writes LIST or GET.
LEMMA BusyEnd ==
    ASSUME NEW th, NEW q, NEW E \in Seq(Byte), NEW K, Busy(th, q, <<>>, K)
    PROVE  Busy(th, q \o E, E, K)
<1>0. PICK o \in Seq(Byte) : o = <<>>
    BY EmptySeq
<1>1. PICK H \in Seq(Byte), K1 \in SUBSET Keys, Q \in Seq(Byte), K2 \in SUBSET Keys :
        Split(th, q, o, K, H, K1, Q, K2)
    BY <1>0, BusyParts, Zenon
<1>2. /\ <<Q, K2>> \in Queues /\ Rest(th, H, K1) /\ q = H \o (Q \o <<>>)
      /\ K = K1 \cup K2 /\ (AllLocalOnce => K1 \cap K2 = {})
    BY <1>0, <1>1 DEF Split
<1>3. q = H \o Q
    BY <1>2, ConcatEmptySeq
<1>4. (H \o Q) \o E = H \o (Q \o E)
    BY Regroup
<1>5. Busy(th, H \o (Q \o E), E, K1 \cup K2)
    BY <1>2, BusyOf, Zenon
<1>6. QED
    BY <1>2, <1>3, <1>4, <1>5

\* The client writes PUT.
LEMMA BusyMore ==
    ASSUME NEW th, NEW q, NEW K, Busy(th, q, <<>>, K),
           NEW f \in Names, NEW p1 \in Parts, NEW p2 \in Parts, p1 # p2,
           AllLocalOnce => K \cap PutKeys(f, p1, p2) = {}
    PROVE  Busy(th, q \o PutText(f, p1, p2), <<>>, K \cup PutKeys(f, p1, p2))
<1>0. PICK o \in Seq(Byte) : o = <<>>
    BY EmptySeq
<1>1. PICK H \in Seq(Byte), K1 \in SUBSET Keys, Q \in Seq(Byte), K2 \in SUBSET Keys :
        Split(th, q, o, K, H, K1, Q, K2)
    BY <1>0, BusyParts, Zenon
<1>2. /\ <<Q, K2>> \in Queues /\ Rest(th, H, K1) /\ q = H \o (Q \o <<>>)
      /\ K = K1 \cup K2 /\ (AllLocalOnce => K1 \cap K2 = {})
    BY <1>0, <1>1 DEF Split
<1>3. q = H \o Q
    BY <1>2, ConcatEmptySeq
<1>4. PICK P \in Seq(Byte) : P = PutText(f, p1, p2)
    BY PutTextFacts
<1>5. PICK L \in SUBSET Keys : L = PutKeys(f, p1, p2)
    BY PutTextFacts
<1>6. PICK R \in Seq(Byte) : R = Q \o P
    BY ConcatProperties
<1>7. <<R, K2 \cup L>> \in Queues
    <2>1. PICK u \in Queues : u = <<Q, K2>>
        BY <1>2
    <2>2. AllLocalOnce => u[2] \cap PutKeys(f, p1, p2) = {}
        BY <1>2, <2>1
    <2>3. <<u[1] \o PutText(f, p1, p2), u[2] \cup PutKeys(f, p1, p2)>> \in Queues
        BY <2>2, QueuesClosed DEF Closed
    <2>4. QED
        BY <1>4, <1>5, <1>6, <2>1, <2>3
<1>8. PICK K3 \in SUBSET Keys : K3 = K2 \cup L /\ (AllLocalOnce => K1 \cap K3 = {})
    <2>1. K2 \cup L \in SUBSET Keys
        OBVIOUS
    <2>2. AllLocalOnce => K1 \cap K2 = {} /\ K1 \cap L = {}
        BY <1>2, <1>5
    <2>3. AllLocalOnce => K1 \cap (K2 \cup L) = {}
        BY <2>2
    <2>4. QED
        BY <2>1, <2>3
<1>9. Busy(th, H \o (R \o o), o, K1 \cup K3)
    BY <1>0, <1>2, <1>7, <1>8, BusyOf, Zenon
<1>10. R \o o = R /\ (H \o Q) \o P = H \o R
    <2>1. R \o o = R
        BY <1>0, ConcatEmptySeq
    <2>2. (H \o Q) \o P = H \o (Q \o P)
        BY Regroup, SMTT(30)
    <2>3. QED
        BY <1>6, <2>1, <2>2
<1>11. K1 \cup K3 = K \cup L
    BY <1>2, <1>8
<1>12. QED
    BY <1>0, <1>3, <1>4, <1>5, <1>9, <1>10, <1>11
-----------------------------------------------------------------------------
(* The steps of a thread keep a connection in step.                         *)

\* The command that is read first.
Commands(q, w, r) ==
    /\ Left(q, MaxLine) = r
    /\ \A v \in Words : Says(Taken(q, MaxLine), v) <=> v = w

LEMMA CommandIs ==
    ASSUME NEW w \in Words, NEW r \in Seq(Byte)
    PROVE  Commands(Block(Text(w)) \o r, w, r)
<1>1. Text(w) \in Byte /\ Text(w) # NUL
    BY WordFacts DEF Text, NUL
<1>2. PICK d \in Seq(Byte) : /\ d = Block(Text(w)) /\ Len(d) = MaxLine
                             /\ \A v : Says(d, v) <=> Text(w) = Text(v)
    BY <1>1, BlockFacts
<1>3. Taken(d \o r, Len(d)) = d /\ Left(d \o r, Len(d)) = r
    BY ReadFirst
<1>4. \A v : Text(w) = Text(v) <=> v = w
    BY DEF Text
<1>5. QED
    BY <1>2, <1>3, <1>4 DEF Commands

\* YES starts the retrieval loop.
LEMMA FetchStarts ==
    ASSUME NEW th \in Thread, NEW m \in 0..4, NEW H \in Seq(Byte), NEW X \in Seq(Byte),
           Fetches(th, m, H), th.pc = "answer"
    PROVE  \E N \in Seq(Byte) :
              /\ LeadsOff(<<Text("YES")>>, N \o X, H \o X)
              /\ Fetches([th EXCEPT !.pc = "need", !.round = 1], m, N)
<1>1. PICK N \in Seq(Byte) : N = Declines(m) /\ H = Word("YES") \o N
    BY DeclinesFacts DEF Fetches
<1>2. PICK y \in Seq(Byte) : y = <<Text("YES")>> /\ Prefixed(y) \in Seq(Byte) /\ Word("YES") = Prefixed(y)
    BY WordFacts DEF Word, Words
<1>3. PICK a \in Seq(Byte) : a = Prefixed(y)
    BY <1>2
<1>4. (a \o N) \o X = a \o (N \o X)
    BY Regroup
<1>5. PICK R \in Seq(Byte) : R = N \o X
    BY ConcatProperties
<1>6. LeadsOff(y, R, H \o X)
    BY <1>1, <1>2, <1>3, <1>4, <1>5, FrontOf
<1> DEFINE t == [th EXCEPT !.pc = "need", !.round = 1]
<1>7. t.pc = "need" /\ t.round = 1
    BY DEF Thread
<1> HIDE DEF t
<1>8. m + 1 - 1 = m /\ 1 <= m + 1 /\ 1 \in 1..4
    OBVIOUS
<1>9. Fetches(t, m, N)
    BY <1>1, <1>7, <1>8 DEF Fetches
<1>10. QED
    BY <1>2, <1>5, <1>6, <1>9 DEF t

\* The thread after a round.
LEMMA NextRoundIs ==
    ASSUME NEW th \in Thread, th.pc = "need"
    PROVE  /\ th.round < 4 => NextRound(th).pc = "need" /\ NextRound(th).round = th.round + 1
           /\ ~(th.round < 4) => NextRound(th).pc = "cmd"
    BY DEF NextRound, Thread

\* A refusal ends a round.
LEMMA FetchDeclined ==
    ASSUME NEW th \in Thread, NEW m \in 0..4, NEW H \in Seq(Byte), H # <<>>,
           Fetches(th, m, H), th.pc = "need"
    PROVE  \E N \in Seq(Byte) : H = Word("DN") \o N /\ Fetches(NextRound(th), m, N)
<1>1. PICK n \in 1..4 : n = th.round /\ n <= m + 1 /\ H = Declines(m + 1 - n)
    BY DEF Fetches
<1>2. m + 1 - n # 0
    BY <1>1, DeclinesFacts
<1>3. PICK k \in 0..3 : k = m - n /\ m + 1 - n = k + 1
    <2>1. m - n \in 0..3 /\ m + 1 - n = (m - n) + 1
        BY <1>1, <1>2, SMTT(30)
    <2>2. QED
        BY <2>1
<1>4. PICK N \in Seq(Byte) : N = Declines(k) /\ H = Word("DN") \o N
    <2>1. k \in 0..4 /\ H = Declines(k + 1)
        BY <1>1, <1>3
    <2>2. Declines(k) \in Seq(Byte) /\ Declines(k + 1) = Word("DN") \o Declines(k)
        BY <2>1, DeclinesFacts
    <2>3. QED
        BY <2>1, <2>2
<1>5. CASE n < 4
    <2>1. NextRound(th).pc = "need" /\ NextRound(th).round = n + 1
        BY <1>1, <1>5, NextRoundIs
    <2>2. m + 1 - (n + 1) = k /\ n + 1 <= m + 1 /\ n + 1 \in 1..4
        <3>1. n \in 1..3 /\ m \in 0..4 /\ k = m - n /\ k \in 0..3
            BY <1>3, <1>5
        <3>2. QED
            BY <3>1
    <2>3. Fetches(NextRound(th), m, N)
        BY <1>4, <2>1, <2>2 DEF Fetches
    <2>4. QED
        BY <1>4, <2>3
<1>6. CASE ~(n < 4)
    <2>1. NextRound(th).pc = "cmd"
        BY <1>1, <1>6, NextRoundIs
    <2>2. m = 4 /\ k = 0
        BY <1>1, <1>3, <1>6
    <2>3. N = <<>>
        BY <1>4, <2>2, DeclinesFacts
    <2>4. Fetches(NextRound(th), m, N)
        BY <2>1, <2>2, <2>3 DEF Fetches
    <2>5. QED
        BY <1>4, <2>4
<1>7. QED
    BY <1>5, <1>6

\* So does an answer.
LEMMA FetchServed ==
    ASSUME NEW th \in Thread, NEW m \in 0..3, Fetches(th, m, <<>>)
    PROVE  th.pc = "need" /\ Fetches(NextRound(th), m + 1, <<>>)
<1>1. th.pc = "need" /\ th.round = m + 1
    BY FetchEmpty
<1>2. Declines(0) = <<>>
    BY DeclinesFacts
<1>3. CASE m < 3
    <2>1. NextRound(th).pc = "need" /\ NextRound(th).round = m + 2
        <3>1. th.round < 4 /\ th.round + 1 = m + 2
            BY <1>1, <1>3
        <3>2. QED
            BY <1>1, <3>1, NextRoundIs
    <2>2. m + 1 + 1 - (m + 2) = 0 /\ m + 2 <= m + 1 + 1 /\ m + 2 \in 1..4
        BY <1>3
    <2>3. Fetches(NextRound(th), m + 1, <<>>)
        BY <1>2, <2>1, <2>2 DEF Fetches
    <2>4. QED
        BY <1>1, <2>3
<1>4. CASE ~(m < 3)
    <2>1. m + 1 = 4 /\ ~(th.round < 4)
        BY <1>1, <1>4
    <2>2. NextRound(th).pc = "cmd"
        BY <1>1, <2>1, NextRoundIs
    <2>3. Fetches(NextRound(th), m + 1, <<>>)
        BY <2>1, <2>2 DEF Fetches
    <2>4. QED
        BY <1>1, <2>3
<1>5. QED
    BY <1>3, <1>4

\* The client writes one more refusal.
LEMMA FetchMore ==
    ASSUME NEW th \in Thread, NEW m \in 0..3, NEW H \in Seq(Byte), Fetches(th, m, H)
    PROVE  Fetches(th, m + 1, H \o Word("DN"))
<1>1. CASE th.pc = "answer" /\ H = Word("YES") \o Declines(m)
    <2>1. PICK y \in Seq(Byte) : y = Word("YES")
        BY WordFacts DEF Words
    <2>2. PICK d \in Seq(Byte) : d = Word("DN")
        BY WordFacts DEF Words
    <2>3. PICK N \in Seq(Byte) : N = Declines(m)
        <3>1. m \in 0..4
            OBVIOUS
        <3>2. Declines(m) \in Seq(Byte)
            BY <3>1, DeclinesFacts
        <3>3. QED
            BY <3>2
    <2>4. (y \o N) \o d = y \o (N \o d)
        BY Regroup
    <2>5. Declines(m + 1) = N \o d
        BY <2>2, <2>3, DeclinesFacts
    <2>6. QED
        BY <1>1, <2>1, <2>2, <2>3, <2>4, <2>5 DEF Fetches
<1>2. CASE th.pc = "need" /\ th.round \in 1..4 /\ th.round <= m + 1
           /\ H = Declines(m + 1 - th.round)
    <2>1. PICK n \in 1..4 : n = th.round
        BY <1>2
    <2>2. PICK k \in 0..3 : k = m + 1 - n
        <3>1. m + 1 - n \in 0..3
            BY <1>2, <2>1
        <3>2. QED
            BY <3>1
    <2>3. m + 1 + 1 - n = k + 1 /\ n <= m + 1 + 1
        BY <1>2, <2>1, <2>2
    <2>4. Declines(k + 1) = H \o Word("DN")
        BY <1>2, <2>1, <2>2, DeclinesFacts
    <2>5. QED
        BY <1>2, <2>1, <2>3, <2>4 DEF Fetches
<1>3. \/ th.pc = "answer" /\ H = Word("YES") \o Declines(m)
      \/ th.pc = "need" /\ th.round \in 1..4 /\ th.round <= m + 1
         /\ H = Declines(m + 1 - th.round)
      \/ m = 4
    BY DEF Fetches
<1>4. m # 4
    OBVIOUS
<1>5. QED
    BY <1>1, <1>2, <1>3, <1>4

\* The rounds a server was asked in.
LEMMA AskedType ==
    ASSUME NEW me \in Client, NEW s \in Servers
    PROVE  Asked(me, s) \in 0..4 /\ me.part - 1 \in 0..3 /\ me.part \in 1..4
    BY DEF Asked, Client, Parts, Servers

\* Three parts before the last.
Moved3(B, N, V, E) ==
    /\ N \o (V \o E) \in Seq(Byte)
    /\ ((B \o N) \o V) \o E = B \o (N \o (V \o E))

LEMMA Shift3 ==
    ASSUME NEW B \in Seq(Byte), NEW N \in Seq(Byte), NEW V \in Seq(Byte), NEW E \in Seq(Byte)
    PROVE  Moved3(B, N, V, E)
<1>1. PICK P \in Seq(Byte) : P = B \o N
    BY ConcatProperties
<1>2. (P \o V) \o E = P \o (V \o E)
    BY Regroup
<1>3. Moved(B, N, V, E)
    BY Shift, Zenon
<1>4. QED
    BY <1>1, <1>2, <1>3 DEF Moved, Moved3

\* A PUT is next.
LEMMA CommandPut ==
    ASSUME NEW th, NEW u \in Queues, StartsWithPut(u), NEW E \in Seq(Byte),
           NEW q, q = u[1] \o E, th.pc = "name"
    PROVE  \E q1 : Commands(q, "PUT", q1) /\ Busy(th, q1, E, u[2])
<1>1. PICK f \in Names, p1 \in Parts, p2 \in Parts, v \in Queues :
        /\ p1 # p2
        /\ u[1] = PutText(f, p1, p2) \o v[1]
        /\ u[2] = PutKeys(f, p1, p2) \cup v[2]
        /\ AllLocalOnce => PutKeys(f, p1, p2) \cap v[2] = {}
    BY DEF StartsWithPut
<1>2. PICK V \in Seq(Byte), L2 \in SUBSET Keys :
        v = <<V, L2>> /\ v[1] = V /\ v[2] = L2 /\ <<V, L2>> \in Queues
    BY QueueType
<1>3. PICK N \in Seq(Byte) : N = Block(Name(f)) \o Named(f, p1, p2)
    BY PutTextFacts
<1>4. "PUT" \in Words /\ Text("PUT") \in Byte
    BY WordFacts DEF Words
<1>5. PICK B \in Seq(Byte) : B = Block(Text("PUT"))
    BY <1>4, BlockFacts
<1>6. Moved3(B, N, V, E)
    BY Shift3, Zenon
<1>7. PICK M \in Seq(Byte) : M = N \o (V \o E)
    BY <1>6 DEF Moved3
<1>8. q = B \o M
    BY <1>1, <1>2, <1>3, <1>5, <1>6, <1>7 DEF PutText, Moved3
<1>9. Commands(B \o M, "PUT", M)
    <2>1. Commands(Block(Text("PUT")) \o M, "PUT", M)
        BY <1>4, CommandIs, Zenon
    <2>2. QED
        BY <1>5, <2>1
<1>10. PICK L \in SUBSET Keys : L = PutKeys(f, p1, p2)
    BY PutTextFacts
<1>11. Rest(th, N, L)
    BY <1>1, <1>3, <1>10 DEF Rest, InPut
<1>12. AllLocalOnce => L \cap L2 = {}
    BY <1>1, <1>2, <1>10
<1>13. Busy(th, N \o (V \o E), E, L \cup L2)
    BY <1>2, <1>11, <1>12, BusyOf, Zenon
<1>14. Busy(th, M, E, u[2])
    BY <1>1, <1>2, <1>7, <1>10, <1>13
<1>15. QED
    BY <1>8, <1>9, <1>14

\* The client's last command is next.
LEMMA CommandLast ==
    /\ Commands(ListWord, "LIST", <<>>)
    /\ \A f \in Names : Commands(GetWords(f), "GET", Asks(f))
<1>1. "LIST" \in Words /\ "GET" \in Words /\ Text("LIST") \in Byte
    BY WordFacts DEF Words
<1>2. PICK o \in Seq(Byte) : o = <<>>
    BY EmptySeq
<1>3. PICK B \in Seq(Byte) : B = Block(Text("LIST"))
    BY <1>1, BlockFacts
<1>4. Commands(Block(Text("LIST")) \o o, "LIST", o)
    BY <1>1, CommandIs, Zenon
<1>5. B \o o = B
    BY <1>2, ConcatEmptySeq
<1>6. Commands(ListWord, "LIST", <<>>)
    BY <1>2, <1>3, <1>4, <1>5 DEF ListWord
<1>7. ASSUME NEW f \in Names
      PROVE  Commands(GetWords(f), "GET", Asks(f))
    <2>1. PICK a \in Seq(Byte) : a = Asks(f)
        BY WordFacts
    <2>2. Commands(Block(Text("GET")) \o a, "GET", a)
        BY <1>1, CommandIs, Zenon
    <2>3. QED
        BY <2>1, <2>2 DEF GetWords
<1>8. QED
    BY <1>6, <1>7

\* What the thread has at the top of its loop.
Unread(me, s, q, r, K) ==
    \E E \in Seq(Byte) :
        /\ Waits(me, s, E, r)
        /\ \/ q = E /\ K = {}
           \/ \E u \in Queues : StartsWithPut(u) /\ q = u[1] \o E /\ K = u[2]

LEMMA AtCommand ==
    ASSUME NEW me \in Client, NEW s \in Servers, NEW th \in Thread,
           NEW q \in Seq(Byte), NEW r \in Seq(Byte), NEW K,
           Link(me, s, th, q, r, K), th.pc = "cmd", q # <<>>
    PROVE  Unread(me, s, q, r, K)
<1>1. ~InLast(me, s, th, q, r)
    BY DEF InLast
<1>2. ~InFetch(me, s, th, q, r)
    <2>1. ASSUME NEW H, Fetches(th, me.part - 1, H)
          PROVE  FALSE
        BY <2>1, AskedType DEF Fetches
    <2>2. ASSUME Fetches(th, Asked(me, s), q)
          PROVE  FALSE
        BY <2>2 DEF Fetches
    <2>3. QED
        BY <2>1, <2>2 DEF InFetch
<1>3. PICK E \in Seq(Byte) : Busy(th, q, E, K) /\ Waits(me, s, E, r)
    BY <1>1, <1>2 DEF Link
<1>4. PICK H \in Seq(Byte), K1 \in SUBSET Keys, Q \in Seq(Byte), K2 \in SUBSET Keys :
        Split(th, q, E, K, H, K1, Q, K2)
    BY <1>3, BusyParts, Zenon
<1>5. /\ <<Q, K2>> \in Queues /\ q = H \o (Q \o E) /\ K = K1 \cup K2
      /\ H = <<>> /\ K1 = {}
    BY <1>4, RestCmd DEF Split
<1>6. q = Q \o E /\ K = K2
    <2>1. PICK R \in Seq(Byte) : R = Q \o E
        BY ConcatProperties
    <2>2. <<>> \o R = R
        BY ConcatEmptySeq
    <2>3. QED
        BY <1>5, <2>1, <2>2
<1>7. PICK u \in Queues : u[1] = Q /\ u[2] = K2 /\ u = <<Q, K2>>
    BY <1>5
<1>8. CASE u = << <<>>, {} >>
    <2>1. Q = <<>> /\ K2 = {}
        BY <1>7, <1>8
    <2>2. <<>> \o E = E
        BY ConcatEmptySeq
    <2>3. QED
        BY <1>3, <1>6, <2>1, <2>2 DEF Unread
<1>9. CASE StartsWithPut(u)
    BY <1>3, <1>6, <1>7, <1>9 DEF Unread
<1>10. QED
    BY <1>8, <1>9, QueueStarts

\* The top of the loop.
LEMMA LinkCommand ==
    ASSUME NEW me \in Client, NEW s \in Servers, NEW th \in Thread,
           NEW q \in Seq(Byte), NEW r \in Seq(Byte), NEW K,
           Link(me, s, th, q, r, K), th.pc = "cmd", q # <<>>,
           NEW b, b = Taken(q, MaxLine), NEW q1, q1 = Left(q, MaxLine),
           NEW t, t = [th EXCEPT !.pc = IF Says(b, "PUT") THEN "name"
                                        ELSE IF Says(b, "GET") THEN "file" ELSE "cmd"],
           NEW F \in SUBSET Keys
    PROVE  /\ Says(b, "LIST") => Link(me, s, th, q1, r \o Listing(F), K)
           /\ ~Says(b, "LIST") => Link(me, s, t, q1, r, K)
<1>0. Unread(me, s, q, r, K)
    BY AtCommand, Zenon
<1>1. PICK E \in Seq(Byte) :
        /\ Waits(me, s, E, r)
        /\ \/ q = E /\ K = {}
           \/ \E u \in Queues : StartsWithPut(u) /\ q = u[1] \o E /\ K = u[2]
    BY <1>0 DEF Unread
<1>2. "LIST" \in Words /\ "PUT" \in Words /\ "GET" \in Words
    BY DEF Words
<1>3. ASSUME NEW u \in Queues, StartsWithPut(u), q = u[1] \o E, K = u[2]
      PROVE  /\ ~Says(b, "LIST")
             /\ Link(me, s, t, q1, r, K)
    <2>1. PICK x : x = [th EXCEPT !.pc = "name"]
        OBVIOUS
    <2>2. x.pc = "name"
        BY <2>1 DEF Thread
    <2>3. PICK y : Commands(q, "PUT", y) /\ Busy(x, y, E, u[2])
        BY <1>3, <2>2, CommandPut, Zenon
    <2>4. y = q1 /\ ~Says(b, "LIST") /\ Says(b, "PUT")
        BY <1>2, <2>3 DEF Commands
    <2>5. t = x
        BY <2>1, <2>4
    <2>6. Busy(t, q1, E, K)
        BY <1>3, <2>3, <2>4, <2>5
    <2>7. Link(me, s, t, q1, r, K)
        BY <1>1, <2>6 DEF Link
    <2>8. QED
        BY <2>4, <2>7
<1>4. ASSUME q = ListWord, K = {}, me.pc = "ub" \/ (me.pc = "list" /\ s >= me.at /\ r = <<>>)
      PROVE  /\ Says(b, "LIST")
             /\ Link(me, s, th, q1, r \o Listing(F), K)
    <2>1. Commands(q, "LIST", <<>>)
        BY <1>4, CommandLast
    <2>2. q1 = <<>> /\ Says(b, "LIST")
        BY <1>2, <2>1 DEF Commands
    <2>3. PICK ls \in Seq(Keys) : Listing(F) = ListRest(ls)
        BY AnswersAre
    <2>4. PICK a \in Seq(Byte) : a = ListRest(ls)
        BY ListRestFirst
    <2>5. <<>> \o a = a
        BY ConcatEmptySeq
    <2>6. r = <<>> => r \o Listing(F) = ListRest(ls)
        BY <2>3, <2>4, <2>5
    <2>7. InLast(me, s, th, q1, r \o Listing(F))
        BY <1>4, <2>2, <2>6 DEF InLast
    <2>8. QED
        BY <1>4, <2>2, <2>7 DEF Link
<1>5. ASSUME NEW f \in Names, q = GetWords(f), K = {},
             me.pc = "ub" \/ (me.pc = "collect" /\ f = me.file /\ s >= me.at /\ r = <<>>)
      PROVE  /\ ~Says(b, "LIST")
             /\ Link(me, s, t, q1, r, K)
    <2>1. Commands(q, "GET", Asks(f))
        BY <1>5, CommandLast
    <2>2. q1 = Asks(f) /\ ~Says(b, "LIST") /\ ~Says(b, "PUT") /\ Says(b, "GET")
        BY <1>2, <2>1 DEF Commands
    <2>3. t.pc = "file"
        BY <2>2 DEF Thread
    <2>4. InLast(me, s, t, q1, r)
        BY <1>5, <2>2, <2>3 DEF InLast
    <2>5. QED
        BY <1>5, <2>2, <2>4 DEF Link
<1>6. ASSUME q = E, K = {}
      PROVE  \/ q = ListWord /\ (me.pc = "ub" \/ (me.pc = "list" /\ s >= me.at /\ r = <<>>))
             \/ \E f \in Names :
                    /\ q = GetWords(f)
                    /\ me.pc = "ub" \/ (me.pc = "collect" /\ f = me.file /\ s >= me.at /\ r = <<>>)
    BY <1>1, <1>6 DEF Waits
<1>7. QED
    BY <1>1, <1>3, <1>4, <1>5, <1>6, Zenon
-----------------------------------------------------------------------------
(* The other steps of a thread.                                             *)

\* When the client has gone the thread goes round for ever.
LEMMA LinkSpin ==
    ASSUME NEW me \in Client, NEW s \in Servers, NEW th \in Thread, NEW r \in Seq(Byte), NEW K,
           Link(me, s, th, <<>>, r, K), th.pc \in {"cmd", "spin"}, me.pc = "gone",
           NEW t, t = [th EXCEPT !.pc = "spin"]
    PROVE  Link(me, s, t, <<>>, r, K)
<1>1. K = {}
    <2>1. ASSUME NEW E \in Seq(Byte), Busy(th, <<>>, E, K)
          PROVE  K = {}
        BY <2>1, BusyEmpty
    <2>2. QED
        BY <2>1 DEF Link
<1>2. t.pc = "spin"
    BY DEF Thread
<1>3. InLast(me, s, t, <<>>, r)
    BY <1>2 DEF InLast
<1>4. QED
    BY <1>1, <1>3 DEF Link

\* In a PUT the client is not waiting for the thread alone.
LEMMA LinkPut ==
    ASSUME NEW me, NEW s, NEW th, NEW q, NEW r, NEW K, Link(me, s, th, q, r, K),
           th.pc \in {"name", "size", "data", "num", "flush"}
    PROVE  \E E \in Seq(Byte) : Busy(th, q, E, K) /\ Waits(me, s, E, r)
<1>1. ~InLast(me, s, th, q, r)
    BY DEF InLast
<1>2. ~InFetch(me, s, th, q, r)
    BY DEF InFetch, Fetches
<1>3. QED
    BY <1>1, <1>2 DEF Link

\* The name asked for is read, and answered by piece numbers.
LEMMA LinkFile ==
    ASSUME NEW me, NEW s, NEW th \in Thread, NEW q, NEW r, NEW K,
           Link(me, s, th, q, r, K), th.pc = "file",
           NEW t, t = [th EXCEPT !.pc = "answer"], NEW F \in SUBSET Keys
    PROVE  Link(me, s, t, Left(q, q[1][2] + 1), r \o Numbers(F), K)
<1>1. ASSUME NEW E, Busy(th, q, E, K)
      PROVE  FALSE
    BY <1>1 DEF Busy, Rest, InPut, Fetches
<1>2. ~InFetch(me, s, th, q, r)
    BY DEF InFetch, Fetches
<1>3. K = {} /\ InLast(me, s, th, q, r)
    BY <1>1, <1>2 DEF Link
<1>4. PICK f \in Names : q = Asks(f) /\ (me.pc = "ub" \/ (me.pc = "collect" /\ s >= me.at /\ r = <<>>))
    BY <1>3 DEF InLast
<1>5. Left(q, q[1][2] + 1) = <<>>
    <2>1. PICK d \in Seq(Byte) : d = <<Name(f)>>
        BY WordFacts
    <2>2. q = Prefixed(d)
        BY <1>4, <2>1 DEF Asks
    <2>3. LeadsOff(d, <<>>, q)
        BY <2>2, FrontAlone
    <2>4. QED
        BY <2>3 DEF LeadsOff
<1>6. PICK ls \in Seq(Keys) : Numbers(F) = NumberRest(ls)
    BY AnswersAre
<1>7. PICK a \in Seq(Byte) : a = NumberRest(ls)
    BY NumberRestFirst
<1>8. <<>> \o a = a
    BY ConcatEmptySeq
<1>9. r = <<>> => r \o Numbers(F) = NumberRest(ls)
    BY <1>6, <1>7, <1>8
<1>10. t.pc = "answer"
    BY DEF Thread
<1>11. InLast(me, s, t, Left(q, q[1][2] + 1), r \o Numbers(F))
    BY <1>4, <1>5, <1>9, <1>10 DEF InLast
<1>12. QED
    BY <1>3, <1>11 DEF Link

\* The thread after the client's YES or NO.
Answered(th, q) ==
    IF Message(q) = <<Text("YES")>>
    THEN [th EXCEPT !.pc = "need", !.round = 1]
    ELSE [th EXCEPT !.pc = "cmd"]

\* YES is read.
LEMMA AnswerYes ==
    ASSUME NEW th \in Thread, NEW m \in 0..4, NEW H \in Seq(Byte), NEW X \in Seq(Byte),
           Fetches(th, m, H), th.pc = "answer", NEW q, q = H \o X
    PROVE  \E N \in Seq(Byte) :
              /\ Left(q, q[1][2] + 1) = N \o X
              /\ Fetches(Answered(th, q), m, N)
<1>1. PICK N \in Seq(Byte) :
        /\ LeadsOff(<<Text("YES")>>, N \o X, H \o X)
        /\ Fetches([th EXCEPT !.pc = "need", !.round = 1], m, N)
    BY FetchStarts, Zenon
<1>2. QED
    BY <1>1 DEF LeadsOff, Answered

\* The answer is read.
LEMMA LinkAnswer ==
    ASSUME NEW me \in Client, NEW s \in Servers, NEW th \in Thread,
           NEW q \in Seq(Byte), NEW r \in Seq(Byte), NEW K,
           Link(me, s, th, q, r, K), th.pc = "answer", q # <<>>
    PROVE  Link(me, s, Answered(th, q), Left(q, q[1][2] + 1), r, K)
<1>1. ~InLast(me, s, th, q, r)
    BY DEF InLast
<1>2. ASSUME NEW E \in Seq(Byte), Busy(th, q, E, K)
      PROVE  Busy(Answered(th, q), Left(q, q[1][2] + 1), E, K)
    <2>1. PICK H \in Seq(Byte), K1 \in SUBSET Keys, Q \in Seq(Byte), K2 \in SUBSET Keys :
            Split(th, q, E, K, H, K1, Q, K2)
        BY <1>2, BusyParts, Zenon
    <2>2. /\ <<Q, K2>> \in Queues /\ Rest(th, H, K1) /\ q = H \o (Q \o E)
          /\ K = K1 \cup K2
        BY <2>1 DEF Split
    <2>3. K1 = {} /\ (H = Word("NO") \/ Fetches(th, 4, H))
        BY <2>2 DEF Rest, InPut
    <2>4. PICK X \in Seq(Byte) : X = Q \o E
        BY ConcatProperties
    <2>5. CASE Fetches(th, 4, H)
        <3>1. PICK N \in Seq(Byte) : Left(q, q[1][2] + 1) = N \o X /\ Fetches(Answered(th, q), 4, N)
            <4>1. 4 \in 0..4
                OBVIOUS
            <4>2. QED
                BY <2>2, <2>4, <2>5, <4>1, AnswerYes, Zenon
        <3>2. Rest(Answered(th, q), N, K1)
            BY <2>3, <3>1 DEF Rest
        <3>3. K1 \cap K2 = {}
            BY <2>3
        <3>4. Busy(Answered(th, q), N \o (Q \o E), E, K1 \cup K2)
            BY <2>2, <3>2, <3>3, BusyOf, Zenon
        <3>5. QED
            BY <2>2, <2>4, <3>1, <3>4
    <2>6. CASE H = Word("NO")
        <3>1. PICK d \in Seq(Byte) : d = <<Text("NO")>>
            BY WordFacts DEF Words
        <3>2. q = Prefixed(d) \o X
            BY <2>2, <2>4, <2>6, <3>1 DEF Word
        <3>3. LeadsOff(d, X, q)
            BY <3>2, FrontOf
        <3>4. Message(q) # <<Text("YES")>>
            BY <3>1, <3>3 DEF LeadsOff, Text
        <3>5. Answered(th, q) = [th EXCEPT !.pc = "cmd"]
            BY <3>4 DEF Answered
        <3>6. Answered(th, q).pc = "cmd"
            BY <3>5 DEF Thread
        <3>7. PICK o \in Seq(Byte) : o = <<>>
            BY EmptySeq
        <3>8. Rest(Answered(th, q), o, K1) /\ K1 \cap K2 = {}
            BY <2>3, <3>6, <3>7 DEF Rest
        <3>9. Busy(Answered(th, q), o \o (Q \o E), E, K1 \cup K2)
            BY <2>2, <3>8, BusyOf, Zenon
        <3>10. o \o X = X
            BY <3>7, ConcatEmptySeq
        <3>11. Left(q, q[1][2] + 1) = X
            BY <3>3 DEF LeadsOff
        <3>12. QED
            BY <2>2, <2>4, <3>9, <3>10, <3>11
    <2>7. QED
        BY <2>3, <2>5, <2>6
<1>3. ASSUME K = {}, InFetch(me, s, th, q, r)
      PROVE  InFetch(me, s, Answered(th, q), Left(q, q[1][2] + 1), r)
    <2>0. Asked(me, s) \in 0..4 /\ me.part - 1 \in 0..4
        BY AskedType
    <2>1. ASSUME Fetches(th, Asked(me, s), q), r = <<>>,
                 me.pc \in {"fetch", "reply"}, me.pc = "reply" => s # me.at
          PROVE  InFetch(me, s, Answered(th, q), Left(q, q[1][2] + 1), r)
        <3>1. PICK o \in Seq(Byte) : o = <<>>
            BY EmptySeq
        <3>2. PICK H \in Seq(Byte) : H = q
            OBVIOUS
        <3>3. PICK m \in 0..4 : m = Asked(me, s)
            BY <2>0
        <3>4. q = H \o o
            BY <3>1, <3>2, ConcatEmptySeq
        <3>5. Fetches(th, m, H)
            BY <2>1, <3>2, <3>3
        <3>6. PICK N \in Seq(Byte) : /\ Left(q, q[1][2] + 1) = N \o o
                                     /\ Fetches(Answered(th, q), m, N)
            BY <3>4, <3>5, AnswerYes, Zenon
        <3>7. N \o o = N
            BY <3>1, ConcatEmptySeq
        <3>8. Fetches(Answered(th, q), Asked(me, s), Left(q, q[1][2] + 1))
            BY <3>3, <3>6, <3>7
        <3>9. QED
            BY <2>1, <3>8 DEF InFetch
    <2>2. ASSUME me.pc = "reply", s = me.at, r = <<>>,
                 NEW H \in Seq(Byte), NEW k \in Keys, k = <<me.file, me.part>>,
                 q = H \o (Word("NEED") \o Prefixed(<<Piece(k)>>)),
                 Fetches(th, me.part - 1, H)
          PROVE  InFetch(me, s, Answered(th, q), Left(q, q[1][2] + 1), r)
        <3>1. PICK X \in Seq(Byte) : X = Word("NEED") \o Prefixed(<<Piece(k)>>)
            BY WordFacts, ConcatProperties DEF Words
        <3>2. PICK m \in 0..4 : m = me.part - 1
            BY <2>0
        <3>3. q = H \o X /\ Fetches(th, m, H)
            BY <2>2, <3>1, <3>2
        <3>4. PICK N \in Seq(Byte) : /\ Left(q, q[1][2] + 1) = N \o X
                                     /\ Fetches(Answered(th, q), m, N)
            BY <3>3, AnswerYes, Zenon
        <3>5. QED
            BY <2>2, <3>1, <3>2, <3>4 DEF InFetch
    <2>3. ~Fetches(th, me.part, <<>>)
        <3>1. me.part \in 0..4
            BY AskedType
        <3>2. QED
            BY <3>1, FetchEmpty
    <2>4. QED
        BY <1>3, <2>1, <2>2, <2>3 DEF InFetch
<1>4. QED
    BY <1>1, <1>2, <1>3 DEF Link
-----------------------------------------------------------------------------
(* The rounds of the retrieval loop.                                        *)

\* Two parts before the last.
Moved2(a, N, X) == N \o X \in Seq(Byte) /\ (a \o N) \o X = a \o (N \o X)

LEMMA Shift2 ==
    ASSUME NEW a \in Seq(Byte), NEW N \in Seq(Byte), NEW X \in Seq(Byte)
    PROVE  Moved2(a, N, X)
<1>1. N \o X \in Seq(Byte)
    BY ConcatProperties
<1>2. (a \o N) \o X = a \o (N \o X)
    BY Regroup
<1>3. QED
    BY <1>1, <1>2 DEF Moved2

\* A refusal is read.
Refused(th, m, X, q) ==
    \E N \in Seq(Byte) :
        /\ Left(q, q[1][2] + 1) = N \o X
        /\ Fetches(NextRound(th), m, N)
        /\ Message(q) # <<Text("NEED")>>

LEMMA DeclineRead ==
    ASSUME NEW th \in Thread, NEW m \in 0..4, NEW H \in Seq(Byte), NEW X \in Seq(Byte),
           Fetches(th, m, H), th.pc = "need", H # <<>>, NEW q, q = H \o X
    PROVE  Refused(th, m, X, q)
<1>1. PICK N \in Seq(Byte) : H = Word("DN") \o N /\ Fetches(NextRound(th), m, N)
    BY FetchDeclined, Zenon
<1>2. PICK y \in Seq(Byte) : y = <<Text("DN")>>
    BY WordFacts DEF Words
<1>3. PICK a \in Seq(Byte) : a = Prefixed(y) /\ a = Word("DN")
    BY <1>2, WordFacts DEF Word, Words
<1>4. Moved2(a, N, X)
    BY Shift2, Zenon
<1>5. PICK R \in Seq(Byte) : R = N \o X /\ q = a \o R
    BY <1>1, <1>3, <1>4 DEF Moved2
<1>6. LeadsOff(y, R, q)
    BY <1>3, <1>5, FrontOf
<1>7. y # <<Text("NEED")>>
    BY <1>2 DEF Text
<1>8. QED
    BY <1>1, <1>5, <1>6, <1>7 DEF LeadsOff, Refused

\* What a thread in the loop has before it.
LEMMA BusyRounds ==
    ASSUME NEW th \in Thread, NEW q, NEW E \in Seq(Byte), NEW K, Busy(th, q, E, K), th.pc = "need"
    PROVE  /\ Message(q) # <<Text("NEED")>>
           /\ Busy(NextRound(th), Left(q, q[1][2] + 1), E, K)
<1>1. PICK H \in Seq(Byte), K1 \in SUBSET Keys, Q \in Seq(Byte), K2 \in SUBSET Keys :
        Split(th, q, E, K, H, K1, Q, K2)
    BY BusyParts, Zenon
<1>2. /\ <<Q, K2>> \in Queues /\ Rest(th, H, K1) /\ q = H \o (Q \o E)
      /\ K = K1 \cup K2
    BY <1>1 DEF Split
<1>3. K1 = {} /\ Fetches(th, 4, H) /\ 4 \in 0..4
    BY <1>2 DEF Rest, InPut
<1>4. H # <<>>
    BY <1>3, FetchEmpty
<1>5. PICK X \in Seq(Byte) : X = Q \o E
    BY ConcatProperties
<1>6. PICK N \in Seq(Byte) : /\ Left(q, q[1][2] + 1) = N \o X
                             /\ Fetches(NextRound(th), 4, N)
                             /\ Message(q) # <<Text("NEED")>>
    <2>1. Refused(th, 4, X, q)
        BY <1>2, <1>3, <1>4, <1>5, DeclineRead, Zenon
    <2>2. QED
        BY <2>1 DEF Refused
<1>7. Rest(NextRound(th), N, K1)
    BY <1>3, <1>6 DEF Rest
<1>8. K1 \cap K2 = {}
    BY <1>3
<1>9. Busy(NextRound(th), N \o (Q \o E), E, K1 \cup K2)
    BY <1>2, <1>7, <1>8, BusyOf, Zenon
<1>10. QED
    BY <1>2, <1>5, <1>6, <1>9

\* The client needs nothing.
LEMMA LinkDeclined ==
    ASSUME NEW me \in Client, NEW s \in Servers, NEW th \in Thread,
           NEW q \in Seq(Byte), NEW r \in Seq(Byte), NEW K,
           Link(me, s, th, q, r, K), th.pc = "need", q # <<>>,
           Message(q) # <<Text("NEED")>>
    PROVE  Link(me, s, NextRound(th), Left(q, q[1][2] + 1), r, K)
<1>1. ~InLast(me, s, th, q, r)
    BY DEF InLast
<1>2. ASSUME NEW E \in Seq(Byte), Busy(th, q, E, K)
      PROVE  Busy(NextRound(th), Left(q, q[1][2] + 1), E, K)
    BY <1>2, BusyRounds
<1>3. ASSUME K = {}, InFetch(me, s, th, q, r)
      PROVE  InFetch(me, s, NextRound(th), Left(q, q[1][2] + 1), r)
    <2>0. Asked(me, s) \in 0..4 /\ me.part - 1 \in 0..4
        BY AskedType
    <2>1. ASSUME Fetches(th, Asked(me, s), q), r = <<>>,
                 me.pc \in {"fetch", "reply"}, me.pc = "reply" => s # me.at
          PROVE  InFetch(me, s, NextRound(th), Left(q, q[1][2] + 1), r)
        <3>1. PICK o \in Seq(Byte) : o = <<>>
            BY EmptySeq
        <3>2. PICK H \in Seq(Byte) : H = q
            OBVIOUS
        <3>3. PICK m \in 0..4 : m = Asked(me, s)
            BY <2>0
        <3>4. q = H \o o /\ H # <<>>
            BY <3>1, <3>2, ConcatEmptySeq
        <3>5. Fetches(th, m, H)
            BY <2>1, <3>2, <3>3
        <3>6. PICK N \in Seq(Byte) : /\ Left(q, q[1][2] + 1) = N \o o
                                     /\ Fetches(NextRound(th), m, N)
                                     /\ Message(q) # <<Text("NEED")>>
            <4>1. Refused(th, m, o, q)
                BY <3>4, <3>5, DeclineRead, Zenon
            <4>2. QED
                BY <4>1 DEF Refused
        <3>7. N \o o = N
            BY <3>1, ConcatEmptySeq
        <3>8. Fetches(NextRound(th), Asked(me, s), Left(q, q[1][2] + 1))
            BY <3>3, <3>6, <3>7
        <3>9. QED
            BY <2>1, <3>8 DEF InFetch
    <2>2. ASSUME me.pc = "reply", s = me.at, r = <<>>,
                 NEW H \in Seq(Byte), NEW k \in Keys, k = <<me.file, me.part>>,
                 q = H \o (Word("NEED") \o Prefixed(<<Piece(k)>>)),
                 Fetches(th, me.part - 1, H)
          PROVE  InFetch(me, s, NextRound(th), Left(q, q[1][2] + 1), r)
        <3>1. PICK X \in Seq(Byte) : X = Word("NEED") \o Prefixed(<<Piece(k)>>)
            BY WordFacts, ConcatProperties DEF Words
        <3>2. PICK m \in 0..4 : m = me.part - 1
            BY <2>0
        <3>3. H # <<>>
            <4>1. ASSUME H = <<>>
                  PROVE  FALSE
                <5>1. PICK y \in Seq(Byte) : y = <<Text("NEED")>>
                    BY WordFacts DEF Words
                <5>2. PICK z \in Seq(Byte) : z = Prefixed(<<Piece(k)>>)
                    BY WordFacts
                <5>3. q = Prefixed(y) \o z
                    <6>1. <<>> \o X = X
                        BY ConcatEmptySeq
                    <6>2. QED
                        BY <2>2, <3>1, <4>1, <5>1, <5>2, <6>1 DEF Word
                <5>4. LeadsOff(y, z, q)
                    BY <5>3, FrontOf
                <5>5. QED
                    BY <5>1, <5>4 DEF LeadsOff
            <4>2. QED
                BY <4>1
        <3>4. PICK N \in Seq(Byte) : /\ Left(q, q[1][2] + 1) = N \o X
                                     /\ Fetches(NextRound(th), m, N)
                                     /\ Message(q) # <<Text("NEED")>>
            <4>1. Refused(th, m, X, q)
                BY <2>2, <3>1, <3>2, <3>3, DeclineRead, Zenon
            <4>2. QED
                BY <4>1 DEF Refused
        <3>5. QED
            BY <2>2, <3>1, <3>2, <3>4 DEF InFetch
    <2>3. QED
        BY <1>3, <2>1, <2>2 DEF InFetch
<1>4. QED
    BY <1>1, <1>2, <1>3 DEF Link

\* The request for a piece, all that is in the stream.
Requests(me, s, th, q, r, K) ==
    /\ K = {} /\ r = <<>> /\ me.pc = "reply" /\ s = me.at
    /\ Fetches(th, me.part - 1, <<>>)
    /\ \E k \in Keys : /\ k = <<me.file, me.part>>
                      /\ q = Word("NEED") \o Prefixed(<<Piece(k)>>)

LEMMA PieceRequested ==
    ASSUME NEW me \in Client, NEW s \in Servers, NEW th \in Thread,
           NEW q \in Seq(Byte), NEW r \in Seq(Byte), NEW K,
           Link(me, s, th, q, r, K), th.pc = "need", q # <<>>,
           Message(q) = <<Text("NEED")>>
    PROVE  Requests(me, s, th, q, r, K)
<1>1. ~InLast(me, s, th, q, r)
    BY DEF InLast
<1>2. ~ \E E \in Seq(Byte) : Busy(th, q, E, K)
    BY BusyRounds
<1>3. K = {} /\ InFetch(me, s, th, q, r)
    BY <1>1, <1>2 DEF Link
<1>4. Asked(me, s) \in 0..4 /\ me.part - 1 \in 0..3 /\ me.part \in 1..4
    BY AskedType
<1>5. ~Fetches(th, Asked(me, s), q)
    <2>1. ASSUME Fetches(th, Asked(me, s), q)
          PROVE  FALSE
        <3>1. PICK o \in Seq(Byte) : o = <<>>
            BY EmptySeq
        <3>2. PICK H \in Seq(Byte) : H = q
            OBVIOUS
        <3>3. PICK m \in 0..4 : m = Asked(me, s)
            BY <1>4
        <3>4. q = H \o o /\ H # <<>>
            BY <3>1, <3>2, ConcatEmptySeq
        <3>5. Fetches(th, m, H)
            BY <2>1, <3>2, <3>3
        <3>6. Refused(th, m, o, q)
            BY <3>4, <3>5, DeclineRead, Zenon
        <3>7. QED
            BY <3>6 DEF Refused
    <2>2. QED
        BY <2>1
<1>6. PICK H \in Seq(Byte), k \in Keys :
        /\ me.pc = "reply" /\ s = me.at /\ r = <<>> /\ k = <<me.file, me.part>>
        /\ q = H \o (Word("NEED") \o Prefixed(<<Piece(k)>>))
        /\ Fetches(th, me.part - 1, H)
    BY <1>3, <1>5 DEF InFetch
<1>7. PICK y \in Seq(Byte), z \in Seq(Byte) :
        y = <<Text("NEED")>> /\ z = <<Piece(k)>>
    BY WordFacts DEF Words
<1>8. PICK A \in Seq(Byte), B \in Seq(Byte) : A = Prefixed(y) /\ B = Prefixed(z)
    BY PrefixedType
<1>9. PICK X \in Seq(Byte) : X = A \o B
    BY ConcatProperties
<1>10. q = H \o X
    BY <1>6, <1>7, <1>8, <1>9 DEF Word
<1>11. PICK m \in 0..3 : m = me.part - 1 /\ me.part = m + 1
    BY <1>4
<1>12. H = <<>>
    <2>1. ASSUME H # <<>>
          PROVE  FALSE
        <3>1. m \in 0..4 /\ Fetches(th, m, H)
            BY <1>6, <1>11
        <3>2. Refused(th, m, X, q)
            BY <1>10, <2>1, <3>1, DeclineRead, Zenon
        <3>3. QED
            BY <3>2 DEF Refused
    <2>2. QED
        BY <2>1
<1>13. q = A \o B
    <2>1. <<>> \o X = X
        BY ConcatEmptySeq
    <2>2. QED
        BY <1>9, <1>10, <1>12, <2>1
<1>14. QED
    BY <1>3, <1>6, <1>7, <1>8, <1>12, <1>13 DEF Requests, Word

\* The client names a piece, which is answered.
LEMMA LinkPiece ==
    ASSUME NEW me \in Client, NEW s \in Servers, NEW th \in Thread,
           NEW q \in Seq(Byte), NEW r \in Seq(Byte), NEW K,
           Link(me, s, th, q, r, K), th.pc = "need", q # <<>>,
           Message(q) = <<Text("NEED")>>, NEW d \in Seq(Byte)
    PROVE  /\ Link(me, s, NextRound(th),
                   Left(q, q[1][2] + 1 + AfterMessage(q)[1][2] + 1), r \o Prefixed(d), K)
<1>1. Requests(me, s, th, q, r, K)
    BY PieceRequested
<1>2. PICK k \in Keys : q = Word("NEED") \o Prefixed(<<Piece(k)>>)
    BY <1>1 DEF Requests
<1>3. K = {}
    BY <1>1 DEF Requests
<1>4. me.pc = "reply" /\ s = me.at /\ r = <<>> /\ Fetches(th, me.part - 1, <<>>)
    BY <1>1 DEF Requests
<1>5. PICK y \in Seq(Byte), z \in Seq(Byte) :
        y = <<Text("NEED")>> /\ z = <<Piece(k)>>
    BY WordFacts DEF Words
<1>6. PICK A \in Seq(Byte), B \in Seq(Byte) : A = Prefixed(y) /\ B = Prefixed(z)
    BY PrefixedType
<1>7. PICK m \in 0..3 : m = me.part - 1 /\ me.part = m + 1
    BY AskedType
<1>8. q = A \o B
    BY <1>2, <1>5, <1>6 DEF Word
<1>9. Left(q, q[1][2] + 1 + AfterMessage(q)[1][2] + 1) = <<>>
    <2>1. LeadsOff(y, B, A \o B)
        BY <1>6, FrontOf
    <2>2. AfterMessage(q) = B
        BY <1>8, <2>1 DEF LeadsOff
    <2>3. PICK j \in Nat : j = Len(y) /\ Len(A) = j + 1 /\ q[1][2] = j
        <3>1. Len(y) \in Nat /\ <<Bin(Len(y))>> \in Seq(Byte) /\ Len(<<Bin(Len(y))>>) = 1
            BY LenProperties, ByteTypes
        <3>2. Len(A) = 1 + Len(y) /\ A[1] = Bin(Len(y))
            BY <1>6, <3>1, ConcatProperties DEF Prefixed
        <3>3. q[1] = A[1]
            BY <1>8, <3>1, <3>2, ConcatProperties, LenProperties
        <3>4. QED
            BY <3>1, <3>2, <3>3 DEF Bin
    <2>4. PICK i \in Nat : i = Len(z) /\ Len(B) = i + 1 /\ B[1][2] = i
        <3>1. Len(z) \in Nat /\ <<Bin(Len(z))>> \in Seq(Byte) /\ Len(<<Bin(Len(z))>>) = 1
            BY LenProperties, ByteTypes
        <3>2. Len(B) = 1 + Len(z) /\ B[1] = Bin(Len(z))
            BY <1>6, <3>1, ConcatProperties DEF Prefixed
        <3>3. QED
            BY <3>1, <3>2 DEF Bin
    <2>5. Len(q) = Len(A) + Len(B)
        BY <1>8, ConcatProperties
    <2>6. q[1][2] + 1 + AfterMessage(q)[1][2] + 1 = Len(q)
        BY <2>2, <2>3, <2>4, <2>5
    <2>7. PICK o \in Seq(Byte) : o = <<>> /\ q \o o = q
        BY EmptySeq, ConcatEmptySeq
    <2>8. Left(q \o o, Len(q)) = o
        BY ReadFirst
    <2>9. QED
        BY <2>6, <2>7, <2>8
<1>10. Fetches(NextRound(th), me.part, <<>>)
    <2>1. Fetches(th, m, <<>>)
        BY <1>4, <1>7
    <2>2. QED
        BY <1>7, <2>1, FetchServed
<1>11. r \o Prefixed(d) = Prefixed(d)
    <2>1. PICK a \in Seq(Byte) : a = Prefixed(d)
        BY PrefixedType
    <2>2. <<>> \o a = a
        BY ConcatEmptySeq
    <2>3. QED
        BY <1>4, <2>1, <2>2
<1>12. InFetch(me, s, NextRound(th), Left(q, q[1][2] + 1 + AfterMessage(q)[1][2] + 1),
               r \o Prefixed(d))
    BY <1>4, <1>9, <1>10, <1>11 DEF InFetch
<1>13. QED
    BY <1>3, <1>12 DEF Link
-----------------------------------------------------------------------------
(* The steps of a client keep a connection in step.                         *)

\* The first of the servers S from n on, or 4.
LEMMA LeastServer ==
    ASSUME NEW S \in SUBSET Servers, NEW n \in 0..4, NEW v \in S, v >= n
    PROVE  \E t \in S : t >= n /\ \A u \in S : u >= n => t <= u
<1>1. \A u \in S : u = 0 \/ u = 1 \/ u = 2 \/ u = 3
    BY DEF Servers
<1>2. CASE 0 \in S /\ n = 0
    BY <1>1, <1>2
<1>3. CASE 1 \in S /\ n <= 1 /\ ~(0 \in S /\ n = 0)
    BY <1>1, <1>3
<1>4. CASE 2 \in S /\ n <= 2 /\ ~(1 \in S /\ n <= 1) /\ ~(0 \in S /\ n = 0)
    BY <1>1, <1>4
<1>5. CASE 3 \in S /\ n <= 3 /\ ~(2 \in S /\ n <= 2) /\ ~(1 \in S /\ n <= 1)
           /\ ~(0 \in S /\ n = 0)
    BY <1>1, <1>5
<1>6. QED
    BY <1>1, <1>2, <1>3, <1>4, <1>5

\* What FirstFrom finds.
IsFirst(S, n, F) ==
    /\ F = 4 \/ (F \in S /\ F \in Servers /\ F >= n)
    /\ \A t \in S : t >= n => F # 4 /\ F <= t

LEMMA FirstIs ==
    ASSUME TypeOK, NEW c \in Clients, NEW n \in 0..4
    PROVE  /\ IsFirst(conn[c], n, FirstFrom(c, n))
           /\ n = 0 => FirstFrom(c, n) # 4
<1>1. conn[c] \in SUBSET Servers /\ conn[c] # {}
    BY DEF TypeOK
<1>2. CASE \E t \in conn[c] : t >= n
    <2>1. PICK t \in conn[c] : t >= n
        BY <1>2
    <2>2. \E u \in conn[c] : u >= n /\ \A v \in conn[c] : v >= n => u <= v
        <3>1. PICK S \in SUBSET Servers : S = conn[c]
            BY <1>1
        <3>2. t \in S
            BY <3>1
        <3>3. \E u \in S : u >= n /\ \A v \in S : v >= n => u <= v
            BY <2>1, <3>2, LeastServer
        <3>4. QED
            BY <3>1, <3>3
    <2>3. /\ FirstFrom(c, n) \in conn[c] /\ FirstFrom(c, n) >= n
          /\ \A v \in conn[c] : v >= n => FirstFrom(c, n) <= v
        BY <1>2, <2>2 DEF FirstFrom
    <2>4. FirstFrom(c, n) \in Servers
        BY <1>1, <2>3
    <2>5. FirstFrom(c, n) # 4
        BY <2>4 DEF Servers
    <2>6. QED
        BY <2>3, <2>4, <2>5 DEF IsFirst
<1>3. CASE ~ \E t \in conn[c] : t >= n
    <2>1. FirstFrom(c, n) = 4
        BY <1>3 DEF FirstFrom
    <2>2. n # 0
        <3>1. PICK t \in conn[c] : t \in Servers
            BY <1>1
        <3>2. t >= 0
            BY <3>1 DEF Servers
        <3>3. QED
            BY <1>3, <3>2
    <2>3. QED
        BY <1>3, <2>1, <2>2 DEF IsFirst
<1>4. QED
    BY <1>2, <1>3

\* At its prompt a client waits for nothing.
LEMMA LinkMenu ==
    ASSUME NEW me, NEW s, NEW th, NEW q, NEW r, NEW K, Link(me, s, th, q, r, K), me.pc = "menu"
    PROVE  r = <<>> /\ Busy(th, q, <<>>, K)
    BY DEF Link, Waits, InLast, InFetch

LEMMA LinkIdle ==
    ASSUME NEW me, NEW s, NEW th, NEW q, NEW K, Busy(th, q, <<>>, K), me.pc \in {"menu", "gone"}
    PROVE  Link(me, s, th, q, <<>>, K)
<1>1. <<>> \in Seq(Byte)
    BY EmptySeq
<1>2. Waits(me, s, <<>>, <<>>)
    BY DEF Waits
<1>3. QED
    BY <1>1, <1>2 DEF Link

\* The client writes LIST, or GET.
LEMMA LinkAsks ==
    ASSUME NEW me, NEW s, NEW th, NEW q, NEW r, NEW K, Link(me, s, th, q, r, K), me.pc = "menu",
           NEW x, s >= x.at
    PROVE  /\ x.pc = "list" => Link(x, s, th, q \o ListWord, r, K)
           /\ x.pc = "collect" => \A f \in Names :
                x.file = f => Link(x, s, th, q \o GetWords(f), r, K)
<1>1. r = <<>> /\ Busy(th, q, <<>>, K)
    BY LinkMenu, Zenon
<1>2. "LIST" \in Words /\ "GET" \in Words /\ Text("LIST") \in Byte /\ Text("GET") \in Byte
    BY WordFacts DEF Words
<1>3. ASSUME x.pc = "list"
      PROVE  Link(x, s, th, q \o ListWord, r, K)
    <2>1. PICK E \in Seq(Byte) : E = ListWord
        BY <1>2, BlockFacts DEF ListWord
    <2>2. Busy(th, q \o E, E, K)
        BY <1>1, BusyEnd, Zenon
    <2>3. Waits(x, s, E, r)
        BY <1>1, <1>3, <2>1 DEF Waits
    <2>4. Link(x, s, th, q \o E, r, K)
        BY <2>2, <2>3 DEF Link
    <2>5. QED
        BY <2>1, <2>4
<1>4. ASSUME x.pc = "collect", NEW f \in Names, x.file = f
      PROVE  Link(x, s, th, q \o GetWords(f), r, K)
    <2>1. Block(Text("GET")) \in Seq(Byte) /\ Asks(f) \in Seq(Byte)
        BY <1>2, BlockFacts, WordFacts
    <2>2. PICK E \in Seq(Byte) : E = GetWords(f)
        BY <2>1, ConcatProperties DEF GetWords
    <2>3. Busy(th, q \o E, E, K)
        BY <1>1, BusyEnd, Zenon
    <2>4. Waits(x, s, E, r)
        BY <1>1, <1>4, <2>2 DEF Waits
    <2>5. Link(x, s, th, q \o E, r, K)
        BY <2>3, <2>4 DEF Link
    <2>6. QED
        BY <2>2, <2>5
<1>5. QED
    BY <1>3, <1>4

\* A message of the listing is a name, or the last one DONE.
LEMMA ListEntry ==
    ASSUME NEW ls \in Seq(Keys), NEW r, r = ListRest(ls)
    PROVE  \/ Says(Taken(r, MaxLine), "DONE") /\ Left(r, MaxLine) = <<>>
           \/ /\ ~Says(Taken(r, MaxLine), "DONE")
              /\ \E rest \in Seq(Keys) : Left(r, MaxLine) = ListRest(rest)
<1>1. "DONE" \in Words /\ Text("DONE") \in Byte
    BY WordFacts DEF Words
<1>2. PICK o \in Seq(Byte) : o = <<>>
    BY EmptySeq
<1>3. CASE ls = <<>>
    <2>1. PICK B \in Seq(Byte) : B = Block(Text("DONE"))
        BY <1>1, BlockFacts
    <2>2. Commands(Block(Text("DONE")) \o o, "DONE", o)
        BY <1>1, CommandIs, Zenon
    <2>3. B \o o = B /\ r = B
        BY <1>2, <1>3, <2>1, ConcatEmptySeq, ListRestFirst
    <2>4. Commands(r, "DONE", <<>>)
        BY <1>2, <2>1, <2>2, <2>3
    <2>5. QED
        BY <1>1, <2>4 DEF Commands
<1>4. CASE ls # <<>>
    <2>1. PICK k \in Keys, rest \in Seq(Keys) : r = Block(Piece(k)) \o ListRest(rest)
        BY <1>4, ListRestFirst
    <2>2. PICK R \in Seq(Byte) : R = ListRest(rest)
        BY ListRestFirst
    <2>3. Piece(k) \in Byte /\ Piece(k) # NUL /\ Piece(k) # Text("DONE")
        BY WordFacts DEF Piece, NUL, Text
    <2>4. PICK d \in Seq(Byte) : /\ d = Block(Piece(k)) /\ Len(d) = MaxLine
                                 /\ ~Says(d, "DONE")
        BY <2>3, BlockFacts
    <2>5. Taken(d \o R, Len(d)) = d /\ Left(d \o R, Len(d)) = R
        BY ReadFirst
    <2>6. QED
        BY <2>1, <2>2, <2>4, <2>5
<1>5. QED
    BY <1>3, <1>4

\* The server whose listing is read.
Lists(th, q, r, K) ==
    /\ th.pc = "cmd" /\ q = <<>> /\ K = {}
    /\ \E ls \in Seq(Keys) : r = ListRest(ls)

LEMMA ListingAt ==
    ASSUME NEW me \in Client, NEW s, NEW th, NEW q, NEW r, NEW K, Link(me, s, th, q, r, K),
           me.pc = "list", s = me.at, r # <<>>
    PROVE  Lists(th, q, r, K)
<1>1. me.at \in Int
    BY DEF Client, Servers
<1>2. ~(s < me.at)
    BY <1>1
<1>3. QED
    BY <1>2 DEF Link, Waits, InLast, InFetch, Lists

\* The servers whose listing is not read.
LEMMA ListingOther ==
    ASSUME NEW me, NEW s, NEW th, NEW q, NEW r, NEW K, Link(me, s, th, q, r, K),
           me.pc = "list", NEW x,
           \/ x.pc = "ub"
           \/ x.pc = "list" /\ (s < me.at <=> s < x.at) /\ (s >= me.at <=> s >= x.at)
    PROVE  Link(x, s, th, q, r, K)
<1>1. ASSUME NEW E, Waits(me, s, E, r)
      PROVE  Waits(x, s, E, r)
    BY <1>1 DEF Waits
<1>2. ASSUME InLast(me, s, th, q, r)
      PROVE  InLast(x, s, th, q, r)
    BY <1>2 DEF InLast
<1>3. ~InFetch(me, s, th, q, r)
    BY DEF InFetch
<1>4. QED
    BY <1>1, <1>2, <1>3 DEF Link

\* The servers that were read.
LEMMA ListingOver ==
    ASSUME NEW me \in Client, NEW s \in Servers, NEW th, NEW q, NEW r, NEW K,
           Link(me, s, th, q, r, K), me.pc = "list", s < me.at
    PROVE  th.pc = "cmd" /\ q = <<>> /\ r = <<>> /\ K = {}
<1>1. ~(s >= me.at)
    BY DEF Client, Servers
<1>2. QED
    BY <1>1 DEF Link, Waits, InLast, InFetch
-----------------------------------------------------------------------------
(* The client's actions.                                                    *)

\* What the steps of a client and the connections it has are made of.
LEMMA ConnFacts ==
    ASSUME TypeOK, NEW c \in Clients, NEW s \in conn[c]
    PROVE  /\ s \in Servers /\ client[c] \in Client /\ thread[c][s] \in Thread
           /\ c2s[c][s] \in Seq(Byte) /\ s2c[c][s] \in Seq(Byte)
           /\ client[c].at \in Servers /\ client[c].at + 1 \in 0..4 /\ s \in 0..3
           /\ client[c].at \in 0..3
<1>1. s \in Servers
    BY DEF TypeOK
<1>2. QED
    BY <1>1, SMTT(30) DEF TypeOK, Client, Servers

\* LIST.
LEMMA ListLinks ==
    ASSUME TypeOK, NEW c \in Clients, List(c), NEW s \in conn[c], NEW K, LinkOf(c, s, K)
    PROVE  /\ LinkOf(c, s, K)'
           /\ client'[c].at \in conn[c]
<1>1. s \in Servers /\ client[c] \in Client /\ s \in 0..3
    BY ConnFacts
<1>2. PICK n : n = FirstFrom(c, 0) /\ n \in conn[c] /\ n \in Servers /\ s >= n
    <2>1. IsFirst(conn[c], 0, FirstFrom(c, 0)) /\ FirstFrom(c, 0) # 4
        BY FirstIs
    <2>2. QED
        BY <1>1, <2>1 DEF IsFirst
<1>3. PICK x : x = [client[c] EXCEPT !.pc = "list", !.at = n, !.entries = <<>>]
    OBVIOUS
<1>4. /\ client'[c] = x /\ thread' = thread /\ s2c' = s2c
      /\ c2s'[c][s] = c2s[c][s] \o ListWord
    BY <1>1, <1>2, <1>3 DEF List, WriteAll, TypeOK, ListWord
<1>5. x.pc = "list" /\ x.at = n
    BY <1>1, <1>3 DEF Client
<1>6. client[c].pc = "menu"
    BY DEF List
<1>7. Link(x, s, thread[c][s], c2s[c][s] \o ListWord, s2c[c][s], K)
    BY <1>2, <1>5, <1>6, LinkAsks DEF LinkOf
<1>8. QED
    BY <1>2, <1>4, <1>5, <1>7 DEF LinkOf

\* GET.
LEMMA GetLinks ==
    ASSUME TypeOK, NEW c \in Clients, NEW f \in Names, Get(c, f), NEW s \in conn[c],
           NEW K, LinkOf(c, s, K)
    PROVE  /\ LinkOf(c, s, K)'
           /\ client'[c].at \in conn[c]
<1>1. s \in Servers /\ client[c] \in Client /\ s \in 0..3
    BY ConnFacts
<1>2. PICK n : n = FirstFrom(c, 0) /\ n \in conn[c] /\ n \in Servers /\ s >= n
    <2>1. IsFirst(conn[c], 0, FirstFrom(c, 0)) /\ FirstFrom(c, 0) # 4
        BY FirstIs
    <2>2. QED
        BY <1>1, <2>1 DEF IsFirst
<1>3. PICK x : x = [client[c] EXCEPT !.pc = "collect", !.file = f, !.at = n, !.marks = {}]
    OBVIOUS
<1>4. /\ client'[c] = x /\ thread' = thread /\ s2c' = s2c
      /\ c2s'[c][s] = c2s[c][s] \o GetWords(f)
    BY <1>1, <1>2, <1>3 DEF Get, WriteAll, TypeOK, GetWords, Asks
<1>5. x.pc = "collect" /\ x.at = n /\ x.file = f
    BY <1>1, <1>3 DEF Client
<1>6. client[c].pc = "menu"
    BY DEF Get
<1>7. Link(x, s, thread[c][s], c2s[c][s] \o GetWords(f), s2c[c][s], K)
    BY <1>2, <1>5, <1>6, LinkAsks DEF LinkOf
<1>8. QED
    BY <1>2, <1>4, <1>5, <1>7 DEF LinkOf

\* The client stops.
LEMMA QuitLinks ==
    ASSUME TypeOK, NEW c \in Clients, Quit(c), NEW s \in conn[c], NEW K, LinkOf(c, s, K)
    PROVE  LinkOf(c, s, K)'
<1>1. PICK x : x = [client[c] EXCEPT !.pc = "gone"]
    OBVIOUS
<1>2. client'[c] = x /\ thread' = thread /\ s2c' = s2c /\ c2s' = c2s /\ client[c].pc = "menu"
    BY <1>1 DEF Quit, TypeOK
<1>3. x.pc = "gone"
    BY <1>1 DEF TypeOK, Client
<1>4. s2c[c][s] = <<>> /\ Busy(thread[c][s], c2s[c][s], <<>>, K)
    BY <1>2, LinkMenu DEF LinkOf
<1>5. Link(x, s, thread[c][s], c2s[c][s], <<>>, K)
    BY <1>3, <1>4, LinkIdle
<1>6. QED
    BY <1>2, <1>4, <1>5 DEF LinkOf

\* The next server of a loop, seen from another one.
LEMMA NextServer ==
    ASSUME TypeOK, NEW c \in Clients, NEW a \in 0..3, a \in conn[c],
           NEW s \in conn[c], NEW n, n = FirstFrom(c, a + 1)
    PROVE  /\ n # 4 => /\ n \in conn[c] /\ n \in 0..3 /\ a < n
                       /\ s # a => (s < a <=> s < n) /\ (s >= a <=> s >= n)
                       /\ s = a => s < n
           /\ n = 4 => s = a \/ s < a
<1>1. a + 1 \in 0..4 /\ s \in 0..3
    BY ConnFacts
<1>2. IsFirst(conn[c], a + 1, n)
    BY <1>1, FirstIs
<1>3. n = 4 \/ (n \in conn[c] /\ n \in 0..3 /\ n >= a + 1)
    BY <1>2 DEF IsFirst, Servers
<1>4. s >= a + 1 => n # 4 /\ n <= s
    BY <1>2 DEF IsFirst
<1>5. QED
    BY <1>1, <1>3, <1>4

\* One message of LIST.
LEMMA ListReadLinks ==
    ASSUME TypeOK, NEW c \in Clients, ListRead(c), client[c].at \in conn[c],
           NEW s \in conn[c], NEW K, LinkOf(c, s, K),
           NEW L, LinkOf(c, client[c].at, L), s = client[c].at => K = L
    PROVE  /\ LinkOf(c, s, K)'
           /\ client'[c].pc \in {"list", "collect", "fetch", "reply"} => client'[c].at \in conn[c]
<1> DEFINE a == client[c].at
           b == Taken(s2c[c][a], MaxLine)
           n == FirstFrom(c, a + 1)
           x == client'[c]
<1>1. /\ s \in 0..3 /\ a \in 0..3 /\ a \in Servers /\ client[c] \in Client
      /\ client[c].pc = "list" /\ s2c[c][a] # <<>> /\ s \in Servers
    BY ConnFacts DEF ListRead
<1>2. /\ n # 4 => /\ n \in conn[c] /\ n \in 0..3 /\ a < n
                  /\ s # a => (s < a <=> s < n) /\ (s >= a <=> s >= n)
                  /\ s = a => s < n
      /\ n = 4 => s = a \/ s < a
    BY <1>1, NextServer
<1>3. /\ thread' = thread /\ c2s' = c2s
      /\ s = a => s2c'[c][s] = Left(s2c[c][a], MaxLine)
      /\ s # a => s2c'[c][s] = s2c[c][s]
    BY <1>1 DEF ListRead, TypeOK
<1>4. \/ ~Says(b, "DONE") /\ x.pc = "list" /\ x.at = a
      \/ ~Says(b, "DONE") /\ x.pc = "ub"
      \/ Says(b, "DONE") /\ n # 4 /\ x.pc = "list" /\ x.at = n
      \/ Says(b, "DONE") /\ n = 4 /\ x.pc = "menu"
    <2>1. client' = [client EXCEPT ![c] =
              IF ~Says(b, "DONE")
              THEN IF Len(client[c].entries) < ListCap
                   THEN [client[c] EXCEPT !.entries = Append(@, b[1])]
                   ELSE [client[c] EXCEPT !.pc = "ub"]
              ELSE IF n # 4
                   THEN [client[c] EXCEPT !.at = n]
                   ELSE [client[c] EXCEPT !.pc = "menu", !.shown = Summary(client[c].entries)]]
        BY DEF ListRead
    <2> HIDE DEF b, n
    <2>2. x = IF ~Says(b, "DONE")
              THEN IF Len(client[c].entries) < ListCap
                   THEN [client[c] EXCEPT !.entries = Append(@, b[1])]
                   ELSE [client[c] EXCEPT !.pc = "ub"]
              ELSE IF n # 4
                   THEN [client[c] EXCEPT !.at = n]
                   ELSE [client[c] EXCEPT !.pc = "menu", !.shown = Summary(client[c].entries)]
        BY <2>1 DEF TypeOK
    <2>3. QED
        BY <1>1, <2>2 DEF Client
<1>5. /\ thread[c][a].pc = "cmd" /\ c2s[c][a] = <<>>
      /\ s = a => K = {}
      /\ \E ls \in Seq(Keys) : s2c[c][a] = ListRest(ls)
    <2>1. Link(client[c], a, thread[c][a], c2s[c][a], s2c[c][a], L)
        BY DEF LinkOf
    <2>2. client[c].pc = "list" /\ a = client[c].at /\ s2c[c][a] # <<>> /\ client[c] \in Client
        BY <1>1
    <2> HIDE DEF a
    <2>3. Lists(thread[c][a], c2s[c][a], s2c[c][a], L)
        BY <2>1, <2>2, ListingAt, Zenon
    <2>4. QED
        BY <2>2, <2>3 DEF Lists
<1>6. \/ Says(b, "DONE") /\ Left(s2c[c][a], MaxLine) = <<>>
      \/ /\ ~Says(b, "DONE")
         /\ \E rest \in Seq(Keys) : Left(s2c[c][a], MaxLine) = ListRest(rest)
    BY <1>5, ListEntry
<1> HIDE DEF a, b, n, x
<1>7. x.pc \in {"list", "collect", "fetch", "reply"} => x.at \in conn[c]
    BY <1>2, <1>4 DEF a
<1>8. CASE s # a
    <2>1. Link(client[c], s, thread[c][s], c2s[c][s], s2c[c][s], K)
        BY DEF LinkOf
    <2>2. CASE x.pc = "list" \/ x.pc = "ub"
        <3>1. \/ x.pc = "ub"
              \/ x.pc = "list" /\ (s < a <=> s < x.at) /\ (s >= a <=> s >= x.at)
            BY <1>2, <1>4, <1>8, <2>2
        <3>2. Link(x, s, thread[c][s], c2s[c][s], s2c[c][s], K)
            BY <1>1, <2>1, <3>1, ListingOther DEF a
        <3>3. QED
            BY <1>3, <1>8, <1>7, <3>2 DEF LinkOf, x
    <2>3. CASE x.pc = "menu"
        <3>1. s < a
            BY <1>2, <1>4, <1>8, <2>3
        <3>2. thread[c][s].pc = "cmd" /\ c2s[c][s] = <<>> /\ s2c[c][s] = <<>> /\ K = {}
            BY <1>1, <2>1, <3>1, ListingOver DEF a
        <3>3. Busy(thread[c][s], <<>>, <<>>, {})
            BY <3>2, BusyDone
        <3>4. Link(x, s, thread[c][s], <<>>, <<>>, {})
            BY <2>3, <3>3, LinkIdle
        <3>5. QED
            BY <1>3, <1>8, <1>7, <3>2, <3>4 DEF LinkOf, x
    <2>4. QED
        BY <1>4, <2>2, <2>3
<1>9. CASE s = a
    <2>1. CASE ~Says(b, "DONE")
        <3>1. PICK rest \in Seq(Keys) : Left(s2c[c][a], MaxLine) = ListRest(rest)
            BY <1>6, <2>1
        <3>2. x.pc = "ub" \/ (x.pc = "list" /\ s >= x.at)
            BY <1>1, <1>4, <1>9, <2>1
        <3>3. InLast(x, s, thread[c][a], <<>>, ListRest(rest))
            BY <1>5, <3>2 DEF InLast
        <3>4. Link(x, s, thread[c][a], <<>>, ListRest(rest), K)
            BY <1>5, <1>9, <3>3 DEF Link
        <3>5. QED
            BY <1>3, <1>5, <1>9, <1>7, <3>1, <3>4 DEF LinkOf, x
    <2>2. CASE Says(b, "DONE") /\ n # 4
        <3>1. x.pc = "list" /\ x.at = n /\ s < n /\ n \in conn[c]
            BY <1>2, <1>4, <1>9, <2>2
        <3>2. InLast(x, s, thread[c][a], <<>>, <<>>)
            BY <1>5, <3>1 DEF InLast
        <3>3. Link(x, s, thread[c][a], <<>>, <<>>, K)
            BY <1>5, <1>9, <3>2 DEF Link
        <3>4. QED
            BY <1>3, <1>5, <1>6, <1>9, <1>7, <2>2, <3>3 DEF LinkOf, x
    <2>3. CASE Says(b, "DONE") /\ n = 4
        <3>1. x.pc = "menu"
            BY <1>4, <2>3
        <3>2. Busy(thread[c][a], <<>>, <<>>, {})
            BY <1>5, BusyDone
        <3>3. Link(x, s, thread[c][a], <<>>, <<>>, {})
            BY <3>1, <3>2, LinkIdle
        <3>4. QED
            BY <1>3, <1>5, <1>6, <1>9, <1>7, <2>3, <3>3 DEF LinkOf, x
    <2>4. QED
        BY <2>1, <2>2, <2>3
<1>10. QED
    BY <1>8, <1>9
-----------------------------------------------------------------------------
\* The writes that carry a piece, and then e.
LEMMA UploadThen ==
    ASSUME NEW f \in Names, NEW p \in Parts, NEW e \in Seq(Byte)
    PROVE  Upload(f, p) \o e = UploadText(f, p, e)
<1>1. PICK B \in Seq(Byte) : B = Block(Num(Size(f, p)))
    BY UploadFacts, BlockFacts
<1>2. PICK N \in Seq(Byte) : N = PartOf(Contents[f], p)
    BY SizeType
<1>3. PICK V \in Seq(Byte) : V = <<Num(p)>>
    BY UploadFacts
<1>4. Moved3(B, N, V, e)
    BY Shift3, Zenon
<1>5. ((B \o N) \o V) \o e = B \o (N \o (V \o e))
    BY <1>4 DEF Moved3
<1>6. Upload(f, p) = (B \o N) \o V
    BY <1>1, <1>2, <1>3 DEF Upload, Size
<1>7. UploadText(f, p, e) = B \o (N \o (V \o e))
    BY <1>1, <1>2, <1>3 DEF UploadText, DataText
<1>8. QED
    BY <1>5, <1>6, <1>7

\* What PUT writes to a server.
PutWritten(f, h, s, q, p1, p2) ==
    /\ p1 # p2
    /\ PutKeys(f, p1, p2) = {f} \X Holds(h, s)
    /\ q \o Block(Text("PUT")) \o Block(Name(f)) \o Uploaded(f, h, s) = q \o PutText(f, p1, p2)

LEMMA PutWrites ==
    ASSUME NEW f \in Names, NEW h \in 0..3, NEW s \in Servers, NEW q \in Seq(Byte)
    PROVE  \E p1 \in Parts, p2 \in Parts : PutWritten(f, h, s, q, p1, p2)
<1>1. PICK p1 \in Parts, p2 \in Parts :
        p1 = ((s - h) % 4) + 1 /\ p2 = ((s - h + 1) % 4) + 1 /\ p1 # p2
    <2>1. /\ ((s - h) % 4) + 1 \in 1..4 /\ ((s - h + 1) % 4) + 1 \in 1..4
          /\ ((s - h) % 4) + 1 # ((s - h + 1) % 4) + 1
        BY DEF Servers
    <2>2. QED
        BY <2>1 DEF Parts
<1>2. Uploads(h, s) = <<p1, p2>>
    BY <1>1, LayoutRing DEF RingUploads
<1>3. Holds(h, s) = {p1, p2}
    BY <1>1, HoldsRing
<1>4. PICK W \in Seq(Byte) : W = UploadText(f, p2, <<>>) /\ W = Upload(f, p2)
    <2>1. PICK o \in Seq(Byte) : o = <<>>
        BY EmptySeq
    <2>2. UploadText(f, p2, o) \in Seq(Byte) /\ Upload(f, p2) \o o = UploadText(f, p2, o)
        BY UploadFacts, UploadThen
    <2>3. PICK U \in Seq(Byte) : U = Upload(f, p2)
        BY UploadType
    <2>4. U \o o = U
        BY <2>1, ConcatEmptySeq
    <2>5. QED
        BY <2>1, <2>2, <2>3, <2>4
<1>5. Upload(f, p1) \o W = UploadText(f, p1, W) /\ UploadText(f, p1, W) \in Seq(Byte)
    BY UploadThen, UploadFacts
<1>6. PICK U \in Seq(Byte) : U = Named(f, p1, p2) /\ Uploaded(f, h, s) = U
    <2>1. Uploaded(f, h, s) = Upload(f, p1) \o Upload(f, p2)
        BY <1>2 DEF Uploaded
    <2>2. QED
        BY <1>4, <1>5, <2>1 DEF Named
<1>7. PICK B \in Seq(Byte), N \in Seq(Byte) : B = Block(Text("PUT")) /\ N = Block(Name(f))
    BY WordFacts, BlockFacts DEF Words
<1>8. ((q \o B) \o N) \o U = q \o (B \o (N \o U))
    <2>1. Moved3(q, B, N, U)
        BY Shift3, Zenon
    <2>2. QED
        BY <2>1 DEF Moved3
<1>9. PutKeys(f, p1, p2) = {f} \X Holds(h, s)
    BY <1>3 DEF PutKeys
<1>10. QED
    BY <1>1, <1>6, <1>7, <1>8, <1>9 DEF PutWritten, PutText

\* PUT.
LEMMA PutLinks ==
    ASSUME TypeOK, NEW c \in Clients, NEW f \in Names, NEW h \in Hashes, Put(c, f, h),
           Hashes \subseteq 0..3, Local[c] = Names,
           NEW s \in conn[c], NEW K \in SUBSET Keys, LinkOf(c, s, K),
           NEW L, L = K \cup ({f} \X Holds(h, s)),
           AllLocalOnce => K \cap ({f} \X Holds(h, s)) = {}
    PROVE  LinkOf(c, s, L)'
<1>1. s \in Servers /\ client[c].pc = "menu" /\ c2s[c][s] \in Seq(Byte) /\ f \in Local[c]
    BY ConnFacts DEF Put
<1>2. PICK p1 \in Parts, p2 \in Parts : PutWritten(f, h, s, c2s[c][s], p1, p2)
    BY <1>1, PutWrites
<1>3. c2s'[c][s] = c2s[c][s] \o PutText(f, p1, p2)
    <2>1. c2s'[c][s] = c2s[c][s] \o Block(Text("PUT")) \o Block(Name(f)) \o Uploaded(f, h, s)
        BY <1>1 DEF Put, TypeOK
    <2>2. QED
        BY <1>2, <2>1 DEF PutWritten
<1>4. s2c[c][s] = <<>> /\ Busy(thread[c][s], c2s[c][s], <<>>, K)
    BY <1>1, LinkMenu DEF LinkOf
<1>5. p1 # p2 /\ (AllLocalOnce => K \cap PutKeys(f, p1, p2) = {})
    BY <1>2 DEF PutWritten
<1>6. Busy(thread[c][s], c2s[c][s] \o PutText(f, p1, p2), <<>>, K \cup PutKeys(f, p1, p2))
    BY <1>4, <1>5, BusyMore, Zenon
<1>7. K \cup PutKeys(f, p1, p2) = L
    BY <1>2 DEF PutWritten
<1>8. Link(client[c], s, thread[c][s], c2s[c][s] \o PutText(f, p1, p2), <<>>, L)
    BY <1>1, <1>6, <1>7, LinkIdle
<1>9. client' = client /\ thread' = thread /\ s2c' = s2c
    BY DEF Put
<1>10. QED
    BY <1>3, <1>4, <1>8, <1>9 DEF LinkOf

\* A message of the piece numbers is a number, or the last one DONE.
NumberMessage(r) ==
    \/ Message(r) = <<Text("DONE")>> /\ AfterMessage(r) = <<>>
    \/ /\ Message(r) # <<Text("DONE")>>
       /\ \E rest \in Seq(Keys) : AfterMessage(r) = NumberRest(rest)

LEMMA NumberEntry ==
    ASSUME NEW ls \in Seq(Keys), NEW r, r = NumberRest(ls)
    PROVE  NumberMessage(r)
<1>1. PICK z \in Seq(Byte) : z = <<Text("DONE")>>
    BY WordFacts DEF Words
<1>2. CASE ls = <<>>
    <2>1. r = Prefixed(z)
        BY <1>1, <1>2, NumberRestFirst DEF Word
    <2>2. LeadsOff(z, <<>>, r)
        BY <2>1, FrontAlone
    <2>3. QED
        BY <1>1, <2>2 DEF LeadsOff, NumberMessage
<1>3. CASE ls # <<>>
    <2>1. PICK k \in Keys, rest \in Seq(Keys) :
            r = Prefixed(<<Num(k[2])>>) \o NumberRest(rest)
        BY <1>3, NumberRestFirst
    <2>2. PICK R \in Seq(Byte) : R = NumberRest(rest)
        BY NumberRestFirst
    <2>3. k[2] \in 0..9
        BY DEF Keys
    <2>4. PICK y \in Seq(Byte) : y = <<Num(k[2])>> /\ y # <<Text("DONE")>>
        <3>1. <<Num(k[2])>> \in Seq(Byte)
            BY <2>3, WordFacts
        <3>2. <<Num(k[2])>> # <<Text("DONE")>>
            BY DEF Num, Text
        <3>3. QED
            BY <3>1, <3>2
    <2>5. r = Prefixed(y) \o R
        BY <2>1, <2>2, <2>4
    <2>6. LeadsOff(y, R, r)
        BY <2>5, FrontOf
    <2>7. QED
        BY <2>2, <2>4, <2>6 DEF LeadsOff, NumberMessage
<1>4. QED
    BY <1>2, <1>3

\* The server whose piece numbers are read.
Counts(th, q, r, K) ==
    /\ th.pc = "answer" /\ q = <<>> /\ K = {}
    /\ NumberMessage(r)

LEMMA CollectAt ==
    ASSUME NEW me \in Client, NEW s, NEW th, NEW q, NEW r, NEW K, Link(me, s, th, q, r, K),
           me.pc = "collect", s = me.at, r # <<>>
    PROVE  Counts(th, q, r, K)
<1>1. me.at \in Int
    BY DEF Client, Servers
<1>2. ~(s < me.at)
    BY <1>1
<1>3. th.pc = "answer" /\ q = <<>> /\ K = {} /\ \E ls \in Seq(Keys) : r = NumberRest(ls)
    BY <1>2 DEF Link, Waits, InLast, InFetch
<1>4. QED
    BY <1>3, NumberEntry DEF Counts

\* The servers whose piece numbers are not read.
LEMMA CollectOther ==
    ASSUME NEW me, NEW s, NEW th, NEW q, NEW r, NEW K, Link(me, s, th, q, r, K),
           me.pc = "collect", NEW x,
           \/ x.pc = "ub"
           \/ /\ x.pc = "collect" /\ x.file = me.file
              /\ (s < me.at <=> s < x.at) /\ (s >= me.at <=> s >= x.at)
    PROVE  Link(x, s, th, q, r, K)
<1>1. ASSUME NEW E, Waits(me, s, E, r)
      PROVE  Waits(x, s, E, r)
    BY <1>1 DEF Waits
<1>2. ASSUME InLast(me, s, th, q, r)
      PROVE  InLast(x, s, th, q, r)
    BY <1>2 DEF InLast
<1>3. ~InFetch(me, s, th, q, r)
    BY DEF InFetch
<1>4. QED
    BY <1>1, <1>2, <1>3 DEF Link

\* The servers that were read.
LEMMA CollectOver ==
    ASSUME NEW me \in Client, NEW s \in Servers, NEW th, NEW q, NEW r, NEW K,
           Link(me, s, th, q, r, K), me.pc = "collect", s < me.at
    PROVE  th.pc = "answer" /\ q = <<>> /\ r = <<>> /\ K = {}
<1>1. ~(s >= me.at)
    BY DEF Client, Servers
<1>2. QED
    BY <1>1 DEF Link, Waits, InLast, InFetch

\* The client ends GET, or starts to fetch.
LEMMA AnswersNo ==
    ASSUME NEW x, NEW s, NEW th, th.pc = "answer", x.pc = "menu", NEW q, q = <<>> \o Word("NO")
    PROVE  Link(x, s, th, q, <<>>, {})
<1>1. PICK H \in Seq(Byte) : H = Word("NO")
    BY WordFacts DEF Words
<1>2. q = H
    BY <1>1, ConcatEmptySeq
<1>3. Rest(th, H, {})
    BY <1>1 DEF Rest
<1>4. Busy(th, H, <<>>, {})
    BY <1>3, BusyRest, Zenon
<1>5. QED
    BY <1>2, <1>4, LinkIdle

LEMMA AnswersYes ==
    ASSUME NEW x, NEW s \in 0..3, NEW th, th.pc = "answer", x.pc = "fetch", x.part = 1,
           x.at \in 0..3, x.at <= s, NEW q, q = <<>> \o Word("YES")
    PROVE  Link(x, s, th, q, <<>>, {})
<1>1. PICK H \in Seq(Byte) : H = Word("YES")
    BY WordFacts DEF Words
<1>2. <<>> \o H = H /\ H \o <<>> = H
    BY ConcatEmptySeq
<1>3. Fetches(th, 0, q)
    BY <1>1, <1>2, DeclinesFacts DEF Fetches
<1>4. Asked(x, s) = 0
    BY DEF Asked
<1>5. QED
    BY <1>3, <1>4 DEF Link, InFetch

\* What Collect does to the client.
Collected(c, done, n, x) ==
    \/ ~done /\ x.pc = "collect" /\ x.at = client[c].at /\ x.file = client[c].file /\ c2s' = c2s
    \/ ~done /\ x.pc = "ub" /\ c2s' = c2s
    \/ done /\ n # 4 /\ x.pc = "collect" /\ x.at = n /\ x.file = client[c].file /\ c2s' = c2s
    \/ /\ done /\ n = 4 /\ x.pc = "fetch" /\ x.at = FirstFrom(c, 0) /\ x.part = 1
       /\ WriteAll(c, Word("YES"))
    \/ done /\ n = 4 /\ x.pc = "menu" /\ WriteAll(c, Word("NO"))

LEMMA CollectEffect ==
    ASSUME TypeOK, NEW c \in Clients, Collect(c),
           NEW done, done <=> Message(s2c[c][client[c].at]) = <<Text("DONE")>>,
           NEW n, n = FirstFrom(c, client[c].at + 1)
    PROVE  Collected(c, done, n, client'[c])
<1> DEFINE q == Message(s2c[c][client[c].at])
<1>1. client[c] \in Client /\ c \in DOMAIN client
    BY DEF TypeOK
<1>2. \/ /\ ~done /\ client' = [client EXCEPT ![c].marks = @ \cup {Number(q)}] /\ c2s' = c2s
      \/ /\ ~done /\ client' = [client EXCEPT ![c].pc = "ub"] /\ c2s' = c2s
      \/ /\ done /\ n # 4 /\ client' = [client EXCEPT ![c].at = n] /\ c2s' = c2s
      \/ /\ done /\ n = 4 /\ WriteAll(c, Word("YES"))
         /\ client' = [client EXCEPT ![c] =
                         [@ EXCEPT !.pc = "fetch", !.at = FirstFrom(c, 0),
                                   !.part = 1, !.marks = {}]]
      \/ /\ done /\ n = 4 /\ WriteAll(c, Word("NO"))
         /\ client' = [client EXCEPT ![c].pc = "menu"]
    BY DEF Collect, Word
<1>3. client[c].pc = "collect"
    BY DEF Collect
<1> HIDE DEF q
<1>4. CASE ~done /\ client' = [client EXCEPT ![c].marks = @ \cup {Number(q)}] /\ c2s' = c2s
    <2>1. client'[c] = [client[c] EXCEPT !.marks = @ \cup {Number(q)}]
        BY <1>1, <1>4
    <2>2. QED
        BY <1>1, <1>3, <1>4, <2>1 DEF Collected, Client
<1>5. CASE ~done /\ client' = [client EXCEPT ![c].pc = "ub"] /\ c2s' = c2s
    BY <1>1, <1>5 DEF Collected, Client
<1>6. CASE done /\ n # 4 /\ client' = [client EXCEPT ![c].at = n] /\ c2s' = c2s
    BY <1>1, <1>3, <1>6 DEF Collected, Client
<1>7. CASE /\ done /\ n = 4 /\ WriteAll(c, Word("YES"))
           /\ client' = [client EXCEPT ![c] =
                           [@ EXCEPT !.pc = "fetch", !.at = FirstFrom(c, 0),
                                     !.part = 1, !.marks = {}]]
    <2>1. client'[c] = [client[c] EXCEPT !.pc = "fetch", !.at = FirstFrom(c, 0),
                                         !.part = 1, !.marks = {}]
        BY <1>1, <1>7
    <2>2. client'[c].pc = "fetch" /\ client'[c].at = FirstFrom(c, 0) /\ client'[c].part = 1
        BY <1>1, <2>1 DEF Client
    <2>3. QED
        BY <1>7, <2>2 DEF Collected
<1>8. CASE /\ done /\ n = 4 /\ WriteAll(c, Word("NO"))
           /\ client' = [client EXCEPT ![c].pc = "menu"]
    <2>1. client'[c].pc = "menu"
        BY <1>1, <1>8 DEF Client
    <2>2. QED
        BY <1>8, <2>1 DEF Collected
<1>9. QED
    BY <1>2, <1>4, <1>5, <1>6, <1>7, <1>8

\* One message of the piece numbers.
LEMMA CollectLinks ==
    ASSUME TypeOK, NEW c \in Clients, Collect(c), client[c].at \in conn[c],
           NEW s \in conn[c], NEW K, LinkOf(c, s, K),
           NEW L, LinkOf(c, client[c].at, L), s = client[c].at => K = L
    PROVE  /\ LinkOf(c, s, K)'
           /\ client'[c].pc \in {"list", "collect", "fetch", "reply"} => client'[c].at \in conn[c]
<1>1. PICK a \in 0..3 : a = client[c].at
    BY ConnFacts
<1>2. PICK n : n = FirstFrom(c, a + 1)
    OBVIOUS
<1>3. PICK n0 \in 0..3 : n0 = FirstFrom(c, 0) /\ n0 \in conn[c] /\ n0 <= s
    <2>1. IsFirst(conn[c], 0, FirstFrom(c, 0)) /\ FirstFrom(c, 0) # 4
        BY FirstIs
    <2>2. s \in 0..3
        BY ConnFacts
    <2>3. QED
        BY <2>1, <2>2 DEF IsFirst, Servers
<1>4. PICK x : x = client'[c]
    OBVIOUS
<1>5. PICK done \in BOOLEAN : done <=> Message(s2c[c][a]) = <<Text("DONE")>>
    OBVIOUS
<1>6. \/ ~done /\ x.pc = "collect" /\ x.at = a /\ x.file = client[c].file /\ c2s' = c2s
      \/ ~done /\ x.pc = "ub" /\ c2s' = c2s
      \/ done /\ n # 4 /\ x.pc = "collect" /\ x.at = n /\ x.file = client[c].file /\ c2s' = c2s
      \/ done /\ n = 4 /\ x.pc = "fetch" /\ x.at = n0 /\ x.part = 1 /\ WriteAll(c, Word("YES"))
      \/ done /\ n = 4 /\ x.pc = "menu" /\ WriteAll(c, Word("NO"))
    <2>1. Collected(c, done, n, client'[c])
        BY <1>1, <1>2, <1>5, CollectEffect
    <2>2. QED
        BY <1>1, <1>3, <1>4, <2>1 DEF Collected
<1>7. /\ s \in 0..3 /\ s \in Servers /\ client[c] \in Client
      /\ client[c].pc = "collect" /\ s2c[c][a] # <<>>
      /\ thread' = thread
      /\ s = a => s2c'[c][s] = AfterMessage(s2c[c][a])
      /\ s # a => s2c'[c][s] = s2c[c][s]
    BY <1>1, ConnFacts DEF Collect, HasMessage, TypeOK
<1>8. /\ n # 4 => /\ n \in conn[c] /\ n \in 0..3 /\ a < n
                  /\ s # a => (s < a <=> s < n) /\ (s >= a <=> s >= n)
                  /\ s = a => s < n
      /\ n = 4 => s = a \/ s < a
    BY <1>1, <1>2, NextServer
<1>9. /\ s = a => K = {} /\ thread[c][s].pc = "answer" /\ c2s[c][s] = <<>>
      /\ NumberMessage(s2c[c][a])
    <2>1. Link(client[c], a, thread[c][a], c2s[c][a], s2c[c][a], L)
        BY <1>1 DEF LinkOf
    <2>2. Counts(thread[c][a], c2s[c][a], s2c[c][a], L)
        BY <1>1, <1>7, <2>1, CollectAt, Zenon
    <2>3. QED
        BY <1>1, <2>2 DEF Counts
<1>10. Link(client[c], s, thread[c][s], c2s[c][s], s2c[c][s], K)
    BY DEF LinkOf
<1>11. x.pc \in {"list", "collect", "fetch", "reply"} => x.at \in conn[c]
    BY <1>1, <1>3, <1>6, <1>8
<1>12. ASSUME done, n = 4
       PROVE  thread[c][s].pc = "answer" /\ c2s[c][s] = <<>> /\ s2c'[c][s] = <<>> /\ K = {}
    <2>1. CASE s = a
        BY <1>5, <1>7, <1>9, <1>12, <2>1 DEF NumberMessage
    <2>2. CASE s # a
        <3>1. s < a
            BY <1>8, <1>12, <2>2
        <3>2. QED
            BY <1>1, <1>7, <1>10, <2>2, <3>1, CollectOver
    <2>3. QED
        BY <2>1, <2>2
<1>13. ASSUME NEW y, WriteAll(c, y)
       PROVE  c2s'[c][s] = c2s[c][s] \o y
    BY <1>7, <1>13 DEF WriteAll, TypeOK
<1>14. CASE x.pc \in {"collect", "ub"}
    <2>1. CASE s # a
        <3>1. \/ x.pc = "ub"
              \/ /\ x.pc = "collect" /\ x.file = client[c].file
                 /\ (s < a <=> s < x.at) /\ (s >= a <=> s >= x.at)
            BY <1>6, <1>8, <1>14, <2>1
        <3>2. Link(x, s, thread[c][s], c2s[c][s], s2c[c][s], K)
            BY <1>1, <1>7, <1>10, <3>1, CollectOther
        <3>3. QED
            BY <1>4, <1>6, <1>7, <1>11, <1>14, <2>1, <3>2 DEF LinkOf
    <2>2. CASE s = a
        <3>1. InLast(x, s, thread[c][s], <<>>, s2c'[c][s])
            <4>1. CASE ~done
                <5>1. PICK rest \in Seq(Keys) : s2c'[c][s] = NumberRest(rest)
                    BY <1>5, <1>7, <1>9, <2>2, <4>1 DEF NumberMessage
                <5>2. x.pc = "ub" \/ (x.pc = "collect" /\ s >= x.at)
                    BY <1>6, <2>2, <4>1
                <5>3. QED
                    BY <1>9, <2>2, <5>1, <5>2 DEF InLast
            <4>2. CASE done
                <5>1. s2c'[c][s] = <<>> /\ x.pc = "collect" /\ s < x.at
                    BY <1>5, <1>6, <1>7, <1>8, <1>9, <1>14, <2>2, <4>2 DEF NumberMessage
                <5>2. QED
                    BY <1>9, <2>2, <5>1 DEF InLast
            <4>3. QED
                BY <4>1, <4>2
        <3>2. Link(x, s, thread[c][s], <<>>, s2c'[c][s], K)
            BY <1>9, <2>2, <3>1 DEF Link
        <3>3. c2s'[c][s] = <<>>
            BY <1>6, <1>9, <1>14, <2>2
        <3>4. QED
            BY <1>4, <1>7, <1>11, <3>2, <3>3 DEF LinkOf
    <2>3. QED
        BY <2>1, <2>2
<1>15. CASE x.pc = "fetch"
    <2>1. x.at = n0 /\ x.part = 1 /\ done /\ n = 4 /\ WriteAll(c, Word("YES"))
        BY <1>6, <1>15
    <2>2. c2s'[c][s] = <<>> \o Word("YES")
        BY <1>12, <1>13, <2>1
    <2>3. Link(x, s, thread[c][s], c2s'[c][s], <<>>, {})
        BY <1>3, <1>7, <1>12, <1>15, <2>1, <2>2, AnswersYes
    <2>4. QED
        BY <1>4, <1>7, <1>11, <1>12, <2>1, <2>3 DEF LinkOf
<1>16. CASE x.pc = "menu"
    <2>1. done /\ n = 4 /\ WriteAll(c, Word("NO"))
        BY <1>6, <1>16
    <2>2. c2s'[c][s] = <<>> \o Word("NO")
        BY <1>12, <1>13, <2>1
    <2>3. Link(x, s, thread[c][s], c2s'[c][s], <<>>, {})
        BY <1>12, <1>16, <2>1, <2>2, AnswersNo
    <2>4. QED
        BY <1>4, <1>7, <1>11, <1>12, <2>1, <2>3 DEF LinkOf
<1>17. QED
    BY <1>6, <1>14, <1>15, <1>16

\* A connection in the retrieval loop that is not waiting for an answer.
LEMMA Fetching ==
    ASSUME NEW me, NEW s, NEW th, NEW q, NEW r, NEW K, Link(me, s, th, q, r, K),
           me.pc = "fetch" \/ (me.pc = "reply" /\ s # me.at)
    PROVE  K = {} /\ r = <<>> /\ Fetches(th, Asked(me, s), q)
    BY DEF Link, Waits, InLast, InFetch

\* The connection on which the client reads the answer.
LEMMA Replied ==
    ASSUME NEW me, NEW s, NEW th, NEW q, NEW r, NEW K, Link(me, s, th, q, r, K),
           me.pc = "reply", s = me.at, r # <<>>
    PROVE  K = {} /\ q = <<>> /\ Fetches(th, me.part, <<>>) /\ AfterMessage(r) = <<>>
<1>1. K = {} /\ q = <<>> /\ Fetches(th, me.part, <<>>) /\ \E d \in Seq(Byte) : r = Prefixed(d)
    BY DEF Link, Waits, InLast, InFetch
<1>2. PICK d \in Seq(Byte) : r = Prefixed(d)
    BY <1>1
<1>3. LeadsOff(d, <<>>, r)
    BY <1>2, FrontAlone
<1>4. QED
    BY <1>1, <1>3 DEF LeadsOff

\* The client goes on to the next server, the next piece or its prompt.
GoesOn(c, s, x, th, q) ==
    /\ Link(x, s, th, q, <<>>, {})
    /\ x.pc = "fetch" => x.at \in conn[c]
    /\ x.pc \in {"fetch", "menu"}

LEMMA AfterAskLinks ==
    ASSUME TypeOK, NEW c \in Clients, NEW a \in 0..3, a = client[c].at, a \in conn[c],
           NEW s \in conn[c], NEW p \in 1..4, NEW me \in Client, me.at = a, me.part = p,
           NEW x, x = AfterAsk(c, me), NEW th, NEW q \in Seq(Byte),
           NEW m, m = p - 1 + (IF s <= a THEN 1 ELSE 0), Fetches(th, m, q)
    PROVE  GoesOn(c, s, x, th, q)
<1>1. PICK n : n = FirstFrom(c, a + 1)
    OBVIOUS
<1>2. PICK n0 \in 0..3 : n0 = FirstFrom(c, 0) /\ n0 \in conn[c] /\ n0 <= s
    <2>1. IsFirst(conn[c], 0, FirstFrom(c, 0)) /\ FirstFrom(c, 0) # 4
        BY FirstIs
    <2>2. s \in 0..3
        BY ConnFacts
    <2>3. QED
        BY <2>1, <2>2 DEF IsFirst, Servers
<1>3. /\ n # 4 => /\ n \in conn[c] /\ n \in 0..3 /\ a < n
                  /\ s # a => (s < a <=> s < n) /\ (s >= a <=> s >= n)
                  /\ s = a => s < n
      /\ n = 4 => s = a \/ s < a
    BY <1>1, NextServer, SMTT(30)
<1>4. s \in 0..3
    BY ConnFacts
<1>5. x = IF n # 4 THEN [me EXCEPT !.pc = "fetch", !.at = n]
          ELSE IF p < 4 THEN [me EXCEPT !.pc = "fetch", !.at = n0, !.part = p + 1]
          ELSE [me EXCEPT !.pc = "menu"]
    BY <1>1, <1>2 DEF AfterAsk
<1>6. CASE n # 4
    <2>1. x.pc = "fetch" /\ x.at = n /\ x.part = p
        BY <1>5, <1>6 DEF Client
    <2>2. Asked(x, s) = m
        BY <1>3, <1>4, <1>6, <2>1 DEF Asked
    <2>3. InFetch(x, s, th, q, <<>>)
        BY <2>1, <2>2 DEF InFetch
    <2>4. QED
        BY <1>3, <1>6, <2>1, <2>3 DEF Link, GoesOn
<1>7. CASE n = 4 /\ p < 4
    <2>1. x.pc = "fetch" /\ x.at = n0 /\ x.part = p + 1
        BY <1>5, <1>7 DEF Client
    <2>2. Asked(x, s) = m
        BY <1>2, <1>3, <1>4, <1>7, <2>1 DEF Asked
    <2>3. InFetch(x, s, th, q, <<>>)
        BY <2>1, <2>2 DEF InFetch
    <2>4. QED
        BY <1>2, <2>1, <2>3 DEF Link, GoesOn
<1>8. CASE n = 4 /\ ~(p < 4)
    <2>1. x.pc = "menu"
        BY <1>5, <1>8 DEF Client
    <2>2. m = 4
        BY <1>3, <1>4, <1>8
    <2>3. Rest(th, q, {})
        BY <2>2 DEF Rest
    <2>4. Busy(th, q, <<>>, {})
        BY <2>3, BusyRest, Zenon
    <2>5. QED
        BY <2>1, <2>4, LinkIdle DEF GoesOn
<1>9. QED
    BY <1>6, <1>7, <1>8

\* A refusal.
LEMMA DeclineLinks ==
    ASSUME TypeOK, NEW c \in Clients, Decline(c), client[c].at \in conn[c],
           NEW s \in conn[c], NEW K, LinkOf(c, s, K)
    PROVE  /\ LinkOf(c, s, K)'
           /\ client'[c].pc = "fetch" => client'[c].at \in conn[c]
           /\ client'[c].pc \in {"fetch", "menu"}
<1>1. PICK a \in 0..3, p \in 1..4 : a = client[c].at /\ p = client[c].part
    BY ConnFacts DEF Client, Parts
<1>2. PICK x : x = AfterAsk(c, client[c])
    OBVIOUS
<1>3. /\ s \in 0..3 /\ s \in Servers /\ client[c] \in Client /\ thread[c][s] \in Thread
      /\ c2s[c][s] \in Seq(Byte)
    BY ConnFacts
<1>4. /\ client[c].pc = "fetch" /\ client'[c] = x /\ thread' = thread /\ s2c' = s2c
      /\ s = a => c2s'[c][s] = c2s[c][s] \o Word("DN")
      /\ s # a => c2s'[c][s] = c2s[c][s]
    BY <1>1, <1>2, <1>3 DEF Decline, TypeOK, Word
<1>5. K = {} /\ s2c[c][s] = <<>> /\ Fetches(thread[c][s], Asked(client[c], s), c2s[c][s])
    BY <1>4, Fetching DEF LinkOf
<1>6. PICK m : m = p - 1 + (IF s <= a THEN 1 ELSE 0)
    OBVIOUS
<1>7. Fetches(thread[c][s], m, c2s'[c][s]) /\ c2s'[c][s] \in Seq(Byte)
    <2>1. CASE s = a
        <3>1. PICK l \in 0..3 : l = p - 1 /\ m = l + 1 /\ Asked(client[c], s) = l
            BY <1>1, <1>3, <1>6, <2>1 DEF Asked
        <3>2. Fetches(thread[c][s], l + 1, c2s[c][s] \o Word("DN"))
            BY <1>3, <1>5, <3>1, FetchMore
        <3>3. Word("DN") \in Seq(Byte)
            BY WordFacts DEF Words
        <3>4. PICK y \in Seq(Byte), z \in Seq(Byte) : y = c2s[c][s] /\ z = Word("DN")
            BY <1>3, <3>3
        <3>5. y \o z \in Seq(Byte)
            BY ConcatProperties
        <3>6. QED
            BY <1>4, <2>1, <3>1, <3>2, <3>4, <3>5
    <2>2. CASE s # a
        <3>1. Asked(client[c], s) = m
            BY <1>1, <1>3, <1>6, <2>2 DEF Asked
        <3>2. QED
            BY <1>3, <1>4, <1>5, <2>2, <3>1
    <2>3. QED
        BY <2>1, <2>2
<1>8. /\ Link(x, s, thread[c][s], c2s'[c][s], <<>>, {})
      /\ x.pc = "fetch" => x.at \in conn[c]
      /\ x.pc \in {"fetch", "menu"}
    <2>1. PICK th, q : th = thread[c][s] /\ q = c2s'[c][s]
        OBVIOUS
    <2>2. q \in Seq(Byte) /\ Fetches(th, m, q) /\ a \in conn[c] /\ client[c] \in Client
        BY <1>1, <1>3, <1>7, <2>1
    <2>3. GoesOn(c, s, x, th, q)
        BY <1>1, <1>2, <1>6, <2>2, AfterAskLinks, Zenon
    <2>4. QED
        BY <2>1, <2>3 DEF GoesOn
<1>9. QED
    BY <1>4, <1>5, <1>8 DEF LinkOf

\* The answer to a request.
LEMMA ReplyLinks ==
    ASSUME TypeOK, NEW c \in Clients, Reply(c), client[c].at \in conn[c],
           NEW s \in conn[c], NEW K, LinkOf(c, s, K)
    PROVE  /\ LinkOf(c, s, K)'
           /\ client'[c].pc = "fetch" => client'[c].at \in conn[c]
           /\ client'[c].pc \in {"fetch", "menu"}
<1>1. PICK a \in 0..3, p \in 1..4 : a = client[c].at /\ p = client[c].part
    BY ConnFacts DEF Client, Parts
<1>2. /\ s \in 0..3 /\ s \in Servers /\ client[c] \in Client /\ thread[c][s] \in Thread
      /\ c2s[c][s] \in Seq(Byte) /\ s2c[c][a] \in Seq(Byte) /\ HasMessage(s2c[c][a])
      /\ s2c[c][a] # <<>>
    <2>1. HasMessage(s2c[c][a])
        BY <1>1 DEF Reply
    <2>2. a \in Servers
        BY <1>1, ConnFacts
    <2>3. QED
        BY <2>1, <2>2, ConnFacts, ZenonT(60) DEF HasMessage, TypeOK
<1>3. PICK me \in Client : /\ me = Received(client[c], Message(s2c[c][a]))
                           /\ me.at = a /\ me.part = p
    <2>1. Message(s2c[c][a]) \in Seq(Byte)
        BY <1>2, MessageTypes
    <2>2. Received(client[c], Message(s2c[c][a])) \in Client
        BY <1>2, <2>1, ReceivedType
    <2>3. Received(client[c], Message(s2c[c][a])).at = a
        BY <1>1, <1>2, <2>1, ReceivedType
    <2>4. Received(client[c], Message(s2c[c][a])).part = p
        BY <1>1, <1>2 DEF Received, Client
    <2>5. QED
        BY <2>2, <2>3, <2>4
<1>4. PICK x : x = AfterAsk(c, me)
    OBVIOUS
<1>5. /\ client[c].pc = "reply" /\ client'[c] = x /\ thread' = thread /\ c2s' = c2s
      /\ s = a => s2c'[c][s] = AfterMessage(s2c[c][a])
      /\ s # a => s2c'[c][s] = s2c[c][s]
    BY <1>1, <1>2, <1>3, <1>4 DEF Reply, TypeOK
<1>6. PICK m : m = p - 1 + (IF s <= a THEN 1 ELSE 0)
    OBVIOUS
<1>7. Fetches(thread[c][s], m, c2s[c][s]) /\ s2c'[c][s] = <<>> /\ K = {}
    <2>1. CASE s = a
        <3>1. K = {} /\ c2s[c][s] = <<>> /\ Fetches(thread[c][s], p, <<>>)
              /\ AfterMessage(s2c[c][s]) = <<>>
            BY <1>1, <1>2, <1>5, <2>1, Replied, ZenonT(60) DEF LinkOf
        <3>2. m = p
            BY <1>2, <1>6, <2>1
        <3>3. QED
            BY <1>5, <2>1, <3>1, <3>2
    <2>2. CASE s # a
        <3>1. K = {} /\ s2c[c][s] = <<>> /\ Fetches(thread[c][s], Asked(client[c], s), c2s[c][s])
            BY <1>1, <1>5, <2>2, Fetching DEF LinkOf
        <3>2. Asked(client[c], s) = m
            BY <1>1, <1>2, <1>6, <2>2 DEF Asked
        <3>3. QED
            BY <1>5, <2>2, <3>1, <3>2
    <2>3. QED
        BY <2>1, <2>2
<1>8. /\ Link(x, s, thread[c][s], c2s[c][s], <<>>, {})
      /\ x.pc = "fetch" => x.at \in conn[c]
      /\ x.pc \in {"fetch", "menu"}
    <2>1. PICK th : th = thread[c][s]
        OBVIOUS
    <2>2. PICK q \in Seq(Byte) : q = c2s[c][s]
        BY <1>2
    <2>3. Fetches(th, m, q) /\ a \in conn[c]
        BY <1>1, <1>7, <2>1, <2>2
    <2>4. GoesOn(c, s, x, th, q)
        BY <1>1, <1>3, <1>4, <1>6, <2>3, AfterAskLinks, Zenon
    <2>5. QED
        BY <2>1, <2>2, <2>4 DEF GoesOn
<1>9. QED
    BY <1>5, <1>7, <1>8 DEF LinkOf

\* A request.
LEMMA AskLinks ==
    ASSUME TypeOK, NEW c \in Clients, Ask(c), client[c].at \in conn[c],
           NEW s \in conn[c], NEW K, LinkOf(c, s, K)
    PROVE  /\ LinkOf(c, s, K)'
           /\ client'[c].at \in conn[c]
<1>1. PICK a \in 0..3, p \in 1..4 : a = client[c].at /\ p = client[c].part
    BY ConnFacts DEF Client, Parts
<1>2. /\ s \in 0..3 /\ s \in Servers /\ client[c] \in Client /\ thread[c][s] \in Thread
      /\ c2s[c][s] \in Seq(Byte)
    BY ConnFacts
<1>3. PICK x : x = [client[c] EXCEPT !.pc = "reply"]
    OBVIOUS
<1>4. x.pc = "reply" /\ x.at = a /\ x.part = p /\ x.file = client[c].file
    BY <1>1, <1>2, <1>3 DEF Client
<1>5. PICK k \in Keys : k = <<client[c].file, client[c].part>>
    <2>1. PICK f \in Names : f = client[c].file
        BY <1>2 DEF Client
    <2>2. <<f, p>> \in Keys
        BY DEF Keys
    <2>3. QED
        BY <1>1, <2>1, <2>2
<1>6. /\ client[c].pc = "fetch" /\ client'[c] = x /\ thread' = thread /\ s2c' = s2c
      /\ s = a => c2s'[c][s] = c2s[c][s] \o Word("NEED") \o Prefixed(<<Piece(k)>>)
      /\ s # a => c2s'[c][s] = c2s[c][s]
    BY <1>1, <1>2, <1>3, <1>5 DEF Ask, TypeOK, Word
<1>7. K = {} /\ s2c[c][s] = <<>> /\ Fetches(thread[c][s], Asked(client[c], s), c2s[c][s])
    BY <1>6, Fetching DEF LinkOf
<1>8. CASE s = a
    <2>1. Asked(client[c], s) = p - 1
        BY <1>1, <1>2, <1>8 DEF Asked
    <2>2. PICK H \in Seq(Byte), N \in Seq(Byte), X \in Seq(Byte) :
            H = c2s[c][s] /\ N = Word("NEED") /\ X = Prefixed(<<Piece(k)>>)
        BY <1>2, WordFacts DEF Words
    <2>3. (H \o N) \o X = H \o (N \o X)
        BY Shift2 DEF Moved2
    <2>4. Fetches(thread[c][s], p - 1, H)
        BY <1>7, <2>1, <2>2
    <2>5. InFetch(x, s, thread[c][s], c2s'[c][s], <<>>)
        BY <1>1, <1>4, <1>5, <1>6, <1>8, <2>2, <2>3, <2>4 DEF InFetch
    <2>6. Link(x, s, thread[c][s], c2s'[c][s], <<>>, {})
        BY <2>5 DEF Link
    <2>7. QED
        BY <1>1, <1>4, <1>6, <1>7, <2>6 DEF LinkOf
<1>9. CASE s # a
    <2>1. Asked(x, s) = Asked(client[c], s)
        BY <1>1, <1>4 DEF Asked
    <2>2. InFetch(x, s, thread[c][s], c2s[c][s], <<>>)
        BY <1>4, <1>7, <1>9, <2>1 DEF InFetch
    <2>3. Link(x, s, thread[c][s], c2s[c][s], <<>>, {})
        BY <2>2 DEF Link
    <2>4. QED
        BY <1>1, <1>4, <1>6, <1>7, <1>9, <2>3 DEF LinkOf
<1>10. QED
    BY <1>8, <1>9
-----------------------------------------------------------------------------
(* The server threads' actions.                                             *)

\* What reading does to the connection, and to the others.
LEMMA Consumed ==
    ASSUME TypeOK, NEW c \in Clients, NEW s \in Servers, NEW n, NEW t, Consume(c, s, n, t)
    PROVE  /\ c2s'[c][s] = Left(c2s[c][s], n)
           /\ thread'[c][s] = t
           /\ \A d \in Clients, u \in Servers : (d # c \/ u # s) =>
                c2s'[d][u] = c2s[d][u] /\ thread'[d][u] = thread[d][u]
    BY DEF Consume, TypeOK

\* LIST, PUT or GET.
LEMMA CommandLinks ==
    ASSUME TypeOK, NEW c \in Clients, NEW s \in conn[c], Command(c, s),
           NEW K, LinkOf(c, s, K)
    PROVE  LinkOf(c, s, K)'
<1>1. PICK me \in Client, th \in Thread, q \in Seq(Byte), r \in Seq(Byte) :
        me = client[c] /\ th = thread[c][s] /\ q = c2s[c][s] /\ r = s2c[c][s]
    BY ConnFacts
<1>2. PICK b : b = Taken(q, MaxLine)
    OBVIOUS
<1>3. PICK q1 : q1 = Left(q, MaxLine)
    OBVIOUS
<1>4. PICK t : t = [th EXCEPT !.pc = IF Says(b, "PUT") THEN "name"
                                     ELSE IF Says(b, "GET") THEN "file" ELSE "cmd"]
    OBVIOUS
<1>5. PICK F \in SUBSET Keys : F = files[s]
    BY ConnFacts DEF TypeOK
<1>6. th.pc = "cmd" /\ q # <<>> /\ s \in Servers /\ client' = client
    BY <1>1, ConnFacts DEF Command
<1>7. Link(me, s, th, q, r, K)
    BY <1>1 DEF LinkOf
<1>8. CASE Says(b, "LIST")
    <2>1. Link(me, s, th, q1, r \o Listing(F), K)
        BY <1>2, <1>3, <1>4, <1>6, <1>7, <1>8, LinkCommand
    <2>2. s2c' = [s2c EXCEPT ![c][s] = @ \o Listing(F)] /\ Consume(c, s, MaxLine, th)
        BY <1>1, <1>2, <1>5, <1>8 DEF Command, Buf
    <2>3. s2c'[c][s] = r \o Listing(F)
        BY <1>1, <1>6, <2>2 DEF TypeOK
    <2>4. c2s'[c][s] = q1 /\ thread'[c][s] = th
        BY <1>1, <1>3, <1>6, <2>2, Consumed
    <2>5. QED
        BY <1>1, <1>6, <2>1, <2>3, <2>4 DEF LinkOf
<1>9. CASE ~Says(b, "LIST")
    <2>1. Link(me, s, t, q1, r, K)
        BY <1>2, <1>3, <1>4, <1>6, <1>7, <1>9, LinkCommand
    <2>2. s2c' = s2c /\ Consume(c, s, MaxLine, t)
        BY <1>1, <1>2, <1>4, <1>9 DEF Command, Buf
    <2>3. c2s'[c][s] = q1 /\ thread'[c][s] = t
        BY <1>1, <1>3, <1>6, <2>2, Consumed
    <2>4. QED
        BY <1>1, <1>6, <2>1, <2>2, <2>3 DEF LinkOf
<1>10. QED
    BY <1>8, <1>9

\* The client has gone.
LEMMA SpinLinks ==
    ASSUME TypeOK, NEW c \in Clients, NEW s \in conn[c], Spin(c, s),
           NEW K, LinkOf(c, s, K)
    PROVE  LinkOf(c, s, K)'
<1>1. PICK me \in Client, th \in Thread, r \in Seq(Byte) :
        me = client[c] /\ th = thread[c][s] /\ r = s2c[c][s]
    BY ConnFacts
<1>2. PICK t : t = [th EXCEPT !.pc = "spin"]
    OBVIOUS
<1>3. /\ th.pc \in {"cmd", "spin"} /\ me.pc = "gone" /\ c2s[c][s] = <<>>
      /\ client' = client /\ c2s' = c2s /\ s2c' = s2c /\ s \in Servers
    BY <1>1, ConnFacts DEF Spin
<1>4. thread'[c][s] = t
    BY <1>1, <1>2, <1>3 DEF Spin, TypeOK
<1>5. Link(me, s, th, <<>>, r, K)
    BY <1>1, <1>3 DEF LinkOf
<1>6. Link(me, s, t, <<>>, r, K)
    BY <1>2, <1>3, <1>5, LinkSpin
<1>7. QED
    BY <1>1, <1>3, <1>4, <1>6 DEF LinkOf

\* PUT: the name.
LEMMA PutNameLinks ==
    ASSUME TypeOK, NEW c \in Clients, NEW s \in conn[c], PutName(c, s),
           NEW K, LinkOf(c, s, K)
    PROVE  LinkOf(c, s, K)'
<1>1. PICK me \in Client, th \in Thread, q \in Seq(Byte), r \in Seq(Byte) :
        me = client[c] /\ th = thread[c][s] /\ q = c2s[c][s] /\ r = s2c[c][s]
    BY ConnFacts
<1>2. th.pc = "name" /\ client' = client /\ s2c' = s2c /\ s \in Servers
    BY <1>1, ConnFacts DEF PutName
<1>3. PICK E \in Seq(Byte) : Busy(th, q, E, K) /\ Waits(me, s, E, r)
    BY <1>1, <1>2, LinkPut DEF LinkOf
<1>4. PICK f \in Names :
        /\ Taken(q, MaxLine) # <<>> /\ Taken(q, MaxLine)[1] = Name(f)
        /\ Busy([th EXCEPT !.pc = "size", !.name = f, !.round = 1], Left(q, MaxLine), E, K)
    BY <1>2, <1>3, NameRead
<1>5. Consume(c, s, MaxLine, [th EXCEPT !.pc = "size", !.name = f, !.round = 1])
    BY <1>1, <1>4 DEF PutName, Buf, Name
<1>6. /\ c2s'[c][s] = Left(q, MaxLine)
      /\ thread'[c][s] = [th EXCEPT !.pc = "size", !.name = f, !.round = 1]
    BY <1>1, <1>2, <1>5, Consumed
<1>7. Link(me, s, thread'[c][s], c2s'[c][s], r, K)
    BY <1>3, <1>4, <1>6 DEF Link
<1>8. QED
    BY <1>1, <1>2, <1>7 DEF LinkOf

\* The size of a piece.
LEMMA PutSizeLinks ==
    ASSUME TypeOK, NEW c \in Clients, NEW s \in conn[c], PutSize(c, s),
           NEW K, LinkOf(c, s, K)
    PROVE  LinkOf(c, s, K)'
<1>1. PICK me \in Client, th \in Thread, q \in Seq(Byte), r \in Seq(Byte) :
        me = client[c] /\ th = thread[c][s] /\ q = c2s[c][s] /\ r = s2c[c][s]
    BY ConnFacts
<1>2. th.pc = "size" /\ client' = client /\ s2c' = s2c /\ s \in Servers
    BY <1>1, ConnFacts DEF PutSize
<1>3. PICK E \in Seq(Byte) : Busy(th, q, E, K) /\ Waits(me, s, E, r)
    BY <1>1, <1>2, LinkPut DEF LinkOf
<1>4. PICK t : t = [th EXCEPT !.pc = "data", !.size = Number(Taken(q, MaxLine))]
    OBVIOUS
<1>5. Busy(t, Left(q, MaxLine), E, K)
    BY <1>2, <1>3, <1>4, SizeRead
<1>6. Consume(c, s, MaxLine, t)
    BY <1>1, <1>4 DEF PutSize, Buf
<1>7. c2s'[c][s] = Left(q, MaxLine) /\ thread'[c][s] = t
    BY <1>1, <1>2, <1>6, Consumed
<1>8. Link(me, s, t, Left(q, MaxLine), r, K)
    BY <1>3, <1>5 DEF Link
<1>9. QED
    BY <1>1, <1>2, <1>7, <1>8 DEF LinkOf

\* Its bytes.
LEMMA PutDataLinks ==
    ASSUME TypeOK, NEW c \in Clients, NEW s \in conn[c], PutData(c, s),
           NEW K, LinkOf(c, s, K)
    PROVE  LinkOf(c, s, K)'
<1>1. PICK me \in Client, th \in Thread, q \in Seq(Byte), r \in Seq(Byte) :
        me = client[c] /\ th = thread[c][s] /\ q = c2s[c][s] /\ r = s2c[c][s]
    BY ConnFacts
<1>2. th.pc = "data" /\ client' = client /\ s2c' = s2c /\ s \in Servers
    BY <1>1, ConnFacts DEF PutData
<1>3. PICK E \in Seq(Byte) : Busy(th, q, E, K) /\ Waits(me, s, E, r)
    BY <1>1, <1>2, LinkPut DEF LinkOf
<1>4. PICK x : x = TextOf(Taken(q, th.size))
    OBVIOUS
<1>5. PICK t : t = [th EXCEPT !.pc = "num",
                              !.data = x \o [i \in 1..(th.size - Len(x)) |-> Junk]]
    OBVIOUS
<1>6. Busy(t, Left(q, th.size), E, K)
    BY <1>2, <1>3, <1>4, <1>5, DataRead
<1>7. Consume(c, s, th.size, t)
    BY <1>1, <1>4, <1>5 DEF PutData, Buf
<1>8. c2s'[c][s] = Left(q, th.size) /\ thread'[c][s] = t
    BY <1>1, <1>2, <1>7, Consumed
<1>9. Link(me, s, t, Left(q, th.size), r, K)
    BY <1>3, <1>6 DEF Link
<1>10. QED
    BY <1>1, <1>2, <1>8, <1>9 DEF LinkOf

\* Its number: the piece file that is created is one of a PUT in progress.
LEMMA PutNumLinks ==
    ASSUME TypeOK, NEW c \in Clients, NEW s \in conn[c], PutNum(c, s),
           NEW K, LinkOf(c, s, K)
    PROVE  /\ LinkOf(c, s, K)'
           /\ \E k \in K : /\ files' = [files EXCEPT ![s] = @ \cup {k}]
                           /\ <<thread'[c][s].name, thread'[c][s].num>> = k
                           /\ k \in Names \X Parts
<1>1. PICK me \in Client, th \in Thread, q \in Seq(Byte), r \in Seq(Byte) :
        me = client[c] /\ th = thread[c][s] /\ q = c2s[c][s] /\ r = s2c[c][s]
    BY ConnFacts
<1>2. th.pc = "num" /\ client' = client /\ s2c' = s2c /\ s \in Servers
    BY <1>1, ConnFacts DEF PutNum
<1>3. PICK E \in Seq(Byte) : Busy(th, q, E, K) /\ Waits(me, s, E, r)
    BY <1>1, <1>2, LinkPut DEF LinkOf
<1>4. PICK p : p = Number(Taken(q, 1))
    OBVIOUS
<1>5. PICK t : t = [th EXCEPT !.pc = "flush", !.num = p]
    OBVIOUS
<1>6. p \in Parts /\ <<th.name, p>> \in K /\ Busy(t, Left(q, 1), E, K)
    BY <1>2, <1>3, <1>4, <1>5, NumRead
<1>7. Consume(c, s, 1, t) /\ files' = [files EXCEPT ![s] = @ \cup {<<th.name, p>>}]
    BY <1>1, <1>4, <1>5 DEF PutNum, Buf
<1>8. c2s'[c][s] = Left(q, 1) /\ thread'[c][s] = t
    BY <1>1, <1>2, <1>7, Consumed
<1>9. Link(me, s, t, Left(q, 1), r, K)
    BY <1>3, <1>6, SMTT(30) DEF Link
<1>10. t.name = th.name /\ t.num = p /\ th.name \in Names
    BY <1>5, SMTT(30) DEF Thread
<1>11. <<th.name, p>> \in Names \X Parts
    BY <1>6, <1>10, SMTT(30)
<1>12. QED
    BY <1>1, <1>2, <1>6, <1>7, <1>8, <1>9, <1>10, <1>11 DEF LinkOf

\* It reaches the file.
FlushedTo(c, s, K) ==
    \E k \in K, L \in SUBSET K :
        /\ LinkOf(c, s, L)'
        /\ AllLocalOnce => L = K \ {k}
        /\ k = <<thread[c][s].name, thread[c][s].num>> /\ k \in Names \X Parts
        /\ store' = [store EXCEPT ![s][k] = @ \o PartOf(Contents[k[1]], k[2])]

LEMMA PutFlushLinks ==
    ASSUME TypeOK, NEW c \in Clients, NEW s \in conn[c], PutFlush(c, s),
           NEW K, LinkOf(c, s, K)
    PROVE  FlushedTo(c, s, K)
<1>1. PICK me \in Client, th \in Thread, q \in Seq(Byte), r \in Seq(Byte) :
        me = client[c] /\ th = thread[c][s] /\ q = c2s[c][s] /\ r = s2c[c][s]
    BY ConnFacts
<1>2. /\ th.pc = "flush" /\ client' = client /\ s2c' = s2c /\ c2s' = c2s /\ s \in Servers
    BY <1>1, ConnFacts DEF PutFlush
<1>3. PICK E \in Seq(Byte) : Busy(th, q, E, K) /\ Waits(me, s, E, r)
    BY <1>1, <1>2, LinkPut DEF LinkOf
<1>4. PICK t : t = IF th.round = 1 THEN [th EXCEPT !.pc = "size", !.round = 2]
                                   ELSE [th EXCEPT !.pc = "cmd", !.round = 0]
    OBVIOUS
<1>5. /\ th.num \in Parts /\ <<th.name, th.num>> \in K
      /\ th.data = PartOf(Contents[th.name], th.num)
      /\ \E L \in SUBSET K : /\ Busy(t, q, E, L)
                             /\ AllLocalOnce => L = K \ {<<th.name, th.num>>}
    <2>1. Flushes(th, t, q, E, K)
        BY <1>2, <1>3, <1>4, Flushed, Zenon
    <2>2. QED
        BY <2>1 DEF Flushes
<1>6. PICK L \in SUBSET K : /\ Busy(t, q, E, L)
                            /\ AllLocalOnce => L = K \ {<<th.name, th.num>>}
    BY <1>5
<1>7. PICK k \in K : k = <<th.name, th.num>>
    BY <1>5
<1>8. thread'[c][s] = t
    BY <1>1, <1>2, <1>4 DEF PutFlush, TypeOK
<1>9. store' = [store EXCEPT ![s][k] = @ \o PartOf(Contents[k[1]], k[2])]
    BY <1>1, <1>5, <1>7 DEF PutFlush
<1>10. k \in Names \X Parts
    <2>1. th.name \in Names
        BY DEF Thread
    <2>2. QED
        BY <1>5, <1>7, <2>1
<1>11. Link(me, s, t, q, r, L)
    BY <1>3, <1>6 DEF Link
<1>12. LinkOf(c, s, L)'
    BY <1>1, <1>2, <1>8, <1>11 DEF LinkOf
<1>13. QED
    BY <1>1, <1>6, <1>7, <1>9, <1>10, <1>12, Zenon DEF FlushedTo

\* GET: the name.
LEMMA GetFileLinks ==
    ASSUME TypeOK, NEW c \in Clients, NEW s \in conn[c], GetFile(c, s),
           NEW K, LinkOf(c, s, K)
    PROVE  LinkOf(c, s, K)'
<1>1. PICK me \in Client, th \in Thread, q \in Seq(Byte), r \in Seq(Byte) :
        me = client[c] /\ th = thread[c][s] /\ q = c2s[c][s] /\ r = s2c[c][s]
    BY ConnFacts
<1>2. PICK F \in SUBSET Keys : F = {k \in files[s] : k[1] \in Within[Message(q)[1][2]]}
    BY ConnFacts DEF TypeOK
<1>3. PICK t : t = [th EXCEPT !.pc = "answer"]
    OBVIOUS
<1>4. th.pc = "file" /\ client' = client /\ s \in Servers
    BY <1>1, ConnFacts DEF GetFile
<1>5. Link(me, s, t, Left(q, q[1][2] + 1), r \o Numbers(F), K)
    <2>1. Link(me, s, th, q, r, K)
        BY <1>1 DEF LinkOf
    <2>2. QED
        BY <1>3, <1>4, <2>1, LinkFile, SMTT(30)
<1>6. s2c' = [s2c EXCEPT ![c][s] = @ \o Numbers(F)] /\ Consume(c, s, q[1][2] + 1, t)
    BY <1>1, <1>2, <1>3 DEF GetFile
<1>7. s2c'[c][s] = r \o Numbers(F)
    BY <1>1, <1>4, <1>6 DEF TypeOK
<1>8. c2s'[c][s] = Left(q, q[1][2] + 1) /\ thread'[c][s] = t
    BY <1>1, <1>4, <1>6, Consumed
<1>9. QED
    BY <1>1, <1>4, <1>5, <1>7, <1>8 DEF LinkOf

\* YES or NO.
LEMMA GetAnswerLinks ==
    ASSUME TypeOK, NEW c \in Clients, NEW s \in conn[c], GetAnswer(c, s),
           NEW K, LinkOf(c, s, K)
    PROVE  LinkOf(c, s, K)'
<1>1. PICK me \in Client, th \in Thread, q \in Seq(Byte), r \in Seq(Byte) :
        me = client[c] /\ th = thread[c][s] /\ q = c2s[c][s] /\ r = s2c[c][s]
    BY ConnFacts
<1>2. /\ th.pc = "answer" /\ client' = client /\ s2c' = s2c /\ s \in Servers /\ q # <<>>
    BY <1>1, ConnFacts DEF GetAnswer, HasMessage
<1>3. Link(me, s, Answered(th, q), Left(q, q[1][2] + 1), r, K)
    <2>1. Link(me, s, th, q, r, K)
        BY <1>1 DEF LinkOf
    <2>2. QED
        BY <1>2, <2>1, LinkAnswer
<1>4. Consume(c, s, q[1][2] + 1, Answered(th, q))
    BY <1>1 DEF GetAnswer, Answered
<1>5. c2s'[c][s] = Left(q, q[1][2] + 1) /\ thread'[c][s] = Answered(th, q)
    BY <1>1, <1>2, <1>4, Consumed
<1>6. QED
    BY <1>1, <1>2, <1>3, <1>5 DEF LinkOf

\* A refusal.
LEMMA GetDeclinedLinks ==
    ASSUME TypeOK, NEW c \in Clients, NEW s \in conn[c], GetDeclined(c, s),
           NEW K, LinkOf(c, s, K)
    PROVE  LinkOf(c, s, K)'
<1>1. PICK me \in Client, th \in Thread, q \in Seq(Byte), r \in Seq(Byte) :
        me = client[c] /\ th = thread[c][s] /\ q = c2s[c][s] /\ r = s2c[c][s]
    BY ConnFacts
<1>2. /\ th.pc = "need" /\ client' = client /\ s2c' = s2c /\ s \in Servers /\ q # <<>>
      /\ Message(q) # <<Text("NEED")>>
    BY <1>1, ConnFacts DEF GetDeclined, HasMessage
<1>3. Link(me, s, NextRound(th), Left(q, q[1][2] + 1), r, K)
    <2>1. Link(me, s, th, q, r, K)
        BY <1>1 DEF LinkOf
    <2>2. QED
        BY <1>2, <2>1, LinkDeclined
<1>4. Consume(c, s, q[1][2] + 1, NextRound(th))
    BY <1>1 DEF GetDeclined
<1>5. c2s'[c][s] = Left(q, q[1][2] + 1) /\ thread'[c][s] = NextRound(th)
    BY <1>1, <1>2, <1>4, Consumed
<1>6. QED
    BY <1>1, <1>2, <1>3, <1>5 DEF LinkOf

\* A piece is sent.
LEMMA GetPieceLinks ==
    ASSUME TypeOK, NEW c \in Clients, NEW s \in conn[c], GetPiece(c, s),
           NEW K, LinkOf(c, s, K)
    PROVE  LinkOf(c, s, K)'
<1>1. PICK me \in Client, th \in Thread, q \in Seq(Byte), r \in Seq(Byte) :
        me = client[c] /\ th = thread[c][s] /\ q = c2s[c][s] /\ r = s2c[c][s]
    BY ConnFacts
<1>2. /\ th.pc = "need" /\ client' = client /\ s \in Servers /\ q # <<>>
      /\ Message(q) = <<Text("NEED")>>
    BY <1>1, ConnFacts, Zenon DEF GetPiece, HasMessage
<1>3. PICK k : k = Message(AfterMessage(q))[1][2]
    OBVIOUS
<1>4. PICK d \in Seq(Byte) :
        d = IF k \in files[s] THEN Taken(store[s][k], MaxLine) ELSE <<Text("NO")>>
    <2>1. k \in files[s] => store[s][k] \in Seq(Byte)
        BY <1>2 DEF TypeOK
    <2>2. k \in files[s] => Taken(store[s][k], MaxLine) \in Seq(Byte)
        BY <2>1, ReadTypes, BoundsAssumption
    <2>3. <<Text("NO")>> \in Seq(Byte)
        BY WordFacts DEF Words
    <2>4. QED
        BY <2>2, <2>3
<1>5. PICK n : n = q[1][2] + 1 + AfterMessage(q)[1][2] + 1
    OBVIOUS
<1>6. Link(me, s, NextRound(th), Left(q, n), r \o Prefixed(d), K)
    <2>1. Link(me, s, th, q, r, K)
        BY <1>1, SMTT(30) DEF LinkOf
    <2>2. QED
        BY <1>2, <1>5, <2>1, LinkPiece
<1>7. s2c' = [s2c EXCEPT ![c][s] = @ \o Prefixed(d)] /\ Consume(c, s, n, NextRound(th))
    BY <1>1, <1>3, <1>4, <1>5, Zenon DEF GetPiece
<1>8. s2c'[c][s] = r \o Prefixed(d)
    BY <1>1, <1>2, <1>7 DEF TypeOK
<1>9. c2s'[c][s] = Left(q, n) /\ thread'[c][s] = NextRound(th)
    BY <1>1, <1>2, <1>7, Consumed
<1>10. QED
    BY <1>1, <1>2, <1>6, <1>8, <1>9, SMTT(30) DEF LinkOf
-----------------------------------------------------------------------------
(* Every step keeps the invariant.                                          *)

\* A client's steps other than PUT.
Quiet(c) == List(c) \/ (\E f \in Names : Get(c, f)) \/ Quit(c) \/ ClientStep(c)

\* What the steps of client c leave alone.
OthersStay(c) ==
    \A d \in Clients : d # c =>
        client'[d] = client[d] /\ c2s'[d] = c2s[d] /\ s2c'[d] = s2c[d]

LEMMA QuietApart ==
    ASSUME TypeOK, NEW c \in Clients, Quiet(c)
    PROVE  /\ OthersStay(c)
           /\ conn' = conn /\ thread' = thread /\ files' = files /\ store' = store
           /\ puts' = puts /\ sent' = sent
<1>1. CASE List(c)
    BY <1>1 DEF List, WriteAll, OthersStay, TypeOK
<1>2. CASE \E f \in Names : Get(c, f)
    BY <1>2 DEF Get, WriteAll, OthersStay, TypeOK
<1>3. CASE Quit(c)
    BY <1>3 DEF Quit, OthersStay, TypeOK, hvars
<1>4. CASE ListRead(c)
    <2>1. PICK x : client' = [client EXCEPT ![c] = x]
        BY <1>4 DEF ListRead
    <2>2. PICK a, y : s2c' = [s2c EXCEPT ![c][a] = y]
        BY <1>4 DEF ListRead
    <2>3. c2s' = c2s
        BY <1>4 DEF ListRead
    <2>4. OthersStay(c)
        BY <2>1, <2>2, <2>3 DEF OthersStay, TypeOK
    <2>5. QED
        BY <1>4, <2>4 DEF ListRead, hvars
<1>5. CASE Collect(c)
    <2>1. \E x : client' = [client EXCEPT ![c] = x]
        BY <1>5 DEF Collect
    <2>2. PICK a, y : s2c' = [s2c EXCEPT ![c][a] = y]
        BY <1>5 DEF Collect
    <2>3. c2s' = c2s \/ \E q : WriteAll(c, q)
        BY <1>5 DEF Collect
    <2>4. OthersStay(c)
        BY <2>1, <2>2, <2>3 DEF OthersStay, WriteAll, TypeOK
    <2>5. QED
        BY <1>5, <2>4 DEF Collect, hvars
<1>6. CASE Decline(c)
    <2>1. PICK x : client' = [client EXCEPT ![c] = x]
        BY <1>6 DEF Decline
    <2>2. PICK a, y : c2s' = [c2s EXCEPT ![c][a] = y]
        BY <1>6 DEF Decline
    <2>3. s2c' = s2c
        BY <1>6 DEF Decline
    <2>4. OthersStay(c)
        BY <2>1, <2>2, <2>3 DEF OthersStay, TypeOK
    <2>5. QED
        BY <1>6, <2>4 DEF Decline, hvars
<1>7. CASE Ask(c)
    <2>1. \E x : client' = [client EXCEPT ![c] = x]
        BY <1>7 DEF Ask
    <2>2. PICK a, y : c2s' = [c2s EXCEPT ![c][a] = y]
        BY <1>7, Zenon DEF Ask
    <2>3. s2c' = s2c
        BY <1>7 DEF Ask
    <2>4. OthersStay(c)
        BY <2>1, <2>2, <2>3 DEF OthersStay, TypeOK
    <2>5. QED
        BY <1>7, <2>4 DEF Ask, hvars
<1>8. CASE Reply(c)
    <2>1. PICK x : client' = [client EXCEPT ![c] = x]
        BY <1>8 DEF Reply
    <2>2. PICK a, y : s2c' = [s2c EXCEPT ![c][a] = y]
        BY <1>8 DEF Reply
    <2>3. c2s' = c2s
        BY <1>8 DEF Reply
    <2>4. OthersStay(c)
        BY <2>1, <2>2, <2>3 DEF OthersStay, TypeOK
    <2>5. QED
        BY <1>8, <2>4 DEF Reply, hvars
<1>9. QED
    BY <1>1, <1>2, <1>3, <1>4, <1>5, <1>6, <1>7, <1>8 DEF Quiet, ClientStep

\* A client in a loop over the servers is at one it has reached.
Reached(c) == client[c].pc \in {"list", "collect", "fetch", "reply"} => client[c].at \in conn[c]

\* They keep the client's connections in step.
LEMMA QuietLinks ==
    ASSUME TypeOK, NEW c \in Clients, Quiet(c), Reached(c),
           NEW K, \A s \in conn[c] : LinkOf(c, s, K[s])
    PROVE  Reached(c)' /\ \A s \in conn[c] : LinkOf(c, s, K[s])'
<1>1. conn' = conn /\ conn[c] # {}
    BY QuietApart DEF TypeOK
<1>2. SUFFICES ASSUME NEW s \in conn[c], NEW L, L = K[s], LinkOf(c, s, L)
               PROVE  Reached(c)' /\ LinkOf(c, s, L)'
    BY <1>1
<1>3. CASE List(c)
    BY <1>1, <1>2, <1>3, ListLinks DEF Reached
<1>4. CASE \E f \in Names : Get(c, f)
    BY <1>1, <1>2, <1>4, GetLinks DEF Reached
<1>5. CASE Quit(c)
    <2>1. client'[c].pc = "gone"
        BY <1>5 DEF Quit, TypeOK, Client
    <2>2. QED
        BY <1>2, <1>5, <2>1, QuitLinks DEF Reached
<1>6. CASE ListRead(c)
    <2>1. client[c].at \in conn[c]
        BY <1>6 DEF ListRead, Reached
    <2>2. PICK M : M = K[client[c].at]
        OBVIOUS
    <2>3. LinkOf(c, client[c].at, M) /\ (s = client[c].at => L = M)
        BY <1>2, <2>1, <2>2
    <2>4. QED
        BY <1>1, <1>2, <1>6, <2>1, <2>3, ListReadLinks DEF Reached
<1>7. CASE Collect(c)
    <2>1. client[c].at \in conn[c]
        BY <1>7 DEF Collect, Reached
    <2>2. PICK M : M = K[client[c].at]
        OBVIOUS
    <2>3. LinkOf(c, client[c].at, M) /\ (s = client[c].at => L = M)
        BY <1>2, <2>1, <2>2
    <2>4. QED
        BY <1>1, <1>2, <1>7, <2>1, <2>3, CollectLinks DEF Reached
<1>8. CASE Decline(c)
    <2>1. client[c].at \in conn[c]
        BY <1>8 DEF Decline, Reached
    <2>2. QED
        BY <1>1, <1>2, <1>8, <2>1, DeclineLinks DEF Reached
<1>9. CASE Ask(c)
    <2>1. client[c].at \in conn[c]
        BY <1>9 DEF Ask, Reached
    <2>2. QED
        BY <1>1, <1>2, <1>9, <2>1, AskLinks DEF Reached
<1>10. CASE Reply(c)
    <2>1. client[c].at \in conn[c]
        BY <1>10 DEF Reply, Reached
    <2>2. QED
        BY <1>1, <1>2, <1>10, <2>1, ReplyLinks DEF Reached
<1>11. QED
    BY <1>3, <1>4, <1>5, <1>6, <1>7, <1>8, <1>9, <1>10 DEF Quiet, ClientStep

\* What the steps of the thread of c in s leave alone.
ThreadsStay(c, s) ==
    \A d \in Clients, u \in Servers : (d # c \/ u # s) =>
        c2s'[d][u] = c2s[d][u] /\ s2c'[d][u] = s2c[d][u] /\ thread'[d][u] = thread[d][u]

LEMMA ThreadApart ==
    ASSUME TypeOK, NEW c \in Clients, NEW s \in Servers, ThreadStep(c, s)
    PROVE  /\ ThreadsStay(c, s)
           /\ client' = client /\ conn' = conn /\ puts' = puts /\ sent' = sent
<1>1. client' = client /\ conn' = conn /\ puts' = puts /\ sent' = sent
    BY ZenonT(60) DEF ThreadStep, Command, Spin, PutName, PutSize, PutData, PutNum, PutFlush,
           GetFile, GetAnswer, GetDeclined, GetPiece, hvars
<1>2. \/ \E n, t : Consume(c, s, n, t)
      \/ c2s' = c2s /\ \E t : thread' = [thread EXCEPT ![c][s] = t]
    BY ZenonT(60) DEF ThreadStep, Command, Spin, PutName, PutSize, PutData, PutNum, PutFlush,
           GetFile, GetAnswer, GetDeclined, GetPiece
<1>3. s2c' = s2c \/ \E y : s2c' = [s2c EXCEPT ![c][s] = y]
    BY Zenon DEF ThreadStep, Command, Spin, PutName, PutSize, PutData, PutNum, PutFlush,
           GetFile, GetAnswer, GetDeclined, GetPiece
<1>4. \A d \in Clients, u \in Servers : (d # c \/ u # s) =>
        c2s'[d][u] = c2s[d][u] /\ thread'[d][u] = thread[d][u]
    <2>1. CASE \E n, t : Consume(c, s, n, t)
        BY <2>1, Consumed
    <2>2. CASE c2s' = c2s /\ \E t : thread' = [thread EXCEPT ![c][s] = t]
        BY <2>2 DEF TypeOK
    <2>3. QED
        BY <1>2, <2>1, <2>2
<1>5. \A d \in Clients, u \in Servers : (d # c \/ u # s) => s2c'[d][u] = s2c[d][u]
    BY <1>3, SMTT(30) DEF TypeOK
<1>6. QED
    BY <1>1, <1>4, <1>5, SMTT(30) DEF ThreadsStay

\* The step of a thread keeps its connection in step; the flush of a piece
\* is dealt with apart.
LEMMA ThreadLinks ==
    ASSUME TypeOK, NEW c \in Clients, NEW s \in conn[c], ThreadStep(c, s), ~PutFlush(c, s),
           NEW K, LinkOf(c, s, K)
    PROVE  LinkOf(c, s, K)'
<1>1. CASE Command(c, s)
    BY <1>1, CommandLinks
<1>2. CASE Spin(c, s)
    BY <1>2, SpinLinks
<1>3. CASE PutName(c, s)
    BY <1>3, PutNameLinks
<1>4. CASE PutSize(c, s)
    BY <1>4, PutSizeLinks
<1>5. CASE PutData(c, s)
    BY <1>5, PutDataLinks
<1>6. CASE PutNum(c, s)
    BY <1>6, PutNumLinks
<1>7. CASE GetFile(c, s)
    BY <1>7, GetFileLinks
<1>8. CASE GetAnswer(c, s)
    BY <1>8, GetAnswerLinks
<1>9. CASE GetDeclined(c, s)
    BY <1>9, GetDeclinedLinks
<1>10. CASE GetPiece(c, s)
    BY <1>10, GetPieceLinks
<1>11. QED
    BY <1>1, <1>2, <1>3, <1>4, <1>5, <1>6, <1>7, <1>8, <1>9, <1>10 DEF ThreadStep

\* Only PutNum comes to the flush, and only it and PutFlush touch the disk.
LEMMA ThreadDisk ==
    ASSUME TypeOK, NEW c \in Clients, NEW s \in Servers, ThreadStep(c, s), ~PutNum(c, s)
    PROVE  /\ files' = files
           /\ ~PutFlush(c, s) => store' = store
           /\ thread'[c][s].pc # "flush"
<1>1. files' = files /\ (~PutFlush(c, s) => store' = store)
    BY Zenon DEF ThreadStep, Command, Spin, PutName, PutSize, PutData, PutFlush,
           GetFile, GetAnswer, GetDeclined, GetPiece
<1>2. thread[c][s] \in Thread
    BY ThreadFacts
<1>3. PICK th \in Thread : th = thread[c][s]
    BY <1>2
<1>4. CASE Command(c, s)
    <2>1. \/ Consume(c, s, MaxLine, th) /\ th.pc = "cmd"
          \/ \E x \in {"name", "file", "cmd"} : Consume(c, s, MaxLine, [th EXCEPT !.pc = x])
        BY <1>3, <1>4 DEF Command
    <2>2. QED
        BY <1>1, <2>1, Consumed DEF Thread
<1>5. CASE Spin(c, s)
    BY <1>1, <1>2, <1>5 DEF Spin, TypeOK, Thread
<1>6. CASE PutName(c, s)
    <2>1. PICK f : \/ Consume(c, s, MaxLine, [th EXCEPT !.pc = "size", !.name = f, !.round = 1])
                   \/ Consume(c, s, MaxLine, [th EXCEPT !.pc = "astray"])
        BY <1>3, <1>6 DEF PutName
    <2>2. \/ thread'[c][s] = [th EXCEPT !.pc = "size", !.name = f, !.round = 1]
          \/ thread'[c][s] = [th EXCEPT !.pc = "astray"]
        BY <2>1, Consumed
    <2>3. QED
        BY <1>1, <2>2 DEF Thread
<1>7. CASE PutSize(c, s)
    <2>1. PICK n : Consume(c, s, MaxLine, [th EXCEPT !.pc = "data", !.size = n])
        BY <1>3, <1>7 DEF PutSize
    <2>2. thread'[c][s] = [th EXCEPT !.pc = "data", !.size = n]
        BY <2>1, Consumed
    <2>3. QED
        BY <1>1, <2>2 DEF Thread
<1>8. CASE PutData(c, s)
    <2>1. PICK d : Consume(c, s, th.size, [th EXCEPT !.pc = "num", !.data = d])
        BY <1>3, <1>8 DEF PutData
    <2>2. thread'[c][s] = [th EXCEPT !.pc = "num", !.data = d]
        BY <2>1, Consumed
    <2>3. QED
        BY <1>1, <2>2 DEF Thread
<1>9. CASE PutFlush(c, s)
    <2>1. thread'[c][s] = IF th.round = 1 THEN [th EXCEPT !.pc = "size", !.round = 2]
                                          ELSE [th EXCEPT !.pc = "cmd", !.round = 0]
        BY <1>3, <1>9 DEF PutFlush, TypeOK
    <2>2. QED
        BY <1>1, <2>1 DEF Thread
<1>10. CASE GetFile(c, s)
    <2>1. PICK n : Consume(c, s, n, [th EXCEPT !.pc = "answer"])
        BY <1>3, <1>10 DEF GetFile
    <2>2. thread'[c][s] = [th EXCEPT !.pc = "answer"]
        BY <2>1, Consumed
    <2>3. QED
        BY <1>1, <2>2 DEF Thread
<1>11. CASE GetAnswer(c, s)
    <2>1. PICK n : \/ Consume(c, s, n, [th EXCEPT !.pc = "need", !.round = 1])
                   \/ Consume(c, s, n, [th EXCEPT !.pc = "cmd"])
        BY <1>3, <1>11 DEF GetAnswer
    <2>2. \/ thread'[c][s] = [th EXCEPT !.pc = "need", !.round = 1]
          \/ thread'[c][s] = [th EXCEPT !.pc = "cmd"]
        BY <2>1, Consumed
    <2>3. QED
        BY <1>1, <2>2 DEF Thread
<1>12. CASE GetDeclined(c, s) \/ GetPiece(c, s)
    <2>1. th.pc = "need" /\ \E n : Consume(c, s, n, NextRound(th))
        BY <1>3, <1>12, Zenon DEF GetDeclined, GetPiece
    <2>2. thread'[c][s] = NextRound(th)
        BY <2>1, Consumed
    <2>3. QED
        BY <1>1, <2>1, <2>2, SMTT(30) DEF NextRound, Thread
<1>13. thread'[c][s].pc # "flush"
    BY <1>4, <1>5, <1>6, <1>7, <1>8, <1>9, <1>10, <1>11, <1>12 DEF ThreadStep
<1>14. QED
    BY <1>1, <1>13, SMTT(30)

\* A piece file is there when its bytes are flushed.
LEMMA NextOpened ==
    ASSUME TypeOK, Opened, [Next]_vars
    PROVE  Opened'
<1>1. CASE thread' = thread
    <2>1. \A s \in Servers : files[s] \subseteq files'[s]
        BY NextGrows DEF Grown
    <2>2. QED
        BY <1>1, <2>1 DEF Opened
<1>2. CASE \E c \in Clients, s \in Servers : s \in conn[c] /\ ThreadStep(c, s)
    <2>1. PICK c \in Clients, s \in Servers : s \in conn[c] /\ ThreadStep(c, s)
        BY <1>2
    <2>2. ThreadsStay(c, s)
        BY <2>1, ThreadApart
    <2>3. \A u \in Servers : files[u] \subseteq files'[u]
        BY NextGrows DEF Grown
    <2>4. thread'[c][s].pc = "flush" =>
            <<thread'[c][s].name, thread'[c][s].num>> \in files'[s]
        <3>1. CASE PutNum(c, s)
            <4>1. PICK th, p : /\ th \in Thread
                             /\ th = thread[c][s]
                             /\ Consume(c, s, 1, [th EXCEPT !.pc = "flush", !.num = p])
                             /\ files' = [files EXCEPT ![s] = @ \cup {<<th.name, p>>}]
                BY <3>1, ThreadFacts DEF PutNum
            <4>2. thread'[c][s] = [th EXCEPT !.pc = "flush", !.num = p]
                BY <4>1, Consumed
            <4>3. <<th.name, p>> \in files'[s]
                BY <4>1 DEF TypeOK
            <4>4. thread'[c][s].name = th.name /\ thread'[c][s].num = p
                BY <4>2 DEF Thread
            <4>5. QED
                BY <4>3, <4>4
        <3>2. CASE ~PutNum(c, s)
            BY <2>1, <3>2, ThreadDisk
        <3>3. QED
            BY <3>1, <3>2
    <2>5. ASSUME NEW d \in Clients, NEW u \in Servers, thread'[d][u].pc = "flush"
          PROVE  <<thread'[d][u].name, thread'[d][u].num>> \in files'[u]
        <3>1. CASE d = c /\ u = s
            BY <2>4, <2>5, <3>1
        <3>2. CASE d # c \/ u # s
            BY <2>2, <2>3, <2>5, <3>2 DEF ThreadsStay, Opened
        <3>3. QED
            BY <3>1, <3>2
    <2>6. QED
        BY <2>5 DEF Opened
<1>3. CASE \E c \in Clients : Quiet(c) \/ \E f \in Names, h \in Hashes : Put(c, f, h)
    <2>1. thread' = thread
        BY <1>3, QuietApart DEF Put
    <2>2. QED
        BY <1>1, <2>1
<1>4. CASE UNCHANGED vars
    BY <1>1, <1>4 DEF vars
<1>5. QED
    BY <1>2, <1>3, <1>4 DEF Next, Quiet

\* The steps that the ledger does not see.
LEMMA BookSame ==
    ASSUME NEW K, Book(K), conn' = conn, sent' = sent, puts' = puts, files' = files, store' = store
    PROVE  Book(K)'
    BY DEF Book, OncePut, Ledger

LEMMA QuietSync ==
    ASSUME TypeOK, NEW c \in Clients, Quiet(c), AtReached,
           NEW K, Linked(K), Book(K)
    PROVE  AtReached' /\ Linked(K)' /\ Book(K)'
<1>1. /\ OthersStay(c)
      /\ conn' = conn /\ thread' = thread /\ files' = files /\ store' = store
      /\ puts' = puts /\ sent' = sent
    BY QuietApart
<1>2. ASSUME NEW d \in Good, d = c
      PROVE  Reached(d)' /\ \A s \in conn[d] : LinkOf(d, s, K[d][s])'
    <2>1. Reached(c)
        BY <1>2 DEF AtReached, Reached
    <2>2. PICK L : L = K[c]
        OBVIOUS
    <2>3. \A s \in conn[c] : LinkOf(c, s, L[s])
        BY <1>2, <2>2 DEF Linked
    <2>4. Reached(c)' /\ \A s \in conn[c] : LinkOf(c, s, L[s])'
        BY <2>1, <2>3, QuietLinks, Zenon
    <2>5. QED
        BY <1>2, <2>2, <2>4
<1>3. ASSUME NEW d \in Good, d # c
      PROVE  Reached(d)' /\ \A s \in conn[d] : LinkOf(d, s, K[d][s])'
    <2>1. d \in Clients
        BY DEF Good
    <2>2. client'[d] = client[d] /\ c2s'[d] = c2s[d] /\ s2c'[d] = s2c[d]
        BY <1>1, <1>3, <2>1 DEF OthersStay
    <2>3. Reached(d)'
        BY <1>1, <2>2 DEF AtReached, Reached
    <2>4. ASSUME NEW s \in conn[d]
          PROVE  LinkOf(d, s, K[d][s])'
        <3>1. LinkOf(d, s, K[d][s])
            BY DEF Linked
        <3>2. QED
            BY <1>1, <2>2, <3>1 DEF LinkOf
    <2>5. QED
        BY <2>3, <2>4
<1>4. AtReached' /\ Linked(K)'
    BY <1>1, <1>2, <1>3 DEF AtReached, Reached, Linked
<1>5. Book(K)'
    BY <1>1, BookSame
<1>6. QED
    BY <1>4, <1>5

\* When no name is PUT twice, nothing of the file is anywhere before its PUT.
LEMMA NotSent ==
    ASSUME AllLocalOnce, NEW K, Book(K), NEW f \in Names, puts[f] = 0,
           NEW s \in Servers, NEW p \in Parts
    PROVE  /\ <<s, <<f, p>>>> \notin sent /\ <<f, p>> \notin files[s]
           /\ \A d \in Clients : <<f, p>> \notin K[d][s]
<1>1. OncePut /\ Ledger(s, K)
    BY DEF Book
<1>2. <<s, <<f, p>>>> \notin sent
    BY <1>1 DEF OncePut
<1>3. <<f, p>> \in Names \X Parts
    OBVIOUS
<1>4. QED
    BY <1>1, <1>2, <1>3 DEF Ledger

\* What a PUT adds to a connection, and to the ledger.
Added(f, h, s) == {f} \X Holds(h, s)

WithPut(K, M, c, f, h) ==
    \A d \in Clients, u \in Servers :
        M[d][u] = IF d = c /\ u \in conn[c] THEN K[d][u] \cup Added(f, h, u) ELSE K[d][u]

LEMMA AddedType ==
    ASSUME NEW f \in Names, NEW h \in 0..3, NEW s \in Servers
    PROVE  /\ Holds(h, s) \subseteq Parts
           /\ Added(f, h, s) \subseteq Names \X Parts
           /\ Added(f, h, s) \in SUBSET Keys
<1>1. ((s - h) % 4) + 1 \in 1..4 /\ ((s - h + 1) % 4) + 1 \in 1..4
    BY DEF Servers
<1>2. Holds(h, s) = {((s - h) % 4) + 1, ((s - h + 1) % 4) + 1}
    BY HoldsRing
<1>3. Holds(h, s) \subseteq Parts
    BY <1>1, <1>2 DEF Parts
<1>4. QED
    BY <1>3 DEF Added, Keys, Parts

\* The ledger after a PUT.
LEMMA PutBook ==
    ASSUME TypeOK, NEW c \in Clients, NEW f \in Names, NEW h \in 0..3, Put(c, f, h),
           AllLocalOnce, NEW K \in [Clients -> [Servers -> SUBSET Keys]], Book(K), puts[f] = 0,
           NEW M \in [Clients -> [Servers -> SUBSET Keys]],
           WithPut(K, M, c, f, h)
    PROVE  Book(M)'
<1>1. /\ conn' = conn /\ files' = files /\ store' = store
      /\ puts' = [puts EXCEPT ![f] = @ + 1]
      /\ sent' = sent \cup {e \in conn[c] \X ({f} \X Parts) : e[2][2] \in Holds(h, e[1])}
    BY DEF Put, AllLocalOnce
<1>2. conn[c] \in SUBSET Servers /\ puts \in [Names -> Nat]
    BY DEF TypeOK
<1>3. \A d \in Clients, u \in Servers :
        M[d][u] = IF d = c /\ u \in conn[c] THEN K[d][u] \cup Added(f, h, u) ELSE K[d][u]
    BY DEF WithPut
<1>4. ASSUME NEW s \in Servers, NEW k \in Names \X Parts
      PROVE  /\ <<s, k>> \in sent' <=> <<s, k>> \in sent \/ (s \in conn[c] /\ k \in Added(f, h, s))
             /\ k \in Added(f, h, s) => k \notin files[s] /\ \A d \in Clients : k \notin K[d][s]
    <2>1. PICK g \in Names, p \in Parts : k = <<g, p>>
        OBVIOUS
    <2>2. k \in Added(f, h, s) <=> g = f /\ p \in Holds(h, s)
        BY <2>1 DEF Added
    <2>3. <<s, k>> \in {e \in conn[c] \X ({f} \X Parts) : e[2][2] \in Holds(h, e[1])}
            <=> s \in conn[c] /\ g = f /\ p \in Holds(h, s)
        BY <2>1
    <2>4. k \in Added(f, h, s) => k \notin files[s] /\ \A d \in Clients : k \notin K[d][s]
        BY <2>1, <2>2, NotSent
    <2>5. QED
        BY <1>1, <2>2, <2>3, <2>4
<1>5. ASSUME NEW s \in Servers
      PROVE  Added(f, h, s) \subseteq Names \X Parts
    BY AddedType
<1>6. OncePut'
    <2>1. OncePut
        BY DEF Book
    <2>2. ASSUME NEW g \in Names, puts'[g] = 0, NEW s \in Servers, NEW p \in Parts
          PROVE  <<s, <<g, p>>>> \notin sent'
        <3>1. g # f /\ puts[g] = 0
            BY <1>1, <1>2, <2>2
        <3>2. <<s, <<g, p>>>> \notin sent
            BY <2>1, <3>1 DEF OncePut
        <3>3. <<g, p>> \notin Added(f, h, s)
            BY <3>1 DEF Added
        <3>4. <<g, p>> \in Names \X Parts
            OBVIOUS
        <3>5. QED
            BY <1>4, <3>2, <3>3, <3>4
    <2>3. QED
        BY <2>2 DEF OncePut
<1>7. ASSUME NEW s \in Servers
      PROVE  Ledger(s, M)'
    <2>1. Ledger(s, K)
        BY DEF Book
    <2>2. \A d \in Clients : s \notin conn[d] => M[d][s] = {}
        BY <1>3, <2>1, ZenonT(60) DEF Ledger
    <2>3. ASSUME NEW d \in Clients, NEW e \in Clients, d # e
          PROVE  M[d][s] \cap M[e][s] = {}
        <3>1. K[d][s] \cap K[e][s] = {}
            BY <2>1, <2>3 DEF Ledger
        <3>2. \A k \in Added(f, h, s) : k \notin K[d][s] /\ k \notin K[e][s]
            BY <1>4, <1>5
        <3>3. QED
            BY <1>3, <2>3, <3>1, <3>2
    <2>4. ASSUME NEW k \in Names \X Parts
          PROVE  /\ <<s, k>> \in sent' <=> k \in files[s] \/ \E d \in Clients : k \in M[d][s]
                 /\ store[s][k] = IF k \in files[s] /\ ~ \E d \in Clients : k \in M[d][s]
                                  THEN PartOf(Contents[k[1]], k[2]) ELSE <<>>
        <3>1. (\E d \in Clients : k \in M[d][s])
                <=> (\E d \in Clients : k \in K[d][s]) \/ (s \in conn[c] /\ k \in Added(f, h, s))
            BY <1>3, ZenonT(60)
        <3>2. /\ <<s, k>> \in sent <=> k \in files[s] \/ \E d \in Clients : k \in K[d][s]
              /\ store[s][k] = IF k \in files[s] /\ ~ \E d \in Clients : k \in K[d][s]
                               THEN PartOf(Contents[k[1]], k[2]) ELSE <<>>
            BY <2>1 DEF Ledger
        <3>3. QED
            BY <1>4, <3>1, <3>2
    <2>5. files[s] \subseteq Names \X Parts
        BY <2>1 DEF Ledger
    <2>6. QED
        BY <1>1, <2>2, <2>3, <2>4, <2>5 DEF Ledger
<1>8. QED
    BY <1>6, <1>7 DEF Book

LEMMA PutSync ==
    ASSUME TypeOK, Hashes \subseteq 0..3,
           NEW c \in Clients, NEW f \in Names, NEW h \in Hashes, Put(c, f, h), AtReached,
           NEW K \in [Clients -> [Servers -> SUBSET Keys]], Linked(K), Book(K)
    PROVE  /\ AtReached'
           /\ \E M \in [Clients -> [Servers -> SUBSET Keys]] : Linked(M)' /\ Book(M)'
<1>1. /\ client' = client /\ thread' = thread /\ s2c' = s2c /\ conn' = conn
      /\ puts[f] < MaxPuts
      /\ \A d \in Clients : d # c => c2s'[d] = c2s[d]
    BY DEF Put, TypeOK
<1>2. AtReached'
    BY <1>1 DEF AtReached
<1>3. PICK M : M = [d \in Clients |-> [u \in Servers |->
                    IF d = c /\ u \in conn[c] THEN K[d][u] \cup Added(f, h, u) ELSE K[d][u]]]
    OBVIOUS
<1>4. /\ \A d \in Clients, u \in Servers :
            M[d][u] = IF d = c /\ u \in conn[c] THEN K[d][u] \cup Added(f, h, u) ELSE K[d][u]
      /\ M \in [Clients -> [Servers -> SUBSET Keys]]
    <2>1. \A u \in Servers : Added(f, h, u) \in SUBSET Keys
        BY AddedType
    <2>2. QED
        BY <1>3, <2>1
<1>5. AllLocalOnce => puts[f] = 0
    BY <1>1, BoundsAssumption DEF AllLocalOnce, TypeOK
<1>6. ASSUME NEW d \in Good, NEW s \in conn[d]
      PROVE  LinkOf(d, s, M[d][s])'
    <2>1. d \in Clients /\ s \in Servers /\ Local[d] = Names
        BY DEF Good, TypeOK
    <2>2. LinkOf(d, s, K[d][s])
        BY DEF Linked
    <2>3. CASE d = c
        <3>1. PICK A \in SUBSET Keys : A = K[c][s]
            BY <2>1
        <3>2. PICK L : L = A \cup ({f} \X Holds(h, s))
            OBVIOUS
        <3>3. AllLocalOnce => A \cap ({f} \X Holds(h, s)) = {}
            <4>1. Holds(h, s) \subseteq Parts
                BY <2>1, AddedType
            <4>2. ASSUME AllLocalOnce, NEW p \in Holds(h, s)
                  PROVE  <<f, p>> \notin K[c][s]
                BY <1>5, <2>1, <4>1, <4>2, NotSent
            <4>3. QED
                BY <3>1, <4>2
        <3>4. LinkOf(c, s, A)
            BY <2>2, <2>3, <3>1
        <3>5. s \in conn[c] /\ Local[c] = Names
            BY <2>1, <2>3
        <3>6. LinkOf(c, s, L)'
            BY <3>2, <3>3, <3>4, <3>5, PutLinks, Zenon
        <3>7. M[d][s] = L
            BY <1>4, <2>1, <2>3, <3>1, <3>2, <3>5 DEF Added
        <3>8. QED
            BY <2>3, <3>6, <3>7
    <2>4. CASE d # c
        <3>1. M[d][s] = K[d][s]
            BY <1>4, <2>1, <2>4
        <3>2. QED
            BY <1>1, <2>1, <2>2, <2>4, <3>1 DEF LinkOf
    <2>5. QED
        BY <2>3, <2>4
<1>7. Linked(M)'
    BY <1>1, <1>6 DEF Linked
<1>8. Book(M)'
    <2>1. CASE AllLocalOnce
        <3>1. PICK g \in 0..3 : g = h
            OBVIOUS
        <3>2. Put(c, f, g) /\ puts[f] = 0 /\ M \in [Clients -> [Servers -> SUBSET Keys]]
            BY <1>4, <1>5, <2>1, <3>1
        <3>3. WithPut(K, M, c, f, g)
            BY <1>4, <3>1 DEF WithPut
        <3>4. QED
            BY <2>1, <3>2, <3>3, PutBook, Zenon
    <2>2. CASE ~AllLocalOnce
        BY <2>2 DEF Book
    <2>3. QED
        BY <2>1, <2>2
<1>9. QED
    BY <1>2, <1>4, <1>7, <1>8

\* A thread's step leaves the other connections in step.
LEMMA OtherLinks ==
    ASSUME TypeOK, NEW c \in Clients, NEW s \in Servers, ThreadStep(c, s),
           NEW d \in Clients, NEW u \in Servers, d # c \/ u # s, NEW K, LinkOf(d, u, K)
    PROVE  LinkOf(d, u, K)'
<1>1. /\ client' = client /\ thread'[d][u] = thread[d][u]
      /\ c2s'[d][u] = c2s[d][u] /\ s2c'[d][u] = s2c[d][u]
    BY ThreadApart DEF ThreadsStay
<1>2. QED
    BY <1>1 DEF LinkOf

\* The ledger when a piece file is created, ...
LEMMA NumBook ==
    ASSUME TypeOK, NEW c \in Clients, NEW s \in Servers,
           NEW K \in [Clients -> [Servers -> SUBSET Keys]], Book(K),
           NEW k \in K[c][s], k \in Names \X Parts,
           files' = [files EXCEPT ![s] = @ \cup {k}],
           conn' = conn, sent' = sent, puts' = puts, store' = store
    PROVE  Book(K)'
<1>1. SUFFICES ASSUME AllLocalOnce
               PROVE  OncePut' /\ \A u \in Servers : Ledger(u, K)'
    BY DEF Book
<1>2. OncePut'
    BY <1>1 DEF Book, OncePut
<1>3. ASSUME NEW u \in Servers
      PROVE  Ledger(u, K)'
    <2>1. Ledger(u, K)
        BY <1>1 DEF Book
    <2>2. CASE u = s
        <3>1. files'[u] = files[u] \cup {k}
            BY <2>2 DEF TypeOK
        <3>2. QED
            BY <2>1, <2>2, <3>1 DEF Ledger
    <2>3. CASE u # s
        <3>1. files'[u] = files[u]
            BY <2>3 DEF TypeOK
        <3>2. QED
            BY <2>1, <3>1 DEF Ledger
    <2>4. QED
        BY <2>2, <2>3
<1>4. QED
    BY <1>2, <1>3

\* ... and when its bytes are written.
LEMMA FlushBook ==
    ASSUME TypeOK, NEW c \in Clients, NEW s \in Servers,
           NEW K \in [Clients -> [Servers -> SUBSET Keys]], Book(K),
           NEW k \in K[c][s], k \in Names \X Parts, k \in files[s],
           NEW M, M = [K EXCEPT ![c][s] = K[c][s] \ {k}],
           store' = [store EXCEPT ![s][k] = @ \o PartOf(Contents[k[1]], k[2])],
           conn' = conn, sent' = sent, puts' = puts, files' = files
    PROVE  Book(M)'
<1>1. SUFFICES ASSUME AllLocalOnce
               PROVE  OncePut' /\ \A u \in Servers : Ledger(u, M)'
    BY DEF Book
<1>2. OncePut'
    BY <1>1 DEF Book, OncePut
<1>3. ASSUME NEW u \in Servers
      PROVE  Ledger(u, M)'
    <2>1. Ledger(u, K)
        BY <1>1 DEF Book
    <2>2. CASE u # s
        <3>1. store'[u] = store[u] /\ \A d \in Clients : M[d][u] = K[d][u]
            BY <2>2 DEF TypeOK
        <3>2. QED
            BY <2>1, <3>1 DEF Ledger
    <2>3. CASE u = s
        <3>1. M[c][s] = K[c][s] \ {k} /\ \A d \in Clients : d # c => M[d][s] = K[d][s]
            OBVIOUS
        <3>2. \A d \in Clients : d # c => k \notin K[d][s]
            BY <2>1, <2>3 DEF Ledger
        <3>3. \A d \in Clients : k \notin M[d][s]
            BY <3>1, <3>2
        <3>4. \A j \in Names \X Parts : j # k =>
                ((\E d \in Clients : j \in M[d][s]) <=> (\E d \in Clients : j \in K[d][s]))
            BY <3>1
        <3>5. store[s][k] = <<>> /\ <<s, k>> \in sent
            BY <2>1, <2>3 DEF Ledger
        <3>6. store'[s][k] = PartOf(Contents[k[1]], k[2])
            <4>1. k[1] \in Names /\ k[2] \in Parts /\ k \in Keys
                BY DEF Keys, Parts
            <4>2. PICK d \in Seq(Byte) : d = PartOf(Contents[k[1]], k[2])
                BY <4>1, SizeType
            <4>3. <<>> \o d = d
                BY ConcatEmptySeq
            <4>4. store'[s][k] = store[s][k] \o d
                BY <4>1, <4>2 DEF TypeOK
            <4>5. QED
                BY <3>5, <4>2, <4>3, <4>4
        <3>7. \A j \in Names \X Parts : j # k => store'[s][j] = store[s][j]
            <4>1. Names \X Parts \subseteq Keys
                BY DEF Keys, Parts
            <4>2. QED
                BY <4>1 DEF TypeOK
        <3>8. ASSUME NEW j \in Names \X Parts
              PROVE  /\ <<s, j>> \in sent <=> j \in files[s] \/ \E d \in Clients : j \in M[d][s]
                     /\ store'[s][j] = IF j \in files[s] /\ ~ \E d \in Clients : j \in M[d][s]
                                       THEN PartOf(Contents[j[1]], j[2]) ELSE <<>>
            <4>1. /\ <<s, j>> \in sent <=> j \in files[s] \/ \E d \in Clients : j \in K[d][s]
                  /\ store[s][j] = IF j \in files[s] /\ ~ \E d \in Clients : j \in K[d][s]
                                   THEN PartOf(Contents[j[1]], j[2]) ELSE <<>>
                BY <2>1, <2>3 DEF Ledger
            <4>2. CASE j = k
                BY <3>3, <3>5, <3>6, <4>2
            <4>3. CASE j # k
                BY <3>4, <3>7, <4>1, <4>3
            <4>4. QED
                BY <4>2, <4>3
        <3>9. \A d \in Clients : s \notin conn[d] => M[d][s] = {}
            BY <2>1, <2>3, <3>1 DEF Ledger
        <3>10. \A d \in Clients, e \in Clients : d # e => M[d][s] \cap M[e][s] = {}
            <4>1. \A d \in Clients : M[d][s] \subseteq K[d][s]
                BY <3>1
            <4>2. \A d \in Clients, e \in Clients : d # e => K[d][s] \cap K[e][s] = {}
                BY <2>1, <2>3 DEF Ledger
            <4>3. QED
                BY <4>1, <4>2
        <3>11. files[s] \subseteq Names \X Parts
            BY <2>1, <2>3 DEF Ledger
        <3>12. QED
            BY <2>3, <3>8, <3>9, <3>10, <3>11 DEF Ledger
    <2>4. QED
        BY <2>2, <2>3
<1>4. QED
    BY <1>2, <1>3

LEMMA FlushSync ==
    ASSUME TypeOK, NEW c \in Clients, NEW s \in conn[c], PutFlush(c, s), Opened,
           NEW K \in [Clients -> [Servers -> SUBSET Keys]], Linked(K), Book(K)
    PROVE  \E M \in [Clients -> [Servers -> SUBSET Keys]] : Linked(M)' /\ Book(M)'
<1>1. s \in Servers /\ ThreadStep(c, s) /\ ~PutNum(c, s)
    BY DEF TypeOK, ThreadStep, PutFlush, PutNum
<1>2. client' = client /\ conn' = conn /\ puts' = puts /\ sent' = sent /\ files' = files
    BY <1>1, ThreadApart, ThreadDisk
<1>3. CASE c \in Good
    <2>1. PICK A \in SUBSET Keys : A = K[c][s]
        BY <1>1
    <2>2. LinkOf(c, s, A)
        BY <1>3, <2>1, SMTT(30) DEF Linked
    <2>3. PICK k \in A, L \in SUBSET A :
            /\ LinkOf(c, s, L)'
            /\ AllLocalOnce => L = A \ {k}
            /\ k = <<thread[c][s].name, thread[c][s].num>> /\ k \in Names \X Parts
            /\ store' = [store EXCEPT ![s][k] = @ \o PartOf(Contents[k[1]], k[2])]
        <3>1. FlushedTo(c, s, A)
            BY <2>2, PutFlushLinks, Zenon
        <3>2. QED
            BY <3>1, Zenon DEF FlushedTo
    <2>4. PICK M : M = [K EXCEPT ![c][s] = L]
        OBVIOUS
    <2>5. /\ M[c][s] = L
          /\ \A d \in Clients, u \in Servers : (d # c \/ u # s) => M[d][u] = K[d][u]
          /\ M \in [Clients -> [Servers -> SUBSET Keys]]
        BY <1>1, <2>4
    <2>6. ASSUME NEW d \in Good, NEW u \in conn[d]
          PROVE  LinkOf(d, u, M[d][u])'
        <3>1. d \in Clients /\ u \in Servers /\ LinkOf(d, u, K[d][u])
            BY DEF Good, TypeOK, Linked
        <3>2. CASE d = c /\ u = s
            BY <2>3, <2>5, <3>2
        <3>3. CASE d # c \/ u # s
            <4>1. LinkOf(d, u, K[d][u])'
                BY <1>1, <3>1, <3>3, OtherLinks
            <4>2. QED
                BY <2>5, <3>1, <3>3, <4>1
        <3>4. QED
            BY <3>2, <3>3
    <2>7. Linked(M)'
        BY <1>2, <2>6, SMTT(30) DEF Linked
    <2>8. Book(M)'
        <3>1. CASE AllLocalOnce
            <4>1. thread[c][s].pc = "flush"
                BY SMTT(30) DEF PutFlush
            <4>2. k \in files[s]
                BY <1>1, <2>3, <4>1, Zenon DEF Opened
            <4>3. k \in K[c][s] /\ M = [K EXCEPT ![c][s] = K[c][s] \ {k}]
                BY <2>1, <2>3, <2>4, <3>1
            <4>4. QED
                BY <1>1, <1>2, <2>3, <4>2, <4>3, FlushBook, ZenonT(60)
        <3>2. CASE ~AllLocalOnce
            BY <3>2 DEF Book
        <3>3. QED
            BY <3>1, <3>2, SMTT(30)
    <2>9. QED
        BY <2>5, <2>7, <2>8
<1>4. CASE c \notin Good
    <2>1. ASSUME NEW d \in Good, NEW u \in conn[d]
          PROVE  LinkOf(d, u, K[d][u])'
        <3>1. d \in Clients /\ u \in Servers /\ LinkOf(d, u, K[d][u]) /\ d # c
            BY <1>4 DEF Good, TypeOK, Linked
        <3>2. QED
            BY <1>1, <3>1, OtherLinks
    <2>2. Linked(K)'
        BY <1>2, <2>1 DEF Linked
    <2>3. Book(K)'
        BY <1>4 DEF Book, AllLocalOnce, Good
    <2>4. QED
        BY <2>2, <2>3
<1>5. QED
    BY <1>3, <1>4

LEMMA ThreadSync ==
    ASSUME TypeOK, NEW c \in Clients, NEW s \in conn[c], ThreadStep(c, s), AtReached, Opened,
           NEW K \in [Clients -> [Servers -> SUBSET Keys]], Linked(K), Book(K)
    PROVE  /\ AtReached'
           /\ \E M \in [Clients -> [Servers -> SUBSET Keys]] : Linked(M)' /\ Book(M)'
<1>1. /\ s \in Servers
      /\ client' = client /\ conn' = conn /\ puts' = puts /\ sent' = sent
    BY ThreadApart DEF TypeOK
<1>2. AtReached'
    BY <1>1 DEF AtReached
<1>3. CASE PutFlush(c, s)
    BY <1>2, <1>3, FlushSync
<1>4. CASE ~PutFlush(c, s)
    <2>1. ASSUME NEW d \in Good, NEW u \in conn[d]
          PROVE  LinkOf(d, u, K[d][u])'
        <3>1. d \in Clients /\ u \in Servers
            BY DEF Good, TypeOK
        <3>2. PICK L : L = K[d][u]
            OBVIOUS
        <3>3. LinkOf(d, u, L)
            BY <3>2 DEF Linked
        <3>4. CASE d = c /\ u = s
            BY <1>4, <3>2, <3>3, <3>4, ThreadLinks
        <3>5. CASE d # c \/ u # s
            BY <1>1, <3>1, <3>2, <3>3, <3>5, OtherLinks
        <3>6. QED
            BY <3>4, <3>5
    <2>2. Linked(K)'
        BY <1>1, <2>1 DEF Linked
    <2>3. Book(K)'
        <3>1. CASE AllLocalOnce /\ PutNum(c, s)
            <4>1. c \in Good
                BY <3>1 DEF AllLocalOnce, Good
            <4>2. PICK A : A = K[c][s]
                OBVIOUS
            <4>3. LinkOf(c, s, A)
                BY <4>1, <4>2 DEF Linked
            <4>4. PICK k \in A : files' = [files EXCEPT ![s] = @ \cup {k}] /\ k \in Names \X Parts
                BY <3>1, <4>3, PutNumLinks
            <4>5. store' = store
                BY <3>1 DEF PutNum
            <4>6. k \in K[c][s]
                BY <4>2, <4>4
            <4>7. QED
                BY <1>1, <4>4, <4>5, <4>6, NumBook
        <3>2. CASE ~PutNum(c, s)
            <4>1. files' = files /\ store' = store
                BY <1>1, <1>4, <3>2, ThreadDisk
            <4>2. QED
                BY <1>1, <4>1, BookSame
        <3>3. CASE ~AllLocalOnce
            BY <3>3 DEF Book
        <3>4. QED
            BY <3>1, <3>2, <3>3
    <2>4. QED
        BY <1>2, <2>2, <2>3
<1>5. QED
    BY <1>3, <1>4

\* The connections start idle and the disks with what was sent.
LEMMA InitSync ==
    ASSUME Init
    PROVE  Sync
<1>1. PICK K : K = [c \in Clients |-> [s \in Servers |-> {}]]
    OBVIOUS
<1>2. K \in [Clients -> [Servers -> SUBSET Keys]] /\ \A c \in Clients, s \in Servers : K[c][s] = {}
    BY <1>1
<1>3. TypeOK
    BY InitTypes
<1>4. AtReached /\ Opened
    BY DEF Init, AtReached, Opened, Good, AtMenu, Idle
<1>5. ASSUME NEW c \in Good, NEW s \in conn[c]
      PROVE  LinkOf(c, s, K[c][s])
    <2>1. c \in Clients /\ s \in Servers
        BY <1>3 DEF Good, TypeOK
    <2>2. /\ client[c].pc = "menu" /\ thread[c][s].pc = "cmd"
          /\ c2s[c][s] = <<>> /\ s2c[c][s] = <<>>
        BY <2>1 DEF Init, AtMenu, Idle
    <2>3. Busy(thread[c][s], <<>>, <<>>, {})
        BY <2>2, BusyDone
    <2>4. Link(client[c], s, thread[c][s], <<>>, <<>>, {})
        BY <2>2, <2>3, LinkIdle
    <2>5. QED
        BY <1>2, <2>1, <2>2, <2>4 DEF LinkOf
<1>6. Linked(K)
    BY <1>5 DEF Linked
<1>7. PICK old \in Preloads :
        /\ files = [s \in Servers |-> {k \in Names \X Parts :
                        k[2] \in Holds(old[k[1]].layout, s) \ old[k[1]].lost}]
        /\ puts = [f \in Names |-> IF old[f].layout = -1 THEN 0 ELSE 1]
    BY DEF Init
<1>8. /\ sent = {e \in Servers \X (Names \X Parts) : e[2] \in files[e[1]]}
      /\ store = [s \in Servers |-> [k \in Keys |->
                    IF k \in files[s] THEN PartOf(Contents[k[1]], k[2]) ELSE <<>>]]
    BY DEF Init
<1>9. OncePut
    <2>1. ASSUME NEW f \in Names, puts[f] = 0, NEW s \in Servers, NEW p \in Parts
          PROVE  <<s, <<f, p>>>> \notin sent
        <3>1. old[f].layout = -1
            BY <1>7, <2>1
        <3>2. Holds(-1, s) = {}
            BY DEF Holds, Uploads
        <3>3. <<f, p>> \notin files[s]
            BY <1>7, <3>1, <3>2
        <3>4. QED
            BY <1>8, <3>3
    <2>2. QED
        BY <2>1 DEF OncePut
<1>10. ASSUME NEW s \in Servers
       PROVE  Ledger(s, K)
    <2>1. files[s] \subseteq Names \X Parts /\ Names \X Parts \subseteq Keys
        BY <1>7 DEF Keys, Parts
    <2>2. \A k \in Names \X Parts : <<s, k>> \in sent <=> k \in files[s]
        BY <1>8
    <2>3. \A k \in Names \X Parts :
            store[s][k] = IF k \in files[s] THEN PartOf(Contents[k[1]], k[2]) ELSE <<>>
        BY <1>8, <2>1
    <2>4. QED
        BY <1>2, <2>1, <2>2, <2>3 DEF Ledger
<1>11. Book(K)
    BY <1>9, <1>10 DEF Book
<1>12. QED
    BY <1>2, <1>4, <1>6, <1>11 DEF Sync

\* Every step keeps them in step.
LEMMA NextSync ==
    ASSUME Hashes \subseteq 0..3, TypeOK, Sync, [Next]_vars
    PROVE  Sync'
<1>1. AtReached /\ Opened
    BY DEF Sync
<1>2. PICK K \in [Clients -> [Servers -> SUBSET Keys]] : Linked(K) /\ Book(K)
    BY DEF Sync
<1>3. Opened'
    BY <1>1, NextOpened
<1>4. CASE \E c \in Clients : Quiet(c)
    <2>1. AtReached' /\ Linked(K)' /\ Book(K)'
        BY <1>1, <1>2, <1>4, QuietSync
    <2>2. QED
        BY <1>3, <2>1 DEF Sync
<1>5. CASE \E c \in Clients, f \in Names, h \in Hashes : Put(c, f, h)
    <2>1. /\ AtReached'
          /\ \E M \in [Clients -> [Servers -> SUBSET Keys]] : Linked(M)' /\ Book(M)'
        BY <1>1, <1>2, <1>5, PutSync
    <2>2. QED
        BY <1>3, <2>1 DEF Sync
<1>6. CASE \E c \in Clients, s \in Servers : s \in conn[c] /\ ThreadStep(c, s)
    <2>1. /\ AtReached'
          /\ \E M \in [Clients -> [Servers -> SUBSET Keys]] : Linked(M)' /\ Book(M)'
        BY <1>1, <1>2, <1>6, ThreadSync
    <2>2. QED
        BY <1>3, <2>1 DEF Sync
<1>7. CASE UNCHANGED vars
    <2>1. Linked(K)' /\ Book(K)'
        BY <1>2, <1>7 DEF vars, hvars, Linked, LinkOf, Book, OncePut, Ledger
    <2>2. AtReached'
        BY <1>1, <1>7 DEF vars, AtReached
    <2>3. QED
        BY <1>3, <2>1, <2>2 DEF Sync
<1>8. QED
    BY <1>4, <1>5, <1>6, <1>7 DEF Next, Quiet

\* At its prompt, with nothing in flight, a client finds the thread idle.
LEMMA SyncInStep ==
    ASSUME TypeOK, Sync
    PROVE  InStep
<1>1. PICK K \in [Clients -> [Servers -> SUBSET Keys]] : Linked(K)
    BY DEF Sync
<1>2. SUFFICES ASSUME NEW c \in Clients, NEW s \in conn[c], Local[c] = Names,
                      client[c].pc = "menu", c2s[c][s] = <<>>, thread[c][s].pc # "flush"
               PROVE  thread[c][s].pc = "cmd" /\ s2c[c][s] = <<>>
    BY DEF InStep
<1>3. PICK L : L = K[c][s]
    OBVIOUS
<1>4. Link(client[c], s, thread[c][s], <<>>, s2c[c][s], L)
    BY <1>1, <1>2, <1>3 DEF Linked, Good, LinkOf
<1>5. s2c[c][s] = <<>> /\ Busy(thread[c][s], <<>>, <<>>, L)
    BY <1>2, <1>4, LinkMenu
<1>6. thread[c][s] \in Thread /\ <<>> \in Seq(Byte)
    BY ConnFacts, EmptySeq
<1>7. QED
    BY <1>2, <1>5, <1>6, BusyEmpty

\* At rest the disks hold what was sent.
LEMMA SyncStored ==
    ASSUME AllLocalOnce, TypeOK, Sync
    PROVE  StoredExactly
<1>1. PICK K \in [Clients -> [Servers -> SUBSET Keys]] : Linked(K) /\ Book(K)
    BY DEF Sync
<1>2. SUFFICES ASSUME NEW s \in Servers, AtRest(s)
               PROVE  /\ files[s] = {k \in Names \X Parts : <<s, k>> \in sent}
                      /\ \A k \in files[s] : store[s][k] = PartOf(Contents[k[1]], k[2])
    BY DEF StoredExactly
<1>3. Ledger(s, K)
    BY <1>1 DEF Book
<1>4. ASSUME NEW c \in Clients
      PROVE  K[c][s] = {}
    <2>1. CASE s \notin conn[c]
        BY <1>3, <2>1 DEF Ledger
    <2>2. CASE s \in conn[c]
        <3>1. c \in Good
            BY DEF AllLocalOnce, Good
        <3>2. PICK L : L = K[c][s]
            OBVIOUS
        <3>3. c2s[c][s] = <<>> /\ thread[c][s].pc \in {"cmd", "spin"} /\ thread[c][s] \in Thread
            BY <1>2, <2>2, ConnFacts DEF AtRest
        <3>4. Link(client[c], s, thread[c][s], <<>>, s2c[c][s], L)
            BY <1>1, <2>2, <3>1, <3>2, <3>3 DEF Linked, LinkOf
        <3>5. ASSUME NEW E \in Seq(Byte), Busy(thread[c][s], <<>>, E, L)
              PROVE  L = {}
            <4>1. thread[c][s].pc # "flush"
                BY <3>3
            <4>2. QED
                BY <3>3, <3>5, <4>1, BusyEmpty
        <3>6. L = {}
            BY <3>4, <3>5 DEF Link
        <3>7. QED
            BY <3>2, <3>6
    <2>3. QED
        BY <2>1, <2>2
<1>5. files[s] \subseteq Names \X Parts
    BY <1>3 DEF Ledger
<1>6. \A k \in Names \X Parts :
        /\ <<s, k>> \in sent <=> k \in files[s]
        /\ store[s][k] = IF k \in files[s] THEN PartOf(Contents[k[1]], k[2]) ELSE <<>>
    BY <1>3, <1>4 DEF Ledger
<1>7. QED
    BY <1>5, <1>6

\* The two ends of every connection stay in step, however many clients there
\* are and whatever they send: a client that has its files, back at its prompt
\* with nothing in flight, finds the thread at the top of its loop with nothing
\* to say (client.c:246, server.c:122).  The hashes are those that have a branch
\* in PUT: after a negative one, which atoi can return for a digest that starts
\* with many digits, the client writes the name and none of the pieces, and the
\* two ends are out of step for good (client.c:280, 299-563).
THEOREM ConnectionsInStep ==
    ASSUME Hashes \subseteq 0..3
    PROVE  Spec => []InStep
<1>1. Init => Sync
    BY InitSync
<1>2. TypeOK /\ Sync /\ [Next]_vars => Sync'
    BY NextSync
<1>3. TypeOK /\ Sync => InStep
    BY SyncInStep
<1>4. QED
    BY <1>1, <1>2, <1>3, TypeCorrect, PTL DEF Spec

\* A server at rest has exactly the piece files it was sent, with the bytes of
\* those pieces, when every client has its files and no name is PUT twice
\* (server.c:145-178): PUTs of many clients that interleave lose nothing, mix
\* nothing and leave nothing behind.
THEOREM DisksHoldWhatWasSent ==
    ASSUME Hashes \subseteq 0..3, AllLocalOnce
    PROVE  Spec => []StoredExactly
<1>1. Init => Sync
    BY InitSync
<1>2. TypeOK /\ Sync /\ [Next]_vars => Sync'
    BY NextSync
<1>3. TypeOK /\ Sync => StoredExactly
    BY SyncStored
<1>4. QED
    BY <1>1, <1>2, <1>3, TypeCorrect, PTL DEF Spec
-----------------------------------------------------------------------------
(* What GET writes.  G[f] is the set of the pieces of f in the output.     *)

\* The pieces in G of file f, in their order.
Gather(f, G) == Join([p \in Parts |-> IF p \in G THEN PartOf(Contents[f], p) ELSE <<>>])

\* What a server may answer for a piece.
Answers(f, p) == {<<Text("NO")>>, <<>>, PartOf(Contents[f], p)}

\* In the loops of GET the pieces before the current one were dealt with, and
\* the current one is marked when it was written.
Gathers(me, g, G) ==
    /\ \A f \in Names :
        /\ me.out[f] = Gather(f, G[f])
        /\ g[f] = 0 => G[f] = {}
    /\ me.pc \in {"collect", "fetch", "reply"} => g[me.file] # 0
    /\ me.pc = "collect" => G[me.file] = {}
    /\ me.pc \in {"fetch", "reply"} =>
        /\ G[me.file] \subseteq 1..me.part
        /\ me.part \in G[me.file] => me.part \in me.marks

\* The client has asked for a piece it does not have, and what is answered.
Answering(me, r) ==
    me.pc = "reply" =>
        /\ me.part \notin me.marks
        /\ r[me.at] = <<>> \/ \E d \in Answers(me.file, me.part) : r[me.at] = Prefixed(d)

Fetched ==
    \A c \in Clients :
        /\ Answering(client[c], s2c[c])
        /\ \E G \in [Names -> SUBSET Parts] : Gathers(client[c], gets[c], G)

\* The four pieces of the output, those that are missing empty.
Slot(f, G, p) == IF p \in G THEN PartOf(Contents[f], p) ELSE <<>>

Slots(f, G, a, b, d, e) ==
    /\ Gather(f, G) = a \o b \o d \o e
    /\ a = Slot(f, G, 1) /\ b = Slot(f, G, 2) /\ d = Slot(f, G, 3) /\ e = Slot(f, G, 4)

LEMMA GatherIs ==
    ASSUME NEW f \in Names, NEW G
    PROVE  \E a \in Seq(Byte), b \in Seq(Byte), d \in Seq(Byte), e \in Seq(Byte) :
              Slots(f, G, a, b, d, e)
<1>1. \A p \in Parts : Slot(f, G, p) \in Seq(Byte)
    BY SizeType, EmptySeq DEF Slot
<1>2. PICK T : T = [p \in Parts |-> IF p \in G THEN PartOf(Contents[f], p) ELSE <<>>]
    OBVIOUS
<1>3. \A p \in Parts : T[p] = Slot(f, G, p)
    BY <1>2 DEF Slot
<1>4. Gather(f, G) = T[1] \o T[2] \o T[3] \o T[4]
    BY <1>2 DEF Gather, Join
<1>5. 1 \in Parts /\ 2 \in Parts /\ 3 \in Parts /\ 4 \in Parts
    BY DEF Parts
<1>6. Slots(f, G, Slot(f, G, 1), Slot(f, G, 2), Slot(f, G, 3), Slot(f, G, 4))
    BY <1>3, <1>4, <1>5 DEF Slots
<1>7. QED
    BY <1>1, <1>5, <1>6, Zenon

\* Nothing is written at first, ...
LEMMA GatherNone ==
    ASSUME NEW f \in Names
    PROVE  Gather(f, {}) = <<>>
<1>1. PICK a \in Seq(Byte), b \in Seq(Byte), d \in Seq(Byte), e \in Seq(Byte) :
        Slots(f, {}, a, b, d, e)
    BY GatherIs, Zenon
<1>2. a = <<>> /\ b = <<>> /\ d = <<>> /\ e = <<>>
    BY <1>1 DEF Slots, Slot
<1>3. PICK o \in Seq(Byte) : o = <<>>
    BY EmptySeq
<1>4. o \o o = o
    BY <1>3, ConcatEmptySeq
<1>5. QED
    BY <1>1, <1>2, <1>3, <1>4 DEF Slots

\* ... and a piece is added after those before it.
LEMMA GatherMore ==
    ASSUME NEW f \in Names, NEW p \in 1..4, NEW G, G \subseteq 1..p, p \notin G,
           NEW H, H = G \cup {p}
    PROVE  Gather(f, H) = Gather(f, G) \o PartOf(Contents[f], p)
<1>1. PICK a \in Seq(Byte), b \in Seq(Byte), d \in Seq(Byte), e \in Seq(Byte) :
        Slots(f, G, a, b, d, e)
    BY GatherIs, Zenon
<1>2. PICK u \in Seq(Byte), v \in Seq(Byte), w \in Seq(Byte), x \in Seq(Byte) :
        Slots(f, H, u, v, w, x)
    BY GatherIs, Zenon
<1>3. PICK P \in Seq(Byte), o \in Seq(Byte) : P = PartOf(Contents[f], p) /\ o = <<>>
    BY SizeType, EmptySeq DEF Parts
<1>4. \A i \in 1..4 : /\ i < p => Slot(f, H, i) = Slot(f, G, i)
                      /\ i = p => Slot(f, H, i) = P /\ Slot(f, G, i) = o
                      /\ i > p => Slot(f, H, i) = o /\ Slot(f, G, i) = o
    BY <1>3 DEF Slot
<1>5. PICK ab \in Seq(Byte), abd \in Seq(Byte) : ab = a \o b /\ abd = ab \o d
    BY ConcatProperties
<1>6. \A z \in Seq(Byte) : z \o o = z /\ o \o z = z
    BY <1>3, ConcatEmptySeq
<1>7. Gather(f, G) = a \o b \o d \o e /\ Gather(f, H) = u \o v \o w \o x
    BY <1>1, <1>2 DEF Slots
<1>8. CASE p = 1
    <2>1. a = o /\ b = o /\ d = o /\ e = o /\ u = P /\ v = o /\ w = o /\ x = o
        BY <1>1, <1>2, <1>4, <1>8 DEF Slots
    <2>2. Gather(f, G) = o /\ Gather(f, H) = P
        BY <1>6, <1>7, <2>1, Zenon
    <2>3. QED
        BY <1>3, <1>6, <2>2
<1>9. CASE p = 2
    <2>1. b = o /\ d = o /\ e = o /\ u = a /\ v = P /\ w = o /\ x = o
        BY <1>1, <1>2, <1>4, <1>9 DEF Slots
    <2>2. PICK aP \in Seq(Byte) : aP = a \o P
        BY ConcatProperties
    <2>3. Gather(f, G) = a /\ Gather(f, H) = aP
        BY <1>6, <1>7, <2>1, <2>2, Zenon
    <2>4. QED
        BY <1>3, <2>2, <2>3
<1>10. CASE p = 3
    <2>1. d = o /\ e = o /\ u = a /\ v = b /\ w = P /\ x = o
        BY <1>1, <1>2, <1>4, <1>10 DEF Slots
    <2>2. PICK aP \in Seq(Byte) : aP = ab \o P
        BY ConcatProperties
    <2>3. Gather(f, G) = ab /\ Gather(f, H) = aP
        BY <1>5, <1>6, <1>7, <2>1, <2>2, Zenon
    <2>4. QED
        BY <1>3, <2>2, <2>3
<1>11. CASE p = 4
    <2>1. e = o /\ u = a /\ v = b /\ w = d /\ x = P
        BY <1>1, <1>2, <1>4, <1>11 DEF Slots
    <2>2. Gather(f, G) = abd /\ Gather(f, H) = abd \o P
        BY <1>5, <1>6, <1>7, <2>1, Zenon
    <2>3. QED
        BY <1>3, <2>2
<1>12. p = 1 \/ p = 2 \/ p = 3 \/ p = 4
    OBVIOUS
<1>13. QED
    BY <1>8, <1>9, <1>10, <1>11, <1>12, Zenon

\* The steps that write nothing to the output.
LEMMA GathersKept ==
    ASSUME NEW me, NEW x, NEW g, NEW G, Gathers(me, g, G), x.out = me.out,
           x.pc \in {"collect", "fetch", "reply"} =>
                me.pc \in {"collect", "fetch", "reply"} /\ x.file = me.file,
           x.pc = "collect" => me.pc = "collect",
           x.pc \in {"fetch", "reply"} => x.part \in 1..4,
           x.pc \in {"fetch", "reply"} /\ me.pc # "collect" =>
                /\ me.pc \in {"fetch", "reply"} /\ me.part \in 1..4
                /\ x.part >= me.part /\ me.marks \subseteq x.marks
    PROVE  Gathers(x, g, G)
<1>1. \A f \in Names : x.out[f] = Gather(f, G[f]) /\ (g[f] = 0 => G[f] = {})
    BY DEF Gathers
<1>2. /\ x.pc \in {"collect", "fetch", "reply"} => g[x.file] # 0
      /\ x.pc = "collect" => G[x.file] = {}
    BY DEF Gathers
<1>3. ASSUME x.pc \in {"fetch", "reply"}
      PROVE  G[x.file] \subseteq 1..x.part /\ (x.part \in G[x.file] => x.part \in x.marks)
    <2>1. CASE me.pc = "collect"
        BY <1>3, <2>1 DEF Gathers
    <2>2. CASE me.pc # "collect"
        <3>1. G[me.file] \subseteq 1..me.part /\ (me.part \in G[me.file] => me.part \in me.marks)
            BY <1>3, <2>2 DEF Gathers
        <3>2. QED
            BY <1>3, <2>2, <3>1
    <2>3. QED
        BY <2>1, <2>2
<1>4. QED
    BY <1>1, <1>2, <1>3 DEF Gathers

\* What comes after a piece was asked of a server.
LEMMA AfterAskIs ==
    ASSUME NEW c, NEW me \in Client, NEW n, n = FirstFrom(c, me.at + 1),
           NEW y, y = AfterAsk(c, me)
    PROVE  /\ y.out = me.out /\ y.file = me.file /\ y.marks = me.marks
           /\ n # 4 => y.pc = "fetch" /\ y.at = n /\ y.part = me.part
           /\ n = 4 /\ me.part < 4 =>
                y.pc = "fetch" /\ y.at = FirstFrom(c, 0) /\ y.part = me.part + 1
           /\ n = 4 /\ ~(me.part < 4) => y.pc = "menu"
<1>1. PICK n0 : n0 = FirstFrom(c, 0)
    OBVIOUS
<1>2. y = IF n # 4 THEN [me EXCEPT !.pc = "fetch", !.at = n]
          ELSE IF me.part < 4 THEN [me EXCEPT !.pc = "fetch", !.at = n0, !.part = me.part + 1]
          ELSE [me EXCEPT !.pc = "menu"]
    BY <1>1 DEF AfterAsk
<1>3. QED
    BY <1>1, <1>2 DEF Client

\* The output of a client after a step of its.
Gotten(c) ==
    /\ Answering(client'[c], s2c'[c])
    /\ \E G \in [Names -> SUBSET Parts] : Gathers(client'[c], gets'[c], G)

\* LIST, its loop and the end leave it alone.
LEMMA OtherGathers ==
    ASSUME TypeOK, NEW c \in Clients, List(c) \/ ListRead(c) \/ Quit(c),
           NEW G \in [Names -> SUBSET Parts], Gathers(client[c], gets[c], G)
    PROVE  Gotten(c)
<1>1. client[c] \in Client
    BY DEF TypeOK
<1>2. /\ client'[c].out = client[c].out /\ client'[c].pc \in {"list", "menu", "ub", "gone"}
      /\ gets' = gets
    <2>1. CASE List(c)
        BY <1>1, <2>1 DEF List, TypeOK, Client
    <2>2. CASE ListRead(c)
        <3>1. PICK e, n, v :
                \/ client' = [client EXCEPT ![c] = [client[c] EXCEPT !.entries = e]]
                \/ client' = [client EXCEPT ![c] = [client[c] EXCEPT !.pc = "ub"]]
                \/ client' = [client EXCEPT ![c] = [client[c] EXCEPT !.at = n]]
                \/ client' = [client EXCEPT ![c] = [client[c] EXCEPT !.pc = "menu", !.shown = v]]
            BY <2>2 DEF ListRead
        <3>2. client[c].pc = "list" /\ gets' = gets
            BY <2>2 DEF ListRead, hvars
        <3>3. PICK me \in Client : me = client[c]
            BY <1>1
        <3>4. \/ client'[c] = [me EXCEPT !.entries = e]
              \/ client'[c] = [me EXCEPT !.pc = "ub"]
              \/ client'[c] = [me EXCEPT !.at = n]
              \/ client'[c] = [me EXCEPT !.pc = "menu", !.shown = v]
            BY <3>1, <3>3, Zenon DEF TypeOK
        <3>5. client'[c].out = me.out /\ client'[c].pc \in {"list", "menu", "ub", "gone"}
            BY <3>2, <3>3, <3>4 DEF Client
        <3>6. QED
            BY <3>2, <3>3, <3>5
    <2>3. CASE Quit(c)
        BY <1>1, <2>3 DEF Quit, TypeOK, Client, hvars
    <2>4. QED
        BY <2>1, <2>2, <2>3
<1>3. Gathers(client'[c], gets[c], G)
    BY <1>2, GathersKept
<1>4. Answering(client'[c], s2c'[c])
    BY <1>2 DEF Answering
<1>5. QED
    BY <1>2, <1>3, <1>4 DEF Gotten

\* The command: the first of its file, of which nothing was written.
LEMMA GetGathers ==
    ASSUME TypeOK, MaxGets <= 1, NEW c \in Clients, NEW f \in Names, Get(c, f),
           NEW G \in [Names -> SUBSET Parts], Gathers(client[c], gets[c], G)
    PROVE  Gotten(c)
<1>1. client[c] \in Client
    BY DEF TypeOK
<1>2. client'[c].out = client[c].out /\ client'[c].pc = "collect" /\ client'[c].file = f
    BY <1>1 DEF Get, TypeOK, Client
<1>3. gets[c][f] = 0
    BY BoundsAssumption DEF Get, TypeOK
<1>4. gets'[c][f] = 1 /\ \A h \in Names : h # f => gets'[c][h] = gets[c][h]
    BY <1>3 DEF Get, TypeOK
<1>5. G[f] = {}
    BY <1>3 DEF Gathers
<1>6. Gathers(client'[c], gets'[c], G)
    BY <1>2, <1>4, <1>5 DEF Gathers
<1>7. Answering(client'[c], s2c'[c])
    BY <1>2 DEF Answering
<1>8. QED
    BY <1>6, <1>7 DEF Gotten

\* The piece numbers.
LEMMA CollectGathers ==
    ASSUME TypeOK, NEW c \in Clients, Collect(c),
           NEW G \in [Names -> SUBSET Parts], Gathers(client[c], gets[c], G)
    PROVE  Gotten(c)
<1>1. client[c] \in Client
    BY DEF TypeOK
<1>2. PICK m, n, n0 :
        \/ client' = [client EXCEPT ![c] = [client[c] EXCEPT !.marks = m]]
        \/ client' = [client EXCEPT ![c] = [client[c] EXCEPT !.pc = "ub"]]
        \/ client' = [client EXCEPT ![c] = [client[c] EXCEPT !.at = n]]
        \/ client' = [client EXCEPT ![c] = [client[c] EXCEPT !.pc = "fetch", !.at = n0,
                                                             !.part = 1, !.marks = {}]]
        \/ client' = [client EXCEPT ![c] = [client[c] EXCEPT !.pc = "menu"]]
    <2>1. PICK n : n = FirstFrom(c, client[c].at + 1)
        OBVIOUS
    <2>2. PICK m : m = client[c].marks \cup {Number(Message(s2c[c][client[c].at]))}
        OBVIOUS
    <2>3. PICK n0 : n0 = FirstFrom(c, 0)
        OBVIOUS
    <2>4. QED
        BY <2>1, <2>2, <2>3, Zenon DEF Collect
<1>3. client[c].pc = "collect" /\ gets' = gets
    BY DEF Collect, hvars
<1>4. /\ client'[c].out = client[c].out
      /\ client'[c].pc \in {"collect", "fetch"} => client'[c].file = client[c].file
      /\ client'[c].pc = "fetch" => client'[c].part = 1
      /\ client'[c].pc \in {"collect", "fetch", "menu", "ub"}
    <2>1. PICK me \in Client : me = client[c]
        BY <1>1
    <2>2. \/ client'[c] = [me EXCEPT !.marks = m]
          \/ client'[c] = [me EXCEPT !.pc = "ub"]
          \/ client'[c] = [me EXCEPT !.at = n]
          \/ client'[c] = [me EXCEPT !.pc = "fetch", !.at = n0, !.part = 1, !.marks = {}]
          \/ client'[c] = [me EXCEPT !.pc = "menu"]
        BY <1>2, <2>1, Zenon DEF TypeOK
    <2>3. QED
        BY <1>3, <2>1, <2>2 DEF Client
<1>5. Gathers(client'[c], gets[c], G)
    BY <1>3, <1>4, GathersKept
<1>6. Answering(client'[c], s2c'[c])
    BY <1>4 DEF Answering
<1>7. QED
    BY <1>3, <1>5, <1>6 DEF Gotten

\* The end of an iteration of the loop over the servers.
LEMMA AfterAskGathers ==
    ASSUME NEW c, NEW me \in Client, me.pc \in {"fetch", "reply"}, NEW g, NEW G,
           Gathers(me, g, G), NEW y, y = AfterAsk(c, me)
    PROVE  Gathers(y, g, G) /\ y.pc \in {"fetch", "menu"}
<1>1. PICK n : n = FirstFrom(c, me.at + 1)
    OBVIOUS
<1>2. /\ y.out = me.out /\ y.file = me.file /\ y.marks = me.marks
      /\ n # 4 => y.pc = "fetch" /\ y.part = me.part
      /\ n = 4 /\ me.part < 4 => y.pc = "fetch" /\ y.part = me.part + 1
      /\ n = 4 /\ ~(me.part < 4) => y.pc = "menu"
    BY <1>1, AfterAskIs
<1>3. me.part \in 1..4
    BY DEF Client, Parts
<1>4. y.pc \in {"fetch", "menu"} /\ (y.pc = "fetch" => y.part \in 1..4 /\ y.part >= me.part)
    BY <1>2, <1>3
<1>5. Gathers(y, g, G)
    BY <1>2, <1>3, <1>4, GathersKept
<1>6. QED
    BY <1>4, <1>5

\* A refusal.
LEMMA DeclineGathers ==
    ASSUME TypeOK, NEW c \in Clients, Decline(c),
           NEW G \in [Names -> SUBSET Parts], Gathers(client[c], gets[c], G)
    PROVE  Gotten(c)
<1>1. client[c] \in Client
    BY DEF TypeOK
<1>2. client[c].pc = "fetch" /\ client'[c] = AfterAsk(c, client[c]) /\ gets' = gets
    BY DEF Decline, TypeOK, hvars
<1>3. Gathers(client'[c], gets[c], G) /\ client'[c].pc \in {"fetch", "menu"}
    BY <1>1, <1>2, AfterAskGathers
<1>4. Answering(client'[c], s2c'[c])
    BY <1>3 DEF Answering
<1>5. QED
    BY <1>2, <1>3, <1>4 DEF Gotten

\* A request, on a connection on which nothing is to be read.
LEMMA AskGathers ==
    ASSUME TypeOK, NEW c \in Clients, Ask(c), client[c].at \in conn[c],
           NEW K, LinkOf(c, client[c].at, K),
           NEW G \in [Names -> SUBSET Parts], Gathers(client[c], gets[c], G)
    PROVE  Gotten(c)
<1>1. client[c] \in Client
    BY DEF TypeOK
<1>2. PICK me \in Client : me = client[c]
    BY <1>1
<1>3. PICK x : x = [me EXCEPT !.pc = "reply"]
    OBVIOUS
<1>4. /\ me.pc = "fetch" /\ me.part \notin me.marks /\ client'[c] = x
      /\ s2c' = s2c /\ gets' = gets
    BY <1>2, <1>3 DEF Ask, TypeOK, hvars
<1>5. /\ x.out = me.out /\ x.pc = "reply" /\ x.file = me.file /\ x.part = me.part
      /\ x.marks = me.marks /\ x.at = me.at /\ me.part \in 1..4
    BY <1>3 DEF Client, Parts
<1>6. s2c[c][me.at] = <<>>
    BY <1>2, <1>4, Fetching DEF LinkOf
<1>7. Gathers(x, gets[c], G)
    <2>1. x.part >= me.part
        BY <1>5
    <2>2. QED
        BY <1>2, <1>4, <1>5, <2>1, GathersKept
<1>8. Answering(x, s2c[c])
    BY <1>4, <1>5, <1>6 DEF Answering
<1>9. QED
    BY <1>4, <1>7, <1>8 DEF Gotten

\* What the answer adds to the output.
Adds(me, d, y) ==
    /\ d = <<Text("NO")>> => y = me
    /\ y.pc = me.pc /\ y.file = me.file /\ y.at = me.at /\ y.part = me.part
    /\ d # <<Text("NO")>> =>
        /\ y.marks = me.marks \cup {me.part}
        /\ y.out[me.file] = me.out[me.file] \o d
        /\ \A f \in Names : f # me.file => y.out[f] = me.out[f]

LEMMA ReceivedIs ==
    ASSUME NEW me \in Client, NEW d, NEW y, y = Received(me, d)
    PROVE  Adds(me, d, y)
<1>1. PICK m, o : m = me.marks \cup {me.part} /\ o = [me.out EXCEPT ![me.file] = @ \o d]
    OBVIOUS
<1>2. y = IF d = <<Text("NO")>> THEN me ELSE [me EXCEPT !.marks = m, !.out = o]
    BY <1>1 DEF Received
<1>3. me.file \in Names /\ me.out \in [Names -> Seq(Byte)]
    BY DEF Client
<1>4. /\ o[me.file] = me.out[me.file] \o d
      /\ \A f \in Names : f # me.file => o[f] = me.out[f]
    BY <1>1, <1>3
<1>5. /\ y.pc = me.pc /\ y.file = me.file /\ y.at = me.at /\ y.part = me.part
      /\ d # <<Text("NO")>> => y.marks = m /\ y.out = o
    BY <1>2 DEF Client
<1>6. QED
    BY <1>1, <1>2, <1>4, <1>5 DEF Adds

LEMMA ReceivedGathers ==
    ASSUME NEW me \in Client, me.pc = "reply", me.part \notin me.marks, NEW g,
           NEW G \in [Names -> SUBSET Parts], Gathers(me, g, G),
           NEW d, d \in Answers(me.file, me.part), NEW y, y = Received(me, d)
    PROVE  \E H \in [Names -> SUBSET Parts] : Gathers(y, g, H)
<1>1. /\ me.file \in Names /\ me.part \in Parts /\ me.part \in 1..4
      /\ me.out[me.file] \in Seq(Byte)
    BY DEF Client, Parts
<1>0. /\ d = <<Text("NO")>> => y = me
      /\ y.pc = me.pc /\ y.file = me.file /\ y.at = me.at /\ y.part = me.part
      /\ d # <<Text("NO")>> =>
            /\ y.marks = me.marks \cup {me.part}
            /\ y.out[me.file] = me.out[me.file] \o d
            /\ \A f \in Names : f # me.file => y.out[f] = me.out[f]
    BY ReceivedIs DEF Adds
<1>2. CASE d = <<Text("NO")>>
    BY <1>0, <1>2
<1>3. ASSUME d # <<Text("NO")>>, d = <<>>
      PROVE  Gathers(y, g, G)
    <2>1. me.out[me.file] \o d = me.out[me.file]
        BY <1>1, <1>3, ConcatEmptySeq
    <2>2. /\ y.pc = "reply" /\ y.file = me.file /\ y.part = me.part
          /\ me.part \in y.marks /\ \A f \in Names : y.out[f] = me.out[f]
        BY <1>0, <1>3, <2>1
    <2>3. QED
        BY <2>2 DEF Gathers
<1>4. ASSUME d # <<Text("NO")>>, d = PartOf(Contents[me.file], me.part)
      PROVE  \E H \in [Names -> SUBSET Parts] : Gathers(y, g, H)
    <2>1. PICK H : H = [G EXCEPT ![me.file] = @ \cup {me.part}]
        OBVIOUS
    <2>2. /\ H \in [Names -> SUBSET Parts] /\ H[me.file] = G[me.file] \cup {me.part}
          /\ \A f \in Names : f # me.file => H[f] = G[f]
        BY <1>1, <2>1
    <2>3. /\ y.pc = "reply" /\ y.file = me.file /\ y.part = me.part
          /\ me.part \in y.marks
          /\ y.out[me.file] = me.out[me.file] \o d
          /\ \A f \in Names : f # me.file => y.out[f] = me.out[f]
        BY <1>0, <1>4
    <2>4. /\ G[me.file] \subseteq 1..me.part /\ me.part \notin G[me.file]
          /\ g[me.file] # 0
          /\ \A f \in Names : me.out[f] = Gather(f, G[f]) /\ (g[f] = 0 => G[f] = {})
        BY DEF Gathers
    <2>5. Gather(me.file, H[me.file]) = Gather(me.file, G[me.file]) \o d
        <3>1. PICK f \in Names, p \in 1..4, A \in SUBSET Parts, B \in SUBSET Parts :
                f = me.file /\ p = me.part /\ A = G[f] /\ B = H[f]
            BY <1>1, <2>2
        <3>2. A \subseteq 1..p /\ p \notin A /\ B = A \cup {p}
            BY <2>2, <2>4, <3>1
        <3>3. Gather(f, B) = Gather(f, A) \o PartOf(Contents[f], p)
            BY <3>2, GatherMore, Zenon
        <3>4. QED
            BY <1>4, <3>1, <3>3
    <2>6. \A f \in Names : y.out[f] = Gather(f, H[f]) /\ (g[f] = 0 => H[f] = {})
        BY <1>1, <2>2, <2>3, <2>4, <2>5
    <2>7. H[me.file] \subseteq 1..me.part
        BY <1>1, <2>2, <2>4
    <2>8. Gathers(y, g, H)
        BY <2>3, <2>4, <2>6, <2>7 DEF Gathers
    <2>9. QED
        BY <2>2, <2>8
<1>5. QED
    BY <1>2, <1>3, <1>4 DEF Answers

\* The answer.
LEMMA ReplyGathers ==
    ASSUME TypeOK, NEW c \in Clients, Reply(c), Answering(client[c], s2c[c]),
           NEW G \in [Names -> SUBSET Parts], Gathers(client[c], gets[c], G)
    PROVE  Gotten(c)
<1>1. PICK me \in Client : me = client[c]
    BY DEF TypeOK
<1>2. PICK r \in Seq(Byte) : r = s2c[c][me.at]
    BY <1>1 DEF TypeOK, Client
<1>3. /\ me.pc = "reply" /\ r # <<>> /\ gets' = gets
      /\ client'[c] = AfterAsk(c, Received(me, Message(r)))
    BY <1>1, <1>2 DEF Reply, HasMessage, TypeOK, hvars
<1>4. me.part \notin me.marks /\ me.file \in Names /\ me.part \in Parts
    BY <1>1, <1>3 DEF Answering, Client
<1>5. PICK d \in Answers(me.file, me.part) : r = Prefixed(d)
    BY <1>1, <1>2, <1>3 DEF Answering
<1>6. d \in Seq(Byte)
    <2>1. <<Text("NO")>> \in Seq(Byte) /\ <<>> \in Seq(Byte)
        BY WordFacts, EmptySeq DEF Words
    <2>2. PartOf(Contents[me.file], me.part) \in Seq(Byte)
        BY <1>4, SizeType
    <2>3. QED
        BY <2>1, <2>2 DEF Answers
<1>7. Message(r) = d
    <2>1. LeadsOff(d, <<>>, r)
        BY <1>5, <1>6, FrontAlone
    <2>2. QED
        BY <2>1 DEF LeadsOff
<1>8. PICK y \in Client : y = Received(me, d)
    BY <1>6, ReceivedType
<1>9. y.pc = "reply"
    BY <1>3, <1>8, ReceivedIs DEF Adds
<1>10. PICK H \in [Names -> SUBSET Parts] : Gathers(y, gets[c], H)
    BY <1>1, <1>3, <1>4, <1>8, ReceivedGathers
<1>11. PICK z : z = AfterAsk(c, y)
    OBVIOUS
<1>12. Gathers(z, gets[c], H) /\ z.pc \in {"fetch", "menu"}
    BY <1>9, <1>10, <1>11, AfterAskGathers
<1>13. client'[c] = z
    BY <1>3, <1>7, <1>8, <1>11
<1>14. Answering(z, s2c'[c])
    BY <1>12 DEF Answering
<1>15. QED
    BY <1>3, <1>12, <1>13, <1>14 DEF Gotten

-----------------------------------------------------------------------------
(* What a thread answers.                                                  *)

\* LIST is read when the client waits for it.
LEMMA ListAsked ==
    ASSUME NEW me \in Client, NEW s \in Servers, NEW th \in Thread,
           NEW q \in Seq(Byte), NEW r \in Seq(Byte), NEW K,
           Link(me, s, th, q, r, K), th.pc = "cmd", q # <<>>,
           Says(Taken(q, MaxLine), "LIST")
    PROVE  K = {} /\ (me.pc = "ub" \/ (me.pc = "list" /\ s >= me.at /\ r = <<>>))
<1>0. Unread(me, s, q, r, K)
    BY AtCommand, Zenon
<1>1. PICK E \in Seq(Byte) :
        /\ Waits(me, s, E, r)
        /\ \/ q = E /\ K = {}
           \/ \E u \in Queues : StartsWithPut(u) /\ q = u[1] \o E /\ K = u[2]
    BY <1>0 DEF Unread
<1>2. "LIST" \in Words /\ "PUT" # "LIST" /\ "GET" # "LIST"
    BY DEF Words
<1>3. ASSUME NEW u \in Queues, StartsWithPut(u), q = u[1] \o E
      PROVE  FALSE
    <2>1. PICK x : x = [th EXCEPT !.pc = "name"]
        OBVIOUS
    <2>2. x.pc = "name"
        BY <2>1 DEF Thread
    <2>3. PICK y : Commands(q, "PUT", y)
        BY <1>3, <2>2, CommandPut, Zenon
    <2>4. QED
        BY <1>2, <2>3 DEF Commands
<1>4. ASSUME NEW f \in Names, q = GetWords(f)
      PROVE  FALSE
    <2>1. Commands(q, "GET", Asks(f))
        BY <1>4, CommandLast
    <2>2. QED
        BY <1>2, <2>1 DEF Commands
<1>5. q = E /\ K = {}
    BY <1>1, <1>3
<1>6. QED
    BY <1>1, <1>4, <1>5 DEF Waits

\* The name of GET is read when the client waits for the piece numbers.
LEMMA FileAsked ==
    ASSUME NEW me, NEW s, NEW th, NEW q, NEW r, NEW K, Link(me, s, th, q, r, K), th.pc = "file"
    PROVE  /\ K = {} /\ (me.pc = "ub" \/ (me.pc = "collect" /\ s >= me.at /\ r = <<>>))
           /\ me.pc = "collect" => Message(q)[1][2] = me.file
<1>1. ASSUME NEW E, Busy(th, q, E, K)
      PROVE  FALSE
    BY <1>1 DEF Busy, Rest, InPut, Fetches
<1>2. ~InFetch(me, s, th, q, r)
    BY DEF InFetch, Fetches
<1>3. K = {} /\ InLast(me, s, th, q, r)
    BY <1>1, <1>2 DEF Link
<1>4. PICK f \in Names :
        /\ q = Asks(f) /\ (me.pc = "collect" => f = me.file)
        /\ (me.pc = "ub" \/ (me.pc = "collect" /\ s >= me.at /\ r = <<>>))
    BY <1>3 DEF InLast
<1>5. PICK d \in Seq(Byte) : d = <<Name(f)>>
    BY WordFacts
<1>6. LeadsOff(d, <<>>, q)
    BY <1>4, <1>5, FrontAlone DEF Asks
<1>7. Message(q)[1][2] = f
    BY <1>5, <1>6 DEF LeadsOff, Name
<1>8. QED
    BY <1>3, <1>4, <1>7

\* A piece is named when the client waits for it.
LEMMA PieceAsked ==
    ASSUME NEW me \in Client, NEW s \in Servers, NEW th \in Thread,
           NEW q \in Seq(Byte), NEW r \in Seq(Byte), NEW K,
           Link(me, s, th, q, r, K), th.pc = "need", q # <<>>,
           Message(q) = <<Text("NEED")>>
    PROVE  /\ K = {} /\ r = <<>> /\ me.pc = "reply" /\ s = me.at
           /\ Message(AfterMessage(q))[1][2] = <<me.file, me.part>>
<1>1. Requests(me, s, th, q, r, K)
    BY PieceRequested
<1>2. PICK k \in Keys : k = <<me.file, me.part>> /\ q = Word("NEED") \o Prefixed(<<Piece(k)>>)
    BY <1>1 DEF Requests
<1>3. PICK y \in Seq(Byte), z \in Seq(Byte) : y = <<Text("NEED")>> /\ z = <<Piece(k)>>
    BY WordFacts DEF Words
<1>4. PICK B \in Seq(Byte) : B = Prefixed(z)
    BY PrefixedType
<1>5. q = Prefixed(y) \o B
    BY <1>2, <1>3, <1>4 DEF Word
<1>6. AfterMessage(q) = B
    <2>1. LeadsOff(y, B, q)
        BY <1>5, FrontOf
    <2>2. QED
        BY <2>1 DEF LeadsOff
<1>7. Message(B) = z
    <2>1. LeadsOff(z, <<>>, B)
        BY <1>4, FrontAlone
    <2>2. QED
        BY <2>1 DEF LeadsOff
<1>8. Message(AfterMessage(q))[1][2] = k
    BY <1>3, <1>6, <1>7 DEF Piece
<1>9. QED
    BY <1>1, <1>2, <1>8 DEF Requests

\* What the thread of c in s writes, which is nothing or what c waits for.
Told(f, s)   == Numbers({k \in files[s] : k[1] \in Within[f]})
Copy(s, f, p) ==
    IF <<f, p>> \in files[s] THEN Taken(store[s][<<f, p>>], MaxLine) ELSE <<Text("NO")>>

Speaks(c, s, me, K) ==
    \/ s2c'[c][s] = s2c[c][s]
    \/ me.pc = "ub"
    \/ /\ K = {} /\ s2c[c][s] = <<>>
       /\ \/ me.pc = "list" /\ s >= me.at /\ s2c'[c][s] = Listing(files[s])
          \/ me.pc = "collect" /\ s >= me.at /\ s2c'[c][s] = Told(me.file, s)
          \/ me.pc = "reply" /\ s = me.at /\ s2c'[c][s] = Prefixed(Copy(s, me.file, me.part))

LEMMA ThreadSpeaks ==
    ASSUME TypeOK, NEW c \in Clients, NEW s \in conn[c], ThreadStep(c, s),
           NEW K, LinkOf(c, s, K)
    PROVE  Speaks(c, s, client[c], K)
<1>1. PICK me \in Client, th \in Thread, q \in Seq(Byte), r \in Seq(Byte) :
        me = client[c] /\ th = thread[c][s] /\ q = c2s[c][s] /\ r = s2c[c][s]
    BY ConnFacts
<1>2. Link(me, s, th, q, r, K) /\ s \in Servers
    BY <1>1, ConnFacts DEF LinkOf
<1>3. \A a : r = <<>> /\ s2c' = [s2c EXCEPT ![c][s] = @ \o a] /\ a \in Seq(Byte) => s2c'[c][s] = a
    <2>1. ASSUME NEW a, r = <<>>, s2c' = [s2c EXCEPT ![c][s] = @ \o a], a \in Seq(Byte)
          PROVE  s2c'[c][s] = a
        <3>1. s2c'[c][s] = r \o a
            BY <1>1, <1>2, <2>1 DEF TypeOK
        <3>2. <<>> \o a = a
            BY <2>1, ConcatEmptySeq
        <3>3. QED
            BY <2>1, <3>1, <3>2
    <2>2. QED
        BY <2>1
<1>4. \/ s2c' = s2c
      \/ Command(c, s) /\ Says(Taken(q, MaxLine), "LIST")
      \/ GetFile(c, s)
      \/ GetPiece(c, s)
    BY <1>1, ZenonT(60) DEF ThreadStep, Command, Spin, PutName, PutSize, PutData, PutNum,
           PutFlush, GetFile, GetAnswer, GetDeclined, GetPiece, Buf
<1>5. CASE Command(c, s) /\ Says(Taken(q, MaxLine), "LIST")
    <2>1. th.pc = "cmd" /\ q # <<>>
        BY <1>1, <1>5 DEF Command
    <2>2. K = {} /\ (me.pc = "ub" \/ (me.pc = "list" /\ s >= me.at /\ r = <<>>))
        BY <1>2, <1>5, <2>1, ListAsked
    <2>3. PICK F \in SUBSET Keys : F = files[s]
        BY <1>2 DEF TypeOK
    <2>4. s2c' = [s2c EXCEPT ![c][s] = @ \o Listing(F)]
        BY <1>1, <1>5, <2>3 DEF Command, Buf
    <2>5. Listing(F) \in Seq(Byte)
        BY AnswersAre, ListRestFirst
    <2>6. QED
        BY <1>1, <1>3, <2>2, <2>3, <2>4, <2>5 DEF Speaks
<1>6. CASE GetFile(c, s)
    <2>1. th.pc = "file"
        BY <1>1, <1>6 DEF GetFile
    <2>2. /\ K = {} /\ (me.pc = "ub" \/ (me.pc = "collect" /\ s >= me.at /\ r = <<>>))
          /\ me.pc = "collect" => Message(q)[1][2] = me.file
        BY <1>2, <2>1, FileAsked
    <2>3. PICK f : f = Message(q)[1][2]
        OBVIOUS
    <2>4. PICK F \in SUBSET Keys : F = {k \in files[s] : k[1] \in Within[f]}
        BY <1>2 DEF TypeOK
    <2>5. s2c' = [s2c EXCEPT ![c][s] = @ \o Numbers(F)]
        BY <1>1, <1>6, <2>3, <2>4 DEF GetFile
    <2>6. Numbers(F) \in Seq(Byte)
        BY AnswersAre, NumberRestFirst
    <2>7. me.pc = "collect" => Told(me.file, s) = Numbers(F)
        BY <2>2, <2>3, <2>4 DEF Told
    <2>8. QED
        BY <1>1, <1>3, <2>2, <2>5, <2>6, <2>7 DEF Speaks
<1>7. CASE GetPiece(c, s)
    <2>1. th.pc = "need" /\ q # <<>> /\ Message(q) = <<Text("NEED")>>
        BY <1>1, <1>7, Zenon DEF GetPiece, HasMessage
    <2>2. /\ K = {} /\ r = <<>> /\ me.pc = "reply" /\ s = me.at
          /\ Message(AfterMessage(q))[1][2] = <<me.file, me.part>>
        BY <1>2, <2>1, PieceAsked
    <2>3. PICK k : k = Message(AfterMessage(q))[1][2]
        OBVIOUS
    <2>4. PICK d \in Seq(Byte) :
            d = IF k \in files[s] THEN Taken(store[s][k], MaxLine) ELSE <<Text("NO")>>
        <3>1. k \in files[s] => store[s][k] \in Seq(Byte)
            BY <1>2 DEF TypeOK
        <3>2. k \in files[s] => Taken(store[s][k], MaxLine) \in Seq(Byte)
            BY <3>1, ReadTypes, BoundsAssumption
        <3>3. <<Text("NO")>> \in Seq(Byte)
            BY WordFacts DEF Words
        <3>4. QED
            BY <3>2, <3>3
    <2>5. s2c' = [s2c EXCEPT ![c][s] = @ \o Prefixed(d)]
        BY <1>1, <1>7, <2>3, <2>4, Zenon DEF GetPiece
    <2>6. Prefixed(d) \in Seq(Byte)
        BY PrefixedType
    <2>7. d = Copy(s, me.file, me.part)
        BY <2>2, <2>3, <2>4 DEF Copy
    <2>8. QED
        BY <1>1, <1>3, <2>2, <2>5, <2>6, <2>7 DEF Speaks
<1>8. QED
    BY <1>1, <1>4, <1>5, <1>6, <1>7 DEF Speaks

-----------------------------------------------------------------------------
(* Every step keeps the output in order.                                   *)

\* What a server has of a piece is the piece, or nothing yet.
LEMMA CopyAnswers ==
    ASSUME AllLocalOnce, NEW K, Book(K), NEW s \in Servers, NEW f \in Names, NEW p \in Parts
    PROVE  Copy(s, f, p) \in Answers(f, p)
<1>1. PICK k \in Names \X Parts : k = <<f, p>>
    BY Zenon
<1>2. Ledger(s, K)
    BY DEF Book
<1>3. store[s][k] = <<>> \/ store[s][k] = PartOf(Contents[f], p)
    BY <1>1, <1>2 DEF Ledger
<1>4. /\ Taken(<<>>, MaxLine) = <<>>
      /\ Taken(PartOf(Contents[f], p), MaxLine) = PartOf(Contents[f], p)
    BY ReadWhole
<1>5. QED
    BY <1>1, <1>3, <1>4 DEF Copy, Answers

\* The threads' steps.
LEMMA ThreadAnswers ==
    ASSUME AllLocalOnce, TypeOK, NEW c \in Clients, NEW s \in conn[c], ThreadStep(c, s),
           NEW K, Linked(K), Book(K), Answering(client[c], s2c[c])
    PROVE  Answering(client[c], s2c'[c])
<1>1. PICK me \in Client : me = client[c]
    BY DEF TypeOK
<1>2. SUFFICES ASSUME me.pc = "reply"
               PROVE  /\ me.part \notin me.marks
                      /\ \/ s2c'[c][me.at] = <<>>
                         \/ \E d \in Answers(me.file, me.part) : s2c'[c][me.at] = Prefixed(d)
    BY <1>1 DEF Answering
<1>3. /\ me.part \notin me.marks
      /\ s2c[c][me.at] = <<>> \/ \E d \in Answers(me.file, me.part) : s2c[c][me.at] = Prefixed(d)
    BY <1>1, <1>2 DEF Answering
<1>4. s \in Servers /\ me.at \in Servers /\ me.file \in Names /\ me.part \in Parts
    BY ConnFacts DEF Client
<1>5. CASE s # me.at
    <2>1. s2c'[c][me.at] = s2c[c][me.at]
        BY <1>4, <1>5, ThreadApart DEF ThreadsStay
    <2>2. QED
        BY <1>3, <2>1
<1>6. CASE s = me.at
    <2>1. PICK L : L = K[c][s]
        OBVIOUS
    <2>2. LinkOf(c, s, L)
        BY <2>1 DEF Linked, Good, AllLocalOnce
    <2>3. Speaks(c, s, me, L)
        BY <1>1, <2>2, ThreadSpeaks
    <2>4. s2c'[c][s] = s2c[c][s] \/ s2c'[c][s] = Prefixed(Copy(s, me.file, me.part))
        BY <1>2, <2>3 DEF Speaks
    <2>5. Copy(s, me.file, me.part) \in Answers(me.file, me.part)
        BY <1>4, CopyAnswers
    <2>6. QED
        BY <1>3, <1>6, <2>4, <2>5
<1>7. QED
    BY <1>5, <1>6

\* The client's steps.
LEMMA QuietGathers ==
    ASSUME AllLocalOnce, MaxGets <= 1, TypeOK, NEW c \in Clients, Quiet(c), AtReached,
           NEW K, Linked(K), Answering(client[c], s2c[c]),
           NEW G \in [Names -> SUBSET Parts], Gathers(client[c], gets[c], G)
    PROVE  Gotten(c)
<1>1. CASE List(c) \/ ListRead(c) \/ Quit(c)
    BY <1>1, OtherGathers
<1>2. CASE \E f \in Names : Get(c, f)
    BY <1>2, GetGathers
<1>3. CASE Collect(c)
    BY <1>3, CollectGathers
<1>4. CASE Decline(c)
    BY <1>4, DeclineGathers
<1>5. CASE Ask(c)
    <2>1. client[c].at \in conn[c] /\ c \in Good
        BY <1>5 DEF Ask, AtReached, Good, AllLocalOnce
    <2>2. PICK L : L = K[c][client[c].at]
        OBVIOUS
    <2>3. LinkOf(c, client[c].at, L)
        BY <2>1, <2>2 DEF Linked
    <2>4. QED
        BY <1>5, <2>1, <2>3, AskGathers
<1>6. CASE Reply(c)
    BY <1>6, ReplyGathers
<1>7. QED
    BY <1>1, <1>2, <1>3, <1>4, <1>5, <1>6 DEF Quiet, ClientStep

\* The bounds on the commands of the others.
LEMMA GetsApart ==
    ASSUME TypeOK, NEW c \in Clients, Quiet(c), NEW d \in Clients, d # c
    PROVE  gets'[d] = gets[d] /\ due'[d] = due[d]
<1>1. CASE \E f \in Names : Get(c, f)
    <2>1. PICK f \in Names : Get(c, f)
        BY <1>1
    <2>2. PICK b : due' = [due EXCEPT ![c][f] = b]
        BY <2>1, Zenon DEF Get
    <2>3. gets' = [gets EXCEPT ![c][f] = gets[c][f] + 1]
        BY <2>1, Zenon DEF Get
    <2>4. QED
        BY <2>2, <2>3 DEF TypeOK
<1>2. CASE ~ \E f \in Names : Get(c, f)
    BY <1>2 DEF Quiet, ClientStep, List, Quit, ListRead, Collect, Decline, Ask, Reply, hvars
<1>3. QED
    BY <1>1, <1>2

LEMMA FetchedStep ==
    ASSUME AllLocalOnce, MaxGets <= 1, TypeOK, Sync, Fetched, [Next]_vars
    PROVE  Fetched'
<1>1. PICK K \in [Clients -> [Servers -> SUBSET Keys]] : Linked(K) /\ Book(K)
    BY DEF Sync
<1>2. AtReached
    BY DEF Sync
<1>3. ASSUME NEW d \in Clients, client'[d] = client[d], gets'[d] = gets[d],
             Answering(client[d], s2c'[d])
      PROVE  Gotten(d)
    BY <1>3 DEF Fetched, Gotten
<1>4. ASSUME NEW d \in Clients
      PROVE  Answering(client[d], s2c[d])
    BY DEF Fetched
<1>5. CASE \E c \in Clients : Quiet(c)
    <2>1. PICK c \in Clients : Quiet(c)
        BY <1>5
    <2>2. Gotten(c)
        <3>1. PICK G \in [Names -> SUBSET Parts] : Gathers(client[c], gets[c], G)
            BY DEF Fetched
        <3>2. QED
            BY <1>1, <1>2, <1>4, <2>1, <3>1, QuietGathers
    <2>3. ASSUME NEW d \in Clients, d # c
          PROVE  Gotten(d)
        <3>1. OthersStay(c)
            BY <2>1, QuietApart
        <3>2. client'[d] = client[d] /\ s2c'[d] = s2c[d]
            BY <2>3, <3>1 DEF OthersStay
        <3>3. gets'[d] = gets[d]
            BY <2>1, <2>3, GetsApart
        <3>4. QED
            BY <1>3, <1>4, <3>2, <3>3
    <2>4. QED
        BY <2>2, <2>3 DEF Fetched, Gotten
<1>6. CASE \E c \in Clients, f \in Names, h \in Hashes : Put(c, f, h)
    <2>1. client' = client /\ s2c' = s2c /\ gets' = gets
        BY <1>6 DEF Put
    <2>2. QED
        BY <2>1 DEF Fetched
<1>7. CASE \E c \in Clients, s \in Servers : s \in conn[c] /\ ThreadStep(c, s)
    <2>1. PICK c \in Clients, s \in Servers : s \in conn[c] /\ ThreadStep(c, s)
        BY <1>7
    <2>2. client' = client /\ gets' = gets
        BY <2>1 DEF ThreadStep, Command, Spin, PutName, PutSize, PutData, PutNum, PutFlush,
               GetFile, GetAnswer, GetDeclined, GetPiece, hvars
    <2>3. Answering(client[c], s2c'[c])
        BY <1>1, <1>4, <2>1, ThreadAnswers
    <2>4. ASSUME NEW d \in Clients, d # c
          PROVE  Answering(client[d], s2c'[d])
        <3>1. client[d].at \in Servers
            BY DEF TypeOK, Client
        <3>2. s2c'[d][client[d].at] = s2c[d][client[d].at]
            BY <2>1, <2>4, <3>1, ThreadApart DEF ThreadsStay
        <3>3. QED
            BY <1>4, <3>2 DEF Answering
    <2>5. QED
        BY <1>3, <2>2, <2>3, <2>4 DEF Fetched, Gotten
<1>8. CASE UNCHANGED vars
    BY <1>8 DEF vars, hvars, Fetched
<1>9. QED
    BY <1>5, <1>6, <1>7, <1>8 DEF Next, Quiet

\* No output at first.
LEMMA InitFetched ==
    ASSUME Init
    PROVE  Fetched
<1>1. PICK G \in [Names -> SUBSET Parts] : \A f \in Names : G[f] = {}
    <2>1. [f \in Names |-> {}] \in [Names -> SUBSET Parts]
        OBVIOUS
    <2>2. QED
        BY <2>1
<1>2. ASSUME NEW c \in Clients
      PROVE  Answering(client[c], s2c[c]) /\ Gathers(client[c], gets[c], G)
    <2>1. client[c].pc = "menu" /\ \A f \in Names : client[c].out[f] = <<>>
        BY DEF Init, AtMenu
    <2>2. QED
        BY <1>1, <2>1, GatherNone DEF Answering, Gathers
<1>3. QED
    BY <1>1, <1>2 DEF Fetched

\* A sequence once, and not at all.
LEMMA RepeatedOnce ==
    ASSUME NEW q \in Seq(Byte)
    PROVE  Repeated(q, 1) = q /\ Repeated(q, 0) = <<>>
<1>1. PICK n \in Nat : n = Len(q)
    BY LenProperties
<1>2. Repeated(q, 0) = <<>>
    <2>1. Repeated(q, 0) = [i \in 1..0 * n |-> q[((i - 1) % n) + 1]]
        BY <1>1 DEF Repeated
    <2>2. 1..0 * n = {}
        BY <1>1
    <2>3. QED
        BY <2>1, <2>2
<1>3. Repeated(q, 1) = q
    <2>1. \A i \in 1..n : (i - 1) % n = i - 1
        BY <1>1
    <2>2. 1 * n = n
        BY <1>1
    <2>3. Repeated(q, 1) = [i \in 1..n |-> q[((i - 1) % n) + 1]]
        BY <1>1, <2>2 DEF Repeated
    <2>4. ASSUME NEW i \in 1..n
          PROVE  q[((i - 1) % n) + 1] = q[i]
        <3>1. ((i - 1) % n) + 1 = i
            BY <1>1, <2>1
        <3>2. QED
            BY <3>1
    <2>5. q = [i \in 1..n |-> q[i]]
        BY <1>1, LenProperties
    <2>6. QED
        BY <2>3, <2>4, <2>5
<1>4. QED
    BY <1>2, <1>3

\* The pieces in the output, in their order.
LEMMA FetchedInOrder ==
    ASSUME MaxPuts = 1, Fetched
    PROVE  GotInOrder
<1>1. SUFFICES ASSUME NEW c \in Clients, NEW f \in Names
               PROVE  \E n \in [Parts -> 0..MaxPuts] :
                        client[c].out[f] = Join([p \in Parts |->
                            Taken(Repeated(PartOf(Contents[f], p), n[p]), MaxLine)])
    BY DEF GotInOrder
<1>2. PICK G : client[c].out[f] = Gather(f, G)
    BY DEF Fetched, Gathers
<1>3. PICK n : n = [p \in Parts |-> IF p \in G THEN 1 ELSE 0]
    OBVIOUS
<1>4. n \in [Parts -> 0..MaxPuts]
    BY <1>3
<1>5. \A p \in Parts : (IF p \in G THEN PartOf(Contents[f], p) ELSE <<>>)
                            = Taken(Repeated(PartOf(Contents[f], p), n[p]), MaxLine)
    BY <1>3, SizeType, RepeatedOnce, ReadWhole
<1>6. client[c].out[f] = Join([p \in Parts |->
                            Taken(Repeated(PartOf(Contents[f], p), n[p]), MaxLine)])
    BY <1>2, <1>5 DEF Gather
<1>7. QED
    BY <1>4, <1>6

\* Whatever other clients PUT while a client fetches a file, what it writes is
\* made of whole pieces of that file in their order (client.c:644-687,
\* server.c:175-177, 234-235); each at most once, since no name is PUT twice
\* and none is fetched twice, so that what GotInOrder says of a piece that is
\* longer than a buffer does not come up.
THEOREM OutputsAreInOrder ==
    ASSUME Hashes \subseteq 0..3, AllLocalOnce, MaxPuts = 1, MaxGets <= 1
    PROVE  Spec => []GotInOrder
<1>1. Init => Sync /\ Fetched
    BY InitSync, InitFetched
<1>2. TypeOK /\ Sync /\ Fetched /\ [Next]_vars => Sync' /\ Fetched'
    BY NextSync, FetchedStep
<1>3. Fetched => GotInOrder
    BY FetchedInOrder
<1>4. QED
    BY <1>1, <1>2, <1>3, TypeCorrect, PTL DEF Spec
-----------------------------------------------------------------------------
(* What a single client reads.  Only its own PUTs can change the disks, and *)
(* an answer finds them done, so each answer says what the server was sent. *)

\* There is one client, and no piece reads NO.
Alone == \A c \in Clients, d \in Clients : c = d
NoneIsNo == \A f \in Names, p \in Parts : PartOf(Contents[f], p) # <<Text("NO")>>

\* In D, a history like sent: the pieces of server s, those of a file on the
\* servers S, and what server s answers for a piece.
Sent(D, s) == {k \in Names \X Parts : <<s, k>> \in D}
Pieces(D, f, S) == {p \in Parts : \E s \in S : <<s, <<f, p>>>> \in D}
Replica(D, s, f, p) == IF <<s, <<f, p>>>> \in D THEN PartOf(Contents[f], p) ELSE <<Text("NO")>>

\* The numbers that the servers S tell of f.
Hears(D, f, S) == UNION {Pieces(D, g, S) : g \in Within[f]}

\* The numbers in a sequence of names, and the names in a listing.
NumbersOf(ls) == {k[2] : k \in Range(ls)}
Seen(e) == {k \in Keys : Piece(k) \in Range(e)}

\* The rest of an answer of which M was read and which has T in all.
Tells(q, M, T) ==
    \E ls \in Seq(Keys) :
        q = NumberRest(ls) /\ T \subseteq NumbersOf(ls) \cup M /\ NumbersOf(ls) \subseteq T
Shows(q, M, T) ==
    \E ls \in Seq(Keys) :
        q = ListRest(ls) /\ T \subseteq Range(ls) \cup M /\ Range(ls) \subseteq T

\* In what follows me is a client with the counters g, the history d and the
\* incoming streams r that reached the servers C, and D is what was sent.
\* The servers that its loop is done with.
Before(me, C) == {s \in C : s < me.at}

\* Of every file but the one being fetched the output is what was due.
Settled(me, g, d) ==
    \A f \in Names :
        /\ g[f] = 0 => d[f] = {} /\ me.out[f] = <<>>
        /\ me.pc \in {"menu", "list"} \/ f # me.file => me.out[f] = Gather(f, d[f])

\* Nothing is written before the numbers are known: they are those that the
\* servers were sent, and what was read is marked.
Hearing(me, d, r, C, D) ==
    me.pc = "collect" =>
        /\ me.out[me.file] = <<>>
        /\ d[me.file] = IF Parts \subseteq Hears(D, me.file, C) THEN Pieces(D, me.file, C) ELSE {}
        /\ me.marks \subseteq Hears(D, me.file, C)
        /\ \A s \in Before(me, C) : Hears(D, me.file, {s}) \subseteq me.marks
        /\ \A s \in C : s >= me.at /\ r[s] # <<>> => Tells(r[s], me.marks, Hears(D, me.file, {s}))

\* The servers S were asked for the current piece: it is in the output if one
\* of them was sent it, and the pieces before it if any server was.
Filled(me, C, D) ==
    {p \in Pieces(D, me.file, C) : p < me.part \/ (p = me.part /\ p \in me.marks)}

Gathering(me, d, S, C, D) ==
    /\ d[me.file] = Pieces(D, me.file, C)
    /\ me.out[me.file] = Gather(me.file, Filled(me, C, D))
    /\ \A p \in Parts : p > me.part => p \notin me.marks
    /\ me.part \in me.marks <=> me.part \in Pieces(D, me.file, S)

\* The answer to a request for a piece is what the server was sent of it.
Replying(me, r, D) ==
    me.pc = "reply" =>
        /\ me.part \notin me.marks
        /\ r[me.at] = <<>> \/ r[me.at] = Prefixed(Replica(D, me.at, me.file, me.part))

\* What List has read is what the servers it is done with were sent, and what
\* is still to come is the rest of what the others were sent.
Listening(me, r, C, D) ==
    me.pc = "list" =>
        /\ \A k \in Seen(me.entries) : \E s \in C : k \in Sent(D, s)
        /\ \A s \in Before(me, C) : Sent(D, s) \subseteq Seen(me.entries)
        /\ \A s \in C : s >= me.at /\ r[s] # <<>> => Shows(r[s], Seen(me.entries), Sent(D, s))

\* The invariant behind GetIffDue, and that behind ListTruthful.
Truth(me, g, d, r, C, D) ==
    /\ Settled(me, g, d)
    /\ Hearing(me, d, r, C, D)
    /\ me.pc \in {"fetch", "reply"} => Gathering(me, d, Before(me, C), C, D)
    /\ Replying(me, r, D)

Exact == \A c \in Clients : Truth(client[c], gets[c], due[c], s2c[c], conn[c], sent)

Heard == \A c \in Clients : Listening(client[c], s2c[c], conn[c], sent)

\* The directory's order has all its entries.
LEMMA ListingRange ==
    ASSUME NEW F \in SUBSET Keys
    PROVE  SetToSeq(F) \in Seq(Keys) /\ Range(SetToSeq(F)) = F
<1>1. IsFiniteSet(F)
    <2>1. IsFiniteSet(0..9)
        <3>1. \A n \in Nat : IsFiniteSet(0..n)
            BY FS_Interval
        <3>2. QED
            BY <3>1
    <2>2. IsFiniteSet(Keys)
        BY <2>1, NamesAssumption, FS_Product DEF Keys
    <2>3. QED
        BY <2>2, FS_Subset
<1>2. PICK n \in Nat : n = Cardinality(F) /\ ExistsBijection(1..n, F)
    BY <1>1, FS_CardinalityType
<1>3. \E g \in [1..n -> F] : IsInjective(g)
    BY <1>2 DEF ExistsBijection, Bijection, Injection, IsInjective
<1>4. PICK ls \in [1..n -> F] : ls = SetToSeq(F) /\ IsInjective(ls)
    BY <1>2, <1>3 DEF SetToSeq
<1>5. Cardinality(1..n) = n
    BY <1>2, FS_Interval
<1>6. ls \in Injection(1..n, F)
    BY <1>4 DEF Injection
<1>7. ls \in Surjection(1..n, F)
    BY <1>1, <1>2, <1>5, <1>6, FS_Injection
<1>8. Range(ls) = F
    BY <1>7 DEF Surjection, Range
<1>9. ls \in Seq(F)
    BY <1>2, SeqDef
<1>10. ls \in Seq(Keys)
    BY <1>9, SeqMonotonic
<1>11. QED
    BY <1>4, <1>8, <1>10

\* The entries of a sequence are the first one and the others.
LEMMA TailRange ==
    ASSUME NEW ls \in Seq(Keys), ls # <<>>
    PROVE  Tail(ls) \in Seq(Keys) /\ Range(ls) = {ls[1]} \cup Range(Tail(ls))
<1>1. PICK n \in Nat : n = Len(ls) /\ n >= 1 /\ DOMAIN ls = 1..n
    BY LenProperties, EmptySeq
<1>2. PICK t \in Seq(Keys) : t = Tail(ls) /\ DOMAIN t = 1..(n - 1) /\ \A i \in 1..(n - 1) : t[i] = ls[i + 1]
    <2>1. Tail(ls) \in Seq(Keys) /\ Len(Tail(ls)) = n - 1
          /\ \A i \in 1..(n - 1) : Tail(ls)[i] = ls[i + 1]
        BY <1>1, HeadTailProperties
    <2>2. DOMAIN Tail(ls) = 1..(n - 1)
        BY <2>1, LenProperties
    <2>3. QED
        BY <2>1, <2>2
<1>3. ASSUME NEW k
      PROVE  k \in Range(ls) <=> k = ls[1] \/ k \in Range(t)
    <2>1. ASSUME NEW i \in 1..n
          PROVE  ls[i] = ls[1] \/ \E j \in 1..(n - 1) : t[j] = ls[i]
        <3>1. i = 1 \/ (i - 1 \in 1..(n - 1) /\ (i - 1) + 1 = i)
            OBVIOUS
        <3>2. QED
            BY <1>2, <3>1
    <2>2. \A j \in 1..(n - 1) : j + 1 \in 1..n /\ t[j] = ls[j + 1]
        BY <1>1, <1>2
    <2>3. 1 \in 1..n
        BY <1>1
    <2>4. k \in Range(ls) <=> \E i \in 1..n : k = ls[i]
        BY <1>1 DEF Range
    <2>5. k \in Range(t) <=> \E j \in 1..(n - 1) : k = t[j]
        BY <1>2 DEF Range
    <2>6. QED
        BY <2>1, <2>2, <2>3, <2>4, <2>5, Zenon
<1>4. QED
    BY <1>2, <1>3

\* The names of a listing that is read entry by entry.
LEMMA SeenMore ==
    ASSUME NEW e \in Seq(Byte), NEW k \in Keys, NEW x, x = Piece(k)
    PROVE  Seen(Append(e, x)) = Seen(e) \cup {k}
<1>1. x \in Byte
    BY WordFacts
<1>2. PICK n \in Nat : n = Len(e) /\ DOMAIN e = 1..n
    BY LenProperties
<1>3. PICK a : a = Append(e, x) /\ DOMAIN a = 1..(n + 1) /\ a[n + 1] = x
               /\ \A i \in 1..n : a[i] = e[i]
    <2>1. /\ Append(e, x) \in Seq(Byte) /\ Len(Append(e, x)) = n + 1
          /\ \A i \in 1..n : Append(e, x)[i] = e[i]
          /\ Append(e, x)[n + 1] = x
        BY <1>1, <1>2, AppendProperties
    <2>2. DOMAIN Append(e, x) = 1..(n + 1)
        BY <2>1, LenProperties
    <2>3. QED
        BY <2>1, <2>2
<1>4. ASSUME NEW y
      PROVE  y \in Range(a) <=> y = x \/ y \in Range(e)
    <2>1. \A i \in 1..(n + 1) : i = n + 1 \/ i \in 1..n
        OBVIOUS
    <2>2. n + 1 \in 1..(n + 1) /\ \A i \in 1..n : i \in 1..(n + 1)
        OBVIOUS
    <2>3. QED
        BY <1>2, <1>3, <2>1, <2>2, Zenon DEF Range
<1>5. \A j \in Keys : Piece(j) = x <=> j = k
    BY DEF Piece
<1>6. QED
    BY <1>3, <1>4, <1>5 DEF Seen

\* The next number is one of those to be told; DONE comes when all were.
TellsNext(q, M, T) ==
    \/ Message(q) = <<Text("DONE")>> /\ AfterMessage(q) = <<>> /\ T \subseteq M
    \/ /\ Message(q) # <<Text("DONE")>> /\ Number(Message(q)) \in T
       /\ Tells(AfterMessage(q), M \cup {Number(Message(q))}, T)

LEMMA Telling ==
    ASSUME NEW q, NEW M, NEW T, Tells(q, M, T)
    PROVE  TellsNext(q, M, T)
<1>1. PICK ls \in Seq(Keys) :
        q = NumberRest(ls) /\ T \subseteq NumbersOf(ls) \cup M /\ NumbersOf(ls) \subseteq T
    BY DEF Tells
<1>2. PICK z \in Seq(Byte) : z = <<Text("DONE")>>
    BY WordFacts DEF Words
<1>3. CASE ls = <<>>
    <2>1. q = Prefixed(z)
        BY <1>1, <1>2, <1>3, NumberRestFirst DEF Word
    <2>2. LeadsOff(z, <<>>, q)
        BY <2>1, FrontAlone
    <2>3. NumbersOf(ls) = {}
        BY <1>3 DEF NumbersOf, Range
    <2>4. QED
        BY <1>1, <1>2, <2>2, <2>3 DEF LeadsOff, TellsNext
<1>4. CASE ls # <<>>
    <2>1. PICK k \in Keys, rest \in Seq(Keys) :
            /\ q = Prefixed(<<Num(k[2])>>) \o NumberRest(rest)
            /\ Range(ls) = {k} \cup Range(rest)
        <3>1. /\ ls[1] \in Keys /\ Tail(ls) \in Seq(Keys)
              /\ q = Prefixed(<<Num(ls[1][2])>>) \o NumberRest(Tail(ls))
            BY <1>1, <1>4, NumberRestFirst
        <3>2. Range(ls) = {ls[1]} \cup Range(Tail(ls))
            BY <1>4, TailRange
        <3>3. QED
            BY <3>1, <3>2, Zenon
    <2>2. PICK R \in Seq(Byte) : R = NumberRest(rest)
        BY NumberRestFirst
    <2>3. k[2] \in 0..9
        BY DEF Keys
    <2>4. PICK y \in Seq(Byte) : y = <<Num(k[2])>> /\ y # <<Text("DONE")>>
        <3>1. <<Num(k[2])>> \in Seq(Byte)
            BY <2>3, WordFacts
        <3>2. <<Num(k[2])>> # <<Text("DONE")>>
            BY DEF Num, Text
        <3>3. QED
            BY <3>1, <3>2
    <2>5. q = Prefixed(y) \o R
        BY <2>1, <2>2, <2>4
    <2>6. LeadsOff(y, R, q)
        BY <2>5, FrontOf
    <2>7. Number(y) = k[2]
        BY <2>4 DEF Number, Num
    <2>8. NumbersOf(ls) = {k[2]} \cup NumbersOf(rest)
        BY <2>1 DEF NumbersOf
    <2>9. Tells(R, M \cup {k[2]}, T)
        BY <1>1, <2>2, <2>8 DEF Tells
    <2>10. Message(q) # <<Text("DONE")>> /\ Number(Message(q)) = k[2] /\ AfterMessage(q) = R
        BY <2>4, <2>6, <2>7 DEF LeadsOff
    <2>11. k[2] \in T
        BY <1>1, <2>8
    <2>12. QED
        BY <2>9, <2>10, <2>11 DEF TellsNext
<1>5. QED
    BY <1>3, <1>4

\* The same for the names of LIST.
ShowsNext(q, M, T) ==
    \/ Says(Taken(q, MaxLine), "DONE") /\ Left(q, MaxLine) = <<>> /\ T \subseteq M
    \/ /\ ~Says(Taken(q, MaxLine), "DONE")
       /\ \E k \in Keys : /\ Taken(q, MaxLine)[1] = Piece(k) /\ k \in T
                          /\ Shows(Left(q, MaxLine), M \cup {k}, T)

LEMMA Showing ==
    ASSUME NEW q, NEW M, NEW T, Shows(q, M, T)
    PROVE  ShowsNext(q, M, T)
<1>1. PICK ls \in Seq(Keys) :
        q = ListRest(ls) /\ T \subseteq Range(ls) \cup M /\ Range(ls) \subseteq T
    BY DEF Shows
<1>2. CASE ls = <<>>
    <2>1. "DONE" \in Words /\ Text("DONE") \in Byte
        BY WordFacts DEF Words
    <2>2. PICK o \in Seq(Byte) : o = <<>>
        BY EmptySeq
    <2>3. PICK B \in Seq(Byte) : B = Block(Text("DONE"))
        BY <2>1, BlockFacts
    <2>4. Commands(Block(Text("DONE")) \o o, "DONE", o)
        BY <2>1, CommandIs, Zenon
    <2>5. B \o o = B /\ q = B
        BY <1>1, <1>2, <2>2, <2>3, ConcatEmptySeq, ListRestFirst
    <2>6. Commands(q, "DONE", <<>>)
        BY <2>2, <2>3, <2>4, <2>5
    <2>7. Range(ls) = {}
        BY <1>2 DEF Range
    <2>8. Says(Taken(q, MaxLine), "DONE") /\ Left(q, MaxLine) = <<>>
        BY <2>1, <2>6 DEF Commands
    <2>9. QED
        BY <1>1, <2>7, <2>8 DEF ShowsNext
<1>3. CASE ls # <<>>
    <2>1. PICK k \in Keys, rest \in Seq(Keys) :
            q = Block(Piece(k)) \o ListRest(rest) /\ Range(ls) = {k} \cup Range(rest)
        <3>1. /\ ls[1] \in Keys /\ Tail(ls) \in Seq(Keys)
              /\ q = Block(Piece(ls[1])) \o ListRest(Tail(ls))
            BY <1>1, <1>3, ListRestFirst
        <3>2. Range(ls) = {ls[1]} \cup Range(Tail(ls))
            BY <1>3, TailRange
        <3>3. QED
            BY <3>1, <3>2, Zenon
    <2>2. PICK R \in Seq(Byte) : R = ListRest(rest)
        BY ListRestFirst
    <2>3. Piece(k) \in Byte /\ Piece(k) # NUL /\ Piece(k) # Text("DONE")
        BY WordFacts DEF Piece, NUL, Text
    <2>4. PICK d \in Seq(Byte) : /\ d = Block(Piece(k)) /\ Len(d) = MaxLine
                                 /\ ~Says(d, "DONE")
        BY <2>3, BlockFacts
    <2>5. d[1] = Piece(k)
        BY <2>4, BoundsAssumption DEF Block
    <2>6. Taken(d \o R, Len(d)) = d /\ Left(d \o R, Len(d)) = R
        BY ReadFirst
    <2>7. Taken(q, MaxLine) = d /\ Left(q, MaxLine) = R
        BY <2>1, <2>2, <2>4, <2>6
    <2>8. Shows(R, M \cup {k}, T) /\ k \in T
        BY <1>1, <2>1, <2>2 DEF Shows
    <2>9. QED
        BY <2>4, <2>5, <2>7, <2>8 DEF ShowsNext
<1>4. QED
    BY <1>2, <1>3

\* Nothing of a single client's is on its way to a server that it has heard
\* from or that is about to answer: its disk is what it was sent.
DiskIs(s) ==
    /\ files[s] = Sent(sent, s)
    /\ \A k \in files[s] : store[s][k] = PartOf(Contents[k[1]], k[2])

LEMMA DiskSettled ==
    ASSUME AllLocalOnce, Alone, NEW K, Book(K), NEW c \in Clients, NEW s \in Servers,
           K[c][s] = {}
    PROVE  DiskIs(s)
<1>1. Ledger(s, K)
    BY DEF Book
<1>2. ASSUME NEW d \in Clients
      PROVE  K[d][s] = {}
    <2>1. d = c
        BY DEF Alone
    <2>2. QED
        BY <2>1
<1>3. files[s] \subseteq Names \X Parts
    BY <1>1 DEF Ledger
<1>4. \A k \in Names \X Parts :
        /\ <<s, k>> \in sent <=> k \in files[s]
        /\ store[s][k] = IF k \in files[s] THEN PartOf(Contents[k[1]], k[2]) ELSE <<>>
    BY <1>1, <1>2 DEF Ledger
<1>5. QED
    BY <1>3, <1>4 DEF DiskIs, Sent

\* Which pieces are heard of.
LEMMA HearsIs ==
    ASSUME NEW D, NEW f \in Names, NEW S, NEW p
    PROVE  p \in Hears(D, f, S) <=>
              p \in Parts /\ \E g \in Within[f], s \in S : <<s, <<g, p>>>> \in D
<1>1. p \in Hears(D, f, S) <=> \E g \in Within[f] : p \in Pieces(D, g, S)
    BY Zenon DEF Hears
<1>2. \A g : p \in Pieces(D, g, S) <=> p \in Parts /\ \E s \in S : <<s, <<g, p>>>> \in D
    BY Zenon DEF Pieces
<1>3. QED
    BY <1>1, <1>2, Zenon

\* What is told of a file, shown and sent, of a disk that is settled.
LEMMA DiskTells ==
    ASSUME TypeOK, NEW s \in Servers, DiskIs(s), NEW f \in Names, NEW M
    PROVE  Tells(Told(f, s), M, Hears(sent, f, {s}))
<1>1. PICK F \in SUBSET Keys : F = {k \in files[s] : k[1] \in Within[f]}
    BY DEF TypeOK
<1>2. PICK ls \in Seq(Keys) : ls = SetToSeq(F) /\ Range(ls) = F
    BY ListingRange
<1>3. Told(f, s) = NumberRest(ls)
    BY <1>1, <1>2 DEF Told, Numbers, NumberRest, Word
<1>4. NumbersOf(ls) = Hears(sent, f, {s})
    <2>1. ASSUME NEW p
          PROVE  p \in NumbersOf(ls) <=> p \in Hears(sent, f, {s})
        <3>1. p \in NumbersOf(ls) <=> \E k \in Names \X Parts :
                    <<s, k>> \in sent /\ k[1] \in Within[f] /\ k[2] = p
            BY <1>1, <1>2 DEF NumbersOf, DiskIs, Sent
        <3>2. Within[f] \subseteq Names
            BY NamesAssumption
        <3>3. (\E k \in Names \X Parts : <<s, k>> \in sent /\ k[1] \in Within[f] /\ k[2] = p)
                <=> p \in Parts /\ \E g \in Within[f] : <<s, <<g, p>>>> \in sent
            <4>1. ASSUME NEW k \in Names \X Parts, <<s, k>> \in sent, k[1] \in Within[f], k[2] = p
                  PROVE  p \in Parts /\ \E g \in Within[f] : <<s, <<g, p>>>> \in sent
                <5>1. k = <<k[1], p>> /\ p \in Parts
                    BY <4>1
                <5>2. QED
                    BY <4>1, <5>1, Zenon
            <4>2. ASSUME p \in Parts, NEW g \in Within[f], <<s, <<g, p>>>> \in sent
                  PROVE  \E k \in Names \X Parts :
                            <<s, k>> \in sent /\ k[1] \in Within[f] /\ k[2] = p
                <5>1. PICK k \in Names \X Parts : k = <<g, p>>
                    BY <3>2, <4>2
                <5>2. <<s, k>> \in sent /\ k[1] \in Within[f] /\ k[2] = p
                    BY <4>2, <5>1
                <5>3. QED
                    BY <5>2
            <4>3. QED
                BY <4>1, <4>2, Zenon
        <3>4. p \in Hears(sent, f, {s}) <=>
                p \in Parts /\ \E g \in Within[f], u \in {s} : <<u, <<g, p>>>> \in sent
            <4>1. PICK D, S : D = sent /\ S = {s}
                OBVIOUS
            <4>2. p \in Hears(D, f, S) <=>
                    p \in Parts /\ \E g \in Within[f], u \in S : <<u, <<g, p>>>> \in D
                BY HearsIs
            <4>3. QED
                BY <4>1, <4>2
        <3>5. QED
            BY <3>1, <3>3, <3>4, Zenon
    <2>2. QED
        BY <2>1
<1>5. QED
    BY <1>2, <1>3, <1>4 DEF Tells

\* A listing shows it, ...
LEMMA DiskShows ==
    ASSUME TypeOK, NEW s \in Servers, DiskIs(s), NEW M
    PROVE  Shows(Listing(files[s]), M, Sent(sent, s))
<1>1. PICK F \in SUBSET Keys : F = files[s]
    BY DEF TypeOK
<1>2. PICK ls \in Seq(Keys) : ls = SetToSeq(F) /\ Range(ls) = F
    BY ListingRange
<1>3. Listing(files[s]) = ListRest(ls)
    BY <1>1, <1>2 DEF Listing, ListRest
<1>4. QED
    BY <1>1, <1>2, <1>3 DEF Shows, DiskIs

\* ... and a piece is sent as it was.
LEMMA DiskCopies ==
    ASSUME NEW s, DiskIs(s), NEW f \in Names, NEW p \in Parts
    PROVE  Copy(s, f, p) = Replica(sent, s, f, p)
<1>0. PICK k \in Names \X Parts : k = <<f, p>>
    BY Zenon
<1>1. k = <<f, p>> /\ k[1] = f /\ k[2] = p
    BY <1>0
<1>2. k \in files[s] <=> <<s, k>> \in sent
    BY DEF DiskIs, Sent
<1>3. k \in files[s] => store[s][k] = PartOf(Contents[f], p)
    BY <1>1 DEF DiskIs
<1>4. Taken(PartOf(Contents[f], p), MaxLine) = PartOf(Contents[f], p)
    BY ReadWhole
<1>5. QED
    BY <1>1, <1>2, <1>3, <1>4 DEF Copy, Replica

\* The thread's steps keep the truth.
LEMMA ThreadTruth ==
    ASSUME AllLocalOnce, Alone, TypeOK, NEW c \in Clients, NEW s \in conn[c], ThreadStep(c, s),
           NEW K, Linked(K), Book(K), NEW g, NEW d, Truth(client[c], g, d, s2c[c], conn[c], sent)
    PROVE  Truth(client[c], g, d, s2c'[c], conn[c], sent)
<1>1. PICK me \in Client : me = client[c]
    BY DEF TypeOK
<1>2. PICK C : C = conn[c] /\ C \in SUBSET Servers /\ s \in C
    BY DEF TypeOK
<1>3. PICK r, y : r = s2c[c] /\ y = s2c'[c]
    OBVIOUS
<1>4. /\ Settled(me, g, d) /\ Hearing(me, d, r, C, sent)
      /\ me.pc \in {"fetch", "reply"} => Gathering(me, d, Before(me, C), C, sent)
      /\ Replying(me, r, sent)
    BY <1>1, <1>2, <1>3 DEF Truth
<1>5. s \in Servers /\ me.at \in Servers /\ me.file \in Names /\ me.part \in Parts
    BY <1>2 DEF Client
<1>6. \A u \in C : u # s => y[u] = r[u]
    BY <1>2, <1>3, <1>5, ThreadApart DEF ThreadsStay
<1>7. me.at # s => y[me.at] = r[me.at]
    BY <1>3, <1>5, ThreadApart DEF ThreadsStay
<1>8. PICK L : L = K[c][s]
    OBVIOUS
<1>9. Speaks(c, s, me, L)
    <2>1. LinkOf(c, s, L)
        BY <1>8 DEF Linked, Good, AllLocalOnce
    <2>2. QED
        BY <1>1, <2>1, ThreadSpeaks
<1>10. L = {} => DiskIs(s)
    BY <1>5, <1>8, DiskSettled
<1>11. \/ y[s] = r[s]
       \/ me.pc = "ub"
       \/ /\ DiskIs(s)
          /\ \/ me.pc = "list" /\ y[s] = Listing(files[s])
             \/ me.pc = "collect" /\ y[s] = Told(me.file, s)
             \/ me.pc = "reply" /\ s = me.at /\ y[s] = Prefixed(Copy(s, me.file, me.part))
    BY <1>3, <1>9, <1>10 DEF Speaks
<1>12. Hearing(me, d, y, C, sent)
    <2>1. me.pc = "collect" =>
            y[s] = r[s] \/ Tells(y[s], me.marks, Hears(sent, me.file, {s}))
        BY <1>5, <1>11, DiskTells
    <2>2. QED
        BY <1>4, <1>6, <2>1 DEF Hearing
<1>13. Replying(me, y, sent)
    <2>1. me.pc = "reply" /\ s = me.at =>
            y[s] = r[s] \/ y[s] = Prefixed(Replica(sent, s, me.file, me.part))
        BY <1>5, <1>11, DiskCopies
    <2>2. QED
        BY <1>4, <1>7, <2>1 DEF Replying
<1>14. QED
    BY <1>1, <1>2, <1>3, <1>4, <1>12, <1>13 DEF Truth

\* The same for a listing.
LEMMA ThreadHeard ==
    ASSUME AllLocalOnce, Alone, TypeOK, NEW c \in Clients, NEW s \in conn[c], ThreadStep(c, s),
           NEW K, Linked(K), Book(K), Listening(client[c], s2c[c], conn[c], sent)
    PROVE  Listening(client[c], s2c'[c], conn[c], sent)
<1>1. PICK me, C, r, y : me = client[c] /\ C = conn[c] /\ r = s2c[c] /\ y = s2c'[c]
    OBVIOUS
<1>2. s \in Servers /\ C \subseteq Servers
    BY <1>1 DEF TypeOK
<1>3. \A u \in C : u # s => y[u] = r[u]
    BY <1>1, <1>2, ThreadApart DEF ThreadsStay
<1>4. PICK L : L = K[c][s]
    OBVIOUS
<1>5. Speaks(c, s, me, L)
    <2>1. LinkOf(c, s, L)
        BY <1>4 DEF Linked, Good, AllLocalOnce
    <2>2. QED
        BY <1>1, <2>1, ThreadSpeaks
<1>6. L = {} => DiskIs(s)
    BY <1>2, <1>4, DiskSettled
<1>7. me.pc = "list" => y[s] = r[s] \/ (DiskIs(s) /\ y[s] = Listing(files[s]))
    BY <1>1, <1>5, <1>6 DEF Speaks
<1>8. me.pc = "list" => y[s] = r[s] \/ Shows(y[s], Seen(me.entries), Sent(sent, s))
    BY <1>2, <1>7, DiskShows
<1>9. Listening(me, r, C, sent)
    BY <1>1
<1>10. Listening(me, y, C, sent)
    BY <1>3, <1>8, <1>9 DEF Listening
<1>11. QED
    BY <1>1, <1>10
-----------------------------------------------------------------------------
(* The client's steps keep the truth.                                      *)

Truthful(c) == Truth(client'[c], gets'[c], due'[c], s2c'[c], conn[c], sent)

\* Outside its loops a client has what was due.
LEMMA TruthAtRest ==
    ASSUME NEW x, NEW g, NEW d, NEW r, NEW C, NEW D,
           x.pc \in {"menu", "list", "gone", "ub"}, Settled(x, g, d)
    PROVE  Truth(x, g, d, r, C, D)
    BY DEF Truth, Hearing, Replying

\* At its prompt nothing is to be read.
LEMMA MenuQuiet ==
    ASSUME AllLocalOnce, NEW K, Linked(K), NEW c \in Clients, client[c].pc = "menu",
           NEW s \in conn[c]
    PROVE  s2c[c][s] = <<>>
<1>1. PICK L : L = K[c][s]
    OBVIOUS
<1>2. LinkOf(c, s, L)
    BY <1>1 DEF Linked, Good, AllLocalOnce
<1>3. QED
    BY <1>2, LinkMenu DEF LinkOf

\* The first server of a loop.
LEMMA FirstLow ==
    ASSUME TypeOK, NEW c \in Clients, NEW n, n = FirstFrom(c, 0)
    PROVE  n \in conn[c] /\ n \in Servers /\ \A s \in conn[c] : s >= n /\ ~(s < n)
<1>1. IsFirst(conn[c], 0, n) /\ n # 4
    BY FirstIs
<1>2. conn[c] \subseteq 0..3
    BY DEF TypeOK, Servers
<1>3. n \in conn[c] /\ n \in 0..3 /\ \A s \in conn[c] : n <= s
    BY <1>1, <1>2 DEF IsFirst, Servers
<1>4. QED
    BY <1>2, <1>3 DEF Servers

\* LIST.
LEMMA ListTruth ==
    ASSUME TypeOK, NEW c \in Clients, List(c),
           Truth(client[c], gets[c], due[c], s2c[c], conn[c], sent)
    PROVE  Truthful(c)
<1>1. PICK me \in Client : me = client[c]
    BY DEF TypeOK
<1>2. PICK x, n : n = FirstFrom(c, 0) /\ x = [me EXCEPT !.pc = "list", !.at = n, !.entries = <<>>]
    OBVIOUS
<1>3. me.pc = "menu" /\ client'[c] = x /\ gets' = gets /\ due' = due
    BY <1>1, <1>2 DEF List, TypeOK
<1>4. x.pc = "list" /\ x.out = me.out
    BY <1>2 DEF Client
<1>5. Settled(x, gets[c], due[c])
    BY <1>1, <1>3, <1>4 DEF Truth, Settled
<1>6. QED
    BY <1>3, <1>4, <1>5, TruthAtRest DEF Truthful

Listens(c) == Listening(client'[c], s2c'[c], conn[c], sent)

\* LIST is sent to servers that have nothing to say.
LEMMA ListHeard ==
    ASSUME AllLocalOnce, TypeOK, NEW c \in Clients, List(c), NEW K, Linked(K)
    PROVE  Listens(c)
<1>1. PICK me \in Client : me = client[c]
    BY DEF TypeOK
<1>2. PICK n : n = FirstFrom(c, 0)
    OBVIOUS
<1>3. PICK x : x = [me EXCEPT !.pc = "list", !.at = n, !.entries = <<>>]
    OBVIOUS
<1>4. me.pc = "menu" /\ client'[c] = x /\ s2c' = s2c
    BY <1>1, <1>2, <1>3 DEF List, TypeOK
<1>5. x.pc = "list" /\ x.at = n /\ x.entries = <<>>
    BY <1>3 DEF Client
<1>6. Seen(x.entries) = {}
    BY <1>5 DEF Seen, Range
<1>7. Before(x, conn[c]) = {}
    BY <1>2, <1>5, FirstLow DEF Before
<1>8. \A s \in conn[c] : s2c[c][s] = <<>>
    BY <1>1, <1>4, MenuQuiet
<1>9. Listening(x, s2c[c], conn[c], sent)
    BY <1>6, <1>7, <1>8 DEF Listening
<1>10. QED
    BY <1>4, <1>9 DEF Listens

\* A longer memory.
LEMMA ShowsLess ==
    ASSUME NEW q, NEW M, NEW T, Shows(q, M, T), NEW N, M \subseteq N
    PROVE  Shows(q, N, T)
    BY DEF Shows

LEMMA TellsLess ==
    ASSUME NEW q, NEW M, NEW T, Tells(q, M, T), NEW N, M \subseteq N
    PROVE  Tells(q, N, T)
    BY DEF Tells

\* What List's loop does to the client.
ListRuns(me, q, n, x) ==
    /\ x.out = me.out
    /\ \/ ~Says(q, "DONE") /\ x.pc = "list" /\ x.at = me.at /\ x.entries = Append(me.entries, q[1])
       \/ ~Says(q, "DONE") /\ x.pc = "ub"
       \/ Says(q, "DONE") /\ n # 4 /\ x.pc = "list" /\ x.at = n /\ x.entries = me.entries
       \/ Says(q, "DONE") /\ n = 4 /\ x.pc = "menu" /\ x.shown = Summary(me.entries)

LEMMA ListRunsOn ==
    ASSUME TypeOK, NEW c \in Clients, ListRead(c), NEW me, me = client[c],
           NEW q, q = Taken(s2c[c][me.at], MaxLine), NEW n, n = FirstFrom(c, me.at + 1)
    PROVE  ListRuns(me, q, n, client'[c])
<1>1. me \in Client /\ me.pc = "list"
    BY DEF TypeOK, ListRead
<1>2. PICK e, v : e = Append(me.entries, q[1]) /\ v = Summary(me.entries)
    OBVIOUS
<1>3. client'[c] =
        IF ~Says(q, "DONE")
        THEN IF Len(me.entries) < ListCap
             THEN [me EXCEPT !.entries = e]
             ELSE [me EXCEPT !.pc = "ub"]
        ELSE IF n # 4
             THEN [me EXCEPT !.at = n]
             ELSE [me EXCEPT !.pc = "menu", !.shown = v]
    BY <1>2 DEF ListRead, TypeOK
<1>4. QED
    BY <1>1, <1>2, <1>3 DEF ListRuns, Client

\* List's loop writes nothing, ...
LEMMA ListReadTruth ==
    ASSUME TypeOK, NEW c \in Clients, ListRead(c),
           Truth(client[c], gets[c], due[c], s2c[c], conn[c], sent)
    PROVE  Truthful(c)
<1>1. PICK me, x, q, n : /\ me = client[c] /\ x = client'[c]
                         /\ q = Taken(s2c[c][me.at], MaxLine) /\ n = FirstFrom(c, me.at + 1)
    OBVIOUS
<1>2. me.pc = "list" /\ gets' = gets /\ due' = due
    BY <1>1 DEF ListRead, hvars
<1>3. ListRuns(me, q, n, x)
    BY <1>1, ListRunsOn
<1>4. x.pc \in {"list", "menu", "ub"} /\ x.out = me.out
    BY <1>3 DEF ListRuns
<1>5. Settled(x, gets[c], due[c])
    BY <1>1, <1>2, <1>4 DEF Truth, Settled
<1>6. QED
    BY <1>1, <1>2, <1>4, <1>5, TruthAtRest DEF Truthful

\* ... and hears the servers one after the other.
LEMMA ListReadHeard ==
    ASSUME TypeOK, NEW c \in Clients, ListRead(c), client[c].at \in conn[c],
           Listening(client[c], s2c[c], conn[c], sent)
    PROVE  Listens(c)
<1>1. PICK me \in Client : me = client[c]
    BY DEF TypeOK
<1>2. PICK a \in 0..3 : a = me.at
    BY <1>1 DEF Client, Servers
<1>3. PICK C \in SUBSET Servers : C = conn[c]
    BY DEF TypeOK
<1>4. PICK r, y : r = s2c[c] /\ y = s2c'[c]
    OBVIOUS
<1>5. PICK n : n = FirstFrom(c, a + 1)
    OBVIOUS
<1>6. PICK x : x = client'[c]
    OBVIOUS
<1>7. PICK q : q = Taken(r[a], MaxLine)
    OBVIOUS
<1>8. /\ a \in C /\ me.pc = "list" /\ r[a] # <<>>
      /\ y[a] = Left(r[a], MaxLine) /\ \A s \in C : s # a => y[s] = r[s]
    BY <1>1, <1>2, <1>3, <1>4 DEF ListRead, TypeOK, Servers
<1>9. ListRuns(me, q, n, x)
    BY <1>1, <1>2, <1>4, <1>5, <1>6, <1>7, ListRunsOn
<1>10. Listening(me, r, C, sent)
    BY <1>1, <1>3, <1>4
<1>11. PICK M, T : M = Seen(me.entries) /\ T = Sent(sent, a)
    OBVIOUS
<1>12. ShowsNext(r[a], M, T)
    BY <1>2, <1>8, <1>10, <1>11, Showing DEF Listening
<1>13. ASSUME NEW s \in C
       PROVE  /\ n # 4 => /\ s # a => (s < a <=> s < n) /\ (s >= a <=> s >= n)
                          /\ s = a => s < n
    BY <1>2, <1>3, <1>5, <1>8, NextServer
<1>14. CASE x.pc # "list"
    BY <1>6, <1>14 DEF Listens, Listening
<1>15. CASE x.pc = "list"
    <2>1. CASE ~Says(q, "DONE")
        <3>1. PICK k \in Keys : q[1] = Piece(k) /\ k \in T /\ Shows(y[a], M \cup {k}, T)
            BY <1>7, <1>8, <1>12, <2>1 DEF ShowsNext
        <3>2. x.at = a /\ x.entries = Append(me.entries, q[1])
            BY <1>2, <1>9, <1>15, <2>1 DEF ListRuns
        <3>3. Seen(x.entries) = M \cup {k}
            <4>1. me.entries \in Seq(Byte)
                BY DEF Client
            <4>2. QED
                BY <1>11, <3>1, <3>2, <4>1, SeenMore
        <3>4. \A j \in M \cup {k} : \E s \in C : j \in Sent(sent, s)
            BY <1>8, <1>10, <1>11, <3>1 DEF Listening
        <3>5. \A s \in Before(x, C) : Sent(sent, s) \subseteq M \cup {k}
            BY <1>2, <1>8, <1>10, <1>11, <3>2 DEF Listening, Before
        <3>6. ASSUME NEW s \in C, s >= a, y[s] # <<>>
              PROVE  Shows(y[s], M \cup {k}, Sent(sent, s))
            <4>1. CASE s = a
                BY <1>11, <3>1, <4>1
            <4>2. CASE s # a
                <5>1. Shows(r[s], M, Sent(sent, s))
                    BY <1>2, <1>8, <1>10, <1>11, <3>6, <4>2 DEF Listening
                <5>2. QED
                    BY <1>8, <4>2, <5>1, ShowsLess
            <4>3. QED
                BY <4>1, <4>2
        <3>7. Listening(x, y, C, sent)
            BY <3>2, <3>3, <3>4, <3>5, <3>6 DEF Listening
        <3>8. QED
            BY <1>3, <1>4, <1>6, <1>8, <3>7 DEF Listens
    <2>2. CASE Says(q, "DONE")
        <3>1. y[a] = <<>> /\ T \subseteq M
            BY <1>7, <1>8, <1>12, <2>2 DEF ShowsNext
        <3>2. n # 4 /\ x.at = n /\ x.entries = me.entries
            BY <1>9, <1>15, <2>2 DEF ListRuns
        <3>3. ASSUME NEW s \in C, s < n
              PROVE  Sent(sent, s) \subseteq M
            BY <1>2, <1>8, <1>10, <1>11, <1>13, <3>1, <3>2, <3>3 DEF Listening, Before
        <3>4. ASSUME NEW s \in C, s >= n, y[s] # <<>>
              PROVE  Shows(y[s], M, Sent(sent, s))
            BY <1>2, <1>8, <1>10, <1>11, <1>13, <3>1, <3>2, <3>4 DEF Listening
        <3>5. Listening(x, y, C, sent)
            BY <1>8, <1>10, <1>11, <3>2, <3>3, <3>4 DEF Listening, Before
        <3>6. QED
            BY <1>3, <1>4, <1>6, <1>8, <3>5 DEF Listens
    <2>3. QED
        BY <2>1, <2>2
<1>16. QED
    BY <1>14, <1>15
\* The end.
LEMMA QuitTruth ==
    ASSUME TypeOK, NEW c \in Clients, Quit(c),
           Truth(client[c], gets[c], due[c], s2c[c], conn[c], sent)
    PROVE  Truthful(c)
<1>1. PICK me \in Client : me = client[c]
    BY DEF TypeOK
<1>2. PICK x : x = [me EXCEPT !.pc = "gone"]
    OBVIOUS
<1>3. me.pc = "menu" /\ client'[c] = x /\ gets' = gets /\ due' = due
    BY <1>1, <1>2 DEF Quit, TypeOK, hvars
<1>4. x.pc = "gone" /\ x.out = me.out
    BY <1>2 DEF Client
<1>5. Settled(x, gets[c], due[c])
    BY <1>1, <1>3, <1>4 DEF Truth, Settled
<1>6. QED
    BY <1>3, <1>4, <1>5, TruthAtRest DEF Truthful

\* GET, of a file for the first time.
LEMMA GetTruth ==
    ASSUME AllLocalOnce, MaxGets <= 1, TypeOK, NEW c \in Clients, NEW f \in Names, Get(c, f),
           NEW K, Linked(K), Truth(client[c], gets[c], due[c], s2c[c], conn[c], sent)
    PROVE  Truthful(c)
<1>1. PICK me \in Client : me = client[c]
    BY DEF TypeOK
<1>2. PICK n : n = FirstFrom(c, 0)
    OBVIOUS
<1>3. PICK x : x = [me EXCEPT !.pc = "collect", !.file = f, !.at = n, !.marks = {}]
    OBVIOUS
<1>4. me.pc = "menu" /\ client'[c] = x /\ s2c' = s2c
    BY <1>1, <1>2, <1>3 DEF Get, TypeOK
<1>5. x.pc = "collect" /\ x.at = n /\ x.marks = {} /\ x.file = f /\ x.out = me.out
    BY <1>3 DEF Client
<1>6. gets[c][f] = 0 /\ gets'[c][f] = 1 /\ \A h \in Names : h # f => gets'[c][h] = gets[c][h]
    BY BoundsAssumption DEF Get, TypeOK
<1>7. PICK b : b = IF Parts \subseteq Hears(sent, f, conn[c]) THEN Pieces(sent, f, conn[c]) ELSE {}
    OBVIOUS
<1>8. due'[c][f] = b /\ \A h \in Names : h # f => due'[c][h] = due[c][h]
    <2>1. b = IF Parts \subseteq UNION {SentParts(g, conn[c]) : g \in Within[f]}
              THEN SentParts(f, conn[c]) ELSE {}
        BY <1>7 DEF Hears, Pieces, SentParts
    <2>2. due' = [due EXCEPT ![c][f] = b]
        BY <2>1, Zenon DEF Get
    <2>3. QED
        BY <2>2 DEF TypeOK
<1>9. Settled(me, gets[c], due[c])
    BY <1>1 DEF Truth
<1>10. me.out[f] = <<>> /\ \A h \in Names : me.out[h] = Gather(h, due[c][h])
    BY <1>4, <1>6, <1>9 DEF Settled
<1>11. Settled(x, gets'[c], due'[c])
    <2>1. ASSUME NEW h \in Names
          PROVE  /\ gets'[c][h] = 0 => due'[c][h] = {} /\ x.out[h] = <<>>
                 /\ h # f => x.out[h] = Gather(h, due'[c][h])
        BY <1>5, <1>6, <1>8, <1>9, <1>10 DEF Settled
    <2>2. QED
        BY <1>5, <2>1 DEF Settled
<1>12. Before(x, conn[c]) = {}
    BY <1>2, <1>5, FirstLow DEF Before
<1>13. \A s \in conn[c] : s2c[c][s] = <<>>
    BY <1>1, <1>4, MenuQuiet
<1>14. Hearing(x, due'[c], s2c[c], conn[c], sent)
    BY <1>5, <1>7, <1>8, <1>10, <1>12, <1>13 DEF Hearing
<1>15. QED
    BY <1>4, <1>5, <1>11, <1>14 DEF Truthful, Truth, Replying
\* What Collect does to the client that reads q.
CollectRuns(me, q, n, n0, x) ==
    /\ x.out = me.out /\ x.file = me.file
    /\ \/ /\ q # <<Text("DONE")>> /\ x.pc = "collect" /\ x.at = me.at
          /\ x.marks = me.marks \cup {Number(q)}
       \/ q # <<Text("DONE")>> /\ x.pc = "ub"
       \/ /\ q = <<Text("DONE")>> /\ n # 4
          /\ x.pc = "collect" /\ x.at = n /\ x.marks = me.marks
       \/ /\ q = <<Text("DONE")>> /\ n = 4 /\ me.marks = Parts
          /\ x.pc = "fetch" /\ x.at = n0 /\ x.part = 1 /\ x.marks = {}
       \/ q = <<Text("DONE")>> /\ n = 4 /\ me.marks # Parts /\ x.pc = "menu"

LEMMA CollectRunsOn ==
    ASSUME TypeOK, NEW c \in Clients, Collect(c), NEW me, me = client[c],
           NEW q, q = Message(s2c[c][me.at]), NEW n, n = FirstFrom(c, me.at + 1),
           NEW n0, n0 = FirstFrom(c, 0)
    PROVE  CollectRuns(me, q, n, n0, client'[c])
<1>1. me \in Client /\ me.pc = "collect"
    BY DEF TypeOK, Collect
<1>2. PICK m : m = me.marks \cup {Number(q)}
    OBVIOUS
<1>3. PICK w : w = <<Text("DONE")>>
    OBVIOUS
<1>4. \/ q # w /\ client' = [client EXCEPT ![c] = [me EXCEPT !.marks = m]]
      \/ q # w /\ client' = [client EXCEPT ![c] = [me EXCEPT !.pc = "ub"]]
      \/ q = w /\ n # 4 /\ client' = [client EXCEPT ![c] = [me EXCEPT !.at = n]]
      \/ /\ q = w /\ n = 4 /\ me.marks = Parts
         /\ client' = [client EXCEPT ![c] =
                         [me EXCEPT !.pc = "fetch", !.at = n0, !.part = 1, !.marks = {}]]
      \/ q = w /\ n = 4 /\ me.marks # Parts /\ client' = [client EXCEPT ![c] = [me EXCEPT !.pc = "menu"]]
    BY <1>2, <1>3, Zenon DEF Collect
<1>5. PICK x : x = client'[c]
    OBVIOUS
<1>6. \/ q # w /\ x = [me EXCEPT !.marks = m]
      \/ q # w /\ x = [me EXCEPT !.pc = "ub"]
      \/ q = w /\ n # 4 /\ x = [me EXCEPT !.at = n]
      \/ /\ q = w /\ n = 4 /\ me.marks = Parts
         /\ x = [me EXCEPT !.pc = "fetch", !.at = n0, !.part = 1, !.marks = {}]
      \/ q = w /\ n = 4 /\ me.marks # Parts /\ x = [me EXCEPT !.pc = "menu"]
    BY <1>4, <1>5, Zenon DEF TypeOK
<1>7. CollectRuns(me, q, n, n0, x)
    BY <1>1, <1>2, <1>3, <1>6 DEF CollectRuns, Client
<1>8. QED
    BY <1>5, <1>7

\* What was heard of every server was heard of all.
LEMMA HearsAll ==
    ASSUME NEW D, NEW f \in Names, NEW C, NEW M, \A s \in C : Hears(D, f, {s}) \subseteq M
    PROVE  Hears(D, f, C) \subseteq M
<1>1. SUFFICES ASSUME NEW p \in Hears(D, f, C)
               PROVE  p \in M
    OBVIOUS
<1>2. p \in Parts /\ \E g \in Within[f], s \in C : <<s, <<g, p>>>> \in D
    BY HearsIs
<1>3. PICK g \in Within[f], s \in C : <<s, <<g, p>>>> \in D
    BY <1>2
<1>4. PICK S : S = {s}
    OBVIOUS
<1>5. p \in Hears(D, f, S)
    BY <1>2, <1>3, <1>4, HearsIs
<1>6. QED
    BY <1>4, <1>5

\* The piece numbers.
LEMMA CollectTruth ==
    ASSUME TypeOK, NEW c \in Clients, Collect(c), client[c].at \in conn[c],
           Truth(client[c], gets[c], due[c], s2c[c], conn[c], sent)
    PROVE  Truthful(c)
<1>1. PICK me \in Client : me = client[c]
    BY DEF TypeOK
<1>2. PICK a \in 0..3 : a = me.at
    BY <1>1 DEF Client, Servers
<1>3. PICK C \in SUBSET Servers : C = conn[c]
    BY DEF TypeOK
<1>4. PICK r, y, d : r = s2c[c] /\ y = s2c'[c] /\ d = due[c]
    OBVIOUS
<1>5. PICK n, n0 : n = FirstFrom(c, a + 1) /\ n0 = FirstFrom(c, 0)
    OBVIOUS
<1>6. PICK x : x = client'[c]
    OBVIOUS
<1>7. PICK q : q = Message(r[a])
    OBVIOUS
<1>8. /\ a \in C /\ me.pc = "collect" /\ r[a] # <<>> /\ gets' = gets /\ due' = due
      /\ y[a] = AfterMessage(r[a]) /\ \A s \in C : s # a => y[s] = r[s]
    BY <1>1, <1>2, <1>3, <1>4 DEF Collect, HasMessage, TypeOK, Servers, hvars
<1>9. CollectRuns(me, q, n, n0, x)
    BY <1>1, <1>2, <1>4, <1>5, <1>6, <1>7, CollectRunsOn
<1>10. Settled(me, gets[c], d) /\ Hearing(me, d, r, C, sent)
    BY <1>1, <1>3, <1>4 DEF Truth
<1>11. x.pc \in {"collect", "fetch", "menu", "ub"} /\ x.out = me.out /\ x.file = me.file
    BY <1>9 DEF CollectRuns
<1>12. PICK f, M, T : /\ f \in Names /\ f = me.file
                     /\ M \in SUBSET Parts /\ M = me.marks
                     /\ T = Hears(sent, f, {a})
    BY DEF Client
<1>13. TellsNext(r[a], M, T)
    BY <1>2, <1>8, <1>10, <1>12, Telling DEF Hearing
<1>14. ASSUME NEW s \in C
       PROVE  /\ n # 4 => /\ s # a => (s < a <=> s < n) /\ (s >= a <=> s >= n)
                          /\ s = a => s < n
              /\ n = 4 => s = a \/ s < a
    BY <1>2, <1>3, <1>5, <1>8, NextServer
<1>15. /\ me.out[f] = <<>> /\ M \subseteq Hears(sent, f, C)
       /\ d[f] = IF Parts \subseteq Hears(sent, f, C) THEN Pieces(sent, f, C) ELSE {}
    BY <1>8, <1>10, <1>12 DEF Hearing
<1>16. \A h \in Names : /\ gets[c][h] = 0 => d[h] = {} /\ x.out[h] = <<>>
                        /\ h # f => x.out[h] = Gather(h, d[h])
    BY <1>10, <1>11, <1>12 DEF Settled
<1>17. CASE x.pc = "ub"
    <2>1. Settled(x, gets[c], d)
        BY <1>11, <1>12, <1>16, <1>17 DEF Settled
    <2>2. QED
        BY <1>4, <1>6, <1>8, <1>17, <2>1, TruthAtRest DEF Truthful
<1>18. CASE x.pc = "collect" /\ q # <<Text("DONE")>>
    <2>1. PICK p : p = Number(q) /\ p \in T /\ Tells(y[a], M \cup {p}, T)
        BY <1>7, <1>8, <1>13, <1>18 DEF TellsNext
    <2>2. x.at = a /\ x.marks = M \cup {p}
        BY <1>2, <1>9, <1>12, <1>18, <2>1 DEF CollectRuns
    <2>3. M \cup {p} \subseteq Hears(sent, f, C)
        <3>1. p \in Hears(sent, f, C)
            <4>1. PICK S : S = {a}
                OBVIOUS
            <4>2. p \in Parts /\ \E g \in Within[f], s \in S : <<s, <<g, p>>>> \in sent
                BY <1>12, <2>1, <4>1, HearsIs
            <4>3. QED
                BY <1>12, <1>8, <4>1, <4>2, HearsIs
        <3>2. QED
            BY <1>15, <3>1
    <2>4. \A s \in Before(x, C) : Hears(sent, f, {s}) \subseteq M \cup {p}
        BY <1>2, <1>8, <1>10, <1>12, <2>2 DEF Hearing, Before
    <2>5. ASSUME NEW s \in C, s >= a, y[s] # <<>>
          PROVE  Tells(y[s], M \cup {p}, Hears(sent, f, {s}))
        <3>1. CASE s = a
            BY <1>12, <2>1, <3>1
        <3>2. CASE s # a
            <4>1. Tells(r[s], M, Hears(sent, f, {s}))
                BY <1>2, <1>8, <1>10, <1>12, <2>5, <3>2 DEF Hearing
            <4>2. QED
                BY <1>8, <3>2, <4>1, TellsLess
        <3>3. QED
            BY <3>1, <3>2
    <2>6. Hearing(x, d, y, C, sent)
        BY <1>11, <1>12, <1>15, <2>2, <2>3, <2>4, <2>5 DEF Hearing
    <2>7. Settled(x, gets[c], d)
        BY <1>11, <1>12, <1>16, <1>18 DEF Settled
    <2>8. QED
        BY <1>3, <1>4, <1>6, <1>8, <1>18, <2>6, <2>7 DEF Truthful, Truth, Replying
<1>19. ASSUME q = <<Text("DONE")>>
       PROVE  y[a] = <<>> /\ T \subseteq M
    BY <1>7, <1>8, <1>13, <1>19 DEF TellsNext
<1>20. CASE x.pc = "collect" /\ q = <<Text("DONE")>>
    <2>1. n # 4 /\ x.at = n /\ x.marks = M
        BY <1>9, <1>12, <1>20 DEF CollectRuns
    <2>2. ASSUME NEW s \in C, s < n
          PROVE  Hears(sent, f, {s}) \subseteq M
        BY <1>2, <1>8, <1>10, <1>12, <1>14, <1>19, <1>20, <2>1, <2>2 DEF Hearing, Before
    <2>3. ASSUME NEW s \in C, s >= n, y[s] # <<>>
          PROVE  Tells(y[s], M, Hears(sent, f, {s}))
        BY <1>2, <1>8, <1>10, <1>12, <1>14, <1>19, <1>20, <2>1, <2>3 DEF Hearing
    <2>4. Hearing(x, d, y, C, sent)
        BY <1>11, <1>12, <1>15, <2>1, <2>2, <2>3 DEF Hearing, Before
    <2>5. Settled(x, gets[c], d)
        BY <1>11, <1>12, <1>16, <1>20 DEF Settled
    <2>6. QED
        BY <1>3, <1>4, <1>6, <1>8, <1>20, <2>4, <2>5 DEF Truthful, Truth, Replying
<1>21. CASE x.pc = "fetch"
    <2>1. M = Parts /\ x.at = n0 /\ x.part = 1 /\ x.marks = {}
        BY <1>9, <1>12, <1>21 DEF CollectRuns
    <2>2. d[f] = Pieces(sent, f, C)
        BY <1>15, <2>1
    <2>3. Before(x, C) = {}
        BY <1>3, <1>5, <2>1, FirstLow DEF Before
    <2>4. Filled(x, C, sent) = {}
        BY <2>1 DEF Filled, Pieces, Parts
    <2>5. Pieces(sent, f, {}) = {}
        BY DEF Pieces
    <2>6. x.out[f] = Gather(f, {})
        BY <1>12, <1>11, <1>15, GatherNone
    <2>7. Gathering(x, d, {}, C, sent)
        BY <1>11, <1>12, <2>1, <2>2, <2>4, <2>5, <2>6 DEF Gathering
    <2>8. Settled(x, gets[c], d)
        BY <1>11, <1>12, <1>16, <1>21 DEF Settled
    <2>9. QED
        BY <1>3, <1>4, <1>6, <1>8, <1>21, <2>3, <2>7, <2>8
           DEF Truthful, Truth, Hearing, Replying
<1>22. CASE x.pc = "menu"
    <2>1. q = <<Text("DONE")>> /\ n = 4 /\ M # Parts
        BY <1>9, <1>12, <1>22 DEF CollectRuns
    <2>2. \A s \in C : Hears(sent, f, {s}) \subseteq M
        BY <1>2, <1>8, <1>10, <1>12, <1>14, <1>19, <2>1 DEF Hearing, Before
    <2>3. Hears(sent, f, C) \subseteq M
        BY <1>12, <2>2, HearsAll
    <2>4. d[f] = {}
        BY <1>12, <1>15, <2>1, <2>3
    <2>5. x.out[f] = Gather(f, d[f])
        BY <1>12, <1>11, <1>15, <2>4, GatherNone
    <2>6. Settled(x, gets[c], d)
        BY <1>16, <2>5 DEF Settled
    <2>7. QED
        BY <1>4, <1>6, <1>8, <1>22, <2>6, TruthAtRest DEF Truthful
<1>23. QED
    BY <1>11, <1>17, <1>18, <1>20, <1>21, <1>22
\* The end of an iteration of the loop over the servers.
LEMMA AfterAskTruth ==
    ASSUME TypeOK, NEW c \in Clients, NEW me \in Client, me.pc \in {"fetch", "reply"},
           NEW C, C = conn[c], me.at \in C, NEW g, NEW d, Settled(me, g, d),
           NEW D, NEW S, S = Before(me, C) \cup {me.at}, Gathering(me, d, S, C, D),
           NEW x, x = AfterAsk(c, me), NEW r
    PROVE  Truth(x, g, d, r, C, D)
<1>1. PICK a \in 0..3 : a = me.at
    BY DEF Client, Servers
<1>2. PICK n : n = FirstFrom(c, a + 1)
    OBVIOUS
<1>3. /\ x.out = me.out /\ x.file = me.file /\ x.marks = me.marks
      /\ n # 4 => x.pc = "fetch" /\ x.at = n /\ x.part = me.part
      /\ n = 4 /\ me.part < 4 =>
            x.pc = "fetch" /\ x.at = FirstFrom(c, 0) /\ x.part = me.part + 1
      /\ n = 4 /\ ~(me.part < 4) => x.pc = "menu"
    BY <1>1, <1>2, AfterAskIs
<1>4. PICK p \in 1..4, f \in Names : p = me.part /\ f = me.file
    BY DEF Client, Parts
<1>5. ASSUME NEW s \in C
      PROVE  /\ n # 4 => /\ n \in 0..3 /\ a < n
                         /\ s # a => (s < a <=> s < n)
             /\ n = 4 => s = a \/ s < a
    BY <1>1, <1>2, NextServer
<1>6. \A h \in Names : /\ g[h] = 0 => d[h] = {} /\ x.out[h] = <<>>
                       /\ h # f => x.out[h] = Gather(h, d[h])
    BY <1>3, <1>4 DEF Settled
<1>7. /\ d[f] = Pieces(D, f, C) /\ x.out[f] = Gather(f, Filled(me, C, D))
      /\ \A i \in Parts : i > p => i \notin me.marks
      /\ p \in me.marks <=> p \in Pieces(D, f, S)
    BY <1>3, <1>4 DEF Gathering
<1>8. CASE n # 4
    <2>1. x.pc = "fetch" /\ x.at = n /\ x.part = p
        BY <1>3, <1>4, <1>8
    <2>2. Before(x, C) = S
        BY <1>1, <1>5, <1>8, <2>1 DEF Before
    <2>3. Filled(x, C, D) = Filled(me, C, D)
        BY <1>3, <1>4, <2>1 DEF Filled
    <2>4. Gathering(x, d, S, C, D)
        BY <1>3, <1>4, <1>7, <2>1, <2>3 DEF Gathering
    <2>5. Settled(x, g, d)
        BY <1>3, <1>4, <1>6, <2>1 DEF Settled
    <2>6. QED
        BY <2>1, <2>2, <2>4, <2>5 DEF Truth, Hearing, Replying
<1>9. CASE n = 4
    <2>1. S = C
        BY <1>1, <1>5, <1>9 DEF Before
    <2>2. \A i \in Pieces(D, f, C) : i = p => i \in me.marks
        BY <1>7, <2>1
    <2>3. CASE p < 4
        <3>1. x.pc = "fetch" /\ x.at = FirstFrom(c, 0) /\ x.part = p + 1
            BY <1>3, <1>4, <1>9, <2>3
        <3>2. Before(x, C) = {}
            BY <3>1, FirstLow DEF Before
        <3>3. Filled(x, C, D) = Filled(me, C, D)
            <4>1. ASSUME NEW i \in Pieces(D, f, C)
                  PROVE  (i < p + 1 \/ (i = p + 1 /\ i \in me.marks))
                            <=> (i < p \/ (i = p /\ i \in me.marks))
                <5>1. i \in Parts /\ i \in 1..4
                    BY DEF Pieces, Parts
                <5>2. i < p + 1 <=> i < p \/ i = p
                    BY <5>1
                <5>3. i = p + 1 => i > p
                    BY <5>1
                <5>4. QED
                    BY <1>7, <2>2, <5>1, <5>2, <5>3
            <4>2. QED
                BY <1>3, <1>4, <3>1, <4>1 DEF Filled
        <3>4. p + 1 \in Parts /\ p + 1 \notin me.marks
            <4>1. p + 1 \in Parts /\ p + 1 > p
                BY <2>3 DEF Parts
            <4>2. QED
                BY <1>7, <4>1
        <3>5. \A i \in Parts : i > p + 1 => i > p
            BY DEF Parts
        <3>6. Pieces(D, f, {}) = {}
            BY DEF Pieces
        <3>7. Gathering(x, d, {}, C, D)
            BY <1>3, <1>4, <1>7, <3>1, <3>3, <3>4, <3>5, <3>6 DEF Gathering
        <3>8. Settled(x, g, d)
            BY <1>3, <1>4, <1>6, <3>1 DEF Settled
        <3>9. QED
            BY <3>1, <3>2, <3>7, <3>8 DEF Truth, Hearing, Replying
    <2>4. CASE ~(p < 4)
        <3>1. x.pc = "menu" /\ p = 4
            BY <1>3, <1>4, <1>9, <2>4
        <3>2. Filled(me, C, D) = d[f]
            <4>1. \A i \in Pieces(D, f, C) : i < p \/ i = p
                BY <3>1 DEF Pieces, Parts
            <4>2. QED
                BY <1>4, <1>7, <2>2, <4>1 DEF Filled
        <3>3. Settled(x, g, d)
            BY <1>6, <1>7, <3>2 DEF Settled
        <3>4. QED
            BY <3>1, <3>3, TruthAtRest
    <2>5. QED
        BY <2>3, <2>4
<1>10. QED
    BY <1>8, <1>9

\* A refusal, of a piece that another server has sent.
LEMMA DeclineTruth ==
    ASSUME TypeOK, NEW c \in Clients, Decline(c), client[c].at \in conn[c],
           Truth(client[c], gets[c], due[c], s2c[c], conn[c], sent)
    PROVE  Truthful(c)
<1>1. PICK me \in Client : me = client[c]
    BY DEF TypeOK
<1>2. PICK C, S, d : C = conn[c] /\ S = Before(me, C) \cup {me.at} /\ d = due[c]
    OBVIOUS
<1>3. /\ me.pc = "fetch" /\ me.part \in me.marks /\ client'[c] = AfterAsk(c, me)
      /\ gets' = gets /\ due' = due /\ s2c' = s2c
    BY <1>1 DEF Decline, TypeOK, hvars
<1>4. Settled(me, gets[c], d) /\ Gathering(me, d, Before(me, C), C, sent)
    BY <1>1, <1>2, <1>3 DEF Truth
<1>5. me.part \in Pieces(sent, me.file, S)
    BY <1>2, <1>3, <1>4 DEF Gathering, Pieces
<1>6. Gathering(me, d, S, C, sent)
    BY <1>3, <1>4, <1>5 DEF Gathering
<1>7. PICK x : x = AfterAsk(c, me)
    OBVIOUS
<1>8. Truth(x, gets[c], d, s2c[c], C, sent)
    BY <1>1, <1>2, <1>3, <1>4, <1>6, <1>7, AfterAskTruth
<1>9. QED
    BY <1>2, <1>3, <1>7, <1>8 DEF Truthful

\* A request.
LEMMA AskTruth ==
    ASSUME TypeOK, NEW c \in Clients, Ask(c), client[c].at \in conn[c],
           NEW K, LinkOf(c, client[c].at, K),
           Truth(client[c], gets[c], due[c], s2c[c], conn[c], sent)
    PROVE  Truthful(c)
<1>1. PICK me \in Client : me = client[c]
    BY DEF TypeOK
<1>2. PICK x : x = [me EXCEPT !.pc = "reply"]
    OBVIOUS
<1>3. /\ me.pc = "fetch" /\ me.part \notin me.marks /\ client'[c] = x
      /\ s2c' = s2c /\ gets' = gets /\ due' = due
    BY <1>1, <1>2 DEF Ask, TypeOK, hvars
<1>4. /\ x.out = me.out /\ x.pc = "reply" /\ x.file = me.file /\ x.part = me.part
      /\ x.marks = me.marks /\ x.at = me.at
    BY <1>2 DEF Client
<1>5. s2c[c][me.at] = <<>>
    BY <1>1, <1>3, Fetching DEF LinkOf
<1>6. PICK C, d : C = conn[c] /\ d = due[c]
    OBVIOUS
<1>7. Settled(me, gets[c], d) /\ Gathering(me, d, Before(me, C), C, sent)
    BY <1>1, <1>3, <1>6 DEF Truth
<1>8. Before(x, C) = Before(me, C)
    BY <1>4 DEF Before
<1>9. Filled(x, C, sent) = Filled(me, C, sent)
    BY <1>4 DEF Filled
<1>10. Gathering(x, d, Before(x, C), C, sent)
    BY <1>4, <1>7, <1>8, <1>9 DEF Gathering
<1>11. Settled(x, gets[c], d)
    BY <1>3, <1>4, <1>7 DEF Settled
<1>12. Replying(x, s2c[c], sent)
    BY <1>3, <1>4, <1>5 DEF Replying
<1>13. QED
    BY <1>3, <1>4, <1>6, <1>10, <1>11, <1>12 DEF Truthful, Truth, Hearing

\* The answer: the piece, if the server was sent it.
Takes(me, y, g, d, S, C, D) ==
    /\ Settled(y, g, d) /\ Gathering(y, d, S, C, D)
    /\ y.pc = "reply" /\ y.at = me.at /\ Before(y, C) = Before(me, C)

LEMMA ReceivedTruth ==
    ASSUME NoneIsNo, NEW me \in Client, me.pc = "reply", me.part \notin me.marks,
           NEW C, me.at \in C, NEW g, NEW d, Settled(me, g, d),
           NEW D, Gathering(me, d, Before(me, C), C, D),
           NEW q, q = Replica(D, me.at, me.file, me.part),
           NEW y, y = Received(me, q),
           NEW S, S = Before(me, C) \cup {me.at}
    PROVE  Takes(me, y, g, d, S, C, D)
<1>1. /\ q = <<Text("NO")>> => y = me
      /\ y.pc = me.pc /\ y.file = me.file /\ y.at = me.at /\ y.part = me.part
      /\ q # <<Text("NO")>> =>
            /\ y.marks = me.marks \cup {me.part}
            /\ y.out[me.file] = me.out[me.file] \o q
            /\ \A h \in Names : h # me.file => y.out[h] = me.out[h]
    <2>1. Adds(me, q, y)
        BY ReceivedIs
    <2>2. QED
        BY <2>1 DEF Adds
<1>2. PICK p \in 1..4, f \in Names, a \in Servers :
        p = me.part /\ f = me.file /\ a = me.at
    BY DEF Client, Parts
<1>3. Before(y, C) = Before(me, C)
    BY <1>1 DEF Before
<1>4. p \in Parts
    BY DEF Parts
<1>5. /\ d[f] = Pieces(D, f, C) /\ me.out[f] = Gather(f, Filled(me, C, D))
      /\ \A i \in Parts : i > p => i \notin me.marks
      /\ p \notin Pieces(D, f, Before(me, C))
    BY <1>2 DEF Gathering
<1>6. CASE <<a, <<f, p>>>> \notin D
    <2>1. y = me
        BY <1>1, <1>2, <1>6 DEF Replica
    <2>2. p \notin Pieces(D, f, S)
        BY <1>2, <1>5, <1>6 DEF Pieces
    <2>3. Gathering(me, d, S, C, D)
        BY <1>2, <2>2 DEF Gathering
    <2>4. QED
        BY <1>3, <2>1, <2>3 DEF Takes
<1>7. CASE <<a, <<f, p>>>> \in D
    <2>1. q = PartOf(Contents[f], p) /\ q # <<Text("NO")>>
        BY <1>2, <1>4, <1>7 DEF Replica, NoneIsNo
    <2>2. p \in Pieces(D, f, S) /\ p \in Pieces(D, f, C)
        BY <1>2, <1>4, <1>7 DEF Pieces
    <2>3. PICK G, H : G = Filled(me, C, D) /\ H = Filled(y, C, D)
        OBVIOUS
    <2>4. G \subseteq 1..p /\ p \notin G /\ H = G \cup {p}
        <3>1. ASSUME NEW i
              PROVE  i \in G <=> i \in Pieces(D, f, C) /\ i < p
            BY <1>2, <2>3 DEF Filled
        <3>2. ASSUME NEW i
              PROVE  i \in H <=> i \in Pieces(D, f, C) /\ (i < p \/ i = p)
            BY <1>1, <1>2, <2>1, <2>3 DEF Filled
        <3>3. \A i \in Pieces(D, f, C) : i < p => i \in 1..p
            BY DEF Pieces, Parts
        <3>4. ~(p < p)
            OBVIOUS
        <3>5. QED
            BY <2>2, <3>1, <3>2, <3>3, <3>4
    <2>5. Gather(f, H) = Gather(f, G) \o PartOf(Contents[f], p)
        BY <2>4, GatherMore, Zenon
    <2>6. y.out[f] = Gather(f, H)
        BY <1>1, <1>2, <1>5, <2>1, <2>3, <2>5
    <2>7. \A i \in Parts : i > p => i \notin y.marks
        <3>1. \A i \in Parts : i > p => i # p
            BY DEF Parts
        <3>2. QED
            BY <1>1, <1>2, <1>5, <2>1, <3>1
    <2>8. Gathering(y, d, S, C, D)
        BY <1>1, <1>2, <1>5, <2>1, <2>2, <2>3, <2>6, <2>7 DEF Gathering
    <2>9. Settled(y, g, d)
        <3>1. g[f] # 0
            <4>1. d[f] # {}
                BY <1>5, <2>2
            <4>2. QED
                BY <4>1 DEF Settled
        <3>2. \A h \in Names : h # f => y.out[h] = me.out[h]
            BY <1>1, <1>2, <2>1
        <3>3. QED
            BY <1>1, <1>2, <3>1, <3>2 DEF Settled
    <2>10. QED
        BY <1>1, <1>3, <2>8, <2>9 DEF Takes
<1>8. QED
    BY <1>6, <1>7

\* The client takes the answer and goes on.
LEMMA ReplyTruth ==
    ASSUME NoneIsNo, TypeOK, NEW c \in Clients, Reply(c), client[c].at \in conn[c],
           Truth(client[c], gets[c], due[c], s2c[c], conn[c], sent)
    PROVE  Truthful(c)
<1>1. PICK me \in Client : me = client[c]
    BY DEF TypeOK
<1>2. PICK r \in Seq(Byte) : r = s2c[c][me.at]
    BY <1>1 DEF TypeOK, Client
<1>3. PICK C, d : C = conn[c] /\ d = due[c]
    OBVIOUS
<1>4. /\ me.pc = "reply" /\ r # <<>> /\ gets' = gets /\ due' = due
      /\ client'[c] = AfterAsk(c, Received(me, Message(r)))
    BY <1>1, <1>2 DEF Reply, HasMessage, TypeOK, hvars
<1>5. /\ Settled(me, gets[c], d) /\ Gathering(me, d, Before(me, C), C, sent)
      /\ me.part \notin me.marks
      /\ r = Prefixed(Replica(sent, me.at, me.file, me.part))
    BY <1>1, <1>2, <1>3, <1>4 DEF Truth, Replying
<1>6. PICK q \in Seq(Byte) : q = Replica(sent, me.at, me.file, me.part)
    <2>1. <<Text("NO")>> \in Seq(Byte)
        BY WordFacts DEF Words
    <2>2. PartOf(Contents[me.file], me.part) \in Seq(Byte)
        BY SizeType DEF Client
    <2>3. QED
        BY <2>1, <2>2 DEF Replica
<1>7. Message(r) = q
    <2>1. LeadsOff(q, <<>>, r)
        BY <1>5, <1>6, FrontAlone
    <2>2. QED
        BY <2>1 DEF LeadsOff
<1>8. PICK y \in Client : y = Received(me, q)
    BY <1>6, ReceivedType
<1>9. PICK S : S = Before(me, C) \cup {me.at}
    OBVIOUS
<1>10. Takes(me, y, gets[c], d, S, C, sent)
    <2>1. PICK D, g : D = sent /\ g = gets[c]
        OBVIOUS
    <2>2. /\ me.pc = "reply" /\ me.part \notin me.marks /\ me.at \in C
          /\ Settled(me, g, d) /\ Gathering(me, d, Before(me, C), C, D)
          /\ q = Replica(D, me.at, me.file, me.part)
        BY <1>1, <1>3, <1>4, <1>5, <1>6, <2>1
    <2>3. Takes(me, y, g, d, S, C, D)
        BY <1>8, <1>9, <2>2, ReceivedTruth, Zenon
    <2>4. QED
        BY <2>1, <2>3
<1>11. PICK x : x = AfterAsk(c, y)
    OBVIOUS
<1>12. Truth(x, gets[c], d, s2c'[c], C, sent)
    <2>1. S = Before(y, C) \cup {y.at} /\ y.at \in C
        BY <1>1, <1>3, <1>9, <1>10 DEF Takes
    <2>2. QED
        BY <1>3, <1>10, <1>11, <2>1, AfterAskTruth DEF Takes
<1>13. QED
    BY <1>3, <1>4, <1>7, <1>8, <1>11, <1>12 DEF Truthful

\* All of the client's steps but PUT.
LEMMA QuietTruth ==
    ASSUME AllLocalOnce, NoneIsNo, MaxGets <= 1, TypeOK, NEW c \in Clients, Quiet(c), AtReached,
           NEW K, Linked(K), Truth(client[c], gets[c], due[c], s2c[c], conn[c], sent)
    PROVE  Truthful(c)
<1>1. c \in Good
    BY DEF Good, AllLocalOnce
<1>2. client[c].pc \in {"list", "collect", "fetch", "reply"} => client[c].at \in conn[c]
    BY <1>1 DEF AtReached
<1>3. CASE List(c)
    BY <1>3, ListTruth
<1>4. CASE \E f \in Names : Get(c, f)
    BY <1>4, GetTruth
<1>5. CASE Quit(c)
    BY <1>5, QuitTruth
<1>6. CASE ListRead(c)
    <2>1. client[c].at \in conn[c]
        BY <1>2, <1>6 DEF ListRead
    <2>2. QED
        BY <1>6, <2>1, ListReadTruth
<1>7. CASE Collect(c)
    <2>1. client[c].at \in conn[c]
        BY <1>2, <1>7 DEF Collect
    <2>2. QED
        BY <1>7, <2>1, CollectTruth
<1>8. CASE Decline(c)
    <2>1. client[c].at \in conn[c]
        BY <1>2, <1>8 DEF Decline
    <2>2. QED
        BY <1>8, <2>1, DeclineTruth
<1>9. CASE Ask(c)
    <2>1. client[c].at \in conn[c]
        BY <1>2, <1>9 DEF Ask
    <2>2. PICK L : L = K[c][client[c].at]
        OBVIOUS
    <2>3. LinkOf(c, client[c].at, L)
        BY <1>1, <2>1, <2>2 DEF Linked
    <2>4. QED
        BY <1>9, <2>1, <2>3, AskTruth
<1>10. CASE Reply(c)
    <2>1. client[c].at \in conn[c]
        BY <1>2, <1>10 DEF Reply
    <2>2. QED
        BY <1>10, <2>1, ReplyTruth
<1>11. QED
    BY <1>3, <1>4, <1>5, <1>6, <1>7, <1>8, <1>9, <1>10 DEF Quiet, ClientStep

\* Every step keeps the truth.
LEMMA ExactStep ==
    ASSUME AllLocalOnce, Alone, NoneIsNo, MaxGets <= 1, TypeOK, Sync, Exact, [Next]_vars
    PROVE  Exact'
<1>1. PICK K \in [Clients -> [Servers -> SUBSET Keys]] : Linked(K) /\ Book(K)
    BY DEF Sync
<1>2. AtReached
    BY DEF Sync
<1>3. ASSUME NEW c \in Clients
      PROVE  Truth(client[c], gets[c], due[c], s2c[c], conn[c], sent)
    BY DEF Exact
<1>4. ASSUME NEW c \in Clients,
             Truth(client'[c], gets'[c], due'[c], s2c'[c], conn'[c], sent')
      PROVE  Exact'
    <2>1. \A d \in Clients : d = c
        BY DEF Alone
    <2>2. QED
        BY <1>4, <2>1 DEF Exact
<1>5. CASE \E c \in Clients : Quiet(c)
    <2>1. PICK c \in Clients : Quiet(c)
        BY <1>5
    <2>2. Truthful(c)
        BY <1>1, <1>2, <1>3, <2>1, QuietTruth
    <2>3. conn' = conn /\ sent' = sent
        BY <2>1, QuietApart
    <2>4. QED
        BY <1>4, <2>2, <2>3 DEF Truthful
<1>6. CASE \E c \in Clients, f \in Names, h \in Hashes : Put(c, f, h)
    <2>1. PICK c \in Clients : \E f \in Names, h \in Hashes : Put(c, f, h)
        BY <1>6
    <2>2. /\ client[c].pc = "menu"
          /\ client' = client /\ gets' = gets /\ due' = due
        BY <2>1 DEF Put
    <2>3. Settled(client[c], gets[c], due[c])
        BY <1>3 DEF Truth
    <2>4. QED
        BY <1>4, <2>2, <2>3, TruthAtRest
<1>7. CASE \E c \in Clients, s \in Servers : s \in conn[c] /\ ThreadStep(c, s)
    <2>1. PICK c \in Clients, s \in Servers : s \in conn[c] /\ ThreadStep(c, s)
        BY <1>7
    <2>2. client' = client /\ conn' = conn /\ sent' = sent
        BY <2>1, ThreadApart
    <2>3. gets' = gets /\ due' = due
        BY <2>1 DEF ThreadStep, Command, Spin, PutName, PutSize, PutData, PutNum, PutFlush,
               GetFile, GetAnswer, GetDeclined, GetPiece, hvars
    <2>4. PICK g, d : g = gets[c] /\ d = due[c]
        OBVIOUS
    <2>5. Truth(client[c], g, d, s2c'[c], conn[c], sent)
        BY <1>1, <1>3, <2>1, <2>4, ThreadTruth
    <2>6. QED
        BY <1>4, <2>2, <2>3, <2>4, <2>5
<1>8. CASE UNCHANGED vars
    BY <1>8 DEF vars, hvars, Exact
<1>9. QED
    BY <1>5, <1>6, <1>7, <1>8 DEF Next, Quiet

\* Nothing is due at first.
LEMMA InitExact ==
    ASSUME Init
    PROVE  Exact
<1>1. ASSUME NEW c \in Clients
      PROVE  Truth(client[c], gets[c], due[c], s2c[c], conn[c], sent)
    <2>1. client[c].pc = "menu" /\ \A f \in Names : client[c].out[f] = <<>> /\ due[c][f] = {}
        BY DEF Init, AtMenu
    <2>2. Settled(client[c], gets[c], due[c])
        BY <2>1, GatherNone DEF Settled
    <2>3. QED
        BY <2>1, <2>2, TruthAtRest
<1>2. QED
    BY <1>1 DEF Exact

\* Only LIST and its loop listen.
LEMMA QuietHeard ==
    ASSUME AllLocalOnce, TypeOK, NEW c \in Clients, Quiet(c), AtReached,
           NEW K, Linked(K), Listening(client[c], s2c[c], conn[c], sent)
    PROVE  Listens(c)
<1>1. PICK me \in Client : me = client[c]
    BY DEF TypeOK
<1>2. CASE List(c)
    BY <1>2, ListHeard
<1>3. CASE ListRead(c)
    <2>1. client[c].at \in conn[c]
        BY <1>3 DEF ListRead, AtReached, Good, AllLocalOnce
    <2>2. QED
        BY <1>3, <2>1, ListReadHeard
<1>4. ASSUME client'[c].pc # "list"
      PROVE  Listens(c)
    BY <1>4 DEF Listens, Listening
<1>5. CASE \E f \in Names : Get(c, f)
    <2>1. client'[c].pc = "collect"
        BY <1>5 DEF Get, TypeOK, Client
    <2>2. QED
        BY <1>4, <2>1
<1>6. CASE Quit(c)
    <2>1. client'[c].pc = "gone"
        BY <1>6 DEF Quit, TypeOK, Client
    <2>2. QED
        BY <1>4, <2>1
<1>7. CASE Collect(c)
    <2>1. PICK q, n, n0 : /\ q = Message(s2c[c][me.at]) /\ n = FirstFrom(c, me.at + 1)
                          /\ n0 = FirstFrom(c, 0)
        OBVIOUS
    <2>2. CollectRuns(me, q, n, n0, client'[c])
        BY <1>1, <1>7, <2>1, CollectRunsOn
    <2>3. QED
        BY <1>4, <2>2 DEF CollectRuns
<1>8. ASSUME NEW y \in Client, client'[c] = AfterAsk(c, y)
      PROVE  Listens(c)
    <2>1. PICK n : n = FirstFrom(c, y.at + 1)
        OBVIOUS
    <2>2. client'[c].pc \in {"fetch", "menu"}
        BY <1>8, <2>1, AfterAskIs
    <2>3. QED
        BY <1>4, <2>2
<1>9. CASE Decline(c)
    <2>1. client'[c] = AfterAsk(c, me)
        BY <1>1, <1>9 DEF Decline, TypeOK
    <2>2. QED
        BY <1>8, <2>1
<1>10. CASE Ask(c)
    <2>1. client'[c].pc = "reply"
        BY <1>10 DEF Ask, TypeOK, Client
    <2>2. QED
        BY <1>4, <2>1
<1>11. CASE Reply(c)
    <2>1. PICK q, y : q = Message(s2c[c][me.at]) /\ y = Received(me, q)
        OBVIOUS
    <2>2. client'[c] = AfterAsk(c, y)
        BY <1>1, <1>11, <2>1 DEF Reply, TypeOK
    <2>3. PICK n : n = FirstFrom(c, y.at + 1)
        OBVIOUS
    <2>4. client'[c].pc = "fetch" \/ client'[c].pc = y.pc \/ client'[c].pc = "menu"
        BY <2>2, <2>3 DEF AfterAsk
    <2>5. y.pc = me.pc
        <3>1. Adds(me, q, y)
            BY <2>1, ReceivedIs
        <3>2. QED
            BY <3>1 DEF Adds
    <2>6. me.pc = "reply"
        BY <1>1, <1>11 DEF Reply
    <2>7. QED
        BY <1>4, <2>4, <2>5, <2>6
<1>12. QED
    BY <1>2, <1>3, <1>5, <1>6, <1>7, <1>9, <1>10, <1>11 DEF Quiet, ClientStep

\* Every step keeps what was heard.
LEMMA HeardStep ==
    ASSUME AllLocalOnce, Alone, TypeOK, Sync, Heard, [Next]_vars
    PROVE  Heard'
<1>1. PICK K \in [Clients -> [Servers -> SUBSET Keys]] : Linked(K) /\ Book(K)
    BY DEF Sync
<1>2. AtReached
    BY DEF Sync
<1>3. ASSUME NEW c \in Clients
      PROVE  Listening(client[c], s2c[c], conn[c], sent)
    BY DEF Heard
<1>4. ASSUME NEW c \in Clients, Listening(client'[c], s2c'[c], conn'[c], sent')
      PROVE  Heard'
    <2>1. \A d \in Clients : d = c
        BY DEF Alone
    <2>2. QED
        BY <1>4, <2>1 DEF Heard
<1>5. CASE \E c \in Clients : Quiet(c)
    <2>1. PICK c \in Clients : Quiet(c)
        BY <1>5
    <2>2. Listens(c)
        BY <1>1, <1>2, <1>3, <2>1, QuietHeard
    <2>3. conn' = conn /\ sent' = sent
        BY <2>1, QuietApart
    <2>4. QED
        BY <1>4, <2>2, <2>3 DEF Listens
<1>6. CASE \E c \in Clients, f \in Names, h \in Hashes : Put(c, f, h)
    <2>1. PICK c \in Clients : \E f \in Names, h \in Hashes : Put(c, f, h)
        BY <1>6
    <2>2. client'[c].pc = "menu"
        BY <2>1 DEF Put
    <2>3. Listening(client'[c], s2c'[c], conn'[c], sent')
        BY <2>2 DEF Listening
    <2>4. QED
        BY <1>4, <2>3
<1>7. CASE \E c \in Clients, s \in Servers : s \in conn[c] /\ ThreadStep(c, s)
    <2>1. PICK c \in Clients, s \in Servers : s \in conn[c] /\ ThreadStep(c, s)
        BY <1>7
    <2>2. client' = client /\ conn' = conn /\ sent' = sent
        BY <2>1, ThreadApart
    <2>3. Listening(client[c], s2c'[c], conn[c], sent)
        BY <1>1, <1>3, <2>1, ThreadHeard
    <2>4. QED
        BY <1>4, <2>2, <2>3
<1>8. CASE UNCHANGED vars
    BY <1>8 DEF vars, hvars, Heard
<1>9. QED
    BY <1>5, <1>6, <1>7, <1>8 DEF Next, Quiet

\* Nobody listens at first.
LEMMA InitHeard ==
    ASSUME Init
    PROVE  Heard
<1>1. \A c \in Clients : client[c].pc = "menu"
    BY DEF Init, AtMenu
<1>2. QED
    BY <1>1 DEF Heard, Listening

\* The end of List's loop: all servers were listened to.
LEMMA ListedAll ==
    ASSUME AllLocalOnce, Alone, TypeOK, Sync, Heard, NEW c \in Clients, ListRead(c),
           client'[c].pc = "menu", NEW e, e = client[c].entries
    PROVE  /\ client'[c].shown = Summary(e)
           /\ \A s \in conn[c] : files[s] = Sent(sent, s) /\ Sent(sent, s) \subseteq Seen(e)
           /\ \A k \in Seen(e) : \E s \in conn[c] : k \in Sent(sent, s)
<1>1. PICK me \in Client : me = client[c]
    BY DEF TypeOK
<1>2. PICK K \in [Clients -> [Servers -> SUBSET Keys]] : Linked(K) /\ Book(K)
    BY DEF Sync
<1>3. c \in Good
    BY DEF Good, AllLocalOnce
<1>4. PICK r, a : r = s2c[c] /\ a = me.at
    OBVIOUS
<1>5. me.pc = "list" /\ r[a] # <<>>
    BY <1>1, <1>4 DEF ListRead
<1>6. a \in conn[c] /\ a \in 0..3
    BY <1>1, <1>3, <1>4, <1>5 DEF Sync, AtReached, Client, Servers
<1>7. PICK q, n, x : q = Taken(r[a], MaxLine) /\ n = FirstFrom(c, a + 1) /\ x = client'[c]
    OBVIOUS
<1>8. ListRuns(me, q, n, x)
    BY <1>1, <1>4, <1>7, ListRunsOn
<1>9. Says(q, "DONE") /\ n = 4 /\ x.shown = Summary(me.entries)
    BY <1>7, <1>8 DEF ListRuns
<1>10. Listening(me, r, conn[c], sent)
    BY <1>1, <1>4 DEF Heard
<1>11. PICK T : T = Sent(sent, a)
    OBVIOUS
<1>12. Shows(r[a], Seen(e), T)
    BY <1>1, <1>4, <1>5, <1>6, <1>10, <1>11 DEF Listening, Servers
<1>13. T \subseteq Seen(e)
    BY <1>7, <1>9, <1>12, Showing DEF ShowsNext
<1>14. ASSUME NEW s \in conn[c]
       PROVE  files[s] = Sent(sent, s) /\ Sent(sent, s) \subseteq Seen(e)
    <2>1. s \in Servers /\ (s = a \/ s < a)
        BY <1>6, <1>7, <1>9, NextServer, ConnFacts
    <2>2. PICK L : L = K[c][s]
        OBVIOUS
    <2>3. Link(me, s, thread[c][s], c2s[c][s], s2c[c][s], L)
        BY <1>1, <1>2, <1>3, <2>2 DEF Linked, LinkOf
    <2>4. L = {}
        <3>1. CASE s = a
            BY <1>4, <1>5, <2>3, <3>1, ListingAt DEF Lists
        <3>2. CASE s < a
            BY <1>4, <1>5, <2>1, <2>3, <3>2, ListingOver
        <3>3. QED
            BY <2>1, <3>1, <3>2
    <2>5. DiskIs(s)
        BY <1>2, <2>1, <2>2, <2>4, DiskSettled
    <2>6. Sent(sent, s) \subseteq Seen(e)
        BY <1>1, <1>4, <1>5, <1>10, <1>11, <1>13, <2>1 DEF Listening, Before
    <2>7. QED
        BY <2>5, <2>6 DEF DiskIs
<1>15. QED
    BY <1>1, <1>5, <1>7, <1>9, <1>10, <1>14 DEF Listening

\* A summary of all that the servers hold.
LEMMA SummaryTrue ==
    ASSUME TypeOK, NEW c \in Clients, NEW e,
           \A s \in conn[c] : files[s] \subseteq Seen(e) /\ files[s] \subseteq Names \X Parts,
           \A k \in Seen(e) : \E s \in conn[c] : k \in files[s]
    PROVE  Summary(e) = [full |-> {f \in Names : Complete(c, f)},
                         partial |-> {f \in Names : Listed(c, f) /\ ~Complete(c, f)}]
<1>1. PICK S, U, F : /\ S = Seen(e) /\ U = {k[1] : k \in S}
                     /\ F = {f \in U : \A p \in Parts : <<f, p>> \in S}
    OBVIOUS
<1>2. Summary(e) = [full |-> F, partial |-> U \ F]
    BY <1>1 DEF Summary, Seen
<1>3. ASSUME NEW k
      PROVE  k \in S <=> \E s \in conn[c] : k \in files[s]
    BY <1>1
<1>4. ASSUME NEW f
      PROVE  f \in U <=> f \in Names /\ Listed(c, f)
    <2>1. f \in U <=> \E k \in S : k[1] = f
        BY <1>1
    <2>2. Listed(c, f) <=> \E k : k[1] = f /\ \E s \in conn[c] : k \in files[s]
        BY Zenon DEF Listed
    <2>3. \A k \in S : k[1] \in Names
        BY <1>1
    <2>4. QED
        BY <1>3, <2>1, <2>2, <2>3
<1>5. ASSUME NEW f \in Names
      PROVE  Complete(c, f) <=> \A p \in Parts : <<f, p>> \in S
    BY <1>3 DEF Complete
<1>6. ASSUME NEW f \in Names, Complete(c, f)
      PROVE  Listed(c, f)
    <2>1. 1 \in Parts
        BY DEF Parts
    <2>2. PICK k : k = <<f, 1>>
        OBVIOUS
    <2>3. \E s \in conn[c] : k \in files[s]
        BY <1>6, <2>1, <2>2 DEF Complete
    <2>4. k[1] = f
        BY <2>2
    <2>5. QED
        BY <2>3, <2>4 DEF Listed
<1>7. F = {f \in Names : Complete(c, f)}
    <2>1. ASSUME NEW f
          PROVE  f \in F <=> f \in Names /\ Complete(c, f)
        BY <1>1, <1>4, <1>5, <1>6
    <2>2. QED
        BY <2>1
<1>8. U \ F = {f \in Names : Listed(c, f) /\ ~Complete(c, f)}
    BY <1>4, <1>7
<1>9. QED
    BY <1>2, <1>7, <1>8

\* A client that a step brings back from List was at its end.
LEMMA ListedStep ==
    ASSUME AllLocalOnce, Alone, TypeOK, Sync, Heard, [Next]_vars, NEW c \in Clients,
           client[c].pc = "list", client'[c].pc = "menu"
    PROVE  client'[c].shown = [full |-> {f \in Names : Complete(c, f)},
                               partial |-> {f \in Names : Listed(c, f) /\ ~Complete(c, f)}]
<1>1. client' # client
    OBVIOUS
<1>2. ~(\E d \in Clients, f \in Names, h \in Hashes : Put(d, f, h))
    BY <1>1 DEF Put
<1>3. ~(\E d \in Clients, s \in Servers : s \in conn[d] /\ ThreadStep(d, s))
    BY <1>1, ThreadApart
<1>4. \E d \in Clients : Quiet(d)
    BY <1>1, <1>2, <1>3 DEF Next, Quiet, vars
<1>5. Quiet(c)
    BY <1>4 DEF Alone
<1>6. ListRead(c)
    BY <1>5 DEF Quiet, ClientStep, List, Get, Quit, Collect, Decline, Ask, Reply
<1>7. PICK e : e = client[c].entries
    OBVIOUS
<1>8. /\ client'[c].shown = Summary(e)
      /\ \A s \in conn[c] : files[s] = Sent(sent, s) /\ Sent(sent, s) \subseteq Seen(e)
      /\ \A k \in Seen(e) : \E s \in conn[c] : k \in Sent(sent, s)
    BY <1>6, <1>7, ListedAll
<1>9. \A s \in conn[c] : files[s] \subseteq Seen(e) /\ files[s] \subseteq Names \X Parts
    BY <1>8 DEF Sent
<1>10. \A k \in Seen(e) : \E s \in conn[c] : k \in files[s]
    BY <1>8
<1>11. QED
    BY <1>8, <1>9, <1>10, SummaryTrue

\* A GET of a client that is alone and fetches each file once writes every piece
\* that its servers were sent when they were sent all four numbers, those of
\* names that contain the one asked for counted (client.c:595-642,
\* server.c:193), and nothing otherwise; whatever files the servers held
\* before, whichever servers it reaches, and whatever it PUT or listed in between.
THEOREM FetchedIffDue ==
    ASSUME Hashes \subseteq 0..3, AllLocalOnce, Alone, NoneIsNo, MaxGets <= 1
    PROVE  Spec => []GetIffDue
<1>1. Init => Sync /\ Exact
    BY InitSync, InitExact
<1>2. TypeOK /\ Sync /\ Exact /\ [Next]_vars => Sync' /\ Exact'
    BY NextSync, ExactStep
<1>3. Exact => GetIffDue
    BY DEF Exact, Truth, Settled, GetIffDue, Gather
<1>4. QED
    BY <1>1, <1>2, <1>3, TypeCorrect, PTL DEF Spec

\* What LIST prints to a client that is alone is true when it prints it: the
\* names of which its servers hold a piece, and [incomplete] those of which they
\* do not hold all four (client.c:92-196).
THEOREM ListingsAreTrue ==
    ASSUME Hashes \subseteq 0..3, AllLocalOnce, Alone
    PROVE  Spec => ListTruthful
<1>1. Init => Sync /\ Heard
    BY InitSync, InitHeard
<1>2. TypeOK /\ Sync /\ Heard /\ [Next]_vars => Sync' /\ Heard'
    BY NextSync, HeardStep
<1> DEFINE AsHeld == \A c \in Clients :
        client[c].pc = "list" /\ client'[c].pc = "menu" =>
            client'[c].shown = [full |-> {f \in Names : Complete(c, f)},
                         partial |-> {f \in Names : Listed(c, f) /\ ~Complete(c, f)}]
<1>3. TypeOK /\ Sync /\ Heard /\ [Next]_vars => [AsHeld]_vars
    BY ListedStep
<1>4. QED
    BY <1>1, <1>2, <1>3, TypeCorrect, PTL DEF Spec, ListTruthful
-----------------------------------------------------------------------------
(* A name that is in no other: GET writes the file, or nothing.            *)

Distinct == \A f \in Names : Within[f] = {f}
WholeDue == \A c \in Clients, f \in Names : due[c][f] \in {{}, Parts}

\* Only GET says what is due, and then it is all or nothing.
LEMMA WholeStep ==
    ASSUME Distinct, TypeOK, WholeDue, [Next]_vars
    PROVE  WholeDue'
<1>1. CASE \E c \in Clients, f \in Names : Get(c, f)
    <2>1. PICK c \in Clients, f \in Names : Get(c, f)
        BY <1>1
    <2>2. PICK b : b = IF Parts \subseteq UNION {SentParts(g, conn[c]) : g \in Within[f]}
                       THEN SentParts(f, conn[c]) ELSE {}
        OBVIOUS
    <2>3. due' = [due EXCEPT ![c][f] = b]
        BY <2>1, <2>2, Zenon DEF Get
    <2>4. UNION {SentParts(g, conn[c]) : g \in Within[f]} = SentParts(f, conn[c])
        BY DEF Distinct
    <2>5. SentParts(f, conn[c]) \subseteq Parts
        BY DEF SentParts
    <2>6. b \in {{}, Parts}
        BY <2>2, <2>4, <2>5
    <2>7. \A d \in Clients, h \in Names : due'[d][h] = b \/ due'[d][h] = due[d][h]
        BY <2>3 DEF TypeOK
    <2>8. QED
        BY <2>6, <2>7 DEF WholeDue
<1>2. CASE ~ \E c \in Clients, f \in Names : Get(c, f)
    <2>1. ASSUME NEW c \in Clients, Quiet(c)
          PROVE  due' = due
        BY <1>2, <2>1 DEF Quiet, ClientStep, List, Quit, ListRead, Collect, Decline, Ask, Reply, hvars
    <2>2. ASSUME NEW c \in Clients, NEW s \in Servers, ThreadStep(c, s)
          PROVE  due' = due
        BY <2>2 DEF ThreadStep, Command, Spin, PutName, PutSize, PutData, PutNum, PutFlush,
               GetFile, GetAnswer, GetDeclined, GetPiece, hvars
    <2>3. ASSUME NEW c \in Clients, NEW f \in Names, NEW h \in Hashes, Put(c, f, h)
          PROVE  due' = due
        BY <2>3 DEF Put
    <2>4. UNCHANGED vars => due' = due
        BY DEF vars, hvars
    <2>5. QED
        BY <2>1, <2>2, <2>3, <2>4 DEF Next, Quiet, WholeDue
<1>3. QED
    BY <1>1, <1>2

\* All the pieces are the file.
LEMMA GatherAll ==
    ASSUME NEW f \in Names
    PROVE  Gather(f, Parts) = Contents[f]
<1>1. PICK d \in Seq(FileByte) : d = Contents[f]
    BY NamesAssumption
<1>2. [p \in Parts |-> IF p \in Parts THEN PartOf(Contents[f], p) ELSE <<>>]
        = [p \in Parts |-> PartOf(d, p)]
    BY <1>1
<1>3. Join([p \in Parts |-> PartOf(d, p)]) = d
    BY SplitTheorem
<1>4. QED
    BY <1>1, <1>2, <1>3 DEF Gather

\* A client that is alone gets a file whose name is in no other in full, or
\* nothing of it, whichever servers it reached and whatever pieces are missing
\* (client.c:595-699, README "reliability through redundancy"): that a GET can be
\* truncated takes a second client, whose PUT it overlaps.
THEOREM AloneGetsIntact ==
    ASSUME Hashes \subseteq 0..3, AllLocalOnce, Alone, NoneIsNo, MaxGets <= 1, Distinct
    PROVE  Spec => []GotIntact
<1>1. Init => Sync /\ Exact /\ WholeDue
    <2>1. Init => WholeDue
        BY DEF Init, WholeDue
    <2>2. QED
        BY <2>1, InitSync, InitExact
<1>2. TypeOK /\ Sync /\ Exact /\ WholeDue /\ [Next]_vars => Sync' /\ Exact' /\ WholeDue'
    BY NextSync, ExactStep, WholeStep
<1>3. Exact /\ WholeDue => GotIntact
    <2>1. SUFFICES ASSUME Exact, WholeDue, NEW c \in Clients, NEW f \in Names,
                          client[c].pc = "menu"
                   PROVE  client[c].out[f] \in {<<>>, Contents[f]}
        BY DEF GotIntact
    <2>2. client[c].out[f] = Gather(f, due[c][f])
        BY <2>1 DEF Exact, Truth, Settled
    <2>3. due[c][f] = {} \/ due[c][f] = Parts
        BY <2>1 DEF WholeDue
    <2>4. QED
        BY <2>2, <2>3, GatherNone, GatherAll
<1>4. QED
    BY <1>1, <1>2, <1>3, TypeCorrect, PTL DEF Spec
=============================================================================
