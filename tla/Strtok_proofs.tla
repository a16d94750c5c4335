--------------------------- MODULE Strtok_proofs ---------------------------
(***************************************************************************)
(* Proofs about Strtok: for any memory, pointer and separators, a call     *)
(* returns pointers to the memory, and writes into its own buffer only.    *)
(***************************************************************************)
EXTENDS Strtok, Integers, SequenceTheorems, WellFoundedInduction, TLAPS

\* A set of numbers that has an element has a least one.
LEMMA LeastNumber ==
    ASSUME NEW T, T \subseteq Nat, T # {}
    PROVE  Min(T) \in T /\ \A y \in T : Min(T) <= y
<1>1. PICK x \in T : \A y \in T : <<y, x>> \notin OpToRel(<, Nat)
    BY WFMin, NatLessThanWellFounded, Zenon
<1>2. ASSUME NEW y \in T
      PROVE  x <= y
    <2>1. x \in Nat /\ y \in Nat
        OBVIOUS
    <2>2. <<y, x>> \in Nat \X Nat
        BY <2>1
    <2>3. ~(y < x)
        <3>1. SUFFICES ASSUME y < x
                       PROVE  <<y, x>> \in OpToRel(<, Nat)
            BY <1>1
        <3>2. <<y, x>>[1] = y /\ <<y, x>>[2] = x
            OBVIOUS
        <3>3. QED
            BY <2>2, <3>1, <3>2, Zenon DEF OpToRel
    <2>4. QED
        BY <2>1, <2>3
<1>3. \E z \in T : \A y \in T : z <= y
    BY <1>2
<1>4. QED
    BY <1>3, Zenon DEF Min

\* From the place after its last byte on, a buffer is zero.
LEMMA PastTheEnd ==
    ASSUME NEW S, NEW q \in Seq(S), NEW i \in Nat \ {0}
    PROVE  i + Len(q) \in i..(i + Len(q)) /\ ByteAt(q, i + Len(q)) = NUL
<1>1. Len(q) \in Nat /\ DOMAIN q = 1..Len(q)
    BY LenProperties
<1>2. i + Len(q) \notin DOMAIN q
    BY <1>1
<1>3. QED
    BY <1>1, <1>2 DEF ByteAt

\* So a search for it, or for what is no separator, finds something.
LEMMA SearchEnds ==
    ASSUME NEW S, NEW q \in Seq(S), NEW i \in Nat \ {0}, NEW D
    PROVE  /\ NUL \in D => FirstIn(q, i, D) \in Nat \ {0} /\ FirstIn(q, i, D) >= i
                            /\ ByteAt(q, FirstIn(q, i, D)) \in D
           /\ NUL \notin D => FirstNotIn(q, i, D) \in Nat \ {0}
                              /\ FirstNotIn(q, i, D) >= i
<1> DEFINE T == {j \in i..(i + Len(q)) : ByteAt(q, j) \in D}
           R == {j \in i..(i + Len(q)) : ByteAt(q, j) \notin D}
<1>1. Len(q) \in Nat
    BY LenProperties
<1>2. T \subseteq Nat /\ R \subseteq Nat
    BY <1>1
<1>3. CASE NUL \in D
    <2>1. i + Len(q) \in T
        BY <1>3, PastTheEnd
    <2>2. Min(T) \in T
        BY <1>2, <2>1, LeastNumber
    <2>3. FirstIn(q, i, D) \in T
        BY <2>2 DEF FirstIn
    <2>4. QED
        BY <1>1, <1>3, <2>3
<1>4. CASE NUL \notin D
    <2>1. i + Len(q) \in R
        BY <1>4, PastTheEnd
    <2>2. Min(R) \in R
        BY <1>2, <2>1, LeastNumber
    <2>3. FirstNotIn(q, i, D) \in R
        BY <2>2 DEF FirstNotIn
    <2>4. QED
        BY <1>1, <1>4, <2>3
<1>5. QED
    BY <1>3, <1>4

\* What a call of strtok returns: pointers, and a memory that differs from the
\* one before in no buffer but that of the cursor.
LEMMA CutProperties ==
    ASSUME NEW S, NUL \in S, NEW B, NEW mem \in [B -> Seq(S)],
           NEW p \in B \X (Nat \ {0}), NEW D, NUL \notin D
    PROVE  /\ Cut(mem, p, D).tok \in {NULL} \cup (B \X (Nat \ {0}))
           /\ Cut(mem, p, D).cur \in B \X (Nat \ {0})
           /\ Cut(mem, p, D).mem \in [B -> Seq(S)]
           /\ \A b \in B \ {p[1]} : Cut(mem, p, D).mem[b] = mem[b]
<1> DEFINE b == p[1]
           i == FirstNotIn(mem[b], p[2], D)
           j == FirstIn(mem[b], i, D \cup {NUL})
<1>1. b \in B /\ p[2] \in Nat \ {0} /\ mem[b] \in Seq(S)
    OBVIOUS
<1>2. i \in Nat \ {0}
    BY <1>1, SearchEnds
<1>3. j \in Nat \ {0} /\ j >= i
    BY <1>1, <1>2, SearchEnds
<1> HIDE DEF b, i, j
<1>4. Cut(mem, p, D) =
        IF ByteAt(mem[b], i) = NUL
        THEN [tok |-> NULL, cur |-> <<b, i>>, mem |-> mem]
        ELSE IF ByteAt(mem[b], j) = NUL
        THEN [tok |-> <<b, i>>, cur |-> <<b, j>>, mem |-> mem]
        ELSE [tok |-> <<b, i>>, cur |-> <<b, j + 1>>,
              mem |-> [mem EXCEPT ![b][j] = NUL]]
    BY Zenon DEF Cut, b, i, j
<1>5. j + 1 \in Nat \ {0}
    BY <1>3
<1>6. CASE ByteAt(mem[b], i) = NUL
    BY <1>1, <1>2, <1>4, <1>6
<1>7. CASE ByteAt(mem[b], i) # NUL /\ ByteAt(mem[b], j) = NUL
    BY <1>1, <1>2, <1>3, <1>4, <1>7
<1>8. CASE ByteAt(mem[b], i) # NUL /\ ByteAt(mem[b], j) # NUL
    <2>1. Cut(mem, p, D) = [tok |-> <<b, i>>, cur |-> <<b, j + 1>>,
                            mem |-> [mem EXCEPT ![b][j] = NUL]]
        BY <1>4, <1>8
    <2>2. j \in 1..Len(mem[b])
        BY <1>1, <1>8, LenProperties DEF ByteAt
    <2>3. [mem[b] EXCEPT ![j] = NUL] \in Seq(S)
        BY <1>1, <2>2, ExceptSeq, Zenon
    <2>4. [mem EXCEPT ![b][j] = NUL] \in [B -> Seq(S)]
        BY <1>1, <2>3
    <2>5. \A a \in B \ {b} : [mem EXCEPT ![b][j] = NUL][a] = mem[a]
        OBVIOUS
    <2>6. QED
        BY <1>1, <1>2, <1>5, <2>1, <2>4, <2>5 DEF b
<1>9. QED
    BY <1>6, <1>7, <1>8

\* A string of one byte.
LEMMA Single ==
    ASSUME NEW S, NEW s \in Seq(S), NEW x \in S, Len(s) = 1, s[1] = x
    PROVE  s = <<x>>
<1> DEFINE t == <<x>>
<1>1. t \in Seq(S) /\ Len(t) = 1 /\ t[1] = x
    OBVIOUS
<1> HIDE DEF t
<1>2. \A i \in 1..Len(s) : s[i] = t[i]
    BY <1>1
<1>3. s = t
    BY <1>1, <1>2, SeqEqual
<1>4. QED
    BY <1>3 DEF t

\* Which place the searches find.
LEMMA LeastIs ==
    ASSUME NEW T, T \subseteq Nat, NEW x \in T, \A y \in T : x <= y
    PROVE  Min(T) = x
<1>1. Min(T) \in T /\ \A y \in T : Min(T) <= y
    BY LeastNumber
<1>2. Min(T) \in Nat /\ x \in Nat /\ Min(T) <= x /\ x <= Min(T)
    BY <1>1
<1>3. QED
    BY <1>2

\* The searches stop at once, or one place on.
LEMMA FirstPlaces ==
    ASSUME NEW S, NEW q \in Seq(S), NEW i \in Nat \ {0}, NEW D
    PROVE  /\ ByteAt(q, i) \in D => FirstIn(q, i, D) = i
           /\ ByteAt(q, i) \notin D /\ ByteAt(q, i + 1) \in D /\ i \in DOMAIN q
                => FirstIn(q, i, D) = i + 1
           /\ ByteAt(q, i) \notin D => FirstNotIn(q, i, D) = i
           /\ ByteAt(q, i) \in D /\ ByteAt(q, i + 1) \notin D /\ i \in DOMAIN q
                => FirstNotIn(q, i, D) = i + 1
<1> DEFINE T == {j \in i..(i + Len(q)) : ByteAt(q, j) \in D}
           R == {j \in i..(i + Len(q)) : ByteAt(q, j) \notin D}
<1>1. Len(q) \in Nat /\ DOMAIN q = 1..Len(q)
    BY LenProperties
<1>2. T \subseteq Nat /\ R \subseteq Nat /\ \A j \in T \cup R : i <= j
    BY <1>1
<1>3. FirstIn(q, i, D) = Min(T) /\ FirstNotIn(q, i, D) = Min(R)
    BY Zenon DEF FirstIn, FirstNotIn
<1>4. i \in i..(i + Len(q)) /\ (i \in DOMAIN q => i + 1 \in i..(i + Len(q)))
    BY <1>1
<1>5. ByteAt(q, i) \in D => FirstIn(q, i, D) = i
    <2>1. ByteAt(q, i) \in D => i \in T
        BY <1>4
    <2> HIDE DEF T, R
    <2>2. QED
        BY <1>2, <1>3, <2>1, LeastIs
<1>6. ByteAt(q, i) \notin D => FirstNotIn(q, i, D) = i
    <2>1. ByteAt(q, i) \notin D => i \in R
        BY <1>4
    <2> HIDE DEF T, R
    <2>2. QED
        BY <1>2, <1>3, <2>1, LeastIs
<1>7. ASSUME ByteAt(q, i) \notin D, ByteAt(q, i + 1) \in D, i \in DOMAIN q
      PROVE  FirstIn(q, i, D) = i + 1
    <2>1. i + 1 \in T /\ i \notin T
        BY <1>4, <1>7
    <2> HIDE DEF T, R
    <2>2. \A j \in T : i + 1 <= j
        BY <1>2, <2>1
    <2>3. QED
        BY <1>2, <1>3, <2>1, <2>2, LeastIs
<1>8. ASSUME ByteAt(q, i) \in D, ByteAt(q, i + 1) \notin D, i \in DOMAIN q
      PROVE  FirstNotIn(q, i, D) = i + 1
    <2>1. i + 1 \in R /\ i \notin R
        BY <1>4, <1>8
    <2> HIDE DEF T, R
    <2>2. \A j \in R : i + 1 <= j
        BY <1>2, <2>1
    <2>3. QED
        BY <1>2, <1>3, <2>1, <2>2, LeastIs
<1>9. QED
    BY <1>5, <1>6, <1>7, <1>8

\* A call from place k on finds the byte i alone: after it is the end, or a
\* separator, which it overwrites.
FindsLast(mem, b, k, D, i) ==
    Cut(mem, <<b, k>>, D) = [tok |-> <<b, i>>, cur |-> <<b, i + 1>>, mem |-> mem]
FindsOne(mem, b, k, D, i) ==
    Cut(mem, <<b, k>>, D) =
        [tok |-> <<b, i>>, cur |-> <<b, i + 2>>,
         mem |-> [mem EXCEPT ![b] = [mem[b] EXCEPT ![i + 1] = NUL]]]

\* A token of one byte, at the start of the search or behind one separator.
LEMMA CutFinds ==
    ASSUME NEW S, NEW B, NEW mem \in [B -> Seq(S)], NEW b \in B, NEW k, NEW D,
           NEW i \in DOMAIN mem[b], mem[b][i] # NUL, mem[b][i] \notin D,
           \/ k = i
           \/ k \in Nat \ {0} /\ i = k + 1 /\ k \in DOMAIN mem[b] /\ mem[b][k] \in D
    PROVE  /\ i + 1 \notin DOMAIN mem[b] \/ mem[b][i + 1] = NUL => FindsLast(mem, b, k, D, i)
           /\ i + 1 \in DOMAIN mem[b] /\ mem[b][i + 1] \in D /\ mem[b][i + 1] # NUL
                => FindsOne(mem, b, k, D, i)
<1>1. mem[b] \in Seq(S) /\ i \in Nat \ {0} /\ ByteAt(mem[b], i) = mem[b][i]
    BY LenProperties DEF ByteAt
<1>2. FirstNotIn(mem[b], k, D) = i
    <2>1. CASE k = i
        BY <1>1, <2>1, FirstPlaces
    <2>2. CASE k \in Nat \ {0} /\ i = k + 1 /\ k \in DOMAIN mem[b] /\ mem[b][k] \in D
        <3>1. ByteAt(mem[b], k) \in D /\ ByteAt(mem[b], k + 1) \notin D
            BY <1>1, <2>2 DEF ByteAt
        <3>2. QED
            BY <1>1, <2>2, <3>1, FirstPlaces
    <2>3. QED
        BY <2>1, <2>2
<1>3. <<b, k>>[1] = b /\ <<b, k>>[2] = k
    OBVIOUS
<1>4. i + 1 + 1 = i + 2
    BY <1>1
<1>5. ByteAt(mem[b], i) # NUL
    BY <1>1
<1>6. \A p : p[1] = b /\ p[2] = k /\ FirstIn(mem[b], i, D \cup {NUL}) = i + 1 =>
        /\ ByteAt(mem[b], i + 1) = NUL =>
            Cut(mem, p, D) = [tok |-> <<b, i>>, cur |-> <<b, i + 1>>, mem |-> mem]
        /\ ByteAt(mem[b], i + 1) # NUL =>
            Cut(mem, p, D) = [tok |-> <<b, i>>, cur |-> <<b, i + 1 + 1>>,
                              mem |-> [mem EXCEPT ![b][i + 1] = NUL]]
    BY <1>2, <1>5, Zenon DEF Cut
<1>7. [mem EXCEPT ![b][i + 1] = NUL] = [mem EXCEPT ![b] = [mem[b] EXCEPT ![i + 1] = NUL]]
    BY Zenon
<1>8. ASSUME i + 1 \notin DOMAIN mem[b] \/ mem[b][i + 1] = NUL
      PROVE  FindsLast(mem, b, k, D, i)
    <2>1. ByteAt(mem[b], i + 1) = NUL
        BY <1>8 DEF ByteAt
    <2>2. FirstIn(mem[b], i, D \cup {NUL}) = i + 1
        BY <1>1, <2>1, FirstPlaces
    <2>3. QED
        BY <1>3, <1>6, <2>1, <2>2, Zenon DEF FindsLast
<1>9. ASSUME i + 1 \in DOMAIN mem[b], mem[b][i + 1] \in D, mem[b][i + 1] # NUL
      PROVE  FindsOne(mem, b, k, D, i)
    <2>1. ByteAt(mem[b], i + 1) \in D /\ ByteAt(mem[b], i + 1) # NUL
        BY <1>9 DEF ByteAt
    <2>2. FirstIn(mem[b], i, D \cup {NUL}) = i + 1
        BY <1>1, <2>1, FirstPlaces
    <2>3. QED
        BY <1>3, <1>4, <1>6, <1>7, <2>1, <2>2, Zenon DEF FindsOne
<1>10. QED
    BY <1>8, <1>9, Zenon

\* A call at the end of a string finds nothing, and does nothing.
FindsNothing(mem, b, i, D) ==
    Cut(mem, <<b, i>>, D) = [tok |-> NULL, cur |-> <<b, i>>, mem |-> mem]

LEMMA CutAtEnd ==
    ASSUME NEW S, NEW B, NEW mem \in [B -> Seq(S)], NEW b \in B, NEW i \in Nat \ {0},
           NEW D, NUL \notin D, ByteAt(mem[b], i) = NUL
    PROVE  FindsNothing(mem, b, i, D)
<1>1. FirstNotIn(mem[b], i, D) = i
    BY FirstPlaces
<1>2. <<b, i>>[1] = b /\ <<b, i>>[2] = i
    OBVIOUS
<1>3. \A p : p[1] = b /\ p[2] = i =>
        Cut(mem, p, D) = [tok |-> NULL, cur |-> <<b, i>>, mem |-> mem]
    BY <1>1, Zenon DEF Cut
<1>4. QED
    BY <1>2, <1>3, Zenon DEF FindsNothing

\* A call writes into no buffer but that of the cursor.
LEMMA CutElsewhere ==
    ASSUME NEW mem, NEW p, NEW D, NEW b \in DOMAIN mem, b # p[1]
    PROVE  Cut(mem, p, D).mem[b] = mem[b]
<1>1. \A i, x : [mem EXCEPT ![p[1]][i] = x][b] = mem[b]
    OBVIOUS
<1>2. \/ Cut(mem, p, D).mem = mem
      \/ \E i, x : Cut(mem, p, D).mem = [mem EXCEPT ![p[1]][i] = x]
    BY DEF Cut
<1>3. QED
    BY <1>1, <1>2

\* The cursor stays in its buffer.
LEMMA CutStays ==
    ASSUME NEW mem, NEW p, NEW D
    PROVE  Cut(mem, p, D).cur[1] = p[1]
    BY DEF Cut

\* What a pointer points to is a string; a byte before the end is one alone.
OneByte(mem, p) ==
    ByteAt(mem[p[1]], p[2]) # NUL /\ ByteAt(mem[p[1]], p[2] + 1) = NUL
        => StringAt(mem, p) = <<mem[p[1]][p[2]]>>

LEMMA StringTypes ==
    ASSUME NEW S, NEW B, NEW mem \in [B -> Seq(S)], NEW p \in B \X (Nat \ {0})
    PROVE  StringAt(mem, p) \in Seq(S) /\ OneByte(mem, p)
<1> DEFINE q == mem[p[1]]
           i == p[2]
           e == FirstIn(q, i, {NUL})
<1>1. q \in Seq(S) /\ i \in Nat \ {0}
    OBVIOUS
<1>2. Len(q) \in Nat /\ DOMAIN q = 1..Len(q) /\ \A j \in 1..Len(q) : q[j] \in S
    BY <1>1, LenProperties, ElementOfSeq
<1> HIDE DEF q, i
<1>3. e \in Nat \ {0} /\ e >= i
    BY <1>1, SearchEnds
<1>4. StringAt(mem, p) = SubSeq(q, i, e - 1)
    BY Zenon DEF StringAt, q, i, e
<1>5. \A j \in i..(e - 1) : j \in 1..Len(q)
    <2>1. CASE i \in DOMAIN q
        <3>1. Len(q) + 1 \in {j \in i..(i + Len(q)) : ByteAt(q, j) \in {NUL}}
            BY <1>1, <1>2, <2>1 DEF ByteAt
        <3>2. e <= Len(q) + 1
            <4>1. {j \in i..(i + Len(q)) : ByteAt(q, j) \in {NUL}} \subseteq Nat
                BY <1>1, <1>2
            <4>2. QED
                BY <3>1, <4>1, LeastNumber DEF FirstIn
        <3>3. QED
            BY <1>1, <1>2, <1>3, <3>2
    <2>2. CASE i \notin DOMAIN q
        <3>1. e = i
            BY <1>1, <2>2, FirstPlaces DEF ByteAt
        <3>2. QED
            BY <1>1, <3>1
    <2>3. QED
        BY <2>1, <2>2
<1> HIDE DEF e
<1>6. SubSeq(q, i, e - 1) \in Seq(S)
    <2>1. \A j \in i..(e - 1) : q[j] \in S
        BY <1>2, <1>5
    <2>2. i \in Int /\ e - 1 \in Int
        BY <1>1, <1>3
    <2>3. QED
        BY <2>1, <2>2, SubSeqProperties
<1>7. ASSUME ByteAt(q, i) # NUL, ByteAt(q, i + 1) = NUL
      PROVE  SubSeq(q, i, e - 1) = <<q[i]>>
    <2>1. i \in DOMAIN q
        BY <1>7 DEF ByteAt
    <2>2. e = i + 1
        BY <1>1, <1>7, <2>1, FirstPlaces DEF e
    <2>3. e - 1 = i /\ i \in 1..Len(q)
        BY <1>1, <1>2, <2>1, <2>2
    <2>4. /\ SubSeq(q, i, i) \in Seq(S) /\ Len(SubSeq(q, i, i)) = 1
          /\ SubSeq(q, i, i)[1] = q[i]
        <3>1. i \in Int /\ \A j \in i..i : q[j] \in S
            BY <1>1, <1>2, <2>3
        <3>2. /\ SubSeq(q, i, i) \in Seq(S)
              /\ Len(SubSeq(q, i, i)) = IF i <= i THEN i - i + 1 ELSE 0
              /\ \A j \in 1..i - i + 1 : SubSeq(q, i, i)[j] = q[i + j - 1]
            BY <3>1, SubSeqProperties
        <3>3. i - i + 1 = 1 /\ i + 1 - 1 = i
            BY <3>1
        <3>4. QED
            BY <3>1, <3>2, <3>3
    <2>5. q[i] \in S
        BY <1>2, <2>3
    <2>6. QED
        BY <2>3, <2>4, <2>5, Single
<1>8. QED
    BY <1>4, <1>6, <1>7 DEF q, i, OneByte

-----------------------------------------------------------------------------
(* A call in a buffer depends on the bytes of that buffer only, and writes *)
(* behind the place where it starts.                                       *)

\* The result k of a call in buffer b of m, whose token is from i up to j.
Found(k, m, b, i, j) ==
    \/ ByteAt(m[b], i) = NUL /\ k = [tok |-> NULL, cur |-> <<b, i>>, mem |-> m]
    \/ /\ ByteAt(m[b], i) # NUL /\ ByteAt(m[b], j) = NUL
       /\ k = [tok |-> <<b, i>>, cur |-> <<b, j>>, mem |-> m]
    \/ /\ ByteAt(m[b], i) # NUL /\ ByteAt(m[b], j) # NUL
       /\ k = [tok |-> <<b, i>>, cur |-> <<b, j + 1>>, mem |-> [m EXCEPT ![b][j] = NUL]]

\* The token of a call from place c on.
Token1(q, c, D, i, j) ==
    /\ i \in Nat \ {0} /\ j \in Nat \ {0} /\ c <= i /\ i <= j
    /\ i = FirstNotIn(q, c, D)
    /\ j = FirstIn(q, i, D \cup {NUL})
    /\ ByteAt(q, i) \notin D
    /\ ByteAt(q, j) \in D \cup {NUL}
    /\ \A x \in i..(j - 1) : ByteAt(q, x) # NUL
    /\ ByteAt(q, i) # NUL => i < j

\* Where a search stops, and what it passed.
LEMMA SearchPasses ==
    ASSUME NEW S, NEW q \in Seq(S), NEW i \in Nat \ {0}, NEW D
    PROVE  /\ NUL \in D => \A x \in i..(FirstIn(q, i, D) - 1) : ByteAt(q, x) \notin D
           /\ NUL \notin D => ByteAt(q, FirstNotIn(q, i, D)) \notin D
<1> DEFINE T == {j \in i..(i + Len(q)) : ByteAt(q, j) \in D}
           R == {j \in i..(i + Len(q)) : ByteAt(q, j) \notin D}
<1>1. Len(q) \in Nat
    BY LenProperties
<1>2. T \subseteq Nat /\ R \subseteq Nat
    BY <1>1
<1>3. ASSUME NUL \in D, NEW x \in i..(FirstIn(q, i, D) - 1)
      PROVE  ByteAt(q, x) \notin D
    <2>1. i + Len(q) \in T
        BY <1>3, PastTheEnd
    <2>2. Min(T) \in T /\ \A y \in T : Min(T) <= y
        BY <1>2, <2>1, LeastNumber
    <2>3. FirstIn(q, i, D) = Min(T)
        BY Zenon DEF FirstIn
    <2>4. PICK m \in T : m = Min(T) /\ \A y \in T : m <= y
        BY <2>2
    <2>5. x \in i..(m - 1)
        BY <1>3, <2>3, <2>4
    <2>6. x \notin T
        BY <1>2, <2>4, <2>5
    <2>7. x \in i..(i + Len(q))
        BY <1>1, <2>4, <2>5
    <2>8. QED
        BY <2>6, <2>7
<1>4. ASSUME NUL \notin D
      PROVE  ByteAt(q, FirstNotIn(q, i, D)) \notin D
    <2>1. i + Len(q) \in R
        BY <1>4, PastTheEnd
    <2>2. Min(R) \in R
        BY <1>2, <2>1, LeastNumber
    <2>3. FirstNotIn(q, i, D) = Min(R)
        BY Zenon DEF FirstNotIn
    <2>4. QED
        BY <2>2, <2>3
<1>5. QED
    BY <1>3, <1>4

\* The search for a token.
LEMMA TokenIs ==
    ASSUME NEW S, NEW q \in Seq(S), NEW c \in Nat \ {0}, NEW D, NUL \notin D
    PROVE  \E i, j : Token1(q, c, D, i, j)
<1>1. PICK i \in Nat \ {0} : i = FirstNotIn(q, c, D) /\ c <= i /\ ByteAt(q, i) \notin D
    BY SearchEnds, SearchPasses
<1>2. PICK E : E = D \cup {NUL} /\ NUL \in E
    OBVIOUS
<1>3. PICK j \in Nat \ {0} : /\ j = FirstIn(q, i, E) /\ i <= j /\ ByteAt(q, j) \in E
                             /\ \A x \in i..(j - 1) : ByteAt(q, x) \notin E
    BY <1>2, SearchEnds, SearchPasses
<1>4. ByteAt(q, i) # NUL => i # j
    BY <1>1, <1>2, <1>3
<1>5. \A x \in i..(j - 1) : ByteAt(q, x) # NUL
    BY <1>2, <1>3
<1>6. i < j \/ ByteAt(q, i) = NUL
    BY <1>3, <1>4
<1>7. Token1(q, c, D, i, j)
    BY <1>1, <1>2, <1>3, <1>5, <1>6 DEF Token1
<1>8. QED
    BY <1>7, Zenon

\* The three outcomes of a call.
LEMMA CutFound ==
    ASSUME NEW m, NEW b, NEW c, NEW D, NEW i, NEW j, Token1(m[b], c, D, i, j)
    PROVE  Found(Cut(m, <<b, c>>, D), m, b, i, j)
<1>1. <<b, c>>[1] = b /\ <<b, c>>[2] = c
    OBVIOUS
<1>2. i = FirstNotIn(m[b], c, D) /\ j = FirstIn(m[b], i, D \cup {NUL})
    BY DEF Token1
<1>3. \A p : p[1] = b /\ p[2] = c =>
        /\ ByteAt(m[b], i) = NUL =>
            Cut(m, p, D) = [tok |-> NULL, cur |-> <<b, i>>, mem |-> m]
        /\ ByteAt(m[b], i) # NUL /\ ByteAt(m[b], j) = NUL =>
            Cut(m, p, D) = [tok |-> <<b, i>>, cur |-> <<b, j>>, mem |-> m]
        /\ ByteAt(m[b], i) # NUL /\ ByteAt(m[b], j) # NUL =>
            Cut(m, p, D) = [tok |-> <<b, i>>, cur |-> <<b, j + 1>>,
                            mem |-> [m EXCEPT ![b][j] = NUL]]
    BY <1>2, Zenon DEF Cut
<1>4. QED
    BY <1>1, <1>3, Zenon DEF Found

\* A pointer to a place of buffer a, and one to the same place of buffer b.
SamePlace(p, a, r, b) ==
    \/ p = NULL /\ r = NULL
    \/ \E i \in Nat \ {0} : p = <<a, i>> /\ r = <<b, i>>

SameCut(k, a, l, b) ==
    /\ SamePlace(k.tok, a, l.tok, b)
    /\ SamePlace(k.cur, a, l.cur, b) /\ k.cur # NULL
    /\ k.mem[a] = l.mem[b]

\* What a call does in a buffer does not depend on the other buffers, nor on
\* where the buffer is.
LEMMA CutAlike ==
    ASSUME NEW S, NEW m, NEW a \in DOMAIN m, NEW l, NEW b \in DOMAIN l,
           m[a] \in Seq(S), m[a] = l[b], NEW c \in Nat \ {0}, NEW D, NUL \notin D
    PROVE  SameCut(Cut(m, <<a, c>>, D), a, Cut(l, <<b, c>>, D), b)
<1>1. PICK i, j : Token1(m[a], c, D, i, j)
    BY TokenIs
<1>2. Found(Cut(m, <<a, c>>, D), m, a, i, j) /\ Found(Cut(l, <<b, c>>, D), l, b, i, j)
    BY <1>1, CutFound
<1>3. PICK k, h : k = Cut(m, <<a, c>>, D) /\ h = Cut(l, <<b, c>>, D)
    OBVIOUS
<1>4. Found(k, m, a, i, j) /\ Found(h, l, b, i, j) /\ i \in Nat \ {0} /\ j \in Nat \ {0}
    BY <1>1, <1>2, <1>3 DEF Token1
<1>5. /\ [m EXCEPT ![a][j] = NUL][a] = [m[a] EXCEPT ![j] = NUL]
      /\ [l EXCEPT ![b][j] = NUL][b] = [l[b] EXCEPT ![j] = NUL]
    OBVIOUS
<1>6. \A x, y : <<x, y>> # NULL
    <2>1. \A x, y : Len(<<x, y>>) = 2 /\ Len(<<>>) = 0
        OBVIOUS
    <2>2. QED
        BY <2>1 DEF NULL
<1>7. j + 1 \in Nat \ {0}
    BY <1>4
<1>8. SameCut(k, a, h, b)
    <2>1. CASE ByteAt(m[a], i) = NUL
        BY <1>4, <1>6, <2>1 DEF Found, SameCut, SamePlace
    <2>2. CASE ByteAt(m[a], i) # NUL /\ ByteAt(m[a], j) = NUL
        BY <1>4, <1>6, <2>2 DEF Found, SameCut, SamePlace
    <2>3. CASE ByteAt(m[a], i) # NUL /\ ByteAt(m[a], j) # NUL
        <3>1. PICK x, y : x = [m EXCEPT ![a][j] = NUL] /\ y = [l EXCEPT ![b][j] = NUL]
            OBVIOUS
        <3>2. k = [tok |-> <<a, i>>, cur |-> <<a, j + 1>>, mem |-> x]
            BY <1>4, <2>3, <3>1, Zenon DEF Found
        <3>3. ByteAt(l[b], i) # NUL /\ ByteAt(l[b], j) # NUL
            BY <2>3
        <3>4. h = [tok |-> <<b, i>>, cur |-> <<b, j + 1>>, mem |-> y]
            BY <1>4, <3>1, <3>3, Zenon DEF Found
        <3>5. x[a] = y[b]
            BY <1>5, <3>1
        <3>6. /\ k.tok = <<a, i>> /\ h.tok = <<b, i>> /\ i \in Nat \ {0}
              /\ k.cur = <<a, j + 1>> /\ h.cur = <<b, j + 1>>
              /\ k.mem[a] = h.mem[b]
            BY <1>4, <3>2, <3>4, <3>5
        <3>7. QED
            BY <1>6, <1>7, <3>6 DEF SameCut, SamePlace
    <2>4. QED
        BY <2>1, <2>2, <2>3
<1>9. QED
    BY <1>3, <1>8

\* Two buffers that agree up to the end of a string hold the same string there.
Agree(q, r, i, e) == Len(q) = Len(r) /\ \A x \in i..e : ByteAt(q, x) = ByteAt(r, x)

StringIs(q, i, e) ==
    /\ e \in Nat \ {0} /\ i <= e /\ ByteAt(q, e) = NUL
    /\ e = FirstIn(q, i, {NUL})
    /\ \A x \in i..(e - 1) : ByteAt(q, x) # NUL
    /\ e - 1 <= Len(q) \/ e = i

LEMMA StringEnds ==
    ASSUME NEW S, NEW q \in Seq(S), NEW i \in Nat \ {0}
    PROVE  StringIs(q, i, FirstIn(q, i, {NUL}))
<1>1. PICK e \in Nat \ {0} : /\ e = FirstIn(q, i, {NUL}) /\ i <= e /\ ByteAt(q, e) = NUL
                             /\ \A x \in i..(e - 1) : ByteAt(q, x) # NUL
    BY SearchEnds, SearchPasses
<1>2. e - 1 <= Len(q) \/ e = i
    <2>1. CASE e = i
        BY <2>1
    <2>2. CASE e # i
        <3>0. e - 1 \in i..(e - 1)
            BY <1>1, <2>2
        <3>1. ByteAt(q, e - 1) # NUL
            BY <1>1, <3>0
        <3>2. e - 1 \in DOMAIN q /\ Len(q) \in Nat /\ DOMAIN q = 1..Len(q)
            BY <3>1, LenProperties DEF ByteAt
        <3>3. QED
            BY <3>2
    <2>3. QED
        BY <2>1, <2>2
<1>3. QED
    BY <1>1, <1>2 DEF StringIs

\* The end of a string is the only place like it.
LEMMA EndIs ==
    ASSUME NEW S, NEW q \in Seq(S), NEW i \in Nat \ {0}, NEW e \in Nat, i <= e,
           ByteAt(q, e) = NUL, \A x \in i..(e - 1) : ByteAt(q, x) # NUL
    PROVE  FirstIn(q, i, {NUL}) = e
<1>1. PICK f \in Nat \ {0} : f = FirstIn(q, i, {NUL}) /\ StringIs(q, i, f)
    BY StringEnds DEF StringIs
<1>2. f <= e
    <2>1. \A x \in i..(f - 1) : ByteAt(q, x) # NUL
        BY <1>1 DEF StringIs
    <2>2. e \notin i..(f - 1)
        BY <2>1
    <2>3. QED
        BY <1>1, <2>2
<1>3. e <= f
    <2>1. i <= f /\ ByteAt(q, f) = NUL
        BY <1>1 DEF StringIs
    <2>2. f \notin i..(e - 1)
        BY <2>1
    <2>3. QED
        BY <1>1, <2>1, <2>2
<1>4. QED
    BY <1>1, <1>2, <1>3

LEMMA SameString ==
    ASSUME NEW S, NEW q \in Seq(S), NEW r \in Seq(S), NEW i \in Nat \ {0},
           Agree(q, r, i, FirstIn(q, i, {NUL}))
    PROVE  /\ FirstIn(r, i, {NUL}) = FirstIn(q, i, {NUL})
           /\ SubSeq(r, i, FirstIn(r, i, {NUL}) - 1) = SubSeq(q, i, FirstIn(q, i, {NUL}) - 1)
<1>1. PICK e \in Nat \ {0} : e = FirstIn(q, i, {NUL}) /\ StringIs(q, i, e)
    BY StringEnds DEF StringIs
<1>2. /\ Agree(q, r, i, e) /\ i <= e /\ ByteAt(q, e) = NUL
      /\ \A x \in i..(e - 1) : ByteAt(q, x) # NUL
    BY <1>1 DEF StringIs
<1>3. ByteAt(r, e) = NUL /\ \A x \in i..(e - 1) : ByteAt(r, x) # NUL
    BY <1>2 DEF Agree
<1>4. FirstIn(r, i, {NUL}) = e
    BY <1>2, <1>3, EndIs
<1>5. \A x \in i..(e - 1) : x \in DOMAIN q /\ x \in DOMAIN r /\ q[x] = r[x]
    BY <1>2, <1>3 DEF Agree, ByteAt
<1>6. SubSeq(r, i, e - 1) = SubSeq(q, i, e - 1)
    <2>1. /\ Len(q) \in Nat /\ DOMAIN q = 1..Len(q) /\ Len(r) \in Nat /\ DOMAIN r = 1..Len(r)
          /\ \A x \in 1..Len(q) : q[x] \in S
          /\ \A x \in 1..Len(r) : r[x] \in S
        BY LenProperties, ElementOfSeq
    <2>2. e - 1 \in Int /\ i \in Int
        OBVIOUS
    <2>3. (\A x \in i..(e - 1) : q[x] \in S) /\ \A x \in i..(e - 1) : r[x] \in S
        BY <1>5, <2>1
    <2>4. PICK n \in Nat : n = (IF i <= e - 1 THEN e - 1 - i + 1 ELSE 0)
        <3>1. CASE i <= e - 1
            <4>1. e - 1 - i + 1 \in Nat
                BY <2>2, <3>1
            <4>2. QED
                BY <3>1, <4>1
        <3>2. CASE ~(i <= e - 1)
            BY <3>2
        <3>3. QED
            BY <3>1, <3>2
    <2>5. /\ SubSeq(q, i, e - 1) \in Seq(S) /\ Len(SubSeq(q, i, e - 1)) = n
          /\ \A x \in 1..(e - 1 - i + 1) : SubSeq(q, i, e - 1)[x] = q[i + x - 1]
        BY <2>2, <2>3, <2>4, SubSeqProperties
    <2>6. /\ SubSeq(r, i, e - 1) \in Seq(S) /\ Len(SubSeq(r, i, e - 1)) = n
          /\ \A x \in 1..(e - 1 - i + 1) : SubSeq(r, i, e - 1)[x] = r[i + x - 1]
        BY <2>2, <2>3, <2>4, SubSeqProperties
    <2>7. PICK a \in Seq(S), b \in Seq(S) : a = SubSeq(q, i, e - 1) /\ b = SubSeq(r, i, e - 1)
        BY <2>5, <2>6
    <2>8. \A x \in 1..n : a[x] = b[x]
        <3>1. ASSUME NEW x \in 1..n
              PROVE  a[x] = b[x]
            <4>1. x \in 1..(e - 1 - i + 1) /\ i + x - 1 \in i..(e - 1)
                BY <2>4, <3>1
            <4>2. QED
                BY <1>5, <2>5, <2>6, <2>7, <4>1
        <3>2. QED
            BY <3>1
    <2>9. a = b
        BY <2>5, <2>6, <2>7, <2>8, SeqEqual
    <2>10. QED
        BY <2>7, <2>9
<1>7. QED
    BY <1>1, <1>4, <1>6

\* Where a call k, which started at place c of buffer b, left its marks: in the
\* bytes q of b, which are now r, it passed to i, and it ended the token at j.
Marks(k, q, r, b, c, i, j) ==
    /\ i \in Nat \ {0} /\ c <= i
    /\ \/ k.tok = NULL /\ k.cur = <<b, i>> /\ r = q
       \/ /\ j \in Nat \ {0} /\ i < j /\ Len(r) = Len(q)
          /\ ByteAt(q, i) # NUL /\ ByteAt(r, j) = NUL
          /\ \A x \in i..(j - 1) : ByteAt(r, x) # NUL
          /\ \A x \in Nat \ {j} : ByteAt(r, x) = ByteAt(q, x)
          /\ k.tok = <<b, i>> /\ (k.cur = <<b, j>> \/ k.cur = <<b, j + 1>>)

LEMMA CutMarks ==
    ASSUME NEW S, NUL \in S, NEW m, NEW b \in DOMAIN m, m[b] \in Seq(S),
           NEW c \in Nat \ {0}, NEW D, NUL \notin D
    PROVE  LET k == Cut(m, <<b, c>>, D)
           IN  /\ k.mem[b] \in Seq(S)
               /\ \E i, j : Marks(k, m[b], k.mem[b], b, c, i, j)
<1>1. PICK i, j : Token1(m[b], c, D, i, j)
    BY TokenIs
<1>2. PICK k : k = Cut(m, <<b, c>>, D)
    OBVIOUS
<1>3. Found(k, m, b, i, j)
    BY <1>1, <1>2, CutFound
<1>4. /\ i \in Nat \ {0} /\ j \in Nat \ {0} /\ c <= i
      /\ \A x \in i..(j - 1) : ByteAt(m[b], x) # NUL
      /\ ByteAt(m[b], i) # NUL => i < j
    BY <1>1 DEF Token1
<1>5. k.mem[b] \in Seq(S) /\ \E x, y : Marks(k, m[b], k.mem[b], b, c, x, y)
    <2>1. CASE ByteAt(m[b], i) = NUL
        <3>1. k.tok = NULL /\ k.cur = <<b, i>> /\ k.mem[b] = m[b]
            BY <1>3, <2>1 DEF Found
        <3>2. Marks(k, m[b], k.mem[b], b, c, i, i)
            BY <1>4, <3>1 DEF Marks
        <3>3. QED
            BY <3>1, <3>2
    <2>2. CASE ByteAt(m[b], i) # NUL /\ ByteAt(m[b], j) = NUL
        <3>1. k.tok = <<b, i>> /\ k.cur = <<b, j>> /\ k.mem[b] = m[b]
            BY <1>3, <2>2 DEF Found
        <3>2. Marks(k, m[b], k.mem[b], b, c, i, j)
            BY <1>4, <2>2, <3>1 DEF Marks
        <3>3. QED
            BY <3>1, <3>2
    <2>3. CASE ByteAt(m[b], i) # NUL /\ ByteAt(m[b], j) # NUL
        <3>0. [m EXCEPT ![b][j] = NUL][b] = [m[b] EXCEPT ![j] = NUL]
            OBVIOUS
        <3>1. PICK x, q, r : /\ x = [m EXCEPT ![b][j] = NUL]
                             /\ q = m[b] /\ r = [q EXCEPT ![j] = NUL] /\ x[b] = r
            BY <3>0, Zenon
        <3>2. k = [tok |-> <<b, i>>, cur |-> <<b, j + 1>>, mem |-> x]
            BY <1>3, <2>3, <3>1, Zenon DEF Found
        <3>3. k.tok = <<b, i>> /\ k.cur = <<b, j + 1>> /\ k.mem[b] = r
            BY <3>1, <3>2
        <3>4. q \in Seq(S) /\ Len(q) \in Nat /\ DOMAIN q = 1..Len(q) /\ j \in 1..Len(q)
            BY <2>3, <3>1, LenProperties DEF ByteAt
        <3>5. /\ r \in Seq(S) /\ Len(r) = Len(q) /\ DOMAIN r = DOMAIN q
              /\ r[j] = NUL /\ \A y \in 1..Len(q) : y # j => r[y] = q[y]
            <4>0. q \in Seq(S) /\ j \in 1..Len(q)
                BY <3>4
            <4>1. [q EXCEPT ![j] = NUL] \in Seq(S)
                BY <4>0, ExceptSeq, Zenon
            <4>2. Len([q EXCEPT ![j] = NUL]) = Len(q)
                BY <4>0, ExceptSeq, SMT
            <4>3. DOMAIN r = DOMAIN q
                BY <3>1
            <4>5. QED
                BY <3>1, <3>4, <4>1, <4>2, <4>3
        <3>6. /\ ByteAt(r, j) = NUL
              /\ \A y \in Nat \ {j} : ByteAt(r, y) = ByteAt(q, y)
            BY <3>4, <3>5 DEF ByteAt
        <3>7. \A y \in i..(j - 1) : ByteAt(r, y) # NUL
            <4>1. \A y \in i..(j - 1) : y \in Nat \ {j} /\ ByteAt(q, y) # NUL
                BY <1>4, <3>1
            <4>2. QED
                BY <3>6, <4>1
        <3>8. Marks(k, q, r, b, c, i, j)
            BY <1>4, <2>3, <3>1, <3>3, <3>5, <3>6, <3>7 DEF Marks
        <3>9. QED
            BY <3>1, <3>3, <3>5, <3>8
    <2>4. QED
        BY <2>1, <2>2, <2>3
<1>6. QED
    BY <1>2, <1>5, Zenon

\* A token ends where the cursor is, or just before it.
TokenTo(k, b, i, j) ==
    /\ i \in Nat \ {0} /\ j \in Nat \ {0} /\ i < j
    /\ k.tok = <<b, i>> /\ (k.cur = <<b, j>> \/ k.cur = <<b, j + 1>>)
    /\ ByteAt(k.mem[b], i) # NUL /\ FirstIn(k.mem[b], i, {NUL}) = j

LEMMA TokenEnds ==
    ASSUME NEW S, NUL \in S, NEW m, NEW b \in DOMAIN m, m[b] \in Seq(S),
           NEW c \in Nat \ {0}, NEW D, NUL \notin D, NEW k, k = Cut(m, <<b, c>>, D),
           k.tok # NULL
    PROVE  \E i, j : TokenTo(k, b, i, j)
<1>1. k.mem[b] \in Seq(S) /\ \E i, j : Marks(k, m[b], k.mem[b], b, c, i, j)
    BY CutMarks
<1>2. PICK i, j : Marks(k, m[b], k.mem[b], b, c, i, j)
    BY <1>1
<1>3. /\ i \in Nat \ {0} /\ j \in Nat \ {0} /\ i < j
      /\ ByteAt(k.mem[b], j) = NUL
      /\ \A x \in i..(j - 1) : ByteAt(k.mem[b], x) # NUL
      /\ k.tok = <<b, i>> /\ (k.cur = <<b, j>> \/ k.cur = <<b, j + 1>>)
    BY <1>2 DEF Marks
<1>4. i \in i..(j - 1)
    BY <1>3
<1>5. FirstIn(k.mem[b], i, {NUL}) = j
    <2>1. PICK r \in Seq(S) : /\ r = k.mem[b] /\ ByteAt(r, j) = NUL
                             /\ \A x \in i..(j - 1) : ByteAt(r, x) # NUL
        BY <1>1, <1>3
    <2>2. i \in Nat \ {0} /\ j \in Nat /\ i <= j
        BY <1>3
    <2>3. FirstIn(r, i, {NUL}) = j
        BY <2>1, <2>2, EndIs
    <2>4. QED
        BY <2>1, <2>3
<1>6. TokenTo(k, b, i, j)
    BY <1>3, <1>4, <1>5 DEF TokenTo
<1>7. QED
    BY <1>6

\* The string at place i of the bytes q is the one at that place of r.
Kept(q, r, i) ==
    /\ FirstIn(r, i, {NUL}) = FirstIn(q, i, {NUL})
    /\ SubSeq(r, i, FirstIn(r, i, {NUL}) - 1) = SubSeq(q, i, FirstIn(q, i, {NUL}) - 1)

\* A call that starts behind a string leaves it, and moves on.
LeftBehind(k, b, e) ==
    /\ k.tok = NULL \/ \E x \in Nat : e < x /\ k.tok = <<b, x>>
    /\ \E y \in Nat : e <= y /\ k.cur = <<b, y>>

LEMMA CutBehind ==
    ASSUME NEW S, NUL \in S, NEW m, NEW b \in DOMAIN m, m[b] \in Seq(S),
           NEW c \in Nat \ {0}, NEW D, NUL \notin D, NEW k, k = Cut(m, <<b, c>>, D),
           NEW e \in Nat, e <= c
    PROVE  /\ \A i \in Nat \ {0} : e = FirstIn(m[b], i, {NUL}) => Kept(m[b], k.mem[b], i)
           /\ ByteAt(m[b], e) = NUL => LeftBehind(k, b, e)
<1>1. k.mem[b] \in Seq(S) /\ \E i, j : Marks(k, m[b], k.mem[b], b, c, i, j)
    BY CutMarks
<1>2. PICK q \in Seq(S), r \in Seq(S) : q = m[b] /\ r = k.mem[b]
    BY <1>1
<1>3. PICK x, y : Marks(k, q, r, b, c, x, y)
    BY <1>1, <1>2
<1>4. ASSUME NEW i \in Nat \ {0}, e = FirstIn(q, i, {NUL})
      PROVE  Kept(q, r, i)
    <2>1. CASE r = q
        BY <2>1 DEF Kept
    <2>2. CASE r # q
        <3>1. /\ Len(r) = Len(q) /\ e < y /\ y \in Nat
              /\ \A z \in Nat \ {y} : ByteAt(r, z) = ByteAt(q, z)
            BY <1>3, <2>2 DEF Marks
        <3>2. \A z \in i..e : z \in Nat \ {y}
            BY <3>1
        <3>3. Agree(q, r, i, e)
            BY <3>1, <3>2 DEF Agree
        <3>4. Agree(q, r, i, FirstIn(q, i, {NUL}))
            BY <3>3, <1>4
        <3>5. QED
            BY <3>4, SameString DEF Kept
    <2>3. QED
        BY <2>1, <2>2
<1>5. ASSUME ByteAt(q, e) = NUL
      PROVE  LeftBehind(k, b, e)
    <2>1. CASE k.tok = NULL /\ k.cur = <<b, x>>
        <3>1. x \in Nat /\ e <= x
            BY <1>3 DEF Marks
        <3>2. QED
            BY <2>1, <3>1 DEF LeftBehind
    <2>2. CASE ~(k.tok = NULL /\ k.cur = <<b, x>>)
        <3>1. /\ x \in Nat /\ e <= x /\ ByteAt(q, x) # NUL /\ x < y /\ y \in Nat
              /\ k.tok = <<b, x>> /\ (k.cur = <<b, y>> \/ k.cur = <<b, y + 1>>)
            <4>1. /\ x \in Nat \ {0} /\ c <= x /\ y \in Nat \ {0} /\ x < y
                  /\ ByteAt(q, x) # NUL
                  /\ k.tok = <<b, x>> /\ (k.cur = <<b, y>> \/ k.cur = <<b, y + 1>>)
                BY <1>3, <2>2, Zenon DEF Marks
            <4>2. e <= x
                BY <4>1
            <4>3. QED
                BY <4>1, <4>2
        <3>2. e # x
            BY <1>5, <3>1
        <3>3. e < x /\ e <= y /\ e <= y + 1 /\ y + 1 \in Nat
            BY <3>1, <3>2
        <3>4. QED
            BY <3>1, <3>3 DEF LeftBehind
    <2>3. QED
        BY <2>1, <2>2
<1>6. QED
    BY <1>2, <1>4, <1>5
=============================================================================
