-------------------------- MODULE WebServer_proofs --------------------------
(***************************************************************************)
(* Proofs about WebServer, for any number of threads, any requests, files, *)
(* size of the blocks and table of descriptors.                            *)
(***************************************************************************)
EXTENDS WebServer, Strtok_proofs, FiniteSetTheorems

\* No thread but t moves.
Others(t) == \A s \in Threads \ {t} : th'[s] = th[s]

\* Where a thread is before it has opened a file, or without one.
Before == {"idle", "read", "method", "path", "type", "open", "error"}

\* strtok has a cursor from the first call on.
CursorInv == cur = NULL => \A t \in Threads : th[t].pc \in {"idle", "read"}

\* A thread has a connection only while it runs, and a file only when it has
\* opened it; fs is what is left of the file.
PlaceInv(t) ==
    /\ th[t].pc \in {"idle", "done"} => ~th[t].conn
    /\ th[t].pc \in Before =>
         th[t].file = NoFile /\ ~th[t].index /\ th[t].pos = 0 /\ th[t].out = <<>>
    /\ th[t].index => th[t].file # NoFile
    /\ th[t].pc \in {"header", "body", "rest"} =>
         /\ th[t].file \in Names
         /\ th[t].pos \in 0..Len(Page[th[t].file])
         /\ th[t].fs = Size(th[t].file) - th[t].pos
    /\ th[t].pc = "header" => th[t].pos = 0 /\ th[t].out = <<>>

\* The descriptors in use: one for each connection, and one for each file, until
\* the thread ends, or for ever if the file is the index.
Connected == {t \in Threads : th[t].conn}
Holders   == {t \in Threads : /\ th[t].file # NoFile
                              /\ th[t].index \/ th[t].pc # "done"}

FdsInv ==
    /\ IsFiniteSet(Connected)
    /\ IsFiniteSet(Holders)
    /\ fds = Cardinality(Connected) + Cardinality(Holders)

ServerInv ==
    /\ TypeOK
    /\ CursorInv
    /\ \A t \in Threads : PlaceInv(t)
    /\ FdsInv

-----------------------------------------------------------------------------
(* Types.                                                                  *)

\* What the names of bytes are does not matter, but that they differ.
LEMMA Separators ==
    /\ NUL \notin {" "} /\ NUL \notin {"\n"} /\ NUL \in Text
    BY Zenon DEF NUL, Text

LEMMA LinesAreText ==
    ASSUME NEW r \in Requests
    PROVE  Line[r] \in Seq(Text)
<1>1. Line[r] \in Seq(STRING)
    BY RequestsAssumption
<1>2. Line[r] \in Seq(Range(Line[r]))
    BY <1>1, SeqOfRange
<1>3. Range(Line[r]) \subseteq Text
    BY Zenon DEF Text
<1>4. QED
    BY <1>2, <1>3, SeqMonotonic

LEMMA ErrorIsText == ErrorText \in Seq(Text)
<1>1. ErrorText \in Seq(Range(ErrorText))
    <2>1. ASSUME NEW S, NEW a \in S, NEW b \in S, NEW c \in S, NEW d \in S, NEW e \in S,
                 NEW f \in S
          PROVE  <<a, b, c, d, e, f>> \in Seq(S)
        OBVIOUS
    <2>2. \E S : ErrorText \in Seq(S)
        <3> DEFINE S == {"HTTP500", " ", "Internal", "Server", "\n"}
        <3>1. /\ "HTTP500" \in S /\ " " \in S /\ "Internal" \in S /\ "Server" \in S
              /\ "\n" \in S
            BY Zenon
        <3> HIDE DEF S
        <3>2. ErrorText \in Seq(S)
            BY <2>1, <3>1, Zenon DEF ErrorText
        <3>3. QED
            BY <3>2
    <2>3. QED
        BY <2>2, SeqOfRange
<1>2. Range(ErrorText) \subseteq Text
    BY Zenon DEF Text
<1>3. QED
    BY <1>1, <1>2, SeqMonotonic

LEMMA LeftoversAreText == Leftovers \subseteq Seq(Text)
<1>1. <<>> \in Seq(Text)
    BY EmptySeq
<1>2. <<"GET">> \in Seq(Text)
    <2>1. "GET" \in Text
        BY Zenon DEF Text
    <2>2. \A x \in Text : <<x>> \in Seq(Text)
        OBVIOUS
    <2>3. QED
        BY <2>1, <2>2, Zenon
<1>3. QED
    BY <1>1, <1>2, ErrorIsText, Zenon DEF Leftovers

\* What befalls a thread is one of three things, and is not forgotten.
LEMMA BefallsType ==
    ASSUME TypeOK, NEW S, NEW what \in {"mixed", "left", "short"}
    PROVE  /\ Befalls(S, what) \in [Threads -> SUBSET {"mixed", "left", "short"}]
           /\ \A t \in Threads : trouble[t] \subseteq Befalls(S, what)[t]
           /\ \A t \in Threads \cap S : what \in Befalls(S, what)[t]
    BY DEF TypeOK, Befalls

\* What a call of strtok leaves behind.
LEMMA TokenType ==
    ASSUME NEW m \in [Threads -> Seq(Text)], NEW p \in Pointer, NEW D, NUL \notin D,
           cur \in Pointer, p = NULL => cur # NULL
    PROVE  /\ Token(m, p, D).tok \in Pointer
           /\ Token(m, p, D).cur \in Pointer \ {NULL}
           /\ Token(m, p, D).mem \in [Threads -> Seq(Text)]
<1> DEFINE c == IF p = NULL THEN cur ELSE p
<1>1. c \in Threads \X (Nat \ {0})
    BY DEF Pointer
<1>2. /\ Cut(m, c, D).tok \in {NULL} \cup (Threads \X (Nat \ {0}))
      /\ Cut(m, c, D).cur \in Threads \X (Nat \ {0})
      /\ Cut(m, c, D).mem \in [Threads -> Seq(Text)]
    BY <1>1, CutProperties, Separators
<1>3. \A a, b : <<a, b>> # NULL
    <2>1. \A a, b : Len(<<a, b>>) = 2 /\ Len(<<>>) = 0
        OBVIOUS
    <2>2. QED
        BY <2>1 DEF NULL
<1>4. Token(m, p, D) = Cut(m, c, D)
    BY Zenon DEF Token
<1>5. QED
    BY <1>2, <1>3, <1>4 DEF Pointer

-----------------------------------------------------------------------------
(* What each action does.                                                  *)

LEMMA GotoFacts ==
    ASSUME TypeOK, NEW t \in Threads, NEW pc, NEW r \in Thread, Goto(t, pc, r)
    PROVE  /\ up /\ th[t].pc = pc /\ th'[t] = r
           /\ Others(t) /\ th' \in [Threads -> Thread]
    BY DEF TypeOK, Goto, At, Become, Others

\* A step of a thread that cuts its request: whatever strtok found, the locals
\* that hold files and replies stay as they are.
Cutting(t, pc) ==
    /\ th'[t].pc = pc
    /\ th'[t].conn = th[t].conn /\ th'[t].file = th[t].file
    /\ th'[t].index = th[t].index /\ th'[t].fs = th[t].fs
    /\ th'[t].pos = th[t].pos /\ th'[t].out = th[t].out
    /\ th' \in [Threads -> Thread]
    /\ Others(t)
    /\ mem' \in [Threads -> Seq(Text)]
    /\ cur' \in Pointer \ {NULL}
    /\ UNCHANGED <<up, listening, fds, gone>>
    /\ asked' \in [Threads -> Requests \cup {NoFile}]
    /\ trouble' \in [Threads -> SUBSET {"mixed", "left", "short"}]
    /\ \A s \in Threads : trouble[s] \subseteq trouble'[s]

LEMMA SharesFacts ==
    ASSUME TypeOK, NEW t \in Threads, NEW k, Shares(t, k)
    PROVE  /\ mem' = k.mem /\ cur' = k.cur
           /\ trouble' \in [Threads -> SUBSET {"mixed", "left", "short"}]
           /\ \A s \in Threads : trouble[s] \subseteq trouble'[s]
    BY BefallsType DEF Shares

LEMMA ReadFacts ==
    ASSUME TypeOK, CursorInv, NEW t \in Threads, Read(t)
    PROVE  up /\ th[t].pc = "read" /\ Cutting(t, "method")
<1> DEFINE full == th[t].conn /\ t \notin gone
           M(r, q) == [mem EXCEPT ![t] = IF full THEN Line[r] ELSE q]
<1>1. /\ up /\ th[t].pc = "read"
      /\ th \in [Threads -> Thread] /\ th[t] \in Thread
      /\ asked \in [Threads -> Requests \cup {NoFile}]
    BY DEF Read, At, TypeOK
<1>2. PICK r \in Requests, q \in Leftovers, D \in {{"\n"}} :
        /\ Become(t, [th[t] EXCEPT !.pc = "method",
                                   !.get = Token(M(r, q), <<t, 1>>, D).tok])
        /\ Shares(t, Token(M(r, q), <<t, 1>>, D))
        /\ asked' = IF full THEN [asked EXCEPT ![t] = r] ELSE asked
        /\ UNCHANGED <<up, listening, fds, gone>>
    BY Zenon DEF Read
<1>3. NUL \notin D
    BY Separators, Zenon
<1>4. Line[r] \in Seq(Text) /\ q \in Seq(Text)
    BY LinesAreText, LeftoversAreText
<1>5. M(r, q) \in [Threads -> Seq(Text)]
    BY <1>4 DEF TypeOK
<1>6. <<t, 1>> \in Pointer /\ <<t, 1>> # NULL /\ cur \in Pointer
    <2>1. Len(<<t, 1>>) = 2 /\ Len(<<>>) = 0
        OBVIOUS
    <2>2. QED
        BY <2>1 DEF Pointer, NULL, TypeOK
<1> HIDE DEF full, M
<1>7. /\ Token(M(r, q), <<t, 1>>, D).tok \in Pointer
      /\ Token(M(r, q), <<t, 1>>, D).cur \in Pointer \ {NULL}
      /\ Token(M(r, q), <<t, 1>>, D).mem \in [Threads -> Seq(Text)]
    BY <1>3, <1>5, <1>6, TokenType
<1>8. /\ mem' = Token(M(r, q), <<t, 1>>, D).mem
      /\ cur' = Token(M(r, q), <<t, 1>>, D).cur
      /\ trouble' \in [Threads -> SUBSET {"mixed", "left", "short"}]
      /\ \A s \in Threads : trouble[s] \subseteq trouble'[s]
    BY <1>2, SharesFacts
<1>9. PICK g \in Pointer : Become(t, [th[t] EXCEPT !.pc = "method", !.get = g])
    BY <1>2, <1>7, Zenon
<1>10. [th[t] EXCEPT !.pc = "method", !.get = g] \in Thread
    BY <1>1 DEF Thread, Pcs
<1>11. asked' \in [Threads -> Requests \cup {NoFile}]
    BY <1>1, <1>2
<1>12. /\ th'[t] = [th[t] EXCEPT !.pc = "method", !.get = g]
       /\ Others(t) /\ th' \in [Threads -> Thread]
    BY <1>1, <1>9, <1>10 DEF Become, Others
<1>13. QED
    BY <1>1, <1>2, <1>7, <1>8, <1>11, <1>12 DEF Cutting, Thread

\* The later calls of strtok.
LEMMA CutsFacts ==
    ASSUME TypeOK, CursorInv, NEW t \in Threads, NEW from, NEW pc \in Pcs,
           from \notin {"idle", "read"}, NEW p \in Pointer, NEW D, NUL \notin D,
           NEW r \in Thread, Cuts(t, from, Token(mem, p, D), r),
           r.pc = pc, r.conn = th[t].conn, r.file = th[t].file, r.index = th[t].index,
           r.fs = th[t].fs, r.pos = th[t].pos, r.out = th[t].out
    PROVE  up /\ th[t].pc = from /\ Cutting(t, pc)
<1>1. up /\ th[t].pc = from
    BY DEF Cuts, At
<1>2. cur \in Pointer /\ cur # NULL /\ mem \in [Threads -> Seq(Text)]
    BY <1>1 DEF CursorInv, TypeOK
<1>3. /\ Token(mem, p, D).cur \in Pointer \ {NULL}
      /\ Token(mem, p, D).mem \in [Threads -> Seq(Text)]
    BY <1>2, TokenType
<1>4. /\ mem' = Token(mem, p, D).mem /\ cur' = Token(mem, p, D).cur
      /\ trouble' \in [Threads -> SUBSET {"mixed", "left", "short"}]
      /\ \A s \in Threads : trouble[s] \subseteq trouble'[s]
    BY SharesFacts DEF Cuts
<1>5. /\ th'[t] = r /\ Others(t) /\ th' \in [Threads -> Thread]
      /\ UNCHANGED <<up, listening, fds, gone, asked>>
      /\ asked \in [Threads -> Requests \cup {NoFile}]
    BY DEF Cuts, Become, Others, TypeOK
<1>6. QED
    BY <1>1, <1>3, <1>4, <1>5 DEF Cutting

LEMMA CutMethodFacts ==
    ASSUME TypeOK, CursorInv, NEW t \in Threads, CutMethod(t)
    PROVE  up /\ th[t].pc = "method" /\ Cutting(t, "path")
<1>1. th[t] \in Thread /\ th[t].get \in Pointer
    BY DEF TypeOK, Thread
<1>2. PICK D : /\ NUL \notin D
               /\ Cuts(t, "method", Token(mem, th[t].get, D), [th[t] EXCEPT !.pc = "path"])
    BY Separators, Zenon DEF CutMethod
<1> DEFINE r == [th[t] EXCEPT !.pc = "path"]
<1>4. /\ r \in Thread /\ r.pc = "path" /\ r.conn = th[t].conn /\ r.file = th[t].file
      /\ r.index = th[t].index /\ r.fs = th[t].fs /\ r.pos = th[t].pos
      /\ r.out = th[t].out /\ "path" \in Pcs
    BY <1>1 DEF Thread, Pcs
<1>5. Cuts(t, "method", Token(mem, th[t].get, D), r)
    BY <1>2
<1> HIDE DEF r
<1>6. "method" \notin {"idle", "read"}
    OBVIOUS
<1>7. QED
    BY <1>1, <1>2, <1>4, <1>5, <1>6, CutsFacts

LEMMA CutPathFacts ==
    ASSUME TypeOK, CursorInv, NEW t \in Threads, CutPath(t)
    PROVE  up /\ th[t].pc = "path" /\ Cutting(t, "type")
<1>1. /\ th[t] \in Thread /\ NULL \in Pointer /\ cur \in Pointer
      /\ mem \in [Threads -> Seq(Text)]
    BY DEF TypeOK, Pointer
<1>2. PICK D : /\ NUL \notin D
               /\ Cuts(t, "path", Token(mem, NULL, D),
                       [th[t] EXCEPT !.pc = "type", !.path = Token(mem, NULL, D).tok])
    BY Separators, Zenon DEF CutPath
<1>3. cur # NULL
    BY <1>2 DEF CursorInv, Cuts, At
<1>4. Token(mem, NULL, D).tok \in Pointer
    BY <1>1, <1>2, <1>3, TokenType
<1>5. PICK q \in Pointer :
        Cuts(t, "path", Token(mem, NULL, D), [th[t] EXCEPT !.pc = "type", !.path = q])
    BY <1>2, <1>4, Zenon
<1> DEFINE r == [th[t] EXCEPT !.pc = "type", !.path = q]
<1>6. /\ r \in Thread /\ r.pc = "type" /\ r.conn = th[t].conn /\ r.file = th[t].file
      /\ r.index = th[t].index /\ r.fs = th[t].fs /\ r.pos = th[t].pos
      /\ r.out = th[t].out /\ "type" \in Pcs
    BY <1>1 DEF Thread, Pcs
<1>7. Cuts(t, "path", Token(mem, NULL, D), r)
    BY <1>5
<1> HIDE DEF r
<1>8. "path" \notin {"idle", "read"}
    OBVIOUS
<1>9. QED
    BY <1>1, <1>2, <1>6, <1>7, <1>8, CutsFacts

LEMMA CutTypeFacts ==
    ASSUME TypeOK, CursorInv, NEW t \in Threads, CutType(t)
    PROVE  up /\ th[t].pc = "type" /\ Cutting(t, "open")
<1>1. /\ th[t] \in Thread /\ NULL \in Pointer /\ cur \in Pointer
      /\ mem \in [Threads -> Seq(Text)]
    BY DEF TypeOK, Pointer
<1>2. PICK D : /\ NUL \notin D
               /\ Cuts(t, "type", Token(mem, NULL, D),
                       [th[t] EXCEPT !.pc = "open", !.type = Token(mem, NULL, D).tok])
    BY Separators, Zenon DEF CutType
<1>3. cur # NULL
    BY <1>2 DEF CursorInv, Cuts, At
<1>4. Token(mem, NULL, D).tok \in Pointer
    BY <1>1, <1>2, <1>3, TokenType
<1>5. PICK q \in Pointer :
        Cuts(t, "type", Token(mem, NULL, D), [th[t] EXCEPT !.pc = "open", !.type = q])
    BY <1>2, <1>4, Zenon
<1> DEFINE r == [th[t] EXCEPT !.pc = "open", !.type = q]
<1>6. /\ r \in Thread /\ r.pc = "open" /\ r.conn = th[t].conn /\ r.file = th[t].file
      /\ r.index = th[t].index /\ r.fs = th[t].fs /\ r.pos = th[t].pos
      /\ r.out = th[t].out /\ "open" \in Pcs
    BY <1>1 DEF Thread, Pcs
<1>7. Cuts(t, "type", Token(mem, NULL, D), r)
    BY <1>5
<1> HIDE DEF r
<1>8. "type" \notin {"idle", "read"}
    OBVIOUS
<1>9. QED
    BY <1>1, <1>2, <1>6, <1>7, <1>8, CutsFacts

LEMMA SizeType ==
    ASSUME NEW w \in Names
    PROVE  /\ Page[w] \in Seq(STRING \X Nat) /\ Len(Page[w]) \in Nat
           /\ Size(w) \in Int /\ (w \notin Dirs => Size(w) = Len(Page[w]))
           /\ (w \in Dirs => Size(w) = -1 /\ Len(Page[w]) = 0)
<1>1. Page[w] \in Seq(STRING \X Nat) /\ (w \in Dirs => Page[w] = <<>>)
    BY Zenon, FilesAssumption
<1>2. Len(Page[w]) \in Nat /\ Len(<<>>) = 0
    BY <1>1, LenProperties, EmptySeq
<1>3. QED
    BY <1>1, <1>2 DEF Size

\* The name is cut out of the request in place.
LEMMA NameType ==
    ASSUME NEW m \in [Threads -> Seq(Text)], NEW p \in Pointer, p # NULL
    PROVE  Moved(m, p) \in [Threads -> Seq(Text)]
<1> DEFINE b == p[1]
           e(i) == IF i >= p[2] /\ NUL \notin {m[b][j] : j \in p[2]..i}
                   THEN ByteAt(m[b], i + 1) ELSE m[b][i]
           q == [i \in 1..Len(m[b]) |-> e(i)]
<1>1. b \in Threads /\ m[b] \in Seq(Text) /\ Len(m[b]) \in Nat
      /\ DOMAIN m[b] = 1..Len(m[b]) /\ \A i \in 1..Len(m[b]) : m[b][i] \in Text
    BY LenProperties, ElementOfSeq DEF Pointer
<1>2. \A i : ByteAt(m[b], i) \in Text
    BY <1>1, Separators DEF ByteAt
<1>3. \A i \in 1..Len(m[b]) : e(i) \in Text
    BY <1>1, <1>2
<1>4. q \in Seq(Text)
    <2> HIDE DEF e
    <2>1. QED
        BY <1>1, <1>3, IsASeq
<1>5. Moved(m, p) = [m EXCEPT ![b] = q]
    BY <1>1 DEF Moved
<1> HIDE DEF q
<1>6. QED
    BY <1>1, <1>4, <1>5

LEMMA StrippedType ==
    ASSUME NEW m \in [Threads -> Seq(Text)], NEW p \in Pointer, p # NULL
    PROVE  Stripped(m, p) \in [Threads -> Seq(Text)]
<1>1. Stripped(m, p) \in {Moved(m, p), m}
    BY Zenon DEF Stripped
<1>2. QED
    BY <1>1, NameType

\* A thread opens a file, for which there is a descriptor, or fails.
Opening(t) ==
    /\ th'[t].conn = th[t].conn /\ th'[t].pos = th[t].pos /\ th'[t].out = th[t].out
    /\ \/ /\ th'[t].pc = "header" /\ th'[t].file \in Names
          /\ th'[t].fs = Size(th'[t].file)
          /\ fds < MaxFds /\ fds' = fds + 1
       \/ /\ th'[t].pc = "error" /\ th'[t].file = th[t].file
          /\ th'[t].index = th[t].index /\ fds' = fds
    /\ th' \in [Threads -> Thread]
    /\ Others(t)
    /\ up' \in BOOLEAN
    /\ trouble' \in [Threads -> SUBSET {"mixed", "left", "short"}]
    /\ \A s \in Threads : trouble[s] \subseteq trouble'[s]

LEMMA OpensFacts ==
    ASSUME TypeOK, NEW t \in Threads, NEW w, NEW i \in BOOLEAN,
           Opens(t, w, i) \/ OpenFails(t, w)
    PROVE  up /\ th[t].pc = "open" /\ Opening(t)
<1>1. /\ th[t] \in Thread /\ up \in BOOLEAN
      /\ trouble \in [Threads -> SUBSET {"mixed", "left", "short"}]
    BY DEF TypeOK
<1>2. CASE Opens(t, w, i)
    <2> DEFINE r == [th[t] EXCEPT !.pc = "header", !.file = w, !.index = i, !.fs = Size(w)]
    <2>1. /\ w \in Names /\ fds < MaxFds /\ fds' = fds + 1 /\ UNCHANGED trouble
          /\ up' \in BOOLEAN /\ Goto(t, "open", r)
        BY <1>2 DEF Opens, Overruns
    <2>2. Size(w) \in Int
        BY <2>1, SizeType
    <2>3. /\ r \in Thread /\ r.pc = "header" /\ r.file = w /\ r.fs = Size(w)
          /\ r.conn = th[t].conn /\ r.pos = th[t].pos /\ r.out = th[t].out
        BY <1>1, <2>1, <2>2 DEF Thread, Pcs
    <2> HIDE DEF r
    <2>4. /\ up /\ th[t].pc = "open" /\ th'[t] = r
          /\ Others(t) /\ th' \in [Threads -> Thread]
        BY <2>1, <2>3, GotoFacts
    <2>5. QED
        BY <1>1, <2>1, <2>3, <2>4 DEF Opening
<1>3. CASE OpenFails(t, w)
    <2> DEFINE r == [th[t] EXCEPT !.pc = "error"]
    <2>1. PICK goesOn \in BOOLEAN : FailsToOpen(t, w, goesOn)
        BY <1>3 DEF OpenFails, Overruns
    <2>2. /\ fds' = fds /\ up' = goesOn /\ Goto(t, "open", r)
          /\ \E S : trouble' = Befalls(S, "short")
        BY <2>1 DEF FailsToOpen
    <2>3. /\ r \in Thread /\ r.pc = "error" /\ r.file = th[t].file
          /\ r.index = th[t].index
          /\ r.conn = th[t].conn /\ r.pos = th[t].pos /\ r.out = th[t].out
        BY <1>1 DEF Thread, Pcs
    <2> HIDE DEF r
    <2>4. /\ up /\ th[t].pc = "open" /\ th'[t] = r
          /\ Others(t) /\ th' \in [Threads -> Thread]
        BY <2>2, <2>3, GotoFacts
    <2>5. /\ trouble' \in [Threads -> SUBSET {"mixed", "left", "short"}]
          /\ \A s \in Threads : trouble[s] \subseteq trouble'[s]
        BY <2>2, BefallsType
    <2>6. QED
        BY <2>2, <2>3, <2>4, <2>5 DEF Opening
<1>4. QED
    BY <1>2, <1>3

LEMMA OpenIndexFacts ==
    ASSUME TypeOK, NEW t \in Threads, OpenIndex(t)
    PROVE  /\ up /\ th[t].pc = "open" /\ Opening(t)
           /\ UNCHANGED <<listening, mem, cur, gone, asked>>
<1>1. /\ \E w : Opens(t, w, TRUE) \/ OpenFails(t, w)
      /\ UNCHANGED <<listening, mem, cur, gone, asked>>
    BY Zenon DEF OpenIndex
<1>2. QED
    BY <1>1, OpensFacts

LEMMA OpenNamedFacts ==
    ASSUME TypeOK, NEW t \in Threads, OpenNamed(t)
    PROVE  /\ up /\ th[t].pc = "open" /\ Opening(t)
           /\ mem' \in [Threads -> Seq(Text)]
           /\ UNCHANGED <<listening, cur, gone, asked>>
<1>1. /\ \E w : Opens(t, w, FALSE) \/ OpenFails(t, w)
      /\ mem' = Stripped(Moved(mem, th[t].path), th[t].path)
      /\ th[t].path # NULL
      /\ UNCHANGED <<listening, cur, gone, asked>>
    BY Zenon DEF OpenNamed
<1>2. th[t].path \in Pointer /\ mem \in [Threads -> Seq(Text)]
    BY DEF TypeOK, Thread
<1>3. mem' \in [Threads -> Seq(Text)]
    BY <1>1, <1>2, NameType, StrippedType
<1>4. QED
    BY <1>1, <1>3, OpensFacts

\* Parts of a reply.
LEMMA PartsTypes ==
    /\ <<>> \in Seq(Parts)
    /\ <<Error500>> \in Seq(Parts)
    /\ \A w \in Names : <<Header(Size(w))>> \in Seq(Parts) /\ Page[w] \in Seq(Parts)
<1>1. Error500 \in Parts /\ \A w \in Names : Header(Size(w)) \in Parts
    BY Zenon DEF Parts
<1>2. \A x \in Parts : <<x>> \in Seq(Parts)
    OBVIOUS
<1>3. ASSUME NEW w \in Names
      PROVE  Page[w] \in Seq(Parts)
    <2>1. Page[w] \in Seq(Range(Page[w]))
        BY <1>3, SizeType, SeqOfRange
    <2>2. Range(Page[w]) \subseteq Parts
        BY <1>3, Zenon DEF Parts
    <2>3. QED
        BY <2>1, <2>2, SeqMonotonic
<1>4. QED
    BY <1>1, <1>2, <1>3, EmptySeq

\* What fread returns, and where it stops.
LEMMA FreadType ==
    ASSUME NEW t \in Threads, NEW n \in Nat, NEW w \in Names, th[t].file = w,
           th[t].pos \in 0..Len(Page[w])
    PROVE  \E e \in th[t].pos..Len(Page[w]) :
              /\ Fread(t, n) = SubSeq(Page[w], th[t].pos + 1, e)
              /\ Fread(t, n) \in Seq(Parts)
              /\ Len(Fread(t, n)) = e - th[t].pos
              /\ e = IF th[t].pos + n < Len(Page[w]) THEN th[t].pos + n ELSE Len(Page[w])
<1> DEFINE q == Page[w]
           k == th[t].pos
           e == IF k + n < Len(q) THEN k + n ELSE Len(q)
<1>1. q \in Seq(Parts) /\ Len(q) \in Nat /\ \A i \in 1..Len(q) : q[i] \in Parts
    BY PartsTypes, LenProperties, ElementOfSeq
<1>2. Fread(t, n) = SubSeq(q, k + 1, e)
    BY DEF Fread
<1>3. e \in k..Len(q) /\ k \in Nat
    BY <1>1
<1> HIDE DEF q, k, e
<1>4. \A i \in k + 1..e : q[i] \in Parts
    BY <1>1, <1>3
<1>5. /\ SubSeq(q, k + 1, e) \in Seq(Parts)
      /\ Len(SubSeq(q, k + 1, e)) = IF k + 1 <= e THEN e - (k + 1) + 1 ELSE 0
    BY <1>1, <1>3, <1>4, SubSeqProperties
<1>6. Len(SubSeq(q, k + 1, e)) = e - k
    BY <1>1, <1>3, <1>5
<1>7. QED
    BY <1>2, <1>3, <1>5, <1>6 DEF q, k, e

\* A thread writes data, which its client receives if there is one, and goes on
\* at pc with the place pos and the rest fs of its file.
Writing(t, from, pc, pos, fs, data) ==
    /\ up /\ th[t].pc = from /\ th'[t].pc = pc
    /\ th'[t].conn = th[t].conn /\ th'[t].file = th[t].file
    /\ th'[t].index = th[t].index
    /\ th'[t].pos = pos /\ th'[t].fs = fs
    /\ th'[t].out = IF th[t].conn /\ t \notin gone THEN th[t].out \o data ELSE th[t].out
    /\ th' \in [Threads -> Thread]
    /\ Others(t)
    /\ up' \in BOOLEAN
    /\ UNCHANGED <<listening, cur, fds, gone, asked, trouble>>

LEMMA WriteFacts ==
    ASSUME TypeOK, NEW t \in Threads, NEW from, NEW pc, NEW data \in Seq(Parts),
           NEW r \in Thread, Write(t, from, r, data), r.pc = pc, r.conn = th[t].conn,
           r.file = th[t].file, r.index = th[t].index, r.out = th[t].out
    PROVE  Writing(t, from, pc, r.pos, r.fs, data)
<1> DEFINE full == th[t].conn /\ t \notin gone
           s == IF full THEN [r EXCEPT !.out = r.out \o data] ELSE r
<1>1. /\ Goto(t, from, s) /\ UNCHANGED <<listening, cur, fds, gone, asked, trouble>>
      /\ up' = up \/ up' = FALSE
    BY DEF Write
<1>2. r.out \o data \in Seq(Parts)
    BY ConcatProperties DEF Thread
<1>3. /\ s \in Thread /\ s.pc = pc /\ s.conn = th[t].conn /\ s.file = th[t].file
      /\ s.index = th[t].index /\ s.pos = r.pos /\ s.fs = r.fs
      /\ s.out = IF full THEN th[t].out \o data ELSE th[t].out
    BY <1>2 DEF Thread
<1> HIDE DEF s
<1>4. /\ up /\ th[t].pc = from /\ th'[t] = s
      /\ Others(t) /\ th' \in [Threads -> Thread]
    BY <1>1, <1>3, GotoFacts
<1>5. QED
    BY <1>1, <1>3, <1>4 DEF Writing, TypeOK

LEMMA SendErrorFacts ==
    ASSUME TypeOK, NEW t \in Threads, SendError(t)
    PROVE  /\ Writing(t, "error", "close", th[t].pos, th[t].fs, <<Error500>>)
           /\ mem' \in [Threads -> Seq(Text)]
<1> DEFINE r == [th[t] EXCEPT !.pc = "close"]
<1>1. /\ r \in Thread /\ r.pc = "close" /\ r.conn = th[t].conn /\ r.file = th[t].file
      /\ r.index = th[t].index /\ r.out = th[t].out /\ r.pos = th[t].pos
      /\ r.fs = th[t].fs
    <2>1. th[t] \in Thread
        BY Zenon DEF TypeOK
    <2>2. QED
        BY <2>1 DEF Thread, Pcs
<1>2. Write(t, "error", r, <<Error500>>) /\ mem' = [mem EXCEPT ![t] = ErrorText]
    BY DEF SendError
<1> HIDE DEF r
<1>3. Writing(t, "error", "close", r.pos, r.fs, <<Error500>>)
    BY <1>1, <1>2, PartsTypes, WriteFacts
<1>4. mem' \in [Threads -> Seq(Text)]
    BY <1>2, ErrorIsText DEF TypeOK
<1>5. QED
    BY <1>1, <1>3, <1>4

LEMMA SendHeaderFacts ==
    ASSUME TypeOK, NEW t \in Threads, PlaceInv(t), SendHeader(t)
    PROVE  /\ th[t].file \in Names
           /\ Writing(t, "header", "body", th[t].pos, th[t].fs, <<Header(Size(th[t].file))>>)
           /\ mem' = mem
<1> DEFINE r == [th[t] EXCEPT !.pc = "body"]
<1>1. /\ r \in Thread /\ r.pc = "body" /\ r.conn = th[t].conn /\ r.file = th[t].file
      /\ r.index = th[t].index /\ r.out = th[t].out /\ r.pos = th[t].pos
      /\ r.fs = th[t].fs
    <2>1. th[t] \in Thread
        BY Zenon DEF TypeOK
    <2>2. QED
        BY <2>1 DEF Thread, Pcs
<1>2. th[t].pc = "header"
    BY DEF SendHeader, Write, Goto, At
<1>3. th[t].file \in Names /\ th[t].fs = Size(th[t].file)
    <2>1. /\ th[t].file \in Names /\ th[t].pos = 0
          /\ th[t].fs = Size(th[t].file) - th[t].pos
        BY <1>2 DEF PlaceInv
    <2>2. QED
        BY <2>1, SizeType
<1>4. Write(t, "header", r, <<Header(Size(th[t].file))>>) /\ mem' = mem
    BY <1>3, Zenon DEF SendHeader
<1> HIDE DEF r
<1>5. Writing(t, "header", "body", r.pos, r.fs, <<Header(Size(th[t].file))>>)
    BY <1>1, <1>3, <1>4, PartsTypes, WriteFacts
<1>6. QED
    BY <1>1, <1>3, <1>4, <1>5

\* A piece of the file goes out, up to place e.
Sending(t, from, to, e) ==
    /\ th[t].file \in Names
    /\ e \in th[t].pos..Len(Page[th[t].file])
    /\ Writing(t, from, to, e, Size(th[t].file) - e,
               SubSeq(Page[th[t].file], th[t].pos + 1, e))
    /\ mem' = mem

LEMMA SendPartFacts ==
    ASSUME TypeOK, NEW t \in Threads, PlaceInv(t), NEW from \in {"body", "rest"},
           NEW to \in {"body", "rest", "close"}, NEW q \in Seq(Parts),
           NEW e \in th[t].pos..Len(Page[th[t].file]), SendPart(t, from, q, to),
           q = SubSeq(Page[th[t].file], th[t].pos + 1, e), Len(q) = e - th[t].pos
    PROVE  Sending(t, from, to, e)
<1> DEFINE r == [th[t] EXCEPT !.pc = to, !.pos = @ + Len(q), !.fs = @ - Len(q)]
<1>1. Write(t, from, r, q) /\ mem' = mem
    BY DEF SendPart
<1>2. th[t].pc = from /\ th[t] \in Thread
    BY <1>1 DEF Write, Goto, At, TypeOK
<1>3. /\ th[t].file \in Names /\ th[t].pos \in 0..Len(Page[th[t].file])
      /\ th[t].fs = Size(th[t].file) - th[t].pos
    BY <1>2 DEF PlaceInv
<1>4. Len(Page[th[t].file]) \in Nat /\ Size(th[t].file) \in Int
    BY <1>3, SizeType
<1>5. th[t].pos + Len(q) = e /\ th[t].fs - Len(q) = Size(th[t].file) - e /\ e \in Nat
    <2> DEFINE z == Size(th[t].file)
               k == th[t].pos
    <2>1. k \in Nat /\ z \in Int /\ e \in Nat
        BY <1>3, <1>4
    <2> HIDE DEF r, z, k
    <2>2. k + (e - k) = e /\ (z - k) - (e - k) = z - e
        BY <2>1
    <2>3. QED
        BY <1>3, <2>1, <2>2 DEF z, k
<1>6. r = [th[t] EXCEPT !.pc = to, !.pos = e, !.fs = Size(th[t].file) - e]
    BY <1>2, <1>5 DEF Thread
<1>7. /\ r \in Thread /\ r.pc = to /\ r.conn = th[t].conn /\ r.file = th[t].file
      /\ r.index = th[t].index /\ r.out = th[t].out /\ r.pos = e
      /\ r.fs = Size(th[t].file) - e
    <2> HIDE DEF r
    <2>1. Size(th[t].file) - e \in Int /\ to \in Pcs
        BY <1>4, <1>5 DEF Pcs
    <2>2. QED
        BY <1>2, <1>5, <1>6, <2>1 DEF Thread
<1> HIDE DEF r
<1>8. Writing(t, from, to, r.pos, r.fs, q)
    BY <1>1, <1>7, WriteFacts
<1>9. QED
    BY <1>1, <1>3, <1>7, <1>8 DEF Sending

LEMMA SendBlockFacts ==
    ASSUME TypeOK, NEW t \in Threads, PlaceInv(t), SendBlock(t)
    PROVE  \E e, to : to \in {"body", "rest"} /\ Sending(t, "body", to, e)
<1> DEFINE q == Fread(t, MaxLine)
<1>1. PICK to \in {"body", "rest"} : SendPart(t, "body", q, to)
    BY DEF SendBlock
<1>2. th[t].pc = "body"
    BY <1>1 DEF SendPart, Write, Goto, At
<1>3. th[t].file \in Names /\ th[t].pos \in 0..Len(Page[th[t].file]) /\ MaxLine \in Nat
    BY <1>2, BoundsAssumption DEF PlaceInv
<1>4. PICK e \in th[t].pos..Len(Page[th[t].file]) :
        /\ q = SubSeq(Page[th[t].file], th[t].pos + 1, e)
        /\ q \in Seq(Parts) /\ Len(q) = e - th[t].pos
    BY <1>3, FreadType
<1> HIDE DEF q
<1>5. Sending(t, "body", to, e)
    BY <1>1, <1>4, SendPartFacts
<1>6. QED
    BY <1>5

\* The last piece is the rest of the file.
LEMMA SendRestFacts ==
    ASSUME TypeOK, NEW t \in Threads, PlaceInv(t), SendRest(t)
    PROVE  Sending(t, "rest", "close", Len(Page[th[t].file]))
<1> DEFINE w == th[t].file
           n == Len(Page[w])
           q == IF th[t].fs > 0 THEN Fread(t, th[t].fs) ELSE <<>>
<1>1. SendPart(t, "rest", q, "close")
    BY DEF SendRest
<1>2. th[t].pc = "rest"
    BY <1>1 DEF SendPart, Write, Goto, At
<1>3. w \in Names /\ th[t].pos \in 0..n /\ th[t].fs = Size(w) - th[t].pos
    BY <1>2 DEF PlaceInv
<1>4. n \in Nat /\ Size(w) \in {n, -1} /\ (Size(w) = -1 => n = 0)
    BY <1>3, SizeType
<1>5. /\ q = SubSeq(Page[w], th[t].pos + 1, n)
      /\ q \in Seq(Parts) /\ Len(q) = n - th[t].pos
    <2>1. CASE th[t].fs > 0
        <3>1. th[t].fs \in Nat /\ th[t].pos + th[t].fs = n
            BY <1>3, <1>4, <2>1
        <3>2. PICK e \in th[t].pos..n :
                /\ Fread(t, th[t].fs) = SubSeq(Page[w], th[t].pos + 1, e)
                /\ Fread(t, th[t].fs) \in Seq(Parts)
                /\ Len(Fread(t, th[t].fs)) = e - th[t].pos
                /\ e = IF th[t].pos + th[t].fs < n THEN th[t].pos + th[t].fs ELSE n
            BY <1>3, <3>1, FreadType
        <3>3. e = n
            BY <1>4, <3>1, <3>2
        <3>4. q = Fread(t, th[t].fs)
            BY <2>1
        <3>5. QED
            BY <3>2, <3>3, <3>4
    <2>2. CASE ~(th[t].fs > 0)
        <3>1. th[t].pos = n
            BY <1>3, <1>4, <2>2
        <3>2. n \in Int /\ n + 1 \in Int /\ n < n + 1
            BY <1>4
        <3>3. SubSeq(Page[w], n + 1, n) = <<>>
            BY <3>2, SubSeqEmpty
        <3>4. Len(<<>>) = 0 /\ n - n = 0 /\ <<>> \in Seq(Parts)
            BY <1>4, EmptySeq
        <3>5. QED
            BY <2>2, <3>1, <3>3, <3>4
    <2>3. QED
        BY <2>1, <2>2
<1>6. n \in th[t].pos..n
    BY <1>3, <1>4
<1> HIDE DEF q
<1>7. QED
    BY <1>1, <1>5, <1>6, SendPartFacts

\* The other steps.
LEMMA IdleType ==
    /\ Idle \in Thread /\ Idle.pc = "idle" /\ ~Idle.conn /\ Idle.file = NoFile
    /\ ~Idle.index /\ Idle.pos = 0 /\ Idle.fs = 0 /\ Idle.out = <<>>
<1>1. NULL \in Pointer /\ <<>> \in Seq(Parts)
    BY PartsTypes DEF Pointer
<1>2. QED
    BY <1>1 DEF Idle, Thread, Pcs

\* A thread starts, with a connection or without.
Starting(t) ==
    /\ up /\ th[t].pc = "idle" /\ th'[t].pc = "read"
    /\ th'[t].file = NoFile /\ ~th'[t].index /\ th'[t].pos = 0 /\ th'[t].out = <<>>
    /\ \/ th'[t].conn /\ fds < MaxFds /\ fds' = fds + 1
       \/ ~th'[t].conn /\ fds' = fds
    /\ th' \in [Threads -> Thread]
    /\ Others(t)
    /\ UNCHANGED <<up, listening, mem, cur, gone, asked>>
    /\ trouble' \in [Threads -> SUBSET {"mixed", "left", "short"}]
    /\ \A s \in Threads : trouble[s] \subseteq trouble'[s]

LEMMA AcceptFacts ==
    ASSUME TypeOK, NEW t \in Threads, Accept(t) \/ AcceptFails(t)
    PROVE  Starting(t)
<1>1. trouble \in [Threads -> SUBSET {"mixed", "left", "short"}]
    BY DEF TypeOK
<1>2. CASE Accept(t)
    <2> DEFINE r == [Idle EXCEPT !.pc = "read", !.conn = TRUE]
    <2>1. /\ Goto(t, "idle", r) /\ fds < MaxFds /\ fds' = fds + 1
          /\ UNCHANGED <<up, listening, mem, cur, gone, asked, trouble>>
        BY <1>2 DEF Accept
    <2>2. /\ r \in Thread /\ r.pc = "read" /\ r.conn /\ r.file = NoFile /\ ~r.index
          /\ r.pos = 0 /\ r.out = <<>>
        BY IdleType DEF Thread, Pcs
    <2> HIDE DEF r
    <2>3. /\ up /\ th[t].pc = "idle" /\ th'[t] = r
          /\ Others(t) /\ th' \in [Threads -> Thread]
        BY <2>1, <2>2, GotoFacts
    <2>4. QED
        BY <1>1, <2>1, <2>2, <2>3 DEF Starting
<1>3. CASE AcceptFails(t)
    <2> DEFINE r == [Idle EXCEPT !.pc = "read"]
    <2>1. /\ Goto(t, "idle", r) /\ trouble' = Befalls({t}, "short")
          /\ UNCHANGED <<up, listening, mem, cur, fds, gone, asked>>
        BY <1>3 DEF AcceptFails
    <2>2. /\ r \in Thread /\ r.pc = "read" /\ ~r.conn /\ r.file = NoFile /\ ~r.index
          /\ r.pos = 0 /\ r.out = <<>>
        BY IdleType DEF Thread, Pcs
    <2> HIDE DEF r
    <2>3. /\ up /\ th[t].pc = "idle" /\ th'[t] = r
          /\ Others(t) /\ th' \in [Threads -> Thread]
        BY <2>1, <2>2, GotoFacts
    <2>4. /\ trouble' \in [Threads -> SUBSET {"mixed", "left", "short"}]
          /\ \A s \in Threads : trouble[s] \subseteq trouble'[s]
        BY <2>1, BefallsType
    <2>5. QED
        BY <2>1, <2>2, <2>3, <2>4 DEF Starting
<1>4. QED
    BY <1>2, <1>3

LEMMA LeaveFacts ==
    ASSUME TypeOK, NEW t \in Threads, Leave(t)
    PROVE  /\ th[t].conn /\ gone' = gone \cup {t}
           /\ UNCHANGED <<up, listening, th, mem, cur, fds, asked>>
           /\ trouble' \in [Threads -> SUBSET {"mixed", "left", "short"}]
           /\ \A s \in Threads : trouble[s] \subseteq trouble'[s]
           /\ "left" \in trouble'[t]
<1>1. trouble' = Befalls({t}, "left")
    BY DEF Leave
<1>2. /\ trouble' \in [Threads -> SUBSET {"mixed", "left", "short"}]
      /\ \A s \in Threads : trouble[s] \subseteq trouble'[s]
      /\ "left" \in trouble'[t]
    BY <1>1, BefallsType
<1>3. QED
    BY <1>2 DEF Leave

LEMMA IgnoreFacts ==
    ASSUME TypeOK, NEW t \in Threads, Ignore(t)
    PROVE  /\ up /\ th[t].pc = "open" /\ th'[t].pc = "close"
           /\ th'[t].conn = th[t].conn /\ th'[t].file = th[t].file
           /\ th'[t].index = th[t].index /\ th'[t].out = th[t].out
           /\ th' \in [Threads -> Thread] /\ Others(t)
           /\ UNCHANGED <<up, listening, mem, cur, fds, gone, asked, trouble>>
<1> DEFINE r == [th[t] EXCEPT !.pc = "close"]
<1>1. Goto(t, "open", r) /\ UNCHANGED <<up, listening, mem, cur, fds, gone, asked, trouble>>
    BY DEF Ignore
<1>2. /\ r \in Thread /\ r.pc = "close" /\ r.conn = th[t].conn /\ r.file = th[t].file
      /\ r.index = th[t].index /\ r.out = th[t].out
    <2>1. th[t] \in Thread
        BY Zenon DEF TypeOK
    <2>2. QED
        BY <2>1 DEF Thread, Pcs
<1> HIDE DEF r
<1>3. /\ up /\ th[t].pc = "open" /\ th'[t] = r
      /\ Others(t) /\ th' \in [Threads -> Thread]
    BY <1>1, <1>2, GotoFacts
<1>4. QED
    BY <1>1, <1>2, <1>3

LEMMA CloseFacts ==
    ASSUME TypeOK, NEW t \in Threads, Close(t)
    PROVE  /\ up /\ th[t].pc = "close" /\ th'[t].pc = "done"
           /\ ~th'[t].conn /\ th'[t].file = th[t].file
           /\ th'[t].index = th[t].index /\ th'[t].out = th[t].out
           /\ th' \in [Threads -> Thread] /\ Others(t)
           /\ fds' = fds - (Connections(t) + Files(t))
           /\ UNCHANGED <<up, listening, mem, cur, gone, asked, trouble>>
<1>1. /\ Goto(t, "close", Ended(t)) /\ fds' = fds - (Connections(t) + Files(t))
      /\ UNCHANGED <<up, listening, mem, cur, gone, asked, trouble>>
    BY DEF Close, Returns
<1>2. /\ Ended(t) \in Thread /\ Ended(t).pc = "done" /\ ~Ended(t).conn
      /\ Ended(t).file = th[t].file /\ Ended(t).index = th[t].index
      /\ Ended(t).out = th[t].out
    BY IdleType DEF TypeOK, Thread, Pcs, Ended
<1>3. /\ up /\ th[t].pc = "close" /\ th'[t] = Ended(t)
      /\ Others(t) /\ th' \in [Threads -> Thread]
    BY <1>1, <1>2, GotoFacts
<1>4. QED
    BY <1>1, <1>2, <1>3

-----------------------------------------------------------------------------
(* The invariant.                                                          *)

One(b) == IF b THEN 1 ELSE 0

\* A set that changes only in whether t is a member.
LEMMA CountOne ==
    ASSUME NEW A, NEW B, IsFiniteSet(A), NEW t, A \ {t} = B \ {t}
    PROVE  /\ IsFiniteSet(B) /\ Cardinality(A) \in Nat /\ Cardinality(B) \in Nat
           /\ Cardinality(B) = Cardinality(A) + One(t \in B) - One(t \in A)
<1>1. CASE t \in A <=> t \in B
    <2>1. A = B
        BY <1>1
    <2>2. QED
        BY <1>1, <2>1, FS_CardinalityType DEF One
<1>2. CASE t \in A /\ t \notin B
    <2>1. B = A \ {t}
        BY <1>2
    <2>2. IsFiniteSet(B) /\ Cardinality(B) = Cardinality(A) - 1
        BY <1>2, <2>1, FS_RemoveElement
    <2>3. QED
        BY <1>2, <2>2, FS_CardinalityType DEF One
<1>3. CASE t \notin A /\ t \in B
    <2>1. B = A \cup {t}
        BY <1>3
    <2>2. IsFiniteSet(B) /\ Cardinality(B) = Cardinality(A) + 1
        BY <1>3, <2>1, FS_AddElement
    <2>3. QED
        BY <1>3, <2>2, FS_CardinalityType DEF One
<1>4. QED
    BY <1>1, <1>2, <1>3

\* A step of t takes or gives back descriptors of t.
LEMMA DescriptorsAfter ==
    ASSUME FdsInv, NEW t \in Threads, Others(t),
           fds' = fds + (One(t \in Connected') - One(t \in Connected))
                      + (One(t \in Holders') - One(t \in Holders))
    PROVE  FdsInv' /\ fds' \in Nat
<1>1. Connected \ {t} = Connected' \ {t} /\ Holders \ {t} = Holders' \ {t}
    BY DEF Others, Connected, Holders
<1> DEFINE c == Cardinality(Connected)
           h == Cardinality(Holders)
<1>2. /\ IsFiniteSet(Connected') /\ c \in Nat /\ c' \in Nat
      /\ c' = c + One(t \in Connected') - One(t \in Connected)
    BY <1>1, CountOne DEF FdsInv
<1>3. /\ IsFiniteSet(Holders') /\ h \in Nat /\ h' \in Nat
      /\ h' = h + One(t \in Holders') - One(t \in Holders)
    BY <1>1, CountOne DEF FdsInv
<1>4. fds = c + h
    BY DEF FdsInv
<1> DEFINE a == One(t \in Connected)
           b == One(t \in Connected')
           d == One(t \in Holders)
           e == One(t \in Holders')
<1>5. a \in Int /\ b \in Int /\ d \in Int /\ e \in Int
    BY DEF One
<1> HIDE DEF c, h, a, b, d, e
<1>6. fds' = c' + h'
    <2>1. fds' = fds + (b - a) + (e - d)
        BY DEF a, b, d, e
    <2>2. c' = c + b - a /\ h' = h + e - d
        BY <1>2, <1>3 DEF a, b, d, e
    <2>3. QED
        BY <1>2, <1>3, <1>4, <1>5, <2>1, <2>2
<1>7. fds' \in Nat
    BY <1>2, <1>3, <1>6
<1>8. QED
    BY <1>2, <1>3, <1>6, <1>7 DEF FdsInv, c, h

\* What each step of a thread t has to show.
LEMMA StepKeeps ==
    ASSUME ServerInv, NEW t \in Threads, Others(t), th' \in [Threads -> Thread],
           up' \in BOOLEAN, listening' = listening, mem' \in [Threads -> Seq(Text)],
           \/ cur' \in Pointer \ {NULL}
           \/ cur' = cur /\ (th[t].pc \in {"idle", "read"} => th'[t].pc \in {"idle", "read"}),
           gone' = gone, asked' \in [Threads -> Requests \cup {NoFile}],
           trouble' \in [Threads -> SUBSET {"mixed", "left", "short"}],
           PlaceInv(t)',
           fds' = fds + (One(t \in Connected') - One(t \in Connected))
                      + (One(t \in Holders') - One(t \in Holders)),
           fds' <= MaxFds
    PROVE  ServerInv'
<1>1. FdsInv' /\ fds' \in Nat
    BY DescriptorsAfter DEF ServerInv
<1>2. MaxFds \in Nat
    BY BoundsAssumption
<1>3. fds' \in 0..MaxFds
    BY <1>1, <1>2
<1>4. cur' \in Pointer
    BY DEF ServerInv, TypeOK
<1>5. TypeOK'
    <2>1. listening \in BOOLEAN /\ gone \subseteq Threads
        BY DEF ServerInv, TypeOK
    <2>2. QED
        BY <1>3, <1>4, <2>1 DEF TypeOK
<1>6. CursorInv'
    <2>1. SUFFICES ASSUME cur' = NULL, NEW s \in Threads
                   PROVE  th'[s].pc \in {"idle", "read"}
        BY DEF CursorInv
    <2>2. cur = NULL /\ th[s].pc \in {"idle", "read"} /\ th[t].pc \in {"idle", "read"}
        BY <2>1 DEF ServerInv, CursorInv
    <2>3. s # t => th'[s] = th[s]
        BY <2>1 DEF Others
    <2>4. QED
        BY <2>1, <2>2, <2>3
<1>7. \A s \in Threads : PlaceInv(s)'
    <2>1. SUFFICES ASSUME NEW s \in Threads \ {t}
                   PROVE  PlaceInv(s)'
        OBVIOUS
    <2>2. th'[s] = th[s] /\ PlaceInv(s)
        BY DEF Others, ServerInv
    <2>3. QED
        BY <2>2 DEF PlaceInv
<1>8. QED
    BY <1>1, <1>5, <1>6, <1>7 DEF ServerInv

\* Which of the two counts t is in.
LEMMA Counted ==
    ASSUME NEW t \in Threads
    PROVE  /\ t \in Connected <=> th[t].conn
           /\ t \in Connected' <=> th'[t].conn
           /\ t \in Holders <=> th[t].file # NoFile /\ (th[t].index \/ th[t].pc # "done")
           /\ t \in Holders' <=>
                th'[t].file # NoFile /\ (th'[t].index \/ th'[t].pc # "done")
    BY DEF Connected, Holders

\* A step after which t holds what it held.
LEMMA EvenStep ==
    ASSUME ServerInv, NEW t \in Threads, th'[t].conn = th[t].conn,
           th'[t].file = th[t].file, th'[t].index = th[t].index,
           th[t].pc # "done", th'[t].pc # "done", fds' = fds
    PROVE  /\ fds' = fds + (One(t \in Connected') - One(t \in Connected))
                          + (One(t \in Holders') - One(t \in Holders))
           /\ fds' <= MaxFds
<1>1. One(t \in Connected') = One(t \in Connected) /\ One(t \in Holders') = One(t \in Holders)
    BY Counted DEF One
<1>2. One(t \in Connected) \in Int /\ One(t \in Holders) \in Int
    BY DEF One
<1>3. fds \in 0..MaxFds /\ MaxFds \in Nat
    BY BoundsAssumption DEF ServerInv, TypeOK
<1>4. QED
    BY <1>1, <1>2, <1>3

LEMMA StartKeeps ==
    ASSUME ServerInv, NEW t \in Threads, Starting(t)
    PROVE  ServerInv'
<1>1. PlaceInv(t)'
    BY DEF PlaceInv, Starting, Before
<1>2. fds \in 0..MaxFds /\ MaxFds \in Nat
    BY BoundsAssumption DEF ServerInv, TypeOK
<1>3. /\ ~th[t].conn /\ th[t].file = NoFile /\ th'[t].file = NoFile
    BY DEF ServerInv, PlaceInv, Starting, Before
<1>4. /\ t \notin Connected /\ t \notin Holders /\ t \notin Holders'
      /\ t \in Connected' <=> th'[t].conn
    BY <1>3, Counted
<1>5. /\ fds' = fds + (One(t \in Connected') - One(t \in Connected))
                     + (One(t \in Holders') - One(t \in Holders))
      /\ fds' <= MaxFds
    <2>1. CASE th'[t].conn /\ fds < MaxFds /\ fds' = fds + 1
        BY <1>2, <1>4, <2>1 DEF One
    <2>2. CASE ~th'[t].conn /\ fds' = fds
        BY <1>2, <1>4, <2>2 DEF One
    <2>3. QED
        BY <2>1, <2>2 DEF Starting
<1>6. up' \in BOOLEAN /\ mem' \in [Threads -> Seq(Text)]
      /\ asked' \in [Threads -> Requests \cup {NoFile}]
    BY DEF ServerInv, TypeOK, Starting
<1>7. QED
    BY <1>1, <1>5, <1>6, StepKeeps DEF Starting

LEMMA CutKeeps ==
    ASSUME ServerInv, NEW t \in Threads, NEW pc, up, Cutting(t, pc),
           \/ th[t].pc = "read" /\ pc = "method"
           \/ th[t].pc = "method" /\ pc = "path"
           \/ th[t].pc = "path" /\ pc = "type"
           \/ th[t].pc = "type" /\ pc = "open"
    PROVE  ServerInv'
<1>1. PlaceInv(t)'
    BY DEF ServerInv, PlaceInv, Cutting, Before
<1>2. th[t].pc # "done" /\ th'[t].pc # "done"
    BY DEF Cutting
<1>3. /\ fds' = fds + (One(t \in Connected') - One(t \in Connected))
                     + (One(t \in Holders') - One(t \in Holders))
      /\ fds' <= MaxFds
    BY <1>2, EvenStep DEF Cutting
<1>4. up' \in BOOLEAN
    BY DEF ServerInv, TypeOK, Cutting
<1>5. QED
    BY <1>1, <1>3, <1>4, StepKeeps DEF Cutting

LEMMA OpenKeeps ==
    ASSUME ServerInv, NEW t \in Threads, th[t].pc = "open", Opening(t),
           mem' \in [Threads -> Seq(Text)], UNCHANGED <<listening, cur, gone, asked>>
    PROVE  ServerInv'
<1>1. /\ th[t].file = NoFile /\ ~th[t].index /\ th[t].pos = 0 /\ th[t].out = <<>>
    BY DEF ServerInv, PlaceInv, Before
<1>2. NoFile \notin Names /\ fds \in 0..MaxFds /\ MaxFds \in Nat
    BY FilesAssumption, BoundsAssumption DEF ServerInv, TypeOK
<1>3. /\ PlaceInv(t)'
      /\ fds' = fds + (One(t \in Connected') - One(t \in Connected))
                     + (One(t \in Holders') - One(t \in Holders))
      /\ fds' <= MaxFds
    <2>1. CASE /\ th'[t].pc = "header" /\ th'[t].file \in Names
               /\ th'[t].fs = Size(th'[t].file)
               /\ fds < MaxFds /\ fds' = fds + 1
        <3>1. Len(Page[th'[t].file]) \in Nat /\ Size(th'[t].file) \in Int
            BY <2>1, SizeType
        <3>2. th'[t].pos = 0 /\ th'[t].out = <<>>
            BY <1>1 DEF Opening
        <3>3. 0 \in 0..Len(Page[th'[t].file]) /\ th'[t].fs = Size(th'[t].file) - 0
            BY <2>1, <3>1
        <3>4. PlaceInv(t)'
            BY <1>2, <2>1, <3>2, <3>3 DEF PlaceInv, Before
        <3>5. One(t \in Connected') = One(t \in Connected)
            BY Counted DEF Opening, One
        <3>6. t \notin Holders /\ t \in Holders'
            BY <1>1, <1>2, <2>1, Counted
        <3>7. One(t \in Connected) \in Int
            BY DEF One
        <3>8. One(t \in Holders') = 1 /\ One(t \in Holders) = 0
            BY <3>6 DEF One
        <3>9. QED
            BY <1>2, <2>1, <3>4, <3>5, <3>7, <3>8
    <2>2. CASE /\ th'[t].pc = "error" /\ th'[t].file = th[t].file
               /\ th'[t].index = th[t].index /\ fds' = fds
        <3>1. PlaceInv(t)'
            BY <1>1, <2>2 DEF PlaceInv, Before, Opening
        <3>2. th'[t].pc # "done" /\ th'[t].conn = th[t].conn
            BY <2>2 DEF Opening
        <3>3. QED
            BY <2>2, <3>1, <3>2, EvenStep
    <2>3. QED
        BY <2>1, <2>2 DEF Opening
<1>4. asked' \in [Threads -> Requests \cup {NoFile}]
    BY DEF ServerInv, TypeOK
<1>5. QED
    BY <1>3, <1>4, StepKeeps DEF Opening

LEMMA WriteKeeps ==
    ASSUME ServerInv, NEW t \in Threads, NEW from, NEW pc, from \notin {"idle", "read", "done"},
           pc # "done", NEW pos, NEW fs, NEW data, Writing(t, from, pc, pos, fs, data),
           mem' \in [Threads -> Seq(Text)], PlaceInv(t)'
    PROVE  ServerInv'
<1>1. th[t].pc = from /\ th'[t].pc = pc /\ fds' = fds
    BY DEF Writing
<1>2. /\ fds' = fds + (One(t \in Connected') - One(t \in Connected))
                     + (One(t \in Holders') - One(t \in Holders))
      /\ fds' <= MaxFds
    BY <1>1, EvenStep DEF Writing
<1>3. /\ asked' \in [Threads -> Requests \cup {NoFile}]
      /\ trouble' \in [Threads -> SUBSET {"mixed", "left", "short"}]
    BY DEF ServerInv, TypeOK, Writing
<1>4. QED
    BY <1>1, <1>2, <1>3, StepKeeps DEF Writing

LEMMA SendKeeps ==
    ASSUME ServerInv, NEW t \in Threads,
           SendError(t) \/ SendHeader(t) \/ SendBlock(t) \/ SendRest(t)
    PROVE  ServerInv'
<1>1. TypeOK /\ PlaceInv(t) /\ mem \in [Threads -> Seq(Text)]
    BY DEF ServerInv, TypeOK
<1>2. CASE SendError(t)
    <2>1. /\ Writing(t, "error", "close", th[t].pos, th[t].fs, <<Error500>>)
          /\ mem' \in [Threads -> Seq(Text)]
        BY <1>1, <1>2, SendErrorFacts
    <2>2. PlaceInv(t)'
        BY <1>1, <2>1 DEF PlaceInv, Writing, Before
    <2>3. QED
        BY <2>1, <2>2, WriteKeeps
<1>3. CASE SendHeader(t)
    <2>1. /\ th[t].file \in Names /\ mem' = mem
          /\ Writing(t, "header", "body", th[t].pos, th[t].fs, <<Header(Size(th[t].file))>>)
        BY <1>1, <1>3, SendHeaderFacts
    <2>2. PlaceInv(t)'
        BY <1>1, <2>1 DEF PlaceInv, Writing, Before
    <2>3. QED
        BY <1>1, <2>1, <2>2, WriteKeeps
<1>4. ASSUME NEW from \in {"body", "rest"}, NEW to \in {"body", "rest", "close"},
             NEW e, Sending(t, from, to, e)
      PROVE  ServerInv'
    <2> DEFINE q == SubSeq(Page[th[t].file], th[t].pos + 1, e)
               z == Size(th[t].file)
               n == Len(Page[th[t].file])
    <2>1. /\ th[t].file \in Names /\ e \in th[t].pos..n /\ mem' = mem
          /\ Writing(t, from, to, e, z - e, q)
        BY <1>4 DEF Sending
    <2>2. th[t].pos \in 0..n /\ th[t].pc = from
        BY <1>1, <2>1 DEF PlaceInv, Writing
    <2>3. n \in Nat
        BY <2>1, SizeType
    <2>4. e \in 0..n
        BY <2>1, <2>2, <2>3
    <2>5. th'[t].file = th[t].file /\ th'[t].pos = e /\ th'[t].fs = z - e
          /\ th'[t].index = th[t].index /\ th'[t].pc = to
        BY <2>1 DEF Writing
    <2> HIDE DEF q
    <2>6. PlaceInv(t)'
        BY <1>1, <2>1, <2>4, <2>5 DEF PlaceInv, Before
    <2>7. from \notin {"idle", "read", "done"} /\ to # "done"
        OBVIOUS
    <2>8. QED
        BY <1>1, <2>1, <2>6, <2>7, WriteKeeps
<1>5. CASE SendBlock(t)
    BY <1>1, <1>4, <1>5, SendBlockFacts
<1>6. CASE SendRest(t)
    BY <1>1, <1>4, <1>6, SendRestFacts
<1>7. QED
    BY <1>2, <1>3, <1>5, <1>6

LEMMA IgnoreKeeps ==
    ASSUME ServerInv, NEW t \in Threads, Ignore(t)
    PROVE  ServerInv'
<1>1. /\ up /\ th[t].pc = "open" /\ th'[t].pc = "close"
      /\ th'[t].conn = th[t].conn /\ th'[t].file = th[t].file
      /\ th'[t].index = th[t].index /\ th'[t].out = th[t].out
      /\ th' \in [Threads -> Thread] /\ Others(t)
      /\ UNCHANGED <<up, listening, mem, cur, fds, gone, asked, trouble>>
    BY IgnoreFacts DEF ServerInv
<1>2. PlaceInv(t)'
    BY <1>1 DEF ServerInv, PlaceInv, Before
<1>3. /\ fds' = fds + (One(t \in Connected') - One(t \in Connected))
                     + (One(t \in Holders') - One(t \in Holders))
      /\ fds' <= MaxFds
    BY <1>1, EvenStep
<1>4. up' \in BOOLEAN /\ mem' \in [Threads -> Seq(Text)]
      /\ asked' \in [Threads -> Requests \cup {NoFile}]
      /\ trouble' \in [Threads -> SUBSET {"mixed", "left", "short"}]
    BY <1>1 DEF ServerInv, TypeOK
<1>5. QED
    BY <1>1, <1>2, <1>3, <1>4, StepKeeps

LEMMA CloseKeeps ==
    ASSUME ServerInv, NEW t \in Threads, Close(t)
    PROVE  ServerInv'
<1>1. /\ up /\ th[t].pc = "close" /\ th'[t].pc = "done"
      /\ ~th'[t].conn /\ th'[t].file = th[t].file
      /\ th'[t].index = th[t].index /\ th'[t].out = th[t].out
      /\ th' \in [Threads -> Thread] /\ Others(t)
      /\ fds' = fds - (Connections(t) + Files(t))
      /\ UNCHANGED <<up, listening, mem, cur, gone, asked, trouble>>
    BY CloseFacts DEF ServerInv
<1>2. PlaceInv(t)'
    BY <1>1 DEF ServerInv, PlaceInv, Before
<1>3. /\ One(t \in Connected') = 0 /\ One(t \in Connected) = Connections(t)
      /\ One(t \in Holders') = One(t \in Holders) - Files(t)
    <2>1. /\ t \in Connected <=> th[t].conn
          /\ t \notin Connected'
          /\ t \in Holders <=> th[t].file # NoFile
          /\ t \in Holders' <=> th[t].file # NoFile /\ th[t].index
        BY <1>1, Counted
    <2>2. QED
        BY <2>1 DEF One, Connections, Files
<1>4. /\ Connections(t) \in Nat /\ Files(t) \in Nat /\ One(t \in Holders) \in Nat
      /\ fds \in 0..MaxFds /\ MaxFds \in Nat
    BY BoundsAssumption DEF One, Connections, Files, ServerInv, TypeOK
<1>5. /\ fds' = fds + (One(t \in Connected') - One(t \in Connected))
                     + (One(t \in Holders') - One(t \in Holders))
      /\ fds' <= MaxFds
    BY <1>1, <1>3, <1>4
<1>6. up' \in BOOLEAN /\ mem' \in [Threads -> Seq(Text)]
      /\ asked' \in [Threads -> Requests \cup {NoFile}]
      /\ trouble' \in [Threads -> SUBSET {"mixed", "left", "short"}]
    BY <1>1 DEF ServerInv, TypeOK
<1>7. QED
    BY <1>1, <1>2, <1>5, <1>6, StepKeeps

LEMMA LeaveKeeps ==
    ASSUME ServerInv, NEW t \in Threads, Leave(t)
    PROVE  ServerInv'
<1>1. /\ gone' = gone \cup {t}
      /\ UNCHANGED <<up, listening, th, mem, cur, fds, asked>>
      /\ trouble' \in [Threads -> SUBSET {"mixed", "left", "short"}]
    BY LeaveFacts DEF ServerInv
<1>2. TypeOK'
    BY <1>1 DEF ServerInv, TypeOK
<1>3. CursorInv' /\ \A s \in Threads : PlaceInv(s)'
    BY <1>1 DEF ServerInv, CursorInv, PlaceInv
<1>4. Connected' = Connected /\ Holders' = Holders
    BY <1>1 DEF Connected, Holders
<1>5. QED
    BY <1>1, <1>2, <1>3, <1>4 DEF ServerInv, FdsInv

LEMMA NextKeeps ==
    ASSUME ServerInv, [Next]_vars
    PROVE  ServerInv'
<1>1. TypeOK /\ CursorInv /\ mem \in [Threads -> Seq(Text)]
    BY DEF ServerInv, TypeOK
<1>2. ASSUME NEW t \in Threads, Accept(t) \/ AcceptFails(t)
      PROVE  ServerInv'
    BY <1>1, <1>2, AcceptFacts, StartKeeps
<1>3. ASSUME NEW t \in Threads, Read(t) \/ CutMethod(t) \/ CutPath(t) \/ CutType(t)
      PROVE  ServerInv'
    BY <1>1, <1>3, ReadFacts, CutMethodFacts, CutPathFacts, CutTypeFacts, CutKeeps
<1>4. ASSUME NEW t \in Threads, OpenIndex(t) \/ OpenNamed(t)
      PROVE  ServerInv'
    <2>1. CASE OpenIndex(t)
        <3>1. /\ th[t].pc = "open" /\ Opening(t)
              /\ UNCHANGED <<listening, mem, cur, gone, asked>>
            BY <1>1, <2>1, OpenIndexFacts
        <3>2. QED
            BY <1>1, <3>1, OpenKeeps
    <2>2. CASE OpenNamed(t)
        BY <1>1, <2>2, OpenNamedFacts, OpenKeeps
    <2>3. QED
        BY <1>4, <2>1, <2>2
<1>5. ASSUME NEW t \in Threads, ThreadStep(t)
      PROVE  ServerInv'
    BY <1>3, <1>4, <1>5, SendKeeps, IgnoreKeeps, CloseKeeps DEF ThreadStep
<1>6. CASE Next
    BY <1>2, <1>3, <1>5, <1>6, LeaveKeeps DEF Next
<1>7. CASE UNCHANGED vars
    <2>1. Connected' = Connected /\ Holders' = Holders
        BY <1>7 DEF vars, Connected, Holders
    <2>2. QED
        BY <1>7, <2>1 DEF vars, ServerInv, TypeOK, CursorInv, PlaceInv, FdsInv
<1>8. QED
    BY <1>6, <1>7

LEMMA InitServer == Init => ServerInv
<1> SUFFICES ASSUME Init
             PROVE  ServerInv
    OBVIOUS
<1>1. \A t \in Threads : th[t] = Idle
    BY DEF Init
<1>2. TypeOK
    <2>1. <<>> \in Seq(Text) /\ NULL \in Pointer /\ MaxFds \in Nat
        BY EmptySeq, BoundsAssumption DEF Pointer
    <2>2. QED
        BY <2>1, IdleType DEF Init, TypeOK
<1>3. CursorInv /\ \A t \in Threads : PlaceInv(t)
    BY <1>1, IdleType DEF CursorInv, PlaceInv, Before
<1>4. Connected = {} /\ Holders = {}
    BY <1>1, IdleType DEF Connected, Holders
<1>5. FdsInv
    <2>1. IsFiniteSet({}) /\ Cardinality({}) = 0
        BY FS_EmptySet
    <2>2. QED
        BY <1>4, <2>1 DEF FdsInv, Init
<1>6. QED
    BY <1>2, <1>3, <1>5 DEF ServerInv

LEMMA ServerCorrect == Spec => []ServerInv
<1>1. QED
    BY InitServer, NextKeeps, PTL DEF Spec

\* Every variable has its type at every moment, and the descriptors in use are
\* never more than there are nor fewer than none, whatever the threads and the
\* clients do (serv.c:82-176).
THEOREM TypeCorrect == Spec => []TypeOK
<1>1. ServerInv => TypeOK
    BY DEF ServerInv
<1>2. QED
    BY <1>1, ServerCorrect, PTL

\* However many threads have served however many requests: once they have all
\* ended, what is still in use is one descriptor for each time that the index
\* was sent (serv.c:113-119, 175, 88).
THEOREM OnlyIndexLost == Spec => []OnlyIndexLeaks
<1>1. ServerInv => OnlyIndexLeaks
    <2>1. SUFFICES ASSUME ServerInv, \A t \in Threads : th[t].pc \in {"idle", "done"}
                   PROVE  fds = Cardinality({t \in Threads : th[t].index})
        BY DEF OnlyIndexLeaks
    <2>2. \A t \in Threads :
            /\ ~th[t].conn
            /\ th[t].file # NoFile /\ (th[t].index \/ th[t].pc # "done") <=> th[t].index
        BY <2>1 DEF ServerInv, PlaceInv, Before
    <2>3. Connected = {} /\ Holders = {t \in Threads : th[t].index}
        BY <2>2 DEF Connected, Holders
    <2>4. Cardinality({}) = 0 /\ Cardinality(Holders) \in Nat
        BY <2>1, FS_EmptySet, FS_CardinalityType DEF ServerInv, FdsInv
    <2>5. QED
        BY <2>1, <2>3, <2>4 DEF ServerInv, FdsInv
<1>2. QED
    BY <1>1, ServerCorrect, PTL

-----------------------------------------------------------------------------
(* Replies.                                                                *)

\* The header and the first n bytes of file w.
SentPart(w, n) == <<Header(Size(w))>> \o SubSeq(Page[w], 1, n)

\* What a client may have in the end.
Replies == {<<>>, <<Error500>>} \cup {Whole(w) : w \in Names}

\* A client that stays has received the header and the file up to pos, or
\* nothing if there is no connection, and in the end a whole reply.
ReplyInv(t) ==
    /\ t \in gone => "left" \in trouble[t]
    /\ th[t].pc \in {"body", "rest"} /\ t \notin gone =>
         th[t].out = IF th[t].conn THEN SentPart(th[t].file, th[t].pos) ELSE <<>>
    /\ th[t].pc \in {"close", "done"} /\ t \notin gone => th[t].out \in Replies

\* The next piece joins what was sent.
LEMMA NextPiece ==
    ASSUME NEW w \in Names, NEW k \in 0..Len(Page[w]), NEW e \in k..Len(Page[w])
    PROVE  SentPart(w, k) \o SubSeq(Page[w], k + 1, e) = SentPart(w, e)
<1> DEFINE q == Page[w]
           h == <<Header(Size(w))>>
           a == SubSeq(q, 1, k)
           b == SubSeq(q, k + 1, e)
<1>1. q \in Seq(Parts) /\ h \in Seq(Parts) /\ Len(q) \in Nat
    BY PartsTypes, LenProperties
<1>2. \A i \in 1..Len(q) : q[i] \in Parts
    BY <1>1, ElementOfSeq
<1> HIDE DEF q, h
<1>3. k \in 0..Len(q) /\ e \in k..Len(q)
    BY DEF q
<1>4. a \in Seq(Parts) /\ b \in Seq(Parts)
    <2>1. (\A i \in 1..k : q[i] \in Parts) /\ \A i \in k + 1..e : q[i] \in Parts
        BY <1>1, <1>2, <1>3
    <2>2. k \in Int /\ k + 1 \in Int /\ e \in Int
        BY <1>1, <1>3
    <2>3. QED
        BY <2>1, <2>2, SubSeqProperties
<1>5. a \o b = SubSeq(q, 1, e)
    <2>1. 1 \in 1..Len(q) + 1 /\ k \in 1 - 1..Len(q)
        BY <1>1, <1>3
    <2>2. QED
        BY <1>1, <1>3, <2>1, ConcatAdjacentSubSeq
<1> HIDE DEF a, b
<1>6. (h \o a) \o b = h \o (a \o b)
    BY <1>1, <1>4, ConcatAssociative
<1>7. QED
    BY <1>5, <1>6 DEF SentPart, q, h, a, b

\* The first piece is the header alone, the last makes the whole.
LEMMA EndPieces ==
    ASSUME NEW w \in Names
    PROVE  /\ SentPart(w, 0) = <<Header(Size(w))>>
           /\ SentPart(w, Len(Page[w])) = Whole(w)
<1> DEFINE q == Page[w]
           h == <<Header(Size(w))>>
<1>1. q \in Seq(Parts) /\ h \in Seq(Parts)
    BY PartsTypes
<1>2. SubSeq(q, 1, 0) = <<>>
    BY SubSeqEmpty
<1> HIDE DEF q, h
<1>3. SubSeq(q, 1, Len(q)) = q /\ h \o <<>> = h
    BY <1>1, SubSeqFull, ConcatEmptySeq
<1>4. QED
    BY <1>2, <1>3 DEF SentPart, Whole, q, h

LEMMA RepliesAre ==
    /\ <<>> \in Replies /\ <<Error500>> \in Replies
    /\ \A w \in Names : Whole(w) \in Replies
    BY Zenon DEF Replies

\* A step that is not about the reply of s.
LEMMA AwayFromReply ==
    ASSUME NEW s \in Threads, ReplyInv(s), th'[s] = th[s], gone' = gone,
           trouble[s] \subseteq trouble'[s]
    PROVE  ReplyInv(s)'
    BY DEF ReplyInv

LEMMA BeforeReply ==
    ASSUME NEW t \in Threads, ReplyInv(t), gone' = gone,
           trouble[t] \subseteq trouble'[t],
           th'[t].pc \notin {"body", "rest", "close", "done"}
    PROVE  ReplyInv(t)'
    BY DEF ReplyInv

LEMMA ErrorReplies ==
    ASSUME ServerInv, NEW t \in Threads, ReplyInv(t), SendError(t)
    PROVE  ReplyInv(t)'
<1>1. Writing(t, "error", "close", th[t].pos, th[t].fs, <<Error500>>)
    BY SendErrorFacts DEF ServerInv
<1>2. th[t].out = <<>>
    BY <1>1 DEF ServerInv, PlaceInv, Before, Writing
<1>3. <<>> \o <<Error500>> = <<Error500>>
    BY PartsTypes, ConcatEmptySeq
<1>4. th'[t].out \in {<<>>, <<Error500>>}
    BY <1>1, <1>2, <1>3 DEF Writing
<1>5. th'[t].out \in Replies
    BY <1>4, RepliesAre
<1>6. QED
    BY <1>1, <1>5 DEF ReplyInv, Writing

LEMMA HeaderReplies ==
    ASSUME ServerInv, NEW t \in Threads, ReplyInv(t), SendHeader(t)
    PROVE  ReplyInv(t)'
<1> DEFINE h == <<Header(Size(th[t].file))>>
<1>1. th[t].file \in Names /\ Writing(t, "header", "body", th[t].pos, th[t].fs, h)
    BY SendHeaderFacts DEF ServerInv
<1>2. th[t].out = <<>> /\ th[t].pos = 0
    BY <1>1 DEF ServerInv, PlaceInv, Writing
<1>3. <<>> \o h = h /\ SentPart(th[t].file, 0) = h
    BY <1>1, PartsTypes, ConcatEmptySeq, EndPieces
<1> HIDE DEF h
<1>4. /\ th'[t].pos = 0 /\ th'[t].file = th[t].file /\ th'[t].conn = th[t].conn
      /\ th'[t].pc = "body" /\ gone' = gone /\ trouble' = trouble
      /\ th'[t].out = IF th[t].conn /\ t \notin gone THEN h ELSE <<>>
    BY <1>1, <1>2, <1>3 DEF Writing
<1>5. QED
    BY <1>3, <1>4 DEF ReplyInv

LEMMA PieceReplies ==
    ASSUME ServerInv, NEW t \in Threads, ReplyInv(t), NEW from \in {"body", "rest"},
           NEW to \in {"body", "rest", "close"}, NEW e, Sending(t, from, to, e),
           to = "close" => e = Len(Page[th[t].file])
    PROVE  ReplyInv(t)'
<1> DEFINE w == th[t].file
           k == th[t].pos
           q == SubSeq(Page[w], k + 1, e)
<1>1. /\ w \in Names /\ e \in k..Len(Page[w])
      /\ Writing(t, from, to, e, Size(w) - e, q)
    BY DEF Sending
<1>2. k \in 0..Len(Page[w]) /\ th[t].pc = from
    BY <1>1 DEF ServerInv, PlaceInv, Writing
<1>3. SentPart(w, k) \o q = SentPart(w, e)
    BY <1>1, <1>2, NextPiece
<1>4. /\ th'[t].pos = e /\ th'[t].file = w /\ th'[t].conn = th[t].conn
      /\ th'[t].pc = to /\ gone' = gone /\ trouble' = trouble
      /\ th'[t].out = IF th[t].conn /\ t \notin gone THEN th[t].out \o q ELSE th[t].out
    BY <1>1 DEF Writing
<1> HIDE DEF q
<1>5. t \notin gone => th'[t].out = IF th[t].conn THEN SentPart(w, e) ELSE <<>>
    BY <1>2, <1>3, <1>4 DEF ReplyInv
<1>6. to = "close" /\ t \notin gone => th'[t].out \in Replies
    BY <1>1, <1>5, RepliesAre, EndPieces
<1>7. QED
    BY <1>4, <1>5, <1>6 DEF ReplyInv

LEMMA LastReplies ==
    ASSUME ServerInv, NEW t \in Threads, ReplyInv(t), Ignore(t) \/ Close(t)
    PROVE  ReplyInv(t)'
<1>1. TypeOK
    BY DEF ServerInv
<1>2. CASE Ignore(t)
    <2>1. /\ th[t].pc = "open" /\ th'[t].pc = "close" /\ th'[t].out = th[t].out
          /\ gone' = gone /\ trouble' = trouble
        BY <1>1, <1>2, IgnoreFacts
    <2>2. th[t].out = <<>>
        BY <2>1 DEF ServerInv, PlaceInv, Before
    <2>3. QED
        BY <2>1, <2>2, RepliesAre DEF ReplyInv
<1>3. CASE Close(t)
    <2>1. /\ th[t].pc = "close" /\ th'[t].pc = "done" /\ th'[t].out = th[t].out
          /\ gone' = gone /\ trouble' = trouble
        BY <1>1, <1>3, CloseFacts
    <2>2. QED
        BY <2>1 DEF ReplyInv
<1>4. QED
    BY <1>2, <1>3

\* Whatever a thread does, and whoever else is served.
LEMMA StepReplies ==
    ASSUME ServerInv, \A s \in Threads : ReplyInv(s), NEW t \in Threads,
           \/ Accept(t) \/ AcceptFails(t) \/ Read(t) \/ ThreadStep(t)
    PROVE  /\ ReplyInv(t)' /\ Others(t) /\ gone' = gone
           /\ \A s \in Threads : trouble[s] \subseteq trouble'[s]
<1>1. TypeOK /\ CursorInv /\ PlaceInv(t) /\ ReplyInv(t)
    BY DEF ServerInv
<1>2. CASE Accept(t) \/ AcceptFails(t)
    <2>1. Starting(t)
        BY <1>1, <1>2, AcceptFacts
    <2>2. QED
        BY <1>1, <2>1, BeforeReply DEF Starting
<1>3. CASE Read(t) \/ CutMethod(t) \/ CutPath(t) \/ CutType(t)
    <2>1. \E pc \in {"method", "path", "type", "open"} : Cutting(t, pc)
        BY <1>1, <1>3, ReadFacts, CutMethodFacts, CutPathFacts, CutTypeFacts
    <2>2. QED
        BY <1>1, <2>1, BeforeReply DEF Cutting
<1>4. CASE OpenIndex(t) \/ OpenNamed(t)
    <2>1. Opening(t) /\ gone' = gone
        BY <1>1, <1>4, OpenIndexFacts, OpenNamedFacts
    <2>2. QED
        BY <1>1, <2>1, BeforeReply DEF Opening
<1>5. CASE SendError(t)
    BY <1>1, <1>5, ErrorReplies, SendErrorFacts DEF Writing
<1>6. CASE SendHeader(t)
    BY <1>1, <1>6, HeaderReplies, SendHeaderFacts DEF Writing
<1>7. CASE SendBlock(t)
    <2>1. PICK e, to : to \in {"body", "rest"} /\ Sending(t, "body", to, e)
        BY <1>1, <1>7, SendBlockFacts
    <2>2. ReplyInv(t)'
        BY <1>1, <2>1, PieceReplies
    <2>3. QED
        BY <2>1, <2>2 DEF Sending, Writing
<1>8. CASE SendRest(t)
    <2>1. Sending(t, "rest", "close", Len(Page[th[t].file]))
        BY <1>1, <1>8, SendRestFacts
    <2>2. ReplyInv(t)'
        BY <1>1, <2>1, PieceReplies
    <2>3. QED
        BY <2>1, <2>2 DEF Sending, Writing
<1>9. CASE Ignore(t)
    BY <1>1, <1>9, LastReplies, IgnoreFacts
<1>10. CASE Close(t)
    BY <1>1, <1>10, LastReplies, CloseFacts
<1>11. QED
    BY <1>2, <1>3, <1>4, <1>5, <1>6, <1>7, <1>8, <1>9, <1>10 DEF ThreadStep

LEMMA RepliesCorrect == Spec => [](\A t \in Threads : ReplyInv(t))
<1> DEFINE I == \A t \in Threads : ReplyInv(t)
<1>1. Init => I
    BY IdleType DEF Init, ReplyInv
<1>2. ASSUME ServerInv, I, [Next]_vars
      PROVE  I'
    <2>1. ASSUME NEW t \in Threads,
                 \/ Accept(t) \/ AcceptFails(t) \/ Read(t) \/ ThreadStep(t)
          PROVE  I'
        <3>1. /\ ReplyInv(t)' /\ Others(t) /\ gone' = gone
              /\ \A s \in Threads : trouble[s] \subseteq trouble'[s]
            BY <1>2, <2>1, StepReplies
        <3>2. ASSUME NEW s \in Threads \ {t}
              PROVE  ReplyInv(s)'
            BY <1>2, <3>1, AwayFromReply DEF Others
        <3>3. QED
            BY <3>1, <3>2
    <2>2. ASSUME NEW t \in Threads, Leave(t)
          PROVE  I'
        BY <1>2, <2>2, LeaveFacts DEF ReplyInv, ServerInv
    <2>3. CASE UNCHANGED vars
        BY <1>2, <2>3 DEF vars, ReplyInv
    <2>4. QED
        BY <1>2, <2>1, <2>2, <2>3 DEF Next
<1>3. QED
    BY <1>1, <1>2, ServerCorrect, PTL DEF Spec

\* Whatever the other threads do to the cursor, the descriptors and the buffers,
\* a client that stays to the end receives nothing, the error, or one whole file
\* with its length (write_packet, serv.c:46-78).
THEOREM RepliesInFull == Spec => []InFull
<1>1. ServerInv /\ (\A t \in Threads : ReplyInv(t)) => InFull
    <2>1. SUFFICES ASSUME NEW t \in Threads, ReplyInv(t), th[t].pc = "done",
                          "left" \notin trouble[t]
                   PROVE  th[t].out \in Replies
        BY Zenon DEF InFull, Replies
    <2>2. QED
        BY <2>1 DEF ReplyInv
<1>2. QED
    BY <1>1, ServerCorrect, RepliesCorrect, PTL

-----------------------------------------------------------------------------
(* Whose reply.  A thread that nobody interrupted is where the reference   *)
(* is, with the same bytes in its buffer as the reference has in buffer 0. *)

\* The separators, by name.
LineEnd == {"\n"}
Blank   == {" "}

\* The line that was cut into pieces in the buffer of t.
Given(t) == IF asked[t] = NoFile THEN Leftovers ELSE {Line[asked[t]]}

\* The cursor is in t's buffer, where it is after the reference's call k.
Follows(t, k) ==
    /\ mem[t] = k.mem[0]
    /\ cur # NULL /\ SamePlace(cur, t, k.cur, 0)

\* The path of s is in the buffer of t.
Uses(s, t) ==
    /\ th[s].pc \in {"type", "open"}
    /\ th[s].path # NULL /\ th[s].path[1] = t

\* Something outside t points to the buffer of t.
Points(t) == (cur # NULL /\ cur[1] = t) \/ \E s \in Threads \ {t} : Uses(s, t)

\* The cursor and the paths of others are behind place e of the buffer of t.
Behind(t, e) ==
    /\ cur # NULL /\ cur[1] = t => e <= cur[2]
    /\ \A s \in Threads \ {t} : Uses(s, t) => e < th[s].path[2]

InMethod(t, q) == Follows(t, LineCut(q)) /\ SamePlace(th[t].get, t, LineCut(q).tok, 0)
InPath(t, q)   == Follows(t, MethodCut(q))
InType(t, q)   == Follows(t, PathCut(q)) /\ SamePlace(th[t].path, t, PathCut(q).tok, 0)

\* The word from i to e is the one that the reference found with call l.
WordAt(t, l, i, e) ==
    /\ i \in Nat \ {0} /\ e = FirstIn(mem[t], i, {NUL}) /\ ByteAt(mem[t], i) # NUL
    /\ l.tok = <<0, i>>
    /\ StringAt(mem, <<t, i>>) = StringAt(l.mem, <<0, i>>)
    /\ Behind(t, e)

HasPath(t, q) == \E i, e : th[t].path = <<t, i>> /\ WordAt(t, PathCut(q), i, e)
HasType(t, q) == \E i, e : th[t].type = <<t, i>> /\ WordAt(t, TypeCut(q), i, e)

InOpen(t, q) ==
    /\ (th[t].path = NULL /\ PathCut(q).tok = NULL) \/ HasPath(t, q)
    /\ (th[t].type = NULL /\ TypeCut(q).tok = NULL) \/ HasType(t, q)

\* The stages of a thread that nobody interrupted.
Undisturbed(t) ==
    /\ th[t].pc \in {"method", "path", "type"} => \A s \in Threads \ {t} : ~Uses(s, t)
    /\ th[t].pc = "method" => \E q \in Given(t) : InMethod(t, q)
    /\ th[t].pc = "path"   => \E q \in Given(t) : InPath(t, q)
    /\ th[t].pc = "type"   => \E q \in Given(t) : InType(t, q)
    /\ th[t].pc = "open"   => \E q \in Given(t) : InOpen(t, q)

OwnInv(t) ==
    /\ th[t].pc = "method" => th[t].get = NULL \/ th[t].get[1] = t
    /\ th[t].pc \in {"idle", "read"} => ~Points(t) /\ asked[t] = NoFile
    /\ "mixed" \notin trouble[t] => Undisturbed(t)

-----------------------------------------------------------------------------
(* The reference.                                                          *)

\* What a call returns in the memory of the reference.
RefType(k) ==
    /\ k.mem \in [{0} -> Seq(Text)]
    /\ k.cur \in {0} \X (Nat \ {0})
    /\ k.tok \in {NULL} \cup ({0} \X (Nat \ {0}))

\* The place where a call starts.
From(k) == IF k.tok = NULL THEN k.cur ELSE k.tok

LEMMA RefCuts ==
    ASSUME NEW q
    PROVE  /\ LineCut(q) = Cut([b \in {0} |-> q], <<0, 1>>, LineEnd)
           /\ MethodCut(q) = Cut(LineCut(q).mem, From(LineCut(q)), Blank)
           /\ PathCut(q) = Cut(MethodCut(q).mem, MethodCut(q).cur, Blank)
           /\ TypeCut(q) = Cut(PathCut(q).mem, PathCut(q).cur, Blank)
    BY Zenon DEF LineCut, MethodCut, PathCut, TypeCut, LineEnd, Blank, From

LEMMA NoNul == NUL \notin LineEnd /\ NUL \notin Blank /\ NUL \in Text
    BY Zenon, Separators DEF LineEnd, Blank

LEMMA PairsAreNotNull == \A a, b : <<a, b>> # NULL
<1>1. \A a, b : Len(<<a, b>>) = 2 /\ Len(<<>>) = 0
    OBVIOUS
<1>2. QED
    BY <1>1 DEF NULL

LEMMA RefStep ==
    ASSUME NEW m \in [{0} -> Seq(Text)], NEW p \in {0} \X (Nat \ {0}), NEW D, NUL \notin D
    PROVE  RefType(Cut(m, p, D))
<1>1. /\ Cut(m, p, D).tok \in {NULL} \cup ({0} \X (Nat \ {0}))
      /\ Cut(m, p, D).cur \in {0} \X (Nat \ {0})
      /\ Cut(m, p, D).mem \in [{0} -> Seq(Text)]
    BY CutProperties, NoNul
<1>2. QED
    BY <1>1, Zenon DEF RefType

LEMMA RefTypes ==
    ASSUME NEW q \in Seq(Text)
    PROVE  /\ RefType(LineCut(q)) /\ RefType(MethodCut(q))
           /\ RefType(PathCut(q)) /\ RefType(TypeCut(q))
<1>1. PICK m \in [{0} -> Seq(Text)] : m = [b \in {0} |-> q]
    OBVIOUS
<1>2. RefType(LineCut(q))
    <2>1. <<0, 1>> \in {0} \X (Nat \ {0}) /\ NUL \notin LineEnd
        BY NoNul
    <2>2. RefType(Cut(m, <<0, 1>>, LineEnd))
        BY <2>1, RefStep
    <2>3. QED
        BY <1>1, <2>2, RefCuts, Zenon
<1>3. ASSUME NEW k, RefType(k)
      PROVE  RefType(Cut(k.mem, k.cur, Blank)) /\ RefType(Cut(k.mem, From(k), Blank))
    <2>1. k.mem \in [{0} -> Seq(Text)] /\ k.cur \in {0} \X (Nat \ {0})
          /\ From(k) \in {0} \X (Nat \ {0})
        BY <1>3 DEF RefType, From
    <2>2. QED
        BY <2>1, RefStep, NoNul
<1>4. RefType(MethodCut(q))
    BY <1>2, <1>3, RefCuts, Zenon
<1>5. RefType(PathCut(q))
    BY <1>3, <1>4, RefCuts, Zenon
<1>6. QED
    BY <1>2, <1>3, <1>4, <1>5, RefCuts, Zenon

-----------------------------------------------------------------------------
(* What the calls of strtok do, call by call.                              *)

\* t made the call k, which every thread that is cutting notices.
Shared(t, k) ==
    /\ mem' = k.mem /\ cur' = k.cur
    /\ Others(t)
    /\ \A s \in Threads \ {t} : asked'[s] = asked[s]
    /\ \A s \in Threads \ {t} : th[s].pc \in {"method", "path", "type"} => "mixed" \in trouble'[s]
    /\ \A s \in Threads : trouble[s] \subseteq trouble'[s]
    /\ trouble'[t] = trouble[t]

LEMMA SharedBy ==
    ASSUME TypeOK, NEW t \in Threads, NEW k, Shares(t, k), Others(t),
           \A s \in Threads \ {t} : asked'[s] = asked[s]
    PROVE  Shared(t, k)
<1>1. trouble \in [Threads -> SUBSET {"mixed", "left", "short"}]
    BY DEF TypeOK
<1>2. PICK S : /\ S = {r \in Threads \ {t} : th[r].pc \in {"method", "path", "type"}}
               /\ trouble' = Befalls(S, "mixed") /\ mem' = k.mem /\ cur' = k.cur
    BY DEF Shares
<1>3. /\ \A s \in Threads : trouble[s] \subseteq trouble'[s]
      /\ \A s \in Threads \cap S : "mixed" \in trouble'[s]
    BY <1>2, BefallsType
<1>4. trouble'[t] = trouble[t]
    BY <1>1, <1>2 DEF Befalls
<1>5. QED
    BY <1>2, <1>3, <1>4 DEF Shared

\* Line q is read into the buffer of t, and cut at its end.
ReadBy(t, q, k) ==
    /\ th[t].pc = "read" /\ th'[t].pc = "method" /\ th'[t].get = k.tok
    /\ k = Cut([mem EXCEPT ![t] = q], <<t, 1>>, LineEnd)
    /\ q \in Seq(Text)
    /\ asked[t] = NoFile => IF asked'[t] = NoFile THEN q \in Leftovers
                                                  ELSE q = Line[asked'[t]]
    /\ Shared(t, k)

LEMMA ReadDoes ==
    ASSUME TypeOK, CursorInv, NEW t \in Threads, Read(t)
    PROVE  \E q, k : ReadBy(t, q, k)
<1>1. Others(t) /\ th[t].pc = "read"
    BY ReadFacts DEF Cutting
<1>2. th \in [Threads -> Thread] /\ th[t] \in Thread
      /\ asked \in [Threads -> Requests \cup {NoFile}]
    BY DEF TypeOK
<1>3. PICK full, r, l, k :
        /\ full \in BOOLEAN /\ r \in Requests /\ l \in Leftovers
        /\ k = Token([mem EXCEPT ![t] = IF full THEN Line[r] ELSE l], <<t, 1>>, LineEnd)
        /\ Become(t, [th[t] EXCEPT !.pc = "method", !.get = k.tok])
        /\ Shares(t, k)
        /\ asked' = IF full THEN [asked EXCEPT ![t] = r] ELSE asked
    BY Zenon DEF Read, LineEnd
<1>4. PICK q : q = (IF full THEN Line[r] ELSE l)
    OBVIOUS
<1>5. k = Cut([mem EXCEPT ![t] = q], <<t, 1>>, LineEnd)
    BY <1>3, <1>4, PairsAreNotNull, Zenon DEF Token
<1>6. q \in Seq(Text)
    BY <1>3, <1>4, LinesAreText, LeftoversAreText
<1>7. asked[t] = NoFile => IF asked'[t] = NoFile THEN q \in Leftovers
                                                 ELSE q = Line[asked'[t]]
    <2>1. CASE full
        <3>1. asked'[t] = r /\ r # NoFile /\ q = Line[r]
            BY <1>2, <1>3, <1>4, <2>1, RequestsAssumption
        <3>2. QED
            BY <3>1
    <2>2. CASE ~full
        BY <1>3, <1>4, <2>2
    <2>3. QED
        BY <2>1, <2>2
<1>8. th'[t] = [th[t] EXCEPT !.pc = "method", !.get = k.tok]
    BY <1>2, <1>3 DEF Become
<1>9. th'[t].pc = "method" /\ th'[t].get = k.tok
    BY <1>2, <1>8 DEF Thread
<1>10. \A s \in Threads \ {t} : asked'[s] = asked[s]
    BY <1>2, <1>3
<1>11. Shared(t, k)
    BY <1>1, <1>3, <1>10, SharedBy
<1>12. ReadBy(t, q, k)
    BY <1>1, <1>5, <1>6, <1>7, <1>9, <1>11 DEF ReadBy
<1>13. QED
    BY <1>12

\* t called strtok with p, and went on with the locals r.
CutBy(t, from, p, k, r) ==
    /\ th[t].pc = from /\ th'[t] = r
    /\ k = Token(mem, p, Blank)
    /\ Shared(t, k) /\ asked'[t] = asked[t]

LEMMA CutsDoes ==
    ASSUME TypeOK, NEW t \in Threads, NEW from, NEW p, NEW k, k = Token(mem, p, Blank),
           NEW r, Cuts(t, from, k, r)
    PROVE  CutBy(t, from, p, k, r)
<1>1. /\ th[t].pc = from /\ Shares(t, k) /\ asked' = asked
      /\ th' = [th EXCEPT ![t] = r] /\ th \in [Threads -> Thread]
    BY DEF Cuts, At, Become, TypeOK
<1>2. th'[t] = r /\ Others(t)
    BY <1>1 DEF Others
<1>3. Shared(t, k)
    BY <1>1, <1>2, SharedBy
<1>4. QED
    BY <1>1, <1>2, <1>3 DEF CutBy

LEMMA CutsDo ==
    ASSUME TypeOK, NEW t \in Threads
    PROVE  /\ CutMethod(t) => \E k :
                CutBy(t, "method", th[t].get, k, [th[t] EXCEPT !.pc = "path"])
           /\ CutPath(t) => \E k :
                CutBy(t, "path", NULL, k, [th[t] EXCEPT !.pc = "type", !.path = k.tok])
           /\ CutType(t) => \E k :
                CutBy(t, "type", NULL, k, [th[t] EXCEPT !.pc = "open", !.type = k.tok])
<1>1. ASSUME CutMethod(t)
      PROVE  \E k : CutBy(t, "method", th[t].get, k, [th[t] EXCEPT !.pc = "path"])
    <2>1. PICK k : /\ k = Token(mem, th[t].get, Blank)
                   /\ Cuts(t, "method", k, [th[t] EXCEPT !.pc = "path"])
        BY <1>1, Zenon DEF CutMethod, Blank
    <2>2. QED
        BY <2>1, CutsDoes, Zenon
<1>2. ASSUME CutPath(t)
      PROVE  \E k :
                CutBy(t, "path", NULL, k, [th[t] EXCEPT !.pc = "type", !.path = k.tok])
    <2>1. PICK k : /\ k = Token(mem, NULL, Blank)
                   /\ Cuts(t, "path", k, [th[t] EXCEPT !.pc = "type", !.path = k.tok])
        BY <1>2, Zenon DEF CutPath, Blank
    <2>2. QED
        BY <2>1, CutsDoes, Zenon
<1>3. ASSUME CutType(t)
      PROVE  \E k :
                CutBy(t, "type", NULL, k, [th[t] EXCEPT !.pc = "open", !.type = k.tok])
    <2>1. PICK k : /\ k = Token(mem, NULL, Blank)
                   /\ Cuts(t, "type", k, [th[t] EXCEPT !.pc = "open", !.type = k.tok])
        BY <1>3, Zenon DEF CutType, Blank
    <2>2. QED
        BY <2>1, CutsDoes, Zenon
<1>4. QED
    BY <1>1, <1>2, <1>3, Zenon

-----------------------------------------------------------------------------
(* What a step of t leaves of the others.                                  *)

LEMMA StringsAre ==
    ASSUME NEW m, NEW b, NEW i
    PROVE  StringAt(m, <<b, i>>) = SubSeq(m[b], i, FirstIn(m[b], i, {NUL}) - 1)
<1>1. <<b, i>>[1] = b /\ <<b, i>>[2] = i
    OBVIOUS
<1>2. \A p : p[1] = b /\ p[2] = i =>
        StringAt(m, p) = SubSeq(m[b], i, FirstIn(m[b], i, {NUL}) - 1)
    BY Zenon DEF StringAt
<1>3. QED
    BY <1>1, <1>2

\* A word that is kept is still there.
LEMMA WordKept ==
    ASSUME NEW s \in Threads, NEW l, NEW i, NEW e, WordAt(s, l, i, e),
           mem[s] \in Seq(Text), mem'[s] \in Seq(Text),
           Kept(mem[s], mem'[s], i), Behind(s, e)'
    PROVE  WordAt(s, l, i, e)'
<1>1. /\ i \in Nat \ {0} /\ e = FirstIn(mem[s], i, {NUL}) /\ ByteAt(mem[s], i) # NUL
      /\ l.tok = <<0, i>>
      /\ StringAt(mem, <<s, i>>) = StringAt(l.mem, <<0, i>>)
    BY DEF WordAt
<1>2. e = FirstIn(mem'[s], i, {NUL})
    BY <1>1 DEF Kept
<1>3. ByteAt(mem[s], e) = NUL
    <2>1. NUL \in {NUL} /\ i \in Nat \ {0}
        BY <1>1
    <2>2. ByteAt(mem[s], FirstIn(mem[s], i, {NUL})) \in {NUL}
        BY <2>1, SearchEnds
    <2>3. QED
        BY <1>1, <2>2
<1>4. ByteAt(mem'[s], i) # NUL
    <2>1. e # i
        BY <1>1, <1>3
    <2>2. ByteAt(mem'[s], i) \in {NUL} => FirstIn(mem'[s], i, {NUL}) = i
        BY <1>1, FirstPlaces
    <2>3. QED
        BY <1>2, <2>1, <2>2
<1>5. StringAt(mem', <<s, i>>) = StringAt(mem, <<s, i>>)
    BY StringsAre, Zenon DEF Kept
<1>6. QED
    BY <1>1, <1>2, <1>4, <1>5 DEF WordAt

\* A thread that is about to open its file is where it was, if its words are.
LEMMA OpenStays ==
    ASSUME NEW s, NEW q, InOpen(s, q), th'[s] = th[s],
           \A l, i, e : WordAt(s, l, i, e) => WordAt(s, l, i, e)'
    PROVE  InOpen(s, q)'
<1>1. HasPath(s, q) => HasPath(s, q)'
    BY Zenon DEF HasPath
<1>2. HasType(s, q) => HasType(s, q)'
    BY Zenon DEF HasType
<1>3. QED
    BY <1>1, <1>2, Zenon DEF InOpen

\* The path of t is its own from before, or the token of the call k.
PathOf(t, k) ==
    th'[t].pc \in {"type", "open"} =>
        \/ th'[t].path = k.tok
        \/ th'[t].path = th[t].path /\ th[t].pc \in {"type", "open"}

\* Where a call k in buffer b points to.
Places(k, b, x, y) ==
    /\ x \in Nat \ {0} /\ y \in Nat \ {0}
    /\ k.tok = NULL \/ k.tok = <<b, x>>
    /\ k.cur = <<b, y>>

LEMMA CutPlaces ==
    ASSUME NEW m \in [Threads -> Seq(Text)], NEW b \in Threads, NEW c \in Nat \ {0},
           NEW D, NUL \notin D, NEW k, k = Cut(m, <<b, c>>, D)
    PROVE  \E x, y : Places(k, b, x, y)
<1>1. \E i, j : Marks(k, m[b], k.mem[b], b, c, i, j)
    <2>1. b \in DOMAIN m /\ m[b] \in Seq(Text)
        OBVIOUS
    <2>2. QED
        BY <2>1, NoNul, CutMarks
<1>2. PICK i, j : Marks(k, m[b], k.mem[b], b, c, i, j)
    BY <1>1
<1>3. CASE k.tok = NULL /\ k.cur = <<b, i>>
    <2>1. Places(k, b, i, i)
        BY <1>2, <1>3 DEF Marks, Places
    <2>2. QED
        BY <2>1
<1>4. CASE ~(k.tok = NULL /\ k.cur = <<b, i>>)
    <2>1. /\ i \in Nat \ {0} /\ j \in Nat \ {0} /\ k.tok = <<b, i>>
          /\ k.cur = <<b, j>> \/ k.cur = <<b, j + 1>>
        BY <1>2, <1>4, Zenon DEF Marks
    <2>2. j + 1 \in Nat \ {0}
        BY <2>1
    <2>3. Places(k, b, i, j) \/ Places(k, b, i, j + 1)
        BY <2>1, <2>2, Zenon DEF Places
    <2>4. QED
        BY <2>3
<1>5. QED
    BY <1>3, <1>4

\* Another thread that nobody has interrupted keeps its words through a call in
\* buffer b.
LEMMA WordAway ==
    ASSUME TypeOK, NEW t \in Threads, NEW s \in Threads \ {t}, NEW l, NEW i, NEW e,
           WordAt(s, l, i, e),
           NEW m \in [Threads -> Seq(Text)], m[s] = mem[s],
           NEW b \in Threads, NEW c \in Nat \ {0}, b = t \/ cur = <<b, c>>,
           NEW D, NUL \notin D, NEW k, k = Cut(m, <<b, c>>, D), Shared(t, k), PathOf(t, k)
    PROVE  WordAt(s, l, i, e)'
<1>0. PICK x, y : Places(k, b, x, y)
    BY CutPlaces
<1>1. /\ x \in Nat \ {0} /\ y \in Nat \ {0} /\ k.cur = <<b, y>>
      /\ k.tok = NULL \/ (k.tok[1] = b /\ k.tok[2] = x)
    <2>1. /\ x \in Nat \ {0} /\ y \in Nat \ {0} /\ k.cur = <<b, y>>
          /\ k.tok = NULL \/ k.tok = <<b, x>>
        BY <1>0, Zenon DEF Places
    <2>2. <<b, x>>[1] = b /\ <<b, x>>[2] = x
        OBVIOUS
    <2>3. QED
        BY <2>1, <2>2, Zenon
<1>2. /\ mem' = k.mem /\ cur' = <<b, y>> /\ Others(t) /\ cur'[1] = b /\ cur'[2] = y
    <2>1. mem' = k.mem /\ cur' = <<b, y>> /\ Others(t)
        BY <1>1, Zenon DEF Shared
    <2>2. <<b, y>>[1] = b /\ <<b, y>>[2] = y
        OBVIOUS
    <2>3. QED
        BY <2>1, <2>2, Zenon
<1>3. /\ e = FirstIn(mem[s], i, {NUL}) /\ i \in Nat \ {0}
      /\ Behind(s, e)
    BY DEF WordAt
<1>4. e \in Nat \ {0} /\ ByteAt(mem[s], e) = NUL
    <2>1. NUL \in {NUL} /\ mem[s] \in Seq(Text)
        BY DEF TypeOK
    <2>2. /\ FirstIn(mem[s], i, {NUL}) \in Nat \ {0}
          /\ ByteAt(mem[s], FirstIn(mem[s], i, {NUL})) \in {NUL}
        BY <1>3, <2>1, SearchEnds
    <2>3. QED
        BY <1>3, <2>2
<1>5. th'[s] = th[s] /\ \A r \in Threads \ {t} : th'[r] = th[r]
    BY <1>2 DEF Others
<1>6. ASSUME NEW r \in Threads \ {s, t}, Uses(r, s)'
      PROVE  e < th'[r].path[2]
    <2>1. th'[r] = th[r]
        BY <1>5
    <2>2. Uses(r, s)
        BY <1>6, <2>1 DEF Uses
    <2>3. QED
        BY <1>3, <2>1, <2>2 DEF Behind
<1>7. ASSUME Uses(t, s)', th'[t].path # k.tok
      PROVE  e < th'[t].path[2]
    <2>1. th'[t].path = th[t].path /\ th[t].pc \in {"type", "open"}
        BY <1>7 DEF PathOf, Uses
    <2>2. Uses(t, s)
        BY <1>7, <2>1 DEF Uses
    <2>3. QED
        BY <1>3, <2>1, <2>2 DEF Behind
<1>8. m[s] \in Seq(Text) /\ k.mem[s] \in Seq(Text) /\ mem[s] \in Seq(Text)
    <2>1. <<b, c>> \in Threads \X (Nat \ {0})
        OBVIOUS
    <2>2. k.mem \in [Threads -> Seq(Text)]
        BY <2>1, NoNul, CutProperties
    <2>3. QED
        BY <2>2
<1>9. CASE b = s
    <2>1. cur = <<s, c>> /\ cur # NULL /\ cur[1] = s /\ cur[2] = c
        BY <1>9, PairsAreNotNull
    <2>2. e <= c
        BY <1>3, <2>1 DEF Behind
    <2>3. k = Cut(m, <<s, c>>, D) /\ s \in DOMAIN m /\ NUL \in Text
        BY <1>9, NoNul
    <2>4. /\ \A j \in Nat \ {0} : e = FirstIn(m[s], j, {NUL}) => Kept(m[s], k.mem[s], j)
          /\ ByteAt(m[s], e) = NUL => LeftBehind(k, s, e)
        BY <1>4, <1>8, <2>2, <2>3, CutBehind
    <2>5. Kept(mem[s], mem'[s], i) /\ LeftBehind(k, s, e)
        BY <1>2, <1>3, <1>4, <2>4
    <2>6. (k.tok = NULL \/ e < k.tok[2]) /\ e <= y
        <3>1. /\ k.tok = NULL \/ \E z \in Nat : e < z /\ k.tok = <<s, z>>
              /\ \E z \in Nat : e <= z /\ k.cur = <<s, z>>
            BY <2>5 DEF LeftBehind
        <3>2. \A z : <<s, z>>[2] = z
            OBVIOUS
        <3>3. \A z : k.cur = <<s, z>> => z = y
            BY <1>1
        <3>4. QED
            BY <3>1, <3>2, <3>3
    <2>7. Uses(t, s)' /\ th'[t].path = k.tok => e < th'[t].path[2]
        BY <2>6 DEF Uses
    <2>8. cur' # NULL /\ cur'[1] = s => e <= cur'[2]
        BY <1>1, <1>2, <2>6
    <2>9. Behind(s, e)'
        BY <1>6, <1>7, <2>7, <2>8 DEF Behind
    <2>10. QED
        BY <1>2, <1>5, <1>8, <2>5, <2>9, WordKept
<1>10. CASE b # s
    <2>1. k.mem[s] = m[s]
        <3>1. s \in DOMAIN m /\ s # <<b, c>>[1]
            BY <1>10
        <3>2. QED
            BY <3>1, CutElsewhere
    <2>2. Kept(mem[s], mem'[s], i)
        BY <1>2, <2>1 DEF Kept
    <2>3. cur' # NULL /\ cur'[1] = s => e <= cur'[2]
        BY <1>2, <1>10
    <2>4. ~(Uses(t, s)' /\ th'[t].path = k.tok)
        BY <1>1, <1>10 DEF Uses
    <2>5. Behind(s, e)'
        BY <1>6, <1>7, <2>3, <2>4 DEF Behind
    <2>6. QED
        BY <1>2, <1>5, <1>8, <2>2, <2>5, WordKept
<1>11. QED
    BY <1>9, <1>10

\* A call in buffer b, whoever is there, leaves another thread's invariant.
LEMMA CutAway ==
    ASSUME TypeOK, NEW t \in Threads, NEW s \in Threads \ {t}, OwnInv(s),
           NEW m \in [Threads -> Seq(Text)], m[s] = mem[s],
           NEW b \in Threads, NEW c \in Nat \ {0}, b = t \/ cur = <<b, c>>,
           NEW D, NUL \notin D, NEW k, k = Cut(m, <<b, c>>, D), Shared(t, k), PathOf(t, k)
    PROVE  OwnInv(s)'
<1>0. PICK x, y : Places(k, b, x, y)
    BY CutPlaces
<1>1. /\ cur' = <<b, y>> /\ cur'[1] = b
      /\ k.tok = NULL \/ k.tok[1] = b
    <2>1. (k.tok = NULL \/ k.tok = <<b, x>>) /\ cur' = <<b, y>>
        BY <1>0, Zenon DEF Places, Shared
    <2>2. <<b, x>>[1] = b /\ <<b, y>>[1] = b
        OBVIOUS
    <2>3. QED
        BY <2>1, <2>2, Zenon
<1>2. /\ th'[s] = th[s] /\ (\A r \in Threads \ {t} : th'[r] = th[r])
      /\ asked'[s] = asked[s] /\ trouble[s] \subseteq trouble'[s]
      /\ th[s].pc \in {"method", "path", "type"} => "mixed" \in trouble'[s]
    BY DEF Shared, Others
<1>3. th'[s].pc = "method" => th'[s].get = NULL \/ th'[s].get[1] = s
    BY <1>2 DEF OwnInv
<1>4. ASSUME th'[s].pc \in {"idle", "read"}
      PROVE  ~Points(s)' /\ asked'[s] = NoFile
    <2>1. ~Points(s) /\ asked[s] = NoFile
        BY <1>2, <1>4 DEF OwnInv
    <2>2. b # s
        <3>1. cur = <<s, c>> => cur # NULL /\ cur[1] = s
            BY PairsAreNotNull
        <3>2. QED
            BY <2>1, <3>1 DEF Points
    <2>3. \A r \in Threads \ {s, t} : ~Uses(r, s)'
        BY <1>2, <2>1 DEF Points, Uses
    <2>4. ~Uses(t, s)'
        <3>1. SUFFICES ASSUME Uses(t, s)'
                       PROVE  FALSE
            OBVIOUS
        <3>2. th'[t].path = th[t].path /\ th[t].pc \in {"type", "open"}
            BY <1>1, <2>2, <3>1 DEF PathOf, Uses
        <3>3. Uses(t, s)
            BY <3>1, <3>2 DEF Uses
        <3>4. QED
            BY <2>1, <3>3 DEF Points
    <2>5. QED
        BY <1>1, <1>2, <2>1, <2>2, <2>3, <2>4 DEF Points
<1>5. ASSUME "mixed" \notin trouble'[s]
      PROVE  Undisturbed(s)'
    <2>1. th'[s].pc \notin {"method", "path", "type"} /\ Undisturbed(s)
        BY <1>2, <1>5 DEF OwnInv
    <2>2. ASSUME th'[s].pc = "open"
          PROVE  \E q \in Given(s)' : InOpen(s, q)'
        <3>1. PICK q \in Given(s) : InOpen(s, q)
            BY <1>2, <2>1, <2>2 DEF Undisturbed
        <3>2. Given(s)' = Given(s)
            BY <1>2 DEF Given
        <3>3. \A l, i, e : WordAt(s, l, i, e) => WordAt(s, l, i, e)'
            BY WordAway
        <3>4. InOpen(s, q)'
            BY <1>2, <3>1, <3>3, OpenStays
        <3>5. QED
            BY <3>2, <3>4
    <2>3. QED
        BY <2>1, <2>2, Zenon DEF Undisturbed
<1>6. QED
    BY <1>3, <1>4, <1>5 DEF OwnInv

\* So does every step that makes no call and leaves its buffer alone.
LEMMA StepAway ==
    ASSUME NEW s \in Threads, OwnInv(s), th'[s] = th[s], mem'[s] = mem[s], cur' = cur,
           asked'[s] = asked[s], trouble[s] \subseteq trouble'[s],
           \A r \in Threads \ {s} : Uses(r, s)' => Uses(r, s) /\ th'[r].path = th[r].path
    PROVE  OwnInv(s)'
<1>1. th'[s].pc = "method" => th'[s].get = NULL \/ th'[s].get[1] = s
    BY DEF OwnInv
<1>2. th'[s].pc \in {"idle", "read"} => ~Points(s)' /\ asked'[s] = NoFile
    BY DEF OwnInv, Points
<1>3. ASSUME "mixed" \notin trouble'[s]
      PROVE  Undisturbed(s)'
    <2>1. Undisturbed(s)
        BY <1>3 DEF OwnInv
    <2>2. Given(s)' = Given(s)
        BY DEF Given
    <2>3. \A k : Follows(s, k)' <=> Follows(s, k)
        BY DEF Follows
    <2>4. \A q : /\ InMethod(s, q)' <=> InMethod(s, q)
                 /\ InPath(s, q)' <=> InPath(s, q)
                 /\ InType(s, q)' <=> InType(s, q)
        BY <2>3, Zenon DEF InMethod, InPath, InType
    <2>5. \A e : Behind(s, e) => Behind(s, e)'
        BY DEF Behind
    <2>6. \A i : StringAt(mem', <<s, i>>) = StringAt(mem, <<s, i>>)
        <3>1. ASSUME NEW i
              PROVE  StringAt(mem', <<s, i>>) = StringAt(mem, <<s, i>>)
            <4>1. Kept(mem[s], mem'[s], i)
                BY DEF Kept
            <4>2. QED
                BY <4>1, StringsAre, Zenon DEF Kept
        <3>2. QED
            BY <3>1
    <2>7. \A l, i, e : WordAt(s, l, i, e) => WordAt(s, l, i, e)'
        BY <2>5, <2>6, Zenon DEF WordAt
    <2>8. \A q : InOpen(s, q) => InOpen(s, q)'
        BY <2>7, OpenStays
    <2>9. (\A r \in Threads \ {s} : ~Uses(r, s)) => \A r \in Threads \ {s} : ~Uses(r, s)'
        OBVIOUS
    <2>10. QED
        BY <2>1, <2>2, <2>4, <2>8, <2>9, Zenon DEF Undisturbed
<1>4. QED
    BY <1>1, <1>2, <1>3 DEF OwnInv

-----------------------------------------------------------------------------
(* What a call of its own does for t.                                      *)

LEMMA GivenText ==
    ASSUME TypeOK, NEW t \in Threads
    PROVE  Given(t) \subseteq Seq(Text)
<1>1. asked[t] \in Requests \cup {NoFile}
    BY DEF TypeOK
<1>2. CASE asked[t] = NoFile
    BY <1>2, LeftoversAreText DEF Given
<1>3. CASE asked[t] # NoFile
    BY <1>1, <1>3, LinesAreText DEF Given
<1>4. QED
    BY <1>2, <1>3

\* Where t goes on after a call, the reference does.
LEMMA FollowOn ==
    ASSUME TypeOK, NEW t \in Threads, NEW k, RefType(k), Follows(t, k), NEW g, NEW p,
           (g = NULL /\ p = k.cur) \/ (g # NULL /\ SamePlace(g, t, p, 0)),
           NEW D, NUL \notin D, NEW l, l = Token(mem, g, D), NEW h, h = Cut(k.mem, p, D)
    PROVE  SameCut(l, t, h, 0)
<1>1. mem[t] = k.mem[0] /\ cur # NULL /\ SamePlace(cur, t, k.cur, 0)
    BY DEF Follows
<1>2. PICK c \in Nat \ {0} : (IF g = NULL THEN cur ELSE g) = <<t, c>> /\ p = <<0, c>>
    BY <1>1 DEF SamePlace
<1>3. l = Cut(mem, <<t, c>>, D) /\ h = Cut(k.mem, <<0, c>>, D)
    BY <1>2, Zenon DEF Token
<1>4. /\ t \in DOMAIN mem /\ 0 \in DOMAIN k.mem /\ mem[t] \in Seq(Text)
    BY DEF TypeOK, RefType
<1>5. SameCut(Cut(mem, <<t, c>>, D), t, Cut(k.mem, <<0, c>>, D), 0)
    BY <1>1, <1>4, CutAlike
<1>6. QED
    BY <1>3, <1>5

LEMMA NowFollows ==
    ASSUME NEW t \in Threads, NEW l, NEW h, SameCut(l, t, h, 0), Shared(t, l)
    PROVE  Follows(t, h)'
<1>1. mem'[t] = h.mem[0] /\ cur' # NULL /\ SamePlace(cur', t, h.cur, 0)
    BY Zenon DEF SameCut, Shared
<1>2. QED
    BY <1>1, Zenon DEF Follows

\* Nobody else comes to use the buffer of t.
LEMMA StaysAlone ==
    ASSUME NEW t \in Threads, Others(t), \A s \in Threads \ {t} : ~Uses(s, t)
    PROVE  \A s \in Threads \ {t} : ~Uses(s, t)'
    BY DEF Others, Uses

LEMMA ReadOwn ==
    ASSUME TypeOK, NEW t \in Threads, OwnInv(t), NEW q, NEW k, ReadBy(t, q, k)
    PROVE  OwnInv(t)'
<1>1. /\ th[t].pc = "read" /\ th'[t].pc = "method" /\ th'[t].get = k.tok
      /\ q \in Seq(Text) /\ Shared(t, k) /\ Others(t)
    BY DEF ReadBy, Shared
<1>2. ~Points(t) /\ asked[t] = NoFile
    BY <1>1 DEF OwnInv
<1>3. PICK m \in [Threads -> Seq(Text)] : /\ m = [mem EXCEPT ![t] = q] /\ m[t] = q
                                          /\ k = Cut(m, <<t, 1>>, LineEnd)
    BY <1>1 DEF ReadBy, TypeOK
<1>4. SameCut(k, t, LineCut(q), 0)
    <2>0. PICK l : l = [b \in {0} |-> q]
        OBVIOUS
    <2>1. l = [b \in {0} |-> q] /\ 0 \in DOMAIN l /\ l[0] = q
        BY <2>0
    <2>2. t \in DOMAIN m /\ m[t] \in Seq(Text) /\ m[t] = l[0] /\ 1 \in Nat \ {0}
        BY <1>3, <2>1
    <2>3. SameCut(Cut(m, <<t, 1>>, LineEnd), t, Cut(l, <<0, 1>>, LineEnd), 0)
        BY <2>1, <2>2, NoNul, CutAlike
    <2>4. LineCut(q) = Cut(l, <<0, 1>>, LineEnd)
        BY <2>1, RefCuts, Zenon
    <2>5. QED
        BY <1>3, <2>3, <2>4
<1>5. SamePlace(th'[t].get, t, LineCut(q).tok, 0)
    BY <1>1, <1>4 DEF SameCut
<1>6. th'[t].get = NULL \/ th'[t].get[1] = t
    BY <1>5 DEF SamePlace
<1>7. Follows(t, LineCut(q))'
    BY <1>1, <1>4, NowFollows
<1>8. InMethod(t, q)'
    BY <1>5, <1>7, Zenon DEF InMethod
<1>9. q \in Given(t)'
    <2>1. IF asked'[t] = NoFile THEN q \in Leftovers ELSE q = Line[asked'[t]]
        BY <1>2, Zenon DEF ReadBy
    <2>2. QED
        BY <2>1, Zenon DEF Given
<1>10. \A s \in Threads \ {t} : ~Uses(s, t)'
    BY <1>1, <1>2, StaysAlone DEF Points
<1>11. Undisturbed(t)'
    BY <1>1, <1>8, <1>9, <1>10 DEF Undisturbed
<1>12. QED
    BY <1>1, <1>6, <1>11 DEF OwnInv

LEMMA MethodOwn ==
    ASSUME TypeOK, NEW t \in Threads, OwnInv(t), NEW k,
           CutBy(t, "method", th[t].get, k, [th[t] EXCEPT !.pc = "path"])
    PROVE  OwnInv(t)'
<1>1. /\ th[t].pc = "method" /\ th'[t] = [th[t] EXCEPT !.pc = "path"]
      /\ k = Token(mem, th[t].get, Blank)
      /\ Shared(t, k) /\ Others(t) /\ asked'[t] = asked[t] /\ trouble'[t] = trouble[t]
    BY Zenon DEF CutBy, Shared
<1>2. th'[t].pc = "path"
    BY <1>1 DEF TypeOK, Thread
<1>3. ASSUME "mixed" \notin trouble'[t]
      PROVE  Undisturbed(t)'
    <2>1. (\A s \in Threads \ {t} : ~Uses(s, t)) /\ \E q \in Given(t) : InMethod(t, q)
        BY <1>1, <1>3 DEF OwnInv, Undisturbed
    <2>2. PICK q \in Seq(Text) : q \in Given(t) /\ InMethod(t, q)
        BY <2>1, GivenText
    <2>3. PICK l, p : l = LineCut(q) /\ p = From(l)
        OBVIOUS
    <2>4. RefType(l) /\ MethodCut(q) = Cut(l.mem, p, Blank)
        BY <2>3, RefTypes, RefCuts, Zenon
    <2>5. Follows(t, l) /\ SamePlace(th[t].get, t, l.tok, 0)
        BY <2>2, <2>3, Zenon DEF InMethod
    <2>6. \/ th[t].get = NULL /\ p = l.cur
          \/ th[t].get # NULL /\ SamePlace(th[t].get, t, p, 0)
        BY <2>3, <2>5, PairsAreNotNull, Zenon DEF From, SamePlace
    <2>7. SameCut(k, t, MethodCut(q), 0)
        <3>1. PICK g, h : g = th[t].get /\ h = MethodCut(q)
            OBVIOUS
        <3>2. /\ RefType(l) /\ Follows(t, l) /\ h = Cut(l.mem, p, Blank)
              /\ (g = NULL /\ p = l.cur) \/ (g # NULL /\ SamePlace(g, t, p, 0))
              /\ k = Token(mem, g, Blank)
            BY <1>1, <2>4, <2>5, <2>6, <3>1
        <3>3. SameCut(k, t, h, 0)
            BY <3>2, NoNul, FollowOn
        <3>4. QED
            BY <3>1, <3>3
    <2>8. InPath(t, q)'
        <3>1. Follows(t, MethodCut(q))'
            BY <1>1, <2>7, NowFollows
        <3>2. QED
            BY <3>1, Zenon DEF InPath
    <2>9. q \in Given(t)'
        BY <1>1, <2>2 DEF Given
    <2>10. \A s \in Threads \ {t} : ~Uses(s, t)'
        BY <1>1, <2>1, StaysAlone
    <2>11. QED
        BY <1>2, <2>8, <2>9, <2>10 DEF Undisturbed
<1>4. QED
    BY <1>2, <1>3 DEF OwnInv

LEMMA PathOwn ==
    ASSUME TypeOK, NEW t \in Threads, OwnInv(t), NEW k,
           CutBy(t, "path", NULL, k, [th[t] EXCEPT !.pc = "type", !.path = k.tok])
    PROVE  OwnInv(t)'
<1>1. /\ th[t].pc = "path" /\ th'[t] = [th[t] EXCEPT !.pc = "type", !.path = k.tok]
      /\ k = Token(mem, NULL, Blank)
      /\ Shared(t, k) /\ Others(t) /\ asked'[t] = asked[t] /\ trouble'[t] = trouble[t]
    BY Zenon DEF CutBy, Shared
<1>2. th'[t].pc = "type" /\ th'[t].path = k.tok
    BY <1>1 DEF TypeOK, Thread
<1>3. ASSUME "mixed" \notin trouble'[t]
      PROVE  Undisturbed(t)'
    <2>1. (\A s \in Threads \ {t} : ~Uses(s, t)) /\ \E q \in Given(t) : InPath(t, q)
        BY <1>1, <1>3 DEF OwnInv, Undisturbed
    <2>2. PICK q \in Seq(Text) : q \in Given(t) /\ InPath(t, q)
        BY <2>1, GivenText
    <2>3. PICK l : l = MethodCut(q)
        OBVIOUS
    <2>4. RefType(l) /\ PathCut(q) = Cut(l.mem, l.cur, Blank) /\ Follows(t, l)
        BY <2>2, <2>3, RefTypes, RefCuts, Zenon DEF InPath
    <2>5. SameCut(k, t, PathCut(q), 0)
        BY <1>1, <2>4, NoNul, FollowOn
    <2>6. InType(t, q)'
        <3>1. Follows(t, PathCut(q))'
            BY <1>1, <2>5, NowFollows
        <3>2. SamePlace(th'[t].path, t, PathCut(q).tok, 0)
            BY <1>2, <2>5 DEF SameCut
        <3>3. QED
            BY <3>1, <3>2, Zenon DEF InType
    <2>7. q \in Given(t)'
        BY <1>1, <2>2 DEF Given
    <2>8. \A s \in Threads \ {t} : ~Uses(s, t)'
        BY <1>1, <2>1, StaysAlone
    <2>9. QED
        BY <1>2, <2>6, <2>7, <2>8 DEF Undisturbed
<1>4. QED
    BY <1>2, <1>3 DEF OwnInv

\* The last call of the reference leaves the path.
RefPath(q, i, j) ==
    /\ TokenTo(PathCut(q), 0, i, j)
    /\ Kept(PathCut(q).mem[0], TypeCut(q).mem[0], i)
    /\ LeftBehind(TypeCut(q), 0, j)

LEMMA RefPathStays ==
    ASSUME NEW q \in Seq(Text), PathCut(q).tok # NULL
    PROVE  \E i, j : RefPath(q, i, j)
<1>1. PICK k, h, l : k = MethodCut(q) /\ h = PathCut(q) /\ l = TypeCut(q)
    OBVIOUS
<1>2. /\ RefType(k) /\ RefType(h)
      /\ h = Cut(k.mem, k.cur, Blank) /\ l = Cut(h.mem, h.cur, Blank) /\ h.tok # NULL
    BY <1>1, RefTypes, RefCuts, Zenon
<1>3. PICK c \in Nat \ {0}, d \in Nat \ {0} : k.cur = <<0, c>> /\ h.cur = <<0, d>>
    BY <1>2 DEF RefType
<1>4. /\ 0 \in DOMAIN k.mem /\ k.mem[0] \in Seq(Text)
      /\ 0 \in DOMAIN h.mem /\ h.mem[0] \in Seq(Text)
    BY <1>2 DEF RefType
<1>5. \E i, j : TokenTo(h, 0, i, j)
    <2>1. h = Cut(k.mem, <<0, c>>, Blank)
        BY <1>2, <1>3
    <2>2. QED
        BY <1>2, <1>4, <2>1, NoNul, TokenEnds
<1>6. PICK i, j : TokenTo(h, 0, i, j)
    BY <1>5
<1>7. /\ i \in Nat \ {0} /\ j \in Nat \ {0} /\ FirstIn(h.mem[0], i, {NUL}) = j
      /\ h.cur = <<0, j>> \/ h.cur = <<0, j + 1>>
    BY <1>6, Zenon DEF TokenTo
<1>8. j <= d
    <2>1. d = j \/ d = j + 1
        BY <1>3, <1>7
    <2>2. QED
        BY <1>7, <2>1
<1>9. ByteAt(h.mem[0], j) = NUL
    <2>1. ByteAt(h.mem[0], FirstIn(h.mem[0], i, {NUL})) \in {NUL}
        BY <1>4, <1>7, SearchEnds
    <2>2. QED
        BY <1>7, <2>1
<1>10. Kept(h.mem[0], l.mem[0], i) /\ LeftBehind(l, 0, j)
    <2>1. l = Cut(h.mem, <<0, d>>, Blank)
        BY <1>2, <1>3
    <2>2. /\ \A x \in Nat \ {0} : j = FirstIn(h.mem[0], x, {NUL}) =>
                Kept(h.mem[0], l.mem[0], x)
          /\ ByteAt(h.mem[0], j) = NUL => LeftBehind(l, 0, j)
        BY <1>4, <1>7, <1>8, <2>1, NoNul, CutBehind
    <2>3. QED
        BY <1>7, <1>9, <2>2
<1>11. QED
    BY <1>1, <1>6, <1>10, Zenon DEF RefPath

LEMMA TypeOwn ==
    ASSUME TypeOK, NEW t \in Threads, OwnInv(t), NEW k,
           CutBy(t, "type", NULL, k, [th[t] EXCEPT !.pc = "open", !.type = k.tok])
    PROVE  OwnInv(t)'
<1>1. /\ th[t].pc = "type" /\ th'[t] = [th[t] EXCEPT !.pc = "open", !.type = k.tok]
      /\ k = Token(mem, NULL, Blank)
      /\ Shared(t, k) /\ Others(t) /\ asked'[t] = asked[t] /\ trouble'[t] = trouble[t]
    BY Zenon DEF CutBy, Shared
<1>2. th'[t].pc = "open" /\ th'[t].type = k.tok /\ th'[t].path = th[t].path
    BY <1>1 DEF TypeOK, Thread
<1>3. ASSUME "mixed" \notin trouble'[t]
      PROVE  Undisturbed(t)'
    <2>1. (\A s \in Threads \ {t} : ~Uses(s, t)) /\ \E q \in Given(t) : InType(t, q)
        BY <1>1, <1>3 DEF OwnInv, Undisturbed
    <2>2. PICK q \in Seq(Text) : q \in Given(t) /\ InType(t, q)
        BY <2>1, GivenText
    <2>3. PICK l, h : l = PathCut(q) /\ h = TypeCut(q)
        OBVIOUS
    <2>4. /\ RefType(l) /\ h = Cut(l.mem, l.cur, Blank) /\ Follows(t, l)
          /\ SamePlace(th[t].path, t, l.tok, 0)
        BY <2>2, <2>3, RefTypes, RefCuts, Zenon DEF InType
    <2>5. SameCut(k, t, h, 0)
        BY <1>1, <2>4, NoNul, FollowOn
    <2>7. \A s \in Threads \ {t} : ~Uses(s, t)'
        BY <1>1, <2>1, StaysAlone
    <2>8. (th'[t].path = NULL /\ l.tok = NULL) \/ HasPath(t, q)'
        <3>1. CASE th[t].path = NULL /\ l.tok = NULL
            BY <1>2, <3>1
        <3>2. CASE ~(th[t].path = NULL /\ l.tok = NULL)
            <4>1. PICK i \in Nat \ {0} : th[t].path = <<t, i>> /\ l.tok = <<0, i>>
                BY <2>4, <3>2 DEF SamePlace
            <4>2. PICK x, j : RefPath(q, x, j)
                BY <2>3, <4>1, PairsAreNotNull, RefPathStays
            <4>3. /\ TokenTo(l, 0, x, j) /\ Kept(l.mem[0], h.mem[0], x)
                  /\ LeftBehind(h, 0, j)
                BY <2>3, <4>2, Zenon DEF RefPath
            <4>4. /\ x = i /\ j \in Nat \ {0} /\ i < j /\ FirstIn(l.mem[0], i, {NUL}) = j
                <5>1. /\ x \in Nat \ {0} /\ j \in Nat \ {0} /\ x < j /\ l.tok = <<0, x>>
                      /\ FirstIn(l.mem[0], x, {NUL}) = j
                    BY <4>3, Zenon DEF TokenTo
                <5>2. x = i
                    BY <4>1, <5>1
                <5>3. QED
                    BY <5>1, <5>2
            <4>5. Kept(l.mem[0], mem'[t], i)
                <5>1. mem'[t] = h.mem[0]
                    BY <1>1, <2>5, Zenon DEF Shared, SameCut
                <5>2. QED
                    BY <4>3, <4>4, <5>1
            <4>6. FirstIn(mem'[t], i, {NUL}) = j
                BY <4>4, <4>5 DEF Kept
            <4>7. ByteAt(mem'[t], i) # NUL
                <5>1. mem'[t] \in Seq(Text)
                    <6>1. RefType(h)
                        BY <2>3, RefTypes
                    <6>2. mem'[t] = h.mem[0]
                        BY <1>1, <2>5, Zenon DEF Shared, SameCut
                    <6>3. QED
                        BY <6>1, <6>2 DEF RefType
                <5>2. ByteAt(mem'[t], i) \in {NUL} => FirstIn(mem'[t], i, {NUL}) = i
                    BY <5>1, FirstPlaces
                <5>3. QED
                    BY <4>4, <4>6, <5>2
            <4>8. StringAt(mem', <<t, i>>) = StringAt(l.mem, <<0, i>>)
                BY <4>5, StringsAre, Zenon DEF Kept
            <4>9. Behind(t, j)'
                <5>1. PICK y \in Nat : j <= y /\ h.cur = <<0, y>>
                    BY <4>3 DEF LeftBehind
                <5>2. SamePlace(cur', t, h.cur, 0) /\ h.cur # NULL
                    BY <1>1, <2>5, <5>1, PairsAreNotNull, Zenon DEF Shared, SameCut
                <5>3. PICK z \in Nat \ {0} : cur' = <<t, z>> /\ h.cur = <<0, z>>
                    BY <5>2 DEF SamePlace
                <5>4. z = y /\ cur'[2] = z
                    BY <5>1, <5>3
                <5>5. QED
                    BY <2>7, <5>1, <5>4 DEF Behind
            <4>10. th'[t].path = <<t, i>> /\ i \in Nat \ {0}
                BY <1>2, <4>1
            <4>11. WordAt(t, PathCut(q), i, j)'
                BY <2>3, <4>1, <4>4, <4>6, <4>7, <4>8, <4>9, Zenon DEF WordAt
            <4>12. QED
                BY <4>10, <4>11, Zenon DEF HasPath
        <3>3. QED
            BY <3>1, <3>2
    <2>6. (th'[t].type = NULL /\ h.tok = NULL) \/ HasType(t, q)'
        <3>1. SamePlace(k.tok, t, h.tok, 0)
            BY <2>5 DEF SameCut
        <3>2. CASE k.tok = NULL /\ h.tok = NULL
            BY <1>2, <3>2
        <3>3. CASE ~(k.tok = NULL /\ h.tok = NULL)
            <4>1. PICK i \in Nat \ {0} : k.tok = <<t, i>> /\ h.tok = <<0, i>>
                BY <3>1, <3>3 DEF SamePlace
            <4>2. PICK c \in Nat \ {0} : l.cur = <<0, c>>
                BY <2>4 DEF RefType
            <4>3. PICK x, j : TokenTo(h, 0, x, j)
                <5>1. 0 \in DOMAIN l.mem /\ l.mem[0] \in Seq(Text)
                    BY <2>4 DEF RefType
                <5>2. h = Cut(l.mem, <<0, c>>, Blank) /\ h.tok # NULL
                    BY <2>4, <4>1, <4>2, PairsAreNotNull
                <5>3. QED
                    BY <5>1, <5>2, NoNul, TokenEnds
            <4>4. /\ x = i /\ j \in Nat \ {0} /\ FirstIn(h.mem[0], i, {NUL}) = j
                  /\ ByteAt(h.mem[0], i) # NUL
                  /\ h.cur = <<0, j>> \/ h.cur = <<0, j + 1>>
                <5>1. /\ x \in Nat \ {0} /\ j \in Nat \ {0} /\ h.tok = <<0, x>>
                      /\ FirstIn(h.mem[0], x, {NUL}) = j /\ ByteAt(h.mem[0], x) # NUL
                      /\ h.cur = <<0, j>> \/ h.cur = <<0, j + 1>>
                    BY <4>3, Zenon DEF TokenTo
                <5>2. x = i
                    BY <4>1, <5>1
                <5>3. QED
                    BY <5>1, <5>2
            <4>5. mem'[t] = h.mem[0]
                BY <1>1, <2>5, Zenon DEF Shared, SameCut
            <4>6. StringAt(mem', <<t, i>>) = StringAt(h.mem, <<0, i>>)
                BY <4>5, StringsAre, Zenon
            <4>7. Behind(t, j)'
                <5>1. PICK y \in Nat : j <= y /\ h.cur = <<0, y>>
                    BY <4>4
                <5>2. SamePlace(cur', t, h.cur, 0) /\ h.cur # NULL
                    BY <1>1, <2>5, <5>1, PairsAreNotNull, Zenon DEF Shared, SameCut
                <5>3. PICK z \in Nat \ {0} : cur' = <<t, z>> /\ h.cur = <<0, z>>
                    BY <5>2 DEF SamePlace
                <5>4. z = y /\ cur'[2] = z
                    BY <5>1, <5>3
                <5>5. QED
                    BY <2>7, <5>1, <5>4 DEF Behind
            <4>8. WordAt(t, TypeCut(q), i, j)'
                BY <2>3, <4>1, <4>4, <4>5, <4>6, <4>7, Zenon DEF WordAt
            <4>9. th'[t].type = <<t, i>>
                BY <1>2, <4>1
            <4>10. QED
                BY <4>8, <4>9, Zenon DEF HasType
        <3>4. QED
            BY <3>2, <3>3
    <2>9. InOpen(t, q)'
        BY <2>3, <2>6, <2>8, Zenon DEF InOpen
    <2>10. q \in Given(t)'
        BY <1>1, <2>2 DEF Given
    <2>11. QED
        BY <1>2, <2>7, <2>9, <2>10 DEF Undisturbed
<1>4. QED
    BY <1>2, <1>3 DEF OwnInv

-----------------------------------------------------------------------------
(* What cutting the name out of the path does.                             *)

\* The bytes q without the first of the string at place c.
Shifted(q, c) ==
    [i \in DOMAIN q |->
        IF i >= c /\ NUL \notin {q[j] : j \in c..i} THEN ByteAt(q, i + 1) ELSE q[i]]

\* The string of q at c ends at e; in r it has moved down by one.
IsShifted(q, c, r, e) ==
    /\ r \in Seq(Text) /\ Len(r) = Len(q)
    /\ \A x \in Nat : x < c => ByteAt(r, x) = ByteAt(q, x)
    /\ \A x \in c..(e - 1) : ByteAt(r, x) = ByteAt(q, x + 1)

LEMMA ShiftedBytes ==
    ASSUME NEW q \in Seq(Text), NEW c \in Nat \ {0}, NEW e \in Nat \ {0},
           e = FirstIn(q, c, {NUL})
    PROVE  IsShifted(q, c, Shifted(q, c), e)
<1>1. PICK n \in Nat : n = Len(q) /\ DOMAIN q = 1..n
    BY LenProperties
<1>2. \A i \in 1..n : q[i] \in Text
    BY <1>1, ElementOfSeq
<1>3. NUL \in Text
    BY NoNul
<1> DEFINE f(i) == IF i >= c /\ NUL \notin {q[j] : j \in c..i} THEN ByteAt(q, i + 1) ELSE q[i]
           r == [i \in 1..n |-> f(i)]
<1>4. \A i \in 1..n : f(i) \in Text
    BY <1>1, <1>2, <1>3 DEF ByteAt
<1>5. r \in Seq(Text) /\ Len(r) = n /\ DOMAIN r = 1..n
    <2> HIDE DEF f
    <2>1. r \in Seq(Text)
        BY <1>4, IsASeq
    <2>2. DOMAIN r = 1..n
        OBVIOUS
    <2>3. QED
        BY <2>1, <2>2, LenProperties
<1>6. Shifted(q, c) = r
    BY <1>1 DEF Shifted
<1>7. \A i \in 1..n : r[i] = f(i)
    OBVIOUS
<1> HIDE DEF r
<1>8. ASSUME NEW x \in Nat, x < c
      PROVE  ByteAt(r, x) = ByteAt(q, x)
    <2>1. x \in 1..n => r[x] = q[x]
        BY <1>7, <1>8
    <2>2. QED
        BY <1>1, <1>5, <2>1 DEF ByteAt
<1>9. ASSUME NEW x \in c..(e - 1)
      PROVE  ByteAt(r, x) = ByteAt(q, x + 1)
    <2>1. \A y \in c..(e - 1) : ByteAt(q, y) # NUL
        BY StringEnds DEF StringIs
    <2>2. \A y \in c..x : y \in 1..n /\ q[y] # NUL
        <3>1. \A y \in c..x : y \in c..(e - 1)
            OBVIOUS
        <3>2. QED
            BY <1>1, <2>1, <3>1 DEF ByteAt
    <2>3. NUL \notin {q[j] : j \in c..x} /\ x >= c /\ x \in 1..n
        BY <2>2
    <2>4. r[x] = ByteAt(q, x + 1)
        BY <1>7, <2>3
    <2>5. QED
        BY <1>5, <2>3, <2>4 DEF ByteAt
<1>10. QED
    BY <1>1, <1>5, <1>6, <1>8, <1>9 DEF IsShifted

\* A string that ends before c is kept.
LEMMA ShiftKeeps ==
    ASSUME NEW q \in Seq(Text), NEW c \in Nat \ {0}, NEW r, NEW e, IsShifted(q, c, r, e),
           NEW i \in Nat \ {0}, FirstIn(q, i, {NUL}) < c
    PROVE  Kept(q, r, i)
<1>1. PICK d \in Nat \ {0} : d = FirstIn(q, i, {NUL}) /\ i <= d
    BY StringEnds DEF StringIs
<1>2. r \in Seq(Text) /\ Len(r) = Len(q)
    BY DEF IsShifted
<1>3. \A x \in i..d : ByteAt(q, x) = ByteAt(r, x)
    BY <1>1 DEF IsShifted
<1>4. Agree(q, r, i, FirstIn(q, i, {NUL}))
    BY <1>1, <1>2, <1>3 DEF Agree
<1>5. QED
    BY <1>2, <1>4, SameString DEF Kept

\* The string at c loses its first byte.
LEMMA ShiftString ==
    ASSUME NEW q \in Seq(Text), NEW c \in Nat \ {0}, NEW e \in Nat \ {0},
           e = FirstIn(q, c, {NUL}), ByteAt(q, c) # NUL,
           NEW r, IsShifted(q, c, r, e)
    PROVE  SubSeq(r, c, FirstIn(r, c, {NUL}) - 1) = Tail(SubSeq(q, c, e - 1))
<1>1. PICK d \in Nat \ {0} :
        /\ e = d + 1 /\ c <= d /\ ByteAt(q, d + 1) = NUL
        /\ \A x \in c..d : ByteAt(q, x) # NUL
    <2>1. /\ c <= e /\ ByteAt(q, e) = NUL
          /\ \A x \in c..(e - 1) : ByteAt(q, x) # NUL
        BY StringEnds DEF StringIs
    <2>2. c < e
        BY <2>1
    <2>3. PICK d \in Nat \ {0} : e = d + 1 /\ c <= d /\ d = e - 1
        BY <2>2
    <2>4. QED
        BY <2>1, <2>3
<1>2. /\ r \in Seq(Text) /\ Len(r) = Len(q)
      /\ \A x \in c..d : ByteAt(r, x) = ByteAt(q, x + 1)
    <2>1. d = e - 1
        BY <1>1
    <2>2. QED
        BY <2>1 DEF IsShifted
<1>3. FirstIn(r, c, {NUL}) = d
    <2>1. ByteAt(r, d) = NUL
        BY <1>1, <1>2
    <2>2. ASSUME NEW x \in c..(d - 1)
          PROVE  ByteAt(r, x) # NUL
        <3>1. x \in c..d /\ x + 1 \in c..d
            BY <1>1
        <3>2. QED
            BY <1>1, <1>2, <3>1
    <2>3. QED
        BY <1>1, <1>2, <2>1, <2>2, EndIs
<1>4. PICK n \in Nat : /\ DOMAIN q = 1..n /\ DOMAIN r = 1..n /\ n = Len(q)
                       /\ (\A x \in 1..n : q[x] \in Text) /\ \A x \in 1..n : r[x] \in Text
    BY <1>2, LenProperties, ElementOfSeq
<1>5. \A x \in c..d : x \in 1..n
    BY <1>1, <1>4 DEF ByteAt
<1>6. c \in 1..n /\ d \in c..n
    <2>1. c \in c..d /\ d \in c..d
        BY <1>1
    <2>2. c \in 1..n /\ d \in 1..n
        BY <1>5, <2>1
    <2>3. QED
        BY <1>1, <2>2
<1>7. Tail(SubSeq(q, c, d)) = SubSeq(q, c + 1, d)
    BY <1>4, <1>6, HeadTailOfSubSeq
<1>8. ASSUME NEW x \in c..(d - 1)
      PROVE  x \in 1..n /\ x + 1 \in 1..n /\ r[x] = q[x + 1]
    <2>1. x \in c..d /\ x + 1 \in c..d
        BY <1>1
    <2>2. x \in 1..n /\ x + 1 \in 1..n
        BY <1>5, <2>1
    <2>3. ByteAt(r, x) = ByteAt(q, x + 1)
        BY <1>2, <2>1
    <2>4. QED
        BY <1>4, <2>2, <2>3 DEF ByteAt
<1>9. SubSeq(r, c, d - 1) = SubSeq(q, c + 1, d)
    <2>1. PICK a, b, k \in Nat : a = d - 1 /\ b = c + 1 /\ k = d - c
        BY <1>1
    <2>2. a \in Int /\ b \in Int /\ d \in Int /\ c \in Int
        BY <2>1
    <2>3. \A x \in c..a : r[x] \in Text
        BY <1>4, <1>8, <2>1
    <2>4. \A x \in b..d : q[x] \in Text
        <3>1. \A x \in b..d : x \in c..d
            BY <2>1
        <3>2. QED
            BY <1>4, <1>5, <3>1
    <2>5. /\ SubSeq(r, c, a) \in Seq(Text)
          /\ Len(SubSeq(r, c, a)) = IF c <= a THEN a - c + 1 ELSE 0
          /\ \A x \in 1..(a - c + 1) : SubSeq(r, c, a)[x] = r[c + x - 1]
        BY <2>2, <2>3, SubSeqProperties
    <2>6. /\ SubSeq(q, b, d) \in Seq(Text)
          /\ Len(SubSeq(q, b, d)) = IF b <= d THEN d - b + 1 ELSE 0
          /\ \A x \in 1..(d - b + 1) : SubSeq(q, b, d)[x] = q[b + x - 1]
        BY <2>2, <2>4, SubSeqProperties
    <2>7. a - c + 1 = k /\ d - b + 1 = k /\ (c <= a <=> k # 0) /\ (b <= d <=> k # 0)
        BY <1>1, <2>1
    <2>8. PICK u \in Seq(Text), v \in Seq(Text) : u = SubSeq(r, c, a) /\ v = SubSeq(q, b, d)
        BY <2>5, <2>6
    <2>9. Len(u) = k /\ Len(v) = k
        BY <2>5, <2>6, <2>7, <2>8
    <2>10. ASSUME NEW x \in 1..k
           PROVE  u[x] = v[x]
        <3>1. u[x] = r[c + x - 1] /\ v[x] = q[b + x - 1]
            BY <2>5, <2>6, <2>7, <2>8
        <3>2. PICK y \in c..(d - 1) : y = c + x - 1 /\ y + 1 = b + x - 1
            BY <1>1, <2>1
        <3>3. QED
            BY <1>8, <3>1, <3>2
    <2>11. u = v
        BY <2>9, <2>10, SeqEqual
    <2>12. QED
        BY <2>1, <2>8, <2>11
<1>10. e - 1 = d
    BY <1>1
<1>11. QED
    BY <1>3, <1>7, <1>9, <1>10

\* The prefix, by name: it is looked at in no proof.
Inside == "inside/"

LEMMA MovedIs ==
    ASSUME NEW m \in [Threads -> Seq(Text)], NEW b \in Threads, NEW c \in Nat \ {0}
    PROVE  /\ Moved(m, <<b, c>>) \in [Threads -> Seq(Text)]
           /\ Moved(m, <<b, c>>)[b] = Shifted(m[b], c)
           /\ \A a \in Threads \ {b} : Moved(m, <<b, c>>)[a] = m[a]
<1>1. <<b, c>>[1] = b /\ <<b, c>>[2] = c /\ <<b, c>> \in Pointer
    BY DEF Pointer
<1>2. Moved(m, <<b, c>>) \in [Threads -> Seq(Text)]
    BY <1>1, PairsAreNotNull, NameType
<1>3. \A p : p[1] = b /\ p[2] = c => Moved(m, p) = [m EXCEPT ![b] = Shifted(m[b], c)]
    BY DEF Moved, Shifted
<1>4. Moved(m, <<b, c>>) = [m EXCEPT ![b] = Shifted(m[b], c)]
    BY <1>1, <1>3, Zenon
<1>5. QED
    BY <1>2, <1>4

LEMMA StrippedIs ==
    ASSUME NEW m, NEW p
    PROVE  /\ Inside \in Range(StringAt(m, p)) => Stripped(m, p) = Moved(m, p)
           /\ Inside \notin Range(StringAt(m, p)) => Stripped(m, p) = m
    BY Zenon DEF Stripped, Inside

\* Moving the string at place c of buffer b down leaves what ends before it.
Spares(m, r, b, c) ==
    /\ r \in [Threads -> Seq(Text)]
    /\ \A a \in Threads \ {b} : r[a] = m[a]
    /\ \A i \in Nat \ {0} : FirstIn(m[b], i, {NUL}) < c => Kept(m[b], r[b], i)

LEMMA MovedSpares ==
    ASSUME NEW m \in [Threads -> Seq(Text)], NEW b \in Threads, NEW c \in Nat \ {0}
    PROVE  Spares(m, Moved(m, <<b, c>>), b, c)
<1>1. PICK q \in Seq(Text) : q = m[b]
    OBVIOUS
<1>2. PICK e \in Nat \ {0} : e = FirstIn(q, c, {NUL})
    BY StringEnds DEF StringIs
<1>3. IsShifted(q, c, Shifted(q, c), e)
    BY <1>2, ShiftedBytes
<1>4. \A i \in Nat \ {0} : FirstIn(q, i, {NUL}) < c => Kept(q, Shifted(q, c), i)
    BY <1>3, ShiftKeeps
<1>5. QED
    BY <1>1, <1>4, MovedIs DEF Spares

LEMMA CutoutSpares ==
    ASSUME NEW m \in [Threads -> Seq(Text)], NEW b \in Threads, NEW c \in Nat \ {0}
    PROVE  Spares(m, Stripped(Moved(m, <<b, c>>), <<b, c>>), b, c)
<1>1. PICK r \in [Threads -> Seq(Text)] : r = Moved(m, <<b, c>>) /\ Spares(m, r, b, c)
    BY MovedSpares, MovedIs
<1>2. PICK s : s = Moved(r, <<b, c>>) /\ Spares(r, s, b, c)
    BY MovedSpares
<1>3. Spares(m, s, b, c)
    <2>1. \A i \in Nat \ {0} : FirstIn(m[b], i, {NUL}) < c => Kept(m[b], s[b], i)
        BY <1>1, <1>2 DEF Spares, Kept
    <2>2. QED
        BY <1>1, <1>2, <2>1 DEF Spares
<1>4. Stripped(r, <<b, c>>) = s \/ Stripped(r, <<b, c>>) = r
    BY <1>2, StrippedIs
<1>5. QED
    BY <1>1, <1>3, <1>4

\* The string at a place that is not its end loses its first byte.
LEMMA MovedString ==
    ASSUME NEW m \in [Threads -> Seq(Text)], NEW b \in Threads, NEW c \in Nat \ {0},
           ByteAt(m[b], c) # NUL
    PROVE  StringAt(Moved(m, <<b, c>>), <<b, c>>) = Tail(StringAt(m, <<b, c>>))
<1>1. PICK q \in Seq(Text) : q = m[b]
    OBVIOUS
<1>2. PICK e \in Nat \ {0} : e = FirstIn(q, c, {NUL})
    BY StringEnds DEF StringIs
<1>3. PICK r : r = Shifted(q, c) /\ IsShifted(q, c, r, e)
    BY <1>2, ShiftedBytes
<1>4. SubSeq(r, c, FirstIn(r, c, {NUL}) - 1) = Tail(SubSeq(q, c, e - 1))
    <2>1. ByteAt(q, c) # NUL /\ e = FirstIn(q, c, {NUL}) /\ IsShifted(q, c, r, e)
        BY <1>1, <1>2, <1>3
    <2>2. QED
        BY <2>1, ShiftString
<1>5. Moved(m, <<b, c>>)[b] = r
    BY <1>1, <1>3, MovedIs
<1>6. /\ StringAt(Moved(m, <<b, c>>), <<b, c>>) = SubSeq(r, c, FirstIn(r, c, {NUL}) - 1)
      /\ StringAt(m, <<b, c>>) = SubSeq(q, c, e - 1)
    BY <1>1, <1>2, <1>5, StringsAre
<1>7. QED
    BY <1>4, <1>6

\* A string with something in it is not at its end.
LEMMA SomeString ==
    ASSUME NEW m \in [Threads -> Seq(Text)], NEW b \in Threads, NEW c \in Nat \ {0},
           NEW x, x \in Range(StringAt(m, <<b, c>>))
    PROVE  ByteAt(m[b], c) # NUL
<1>1. SUFFICES ASSUME ByteAt(m[b], c) \in {NUL}
               PROVE  FALSE
    OBVIOUS
<1>2. FirstIn(m[b], c, {NUL}) = c
    BY <1>1, FirstPlaces
<1>3. StringAt(m, <<b, c>>) = SubSeq(m[b], c, c - 1)
    BY <1>2, StringsAre, Zenon
<1>4. c \in Int /\ c - 1 \in Int /\ c - 1 < c
    OBVIOUS
<1>5. SubSeq(m[b], c, c - 1) = <<>>
    BY <1>4, SubSeqEmpty
<1>6. DOMAIN <<>> = {}
    OBVIOUS
<1>7. QED
    BY <1>3, <1>5, <1>6 DEF Range

\* What is left of path w: its first byte goes, and then the prefix.
Stem(w) == IF Inside \in Range(Tail(w)) THEN Tail(Tail(w)) ELSE Tail(w)

LEMMA CutoutString ==
    ASSUME NEW m \in [Threads -> Seq(Text)], NEW b \in Threads, NEW c \in Nat \ {0},
           ByteAt(m[b], c) # NUL
    PROVE  StringAt(Stripped(Moved(m, <<b, c>>), <<b, c>>), <<b, c>>)
               = Stem(StringAt(m, <<b, c>>))
<1>1. PICK r \in [Threads -> Seq(Text)] :
        /\ r = Moved(m, <<b, c>>)
        /\ StringAt(r, <<b, c>>) = Tail(StringAt(m, <<b, c>>))
    BY MovedIs, MovedString
<1>2. CASE Inside \in Range(StringAt(r, <<b, c>>))
    <2>1. StringAt(Moved(r, <<b, c>>), <<b, c>>) = Tail(StringAt(r, <<b, c>>))
        BY <1>2, SomeString, MovedString
    <2>2. Stripped(r, <<b, c>>) = Moved(r, <<b, c>>)
        BY <1>2, StrippedIs
    <2>3. QED
        BY <1>1, <1>2, <2>1, <2>2, Zenon DEF Stem
<1>3. CASE Inside \notin Range(StringAt(r, <<b, c>>))
    <2>1. Stripped(r, <<b, c>>) = r
        BY <1>3, StrippedIs
    <2>2. QED
        BY <1>1, <1>3, <2>1, Zenon DEF Stem
<1>4. QED
    BY <1>2, <1>3

-----------------------------------------------------------------------------
(* Every step keeps it.                                                    *)

\* Where a thread is that has looked for its file.
After == {"header", "body", "rest", "error", "close", "done"}

LEMMA AfterOwn ==
    ASSUME NEW t \in Threads, th'[t].pc \in After
    PROVE  OwnInv(t)'
<1>1. th'[t].pc \notin {"idle", "read", "method", "path", "type", "open"}
    BY DEF After
<1>2. Undisturbed(t)'
    BY <1>1 DEF Undisturbed
<1>3. QED
    BY <1>1, <1>2 DEF OwnInv

\* t opens the file that it cut out of buffer b at place c.
Naming(t, b, c) ==
    /\ b \in Threads /\ c \in Nat \ {0}
    /\ th[t].pc = "open" /\ th[t].path = <<b, c>>
    /\ mem' = Stripped(Moved(mem, <<b, c>>), <<b, c>>)
    /\ th'[t].pc \in After
    /\ Others(t) /\ cur' = cur /\ asked' = asked /\ fds' \in Int
    /\ \A s \in Threads : trouble[s] \subseteq trouble'[s]

LEMMA NamingFacts ==
    ASSUME TypeOK, NEW t \in Threads, OpenNamed(t)
    PROVE  \E b, c : Naming(t, b, c)
<1>1. /\ th[t].pc = "open" /\ Opening(t)
      /\ UNCHANGED <<listening, cur, gone, asked>>
    BY OpenNamedFacts
<1>2. /\ th[t].path # NULL
      /\ mem' = Stripped(Moved(mem, th[t].path), th[t].path)
    BY Zenon DEF OpenNamed
<1>3. th[t].path \in Pointer
    BY DEF TypeOK, Thread
<1>4. PICK b \in Threads, c \in Nat \ {0} : th[t].path = <<b, c>>
    BY <1>2, <1>3 DEF Pointer
<1>5. th'[t].pc \in After /\ Others(t) /\ cur' = cur /\ asked' = asked /\ fds' \in Int
      /\ \A s \in Threads : trouble[s] \subseteq trouble'[s]
    BY <1>1, BoundsAssumption DEF Opening, After, TypeOK
<1>6. mem' = Stripped(Moved(mem, <<b, c>>), <<b, c>>)
    BY <1>2, <1>4, Zenon
<1>7. Naming(t, b, c)
    BY <1>1, <1>4, <1>5, <1>6 DEF Naming
<1>8. QED
    BY <1>7

\* It comes behind the path of whoever has that buffer.
LEMMA NamingAway ==
    ASSUME TypeOK, NEW t \in Threads, NEW s \in Threads \ {t}, OwnInv(s),
           NEW b, NEW c, Naming(t, b, c)
    PROVE  OwnInv(s)'
<1>1. /\ b \in Threads /\ c \in Nat \ {0} /\ th[t].pc = "open" /\ th[t].path = <<b, c>>
      /\ Others(t) /\ cur' = cur /\ asked' = asked /\ th'[t].pc \in After
      /\ trouble[s] \subseteq trouble'[s] /\ th'[s] = th[s]
    BY DEF Naming, Others
<1>2. Spares(mem, mem', b, c)
    <2>1. mem \in [Threads -> Seq(Text)]
        BY DEF TypeOK
    <2>2. Spares(mem, Stripped(Moved(mem, <<b, c>>), <<b, c>>), b, c)
        BY <1>1, <2>1, CutoutSpares
    <2>3. QED
        BY <2>2 DEF Naming
<1>3. \A r \in Threads \ {s} : Uses(r, s)' => Uses(r, s) /\ r # t /\ th'[r].path = th[r].path
    BY <1>1 DEF Uses, Others, After
<1>4. CASE s # b
    <2>1. mem'[s] = mem[s]
        BY <1>2, <1>4 DEF Spares
    <2>2. QED
        BY <1>1, <1>3, <2>1, StepAway
<1>5. CASE s = b
    <2>1. Uses(t, s) /\ th[t].path[2] = c
        BY <1>1, <1>5, PairsAreNotNull DEF Uses
    <2>2. th[s].pc \notin {"idle", "read"}
        BY <2>1 DEF OwnInv, Points
    <2>3. th'[s].pc = "method" => th'[s].get = NULL \/ th'[s].get[1] = s
        BY <1>1 DEF OwnInv
    <2>4. ASSUME "mixed" \notin trouble'[s]
          PROVE  Undisturbed(s)'
        <3>1. Undisturbed(s)
            BY <1>1, <2>4 DEF OwnInv
        <3>2. th[s].pc \notin {"method", "path", "type"}
            BY <2>1, <3>1 DEF Undisturbed
        <3>3. ASSUME th[s].pc = "open"
              PROVE  \E q \in Given(s)' : InOpen(s, q)'
            <4>1. PICK q \in Given(s) : InOpen(s, q)
                BY <3>1, <3>3 DEF Undisturbed
            <4>2. Given(s)' = Given(s)
                BY <1>1 DEF Given
            <4>3. ASSUME NEW l, NEW i, NEW e, WordAt(s, l, i, e)
                  PROVE  WordAt(s, l, i, e)'
                <5>2. i \in Nat \ {0} /\ e = FirstIn(mem[s], i, {NUL}) /\ Behind(s, e)
                    BY <4>3 DEF WordAt
                <5>3. e < c
                    BY <2>1, <5>2 DEF Behind
                <5>4. Kept(mem[s], mem'[s], i) /\ mem'[s] \in Seq(Text)
                    BY <1>2, <1>5, <5>2, <5>3 DEF Spares
                <5>5. Behind(s, e)'
                    BY <1>1, <1>3, <5>2 DEF Behind
                <5>6. mem[s] \in Seq(Text)
                    BY DEF TypeOK
                <5>7. QED
                    BY <4>3, <5>4, <5>5, <5>6, WordKept
            <4>4. InOpen(s, q)'
                BY <1>1, <4>1, <4>3, OpenStays
            <4>5. QED
                BY <4>2, <4>4
        <3>4. QED
            BY <1>1, <3>2, <3>3, Zenon DEF Undisturbed
    <2>5. QED
        BY <1>1, <2>2, <2>3, <2>4 DEF OwnInv
<1>6. QED
    BY <1>4, <1>5

\* The steps that make no call and change no buffer but their own.
Quiet(t) ==
    /\ Others(t) /\ cur' = cur /\ asked' = asked
    /\ \A s \in Threads \ {t} : mem'[s] = mem[s]
    /\ \A s \in Threads : trouble[s] \subseteq trouble'[s]
    /\ (th[t].pc = "idle" /\ th'[t].pc = "read") \/ th'[t].pc \in After

LEMMA WritesQuietly ==
    ASSUME NEW t \in Threads, NEW from, NEW to \in After, NEW pos, NEW fs, NEW data,
           Writing(t, from, to, pos, fs, data), \A s \in Threads \ {t} : mem'[s] = mem[s]
    PROVE  Quiet(t)
    BY DEF Writing, Quiet

LEMMA QuietSteps ==
    ASSUME TypeOK, NEW t \in Threads, PlaceInv(t),
           \/ Accept(t) \/ AcceptFails(t) \/ Ignore(t) \/ OpenIndex(t)
           \/ SendError(t) \/ SendHeader(t) \/ SendBlock(t) \/ SendRest(t) \/ Close(t)
    PROVE  Quiet(t)
<1>0. {"header", "body", "rest", "error", "close", "done"} \subseteq After
    BY DEF After
<1>1. CASE Accept(t) \/ AcceptFails(t)
    <2>1. Starting(t)
        BY <1>1, AcceptFacts
    <2>2. QED
        BY <2>1 DEF Starting, Quiet
<1>2. CASE Ignore(t)
    BY <1>0, <1>2, IgnoreFacts DEF Quiet
<1>3. CASE OpenIndex(t)
    <2>1. Opening(t) /\ UNCHANGED <<listening, mem, cur, gone, asked>>
        BY <1>3, OpenIndexFacts
    <2>2. QED
        BY <1>0, <2>1 DEF Opening, Quiet
<1>4. CASE SendError(t)
    <2>1. Writing(t, "error", "close", th[t].pos, th[t].fs, <<Error500>>)
        BY <1>4, SendErrorFacts
    <2>2. \A s \in Threads \ {t} : mem'[s] = mem[s]
        BY <1>4 DEF SendError, TypeOK
    <2>3. QED
        BY <1>0, <2>1, <2>2, WritesQuietly
<1>5. CASE SendHeader(t)
    <2>1. Writing(t, "header", "body", th[t].pos, th[t].fs, <<Header(Size(th[t].file))>>)
          /\ mem' = mem
        BY <1>5, SendHeaderFacts
    <2>2. QED
        BY <1>0, <2>1, WritesQuietly
<1>6. CASE SendBlock(t)
    <2>1. PICK e, to : to \in {"body", "rest"} /\ Sending(t, "body", to, e)
        BY <1>6, SendBlockFacts
    <2>2. QED
        BY <1>0, <2>1, WritesQuietly DEF Sending
<1>7. CASE SendRest(t)
    <2>1. Sending(t, "rest", "close", Len(Page[th[t].file]))
        BY <1>7, SendRestFacts
    <2>2. QED
        BY <1>0, <2>1, WritesQuietly DEF Sending
<1>8. CASE Close(t)
    BY <1>0, <1>8, CloseFacts DEF Quiet
<1>9. QED
    BY <1>1, <1>2, <1>3, <1>4, <1>5, <1>6, <1>7, <1>8

LEMMA QuietKeeps ==
    ASSUME NEW t \in Threads, Quiet(t), \A s \in Threads : OwnInv(s)
    PROVE  \A s \in Threads : OwnInv(s)'
<1>1. /\ Others(t) /\ cur' = cur /\ asked' = asked
      /\ \A s \in Threads \ {t} : mem'[s] = mem[s]
      /\ \A s \in Threads : trouble[s] \subseteq trouble'[s]
      /\ (th[t].pc = "idle" /\ th'[t].pc = "read") \/ th'[t].pc \in After
    BY DEF Quiet
<1>2. ASSUME NEW s \in Threads \ {t}
      PROVE  OwnInv(s)'
    <2>1. \A r \in Threads \ {s} : Uses(r, s)' => Uses(r, s) /\ th'[r].path = th[r].path
        BY <1>1 DEF Others, Uses, After
    <2>2. th'[s] = th[s] /\ mem'[s] = mem[s] /\ asked'[s] = asked[s] /\ OwnInv(s)
        BY <1>1 DEF Others
    <2>3. QED
        BY <1>1, <2>1, <2>2, StepAway
<1>3. CASE th[t].pc = "idle" /\ th'[t].pc = "read"
    <2>1. ~Points(t) /\ asked[t] = NoFile
        BY <1>3 DEF OwnInv
    <2>2. ~Points(t)'
        BY <1>1, <2>1 DEF Points, Uses, Others
    <2>3. Undisturbed(t)'
        BY <1>3 DEF Undisturbed
    <2>4. OwnInv(t)'
        BY <1>1, <1>3, <2>1, <2>2, <2>3 DEF OwnInv
    <2>5. QED
        BY <1>2, <2>4
<1>4. CASE th'[t].pc \in After
    BY <1>2, <1>4, AfterOwn
<1>5. QED
    BY <1>1, <1>3, <1>4

\* t makes the call k, from place c of buffer b on, in the memory m.
Calls(t, m, b, c, D, k) ==
    /\ m \in [Threads -> Seq(Text)] /\ (\A s \in Threads \ {t} : m[s] = mem[s])
    /\ b \in Threads /\ c \in Nat \ {0}
    /\ b = t \/ cur = <<b, c>>
    /\ NUL \notin D /\ k = Cut(m, <<b, c>>, D)
    /\ Shared(t, k) /\ PathOf(t, k)

LEMMA CallsAway ==
    ASSUME TypeOK, NEW t \in Threads, NEW s \in Threads \ {t}, OwnInv(s),
           NEW m, NEW b, NEW c, NEW D, NEW k, Calls(t, m, b, c, D, k)
    PROVE  OwnInv(s)'
<1>1. /\ m \in [Threads -> Seq(Text)] /\ m[s] = mem[s]
      /\ b \in Threads /\ c \in Nat \ {0} /\ NUL \notin D
      /\ b = t \/ cur = <<b, c>>
      /\ k = Cut(m, <<b, c>>, D)
      /\ Shared(t, k) /\ PathOf(t, k)
    BY DEF Calls
<1>2. QED
    BY <1>1, CutAway

LEMMA ReadCalls ==
    ASSUME TypeOK, NEW t \in Threads, NEW q, NEW k, ReadBy(t, q, k)
    PROVE  \E m, b, c, D : Calls(t, m, b, c, D, k)
<1>1. q \in Seq(Text) /\ th'[t].pc = "method" /\ Shared(t, k)
      /\ k = Cut([mem EXCEPT ![t] = q], <<t, 1>>, LineEnd)
    BY DEF ReadBy
<1>2. PICK m \in [Threads -> Seq(Text)] :
        m = [mem EXCEPT ![t] = q] /\ \A s \in Threads \ {t} : m[s] = mem[s]
    BY <1>1 DEF TypeOK
<1>3. k = Cut(m, <<t, 1>>, LineEnd) /\ 1 \in Nat \ {0} /\ NUL \notin LineEnd
    BY <1>1, <1>2, NoNul
<1>4. PathOf(t, k)
    BY <1>1 DEF PathOf
<1>5. Calls(t, m, t, 1, LineEnd, k)
    BY <1>1, <1>2, <1>3, <1>4 DEF Calls
<1>6. QED
    BY <1>5

\* A call of Token is a call from the cursor, or from a place in t's own buffer.
LEMMA TokenCalls ==
    ASSUME TypeOK, NEW t \in Threads, NEW g \in Pointer, g = NULL \/ g[1] = t,
           cur # NULL, NEW k, k = Token(mem, g, Blank), Shared(t, k), PathOf(t, k)
    PROVE  \E m, b, c, D : Calls(t, m, b, c, D, k)
<1>1. mem \in [Threads -> Seq(Text)] /\ cur \in Pointer
    BY DEF TypeOK
<1>2. PICK b \in Threads, c \in Nat \ {0} :
        (IF g = NULL THEN cur ELSE g) = <<b, c>> /\ (b = t \/ cur = <<b, c>>)
    BY <1>1 DEF Pointer
<1>3. k = Cut(mem, <<b, c>>, Blank)
    BY <1>2, Zenon DEF Token
<1>4. Calls(t, mem, b, c, Blank, k)
    BY <1>1, <1>2, <1>3, NoNul DEF Calls
<1>5. QED
    BY <1>4

LEMMA MethodCalls ==
    ASSUME TypeOK, CursorInv, NEW t \in Threads, OwnInv(t), NEW k,
           CutBy(t, "method", th[t].get, k, [th[t] EXCEPT !.pc = "path"])
    PROVE  \E m, b, c, D : Calls(t, m, b, c, D, k)
<1>1. /\ th[t].pc = "method" /\ th'[t] = [th[t] EXCEPT !.pc = "path"]
      /\ k = Token(mem, th[t].get, Blank) /\ Shared(t, k)
    BY Zenon DEF CutBy
<1>2. PICK g \in Pointer : g = th[t].get
    BY DEF TypeOK, Thread
<1>3. (g = NULL \/ g[1] = t) /\ cur # NULL
    BY <1>1, <1>2 DEF OwnInv, CursorInv
<1>4. PathOf(t, k)
    BY <1>1 DEF PathOf, TypeOK, Thread
<1>5. QED
    BY <1>1, <1>2, <1>3, <1>4, TokenCalls

LEMMA PathCalls ==
    ASSUME TypeOK, CursorInv, NEW t \in Threads, NEW k,
           CutBy(t, "path", NULL, k, [th[t] EXCEPT !.pc = "type", !.path = k.tok])
    PROVE  \E m, b, c, D : Calls(t, m, b, c, D, k)
<1>1. /\ th[t].pc = "path" /\ th'[t] = [th[t] EXCEPT !.pc = "type", !.path = k.tok]
      /\ k = Token(mem, NULL, Blank) /\ Shared(t, k)
    BY Zenon DEF CutBy
<1>2. NULL \in Pointer /\ cur # NULL
    BY <1>1 DEF CursorInv, Pointer
<1>3. PathOf(t, k)
    BY <1>1 DEF PathOf, TypeOK, Thread
<1>4. QED
    BY <1>1, <1>2, <1>3, TokenCalls

LEMMA TypeCalls ==
    ASSUME TypeOK, CursorInv, NEW t \in Threads, NEW k,
           CutBy(t, "type", NULL, k, [th[t] EXCEPT !.pc = "open", !.type = k.tok])
    PROVE  \E m, b, c, D : Calls(t, m, b, c, D, k)
<1>1. /\ th[t].pc = "type" /\ th'[t] = [th[t] EXCEPT !.pc = "open", !.type = k.tok]
      /\ k = Token(mem, NULL, Blank) /\ Shared(t, k)
    BY Zenon DEF CutBy
<1>2. NULL \in Pointer /\ cur # NULL
    BY <1>1 DEF CursorInv, Pointer
<1>3. PathOf(t, k)
    BY <1>1 DEF PathOf, TypeOK, Thread
<1>4. QED
    BY <1>1, <1>2, <1>3, TokenCalls

LEMMA CutsKeepOwn ==
    ASSUME TypeOK, CursorInv, \A s \in Threads : OwnInv(s), NEW t \in Threads,
           Read(t) \/ CutMethod(t) \/ CutPath(t) \/ CutType(t)
    PROVE  \A s \in Threads : OwnInv(s)'
<1>1. \E k : OwnInv(t)' /\ \E m, b, c, D : Calls(t, m, b, c, D, k)
    <2>1. CASE Read(t)
        <3>1. PICK q, k : ReadBy(t, q, k)
            BY <2>1, ReadDoes
        <3>2. OwnInv(t)' /\ \E m, b, c, D : Calls(t, m, b, c, D, k)
            BY <3>1, ReadOwn, ReadCalls
        <3>3. QED
            BY <3>2
    <2>2. CASE CutMethod(t)
        <3>1. PICK k : CutBy(t, "method", th[t].get, k, [th[t] EXCEPT !.pc = "path"])
            BY <2>2, CutsDo, Zenon
        <3>2. OwnInv(t)' /\ \E m, b, c, D : Calls(t, m, b, c, D, k)
            BY <3>1, MethodOwn, MethodCalls
        <3>3. QED
            BY <3>2
    <2>3. CASE CutPath(t)
        <3>1. PICK k : CutBy(t, "path", NULL, k,
                             [th[t] EXCEPT !.pc = "type", !.path = k.tok])
            BY <2>3, CutsDo, Zenon
        <3>2. OwnInv(t)' /\ \E m, b, c, D : Calls(t, m, b, c, D, k)
            BY <3>1, PathOwn, PathCalls
        <3>3. QED
            BY <3>2
    <2>4. CASE CutType(t)
        <3>1. PICK k : CutBy(t, "type", NULL, k,
                             [th[t] EXCEPT !.pc = "open", !.type = k.tok])
            BY <2>4, CutsDo, Zenon
        <3>2. OwnInv(t)' /\ \E m, b, c, D : Calls(t, m, b, c, D, k)
            BY <3>1, TypeOwn, TypeCalls
        <3>3. QED
            BY <3>2
    <2>5. QED
        BY <2>1, <2>2, <2>3, <2>4
<1>2. PICK k, m, b, c, D : OwnInv(t)' /\ Calls(t, m, b, c, D, k)
    BY <1>1
<1>3. \A s \in Threads \ {t} : OwnInv(s)'
    BY <1>2, CallsAway
<1>4. QED
    BY <1>2, <1>3

LEMMA NamesKeepOwn ==
    ASSUME TypeOK, \A s \in Threads : OwnInv(s), NEW t \in Threads, OpenNamed(t)
    PROVE  \A s \in Threads : OwnInv(s)'
<1>1. PICK b, c : Naming(t, b, c)
    BY NamingFacts
<1>2. OwnInv(t)'
    BY <1>1, AfterOwn DEF Naming
<1>3. \A s \in Threads \ {t} : OwnInv(s)'
    BY <1>1, NamingAway
<1>4. QED
    BY <1>2, <1>3

LEMMA NextOwn ==
    ASSUME ServerInv, \A s \in Threads : OwnInv(s), [Next]_vars
    PROVE  \A s \in Threads : OwnInv(s)'
<1>1. TypeOK /\ CursorInv /\ \A t \in Threads : PlaceInv(t)
    BY DEF ServerInv
<1>2. ASSUME NEW t \in Threads,
             \/ Accept(t) \/ AcceptFails(t) \/ Ignore(t) \/ OpenIndex(t)
             \/ SendError(t) \/ SendHeader(t) \/ SendBlock(t) \/ SendRest(t) \/ Close(t)
      PROVE  \A s \in Threads : OwnInv(s)'
    <2>1. Quiet(t)
        BY <1>1, <1>2, QuietSteps
    <2>2. QED
        BY <2>1, QuietKeeps
<1>3. ASSUME NEW t \in Threads, Read(t) \/ CutMethod(t) \/ CutPath(t) \/ CutType(t)
      PROVE  \A s \in Threads : OwnInv(s)'
    BY <1>1, <1>3, CutsKeepOwn
<1>4. ASSUME NEW t \in Threads, OpenNamed(t)
      PROVE  \A s \in Threads : OwnInv(s)'
    BY <1>1, <1>4, NamesKeepOwn
<1>5. ASSUME th' = th, mem' = mem, cur' = cur, asked' = asked,
             \A s \in Threads : trouble[s] \subseteq trouble'[s]
      PROVE  \A s \in Threads : OwnInv(s)'
    <2>1. ASSUME NEW s \in Threads
          PROVE  OwnInv(s)'
        <3>1. \A r \in Threads \ {s} : Uses(r, s)' => Uses(r, s) /\ th'[r].path = th[r].path
            BY <1>5 DEF Uses
        <3>2. /\ OwnInv(s) /\ th'[s] = th[s] /\ mem'[s] = mem[s] /\ asked'[s] = asked[s]
              /\ trouble[s] \subseteq trouble'[s] /\ cur' = cur
            BY <1>5
        <3>3. QED
            BY <3>1, <3>2, StepAway
    <2>2. QED
        BY <2>1
<1>6. ASSUME NEW t \in Threads, Leave(t)
      PROVE  \A s \in Threads : OwnInv(s)'
    <2>1. /\ th' = th /\ mem' = mem /\ cur' = cur /\ asked' = asked
          /\ \A s \in Threads : trouble[s] \subseteq trouble'[s]
        BY <1>1, <1>6, LeaveFacts
    <2>2. QED
        BY <1>5, <2>1
<1>7. CASE UNCHANGED vars
    <2>1. /\ th' = th /\ mem' = mem /\ cur' = cur /\ asked' = asked
          /\ \A s \in Threads : trouble[s] \subseteq trouble'[s]
        BY <1>7 DEF vars
    <2>2. QED
        BY <1>5, <2>1
<1>8. ASSUME NEW t \in Threads, ThreadStep(t)
      PROVE  \A s \in Threads : OwnInv(s)'
    BY <1>2, <1>3, <1>4, <1>8, Zenon DEF ThreadStep
<1>9. CASE Next
    BY <1>2, <1>3, <1>6, <1>8, <1>9, Zenon DEF Next
<1>10. QED
    BY <1>7, <1>9

LEMMA OwnCorrect == Spec => [](\A t \in Threads : OwnInv(t))
<1> DEFINE I == \A t \in Threads : OwnInv(t)
<1>1. Init => I
    <2>1. SUFFICES ASSUME Init, NEW t \in Threads
                   PROVE  OwnInv(t)
        OBVIOUS
    <2>2. /\ \A s \in Threads : th[s].pc = "idle"
          /\ cur = NULL /\ asked[t] = NoFile
        BY <2>1, IdleType DEF Init
    <2>3. ~Points(t)
        BY <2>2 DEF Points, Uses
    <2>4. Undisturbed(t)
        BY <2>2 DEF Undisturbed
    <2>5. QED
        BY <2>2, <2>3, <2>4 DEF OwnInv
<1>2. ASSUME ServerInv, I, [Next]_vars
      PROVE  I'
    BY <1>2, NextOwn
<1>3. QED
    BY <1>1, <1>2, ServerCorrect, PTL DEF Spec

-----------------------------------------------------------------------------
(* Which file.                                                             *)

\* The third word of t is as long as that of line q.
SameType(t, q) ==
    /\ th[t].type = NULL <=> TypeCut(q).tok = NULL
    /\ \A W : Overruns(mem, th[t].type, W) <=> Overruns(TypeCut(q).mem, TypeCut(q).tok, W)

\* t, whose line is q, looks for file w, which that line means.
Chooses(t, q, w) ==
    /\ PathCut(q).tok # NULL
    /\ w = FileOf(StringAt(PathCut(q).mem, PathCut(q).tok))
    /\ SameType(t, q)
    /\ \E i \in BOOLEAN : Opens(t, w, i) \/ OpenFails(t, w)

LEMMA FileOfIs ==
    ASSUME NEW w
    PROVE  /\ w \in {<<"/">>, <<"/", "inside/">>} => FileOf(w) = Index
           /\ w \notin {<<"/">>, <<"/", "inside/">>} => FileOf(w) = Named(Stem(w))
    BY Zenon DEF FileOf, Stem, Inside

\* The path of a thread that nobody interrupted.
LEMMA PathOfOwn ==
    ASSUME NEW t \in Threads, OwnInv(t), "mixed" \notin trouble[t], th[t].pc = "open"
    PROVE  \E q \in Given(t) :
                /\ SameType(t, q)
                /\ th[t].path = NULL <=> PathCut(q).tok = NULL
                /\ th[t].path # NULL => HasPath(t, q)
<1>1. PICK q \in Given(t) : InOpen(t, q)
    BY DEF OwnInv, Undisturbed
<1>2. HasPath(t, q) => th[t].path # NULL /\ PathCut(q).tok # NULL
    BY PairsAreNotNull DEF HasPath, WordAt
<1>3. SameType(t, q)
    <2>1. CASE th[t].type = NULL /\ TypeCut(q).tok = NULL
        BY <2>1, Zenon DEF SameType, Overruns
    <2>2. CASE HasType(t, q)
        <3>1. PICK i : /\ th[t].type = <<t, i>> /\ TypeCut(q).tok = <<0, i>>
                       /\ StringAt(mem, <<t, i>>) = StringAt(TypeCut(q).mem, <<0, i>>)
            BY <2>2, Zenon DEF HasType, WordAt
        <3>2. StringAt(mem, th[t].type) = StringAt(TypeCut(q).mem, TypeCut(q).tok)
            BY <3>1, Zenon
        <3>3. th[t].type # NULL /\ TypeCut(q).tok # NULL
            BY <3>1, PairsAreNotNull
        <3>4. QED
            BY <3>2, <3>3, Zenon DEF SameType, Overruns
    <2>3. QED
        BY <1>1, <2>1, <2>2, Zenon DEF InOpen
<1>4. QED
    BY <1>1, <1>2, <1>3 DEF InOpen

LEMMA OpenChooses ==
    ASSUME TypeOK, NEW t \in Threads, OwnInv(t), "mixed" \notin trouble[t],
           OpenIndex(t) \/ OpenNamed(t)
    PROVE  \E q, w : q \in Given(t) /\ Chooses(t, q, w)
<1>1. th[t].pc = "open" /\ th[t].path # NULL
    <2>1. th[t].pc = "open"
        BY OpenIndexFacts, OpenNamedFacts
    <2>2. th[t].path # NULL
        BY Zenon DEF OpenIndex, OpenNamed
    <2>3. QED
        BY <2>1, <2>2
<1>2. PICK q \in Given(t) :
        /\ SameType(t, q)
        /\ PathCut(q).tok # NULL /\ HasPath(t, q)
    BY <1>1, PathOfOwn
<1>3. PICK i \in Nat \ {0} :
        /\ th[t].path = <<t, i>> /\ PathCut(q).tok = <<0, i>> /\ ByteAt(mem[t], i) # NUL
        /\ StringAt(mem, <<t, i>>) = StringAt(PathCut(q).mem, <<0, i>>)
    BY <1>2 DEF HasPath, WordAt
<1>4. PICK s : /\ s = StringAt(mem, th[t].path)
               /\ s = StringAt(PathCut(q).mem, PathCut(q).tok)
    BY <1>3
<1>5. CASE OpenIndex(t)
    <2>1. FileOf(s) = Index
        <3>1. s \in {<<"/">>, <<"/", "inside/">>}
            BY <1>4, <1>5, Zenon DEF OpenIndex, IsRoot
        <3>2. QED
            BY <3>1, FileOfIs, Zenon
    <2>2. Opens(t, Index, TRUE) \/ OpenFails(t, Index)
        BY <1>5, Zenon DEF OpenIndex
    <2>3. Chooses(t, q, Index)
        BY <1>2, <1>4, <2>1, <2>2, Zenon DEF Chooses
    <2>4. QED
        BY <2>3
<1>6. CASE OpenNamed(t)
    <2>1. FileOf(s) = Named(Stem(s))
        <3>1. s \notin {<<"/">>, <<"/", "inside/">>}
            BY <1>4, <1>6, Zenon DEF OpenNamed, IsRoot
        <3>2. QED
            BY <3>1, FileOfIs, Zenon
    <2>2. /\ mem' = Stripped(Moved(mem, <<t, i>>), <<t, i>>)
          /\ \E w \in {Named(StringAt(mem', <<t, i>>))} : Opens(t, w, FALSE) \/ OpenFails(t, w)
        BY <1>3, <1>6, Zenon DEF OpenNamed
    <2>3. StringAt(mem', <<t, i>>) = Stem(s)
        <3>1. mem \in [Threads -> Seq(Text)]
            BY DEF TypeOK
        <3>2. StringAt(Stripped(Moved(mem, <<t, i>>), <<t, i>>), <<t, i>>)
                  = Stem(StringAt(mem, <<t, i>>))
            BY <1>3, <3>1, CutoutString
        <3>3. QED
            BY <1>3, <1>4, <2>2, <3>2, Zenon
    <2>4. PICK w : w = Named(Stem(s)) /\ (Opens(t, w, FALSE) \/ OpenFails(t, w))
        BY <2>2, <2>3, Zenon
    <2>5. Chooses(t, q, w)
        BY <1>2, <1>4, <2>1, <2>4, Zenon DEF Chooses
    <2>6. QED
        BY <2>5
<1>7. QED
    BY <1>5, <1>6

\* Nothing befell t that could keep it from its own file.
Calm(t) == asked[t] # NoFile /\ trouble[t] = {}

\* A thread that was asked has a connection while it runs.  If nothing befell
\* it, it sends the file that the request means, or the error if there is none.
Chosen(t) ==
    /\ asked[t] # NoFile /\ th[t].pc # "done" => th[t].conn
    /\ Calm(t) =>
         /\ th[t].pc \in {"header", "body", "rest"} => th[t].file = Target[asked[t]]
         /\ th[t].pc = "error" => Target[asked[t]] = Absent
         /\ th[t].pc \in {"close", "done"} => th[t].out = Reply(asked[t])

LEMMA ReplyIs ==
    ASSUME NEW r
    PROVE  /\ Target[r] \in Names => Reply(r) = Whole(Target[r])
           /\ Target[r] = Absent => Reply(r) = <<Error500>>
           /\ Target[r] = NoFile => Reply(r) = <<>>
<1>1. Absent \notin Names /\ NoFile \notin Names /\ NoFile # Absent
    BY Zenon, FilesAssumption
<1>2. QED
    BY <1>1 DEF Reply

LEMMA MeantIs ==
    ASSUME NEW r \in Requests
    PROVE  /\ PathCut(Line[r]).tok = NULL => Target[r] = NoFile
           /\ \A w : /\ PathCut(Line[r]).tok # NULL
                     /\ w = FileOf(StringAt(PathCut(Line[r]).mem, PathCut(Line[r]).tok))
                     => Target[r] = IF w \in Names THEN w ELSE Absent
    BY Zenon, TargetAssumption DEF Meant

LEMMA ChosenAway ==
    ASSUME NEW s \in Threads, Chosen(s), th'[s] = th[s], asked'[s] = asked[s],
           trouble[s] \subseteq trouble'[s]
    PROVE  Chosen(s)'
<1>1. Calm(s)' => Calm(s)
    BY DEF Calm
<1>2. Reply(asked[s])' = Reply(asked[s])
    BY DEF Reply
<1>3. QED
    BY <1>1, <1>2 DEF Chosen

\* Until t has looked for its file, only the connection matters.
LEMMA ChosenEarly ==
    ASSUME NEW t \in Threads, th'[t].pc \in {"read", "method", "path", "type", "open"},
           asked'[t] # NoFile => th'[t].conn
    PROVE  Chosen(t)'
    BY DEF Chosen

LEMMA ReadAsks ==
    ASSUME TypeOK, NEW t \in Threads, Read(t), asked[t] = NoFile, asked'[t] # NoFile
    PROVE  th[t].conn
<1>1. PICK full : (full <=> th[t].conn /\ t \notin gone) /\ full \in BOOLEAN
    OBVIOUS
<1>2. ~(th[t].conn /\ t \notin gone) => asked' = asked
    BY Zenon DEF Read
<1>3. QED
    BY <1>2

LEMMA EarlyChosen ==
    ASSUME ServerInv, NEW t \in Threads, OwnInv(t), Chosen(t),
           \/ Accept(t) \/ AcceptFails(t) \/ Read(t)
           \/ CutMethod(t) \/ CutPath(t) \/ CutType(t)
    PROVE  Chosen(t)'
<1>1. TypeOK /\ CursorInv
    BY DEF ServerInv
<1>2. CASE Accept(t) \/ AcceptFails(t)
    <2>1. Starting(t)
        BY <1>1, <1>2, AcceptFacts
    <2>2. asked'[t] = NoFile /\ th'[t].pc = "read"
        BY <2>1 DEF Starting, OwnInv
    <2>3. QED
        BY <2>2, ChosenEarly
<1>3. CASE Read(t)
    <2>1. Cutting(t, "method") /\ th[t].pc = "read"
        BY <1>1, <1>3, ReadFacts
    <2>2. asked[t] = NoFile
        BY <2>1 DEF OwnInv
    <2>3. asked'[t] # NoFile => th[t].conn
        BY <1>1, <1>3, <2>2, ReadAsks
    <2>4. QED
        BY <2>1, <2>3, ChosenEarly DEF Cutting
<1>4. CASE CutMethod(t) \/ CutPath(t) \/ CutType(t)
    <2>1. PICK pc \in {"path", "type", "open"} : Cutting(t, pc)
        BY <1>1, <1>4, CutMethodFacts, CutPathFacts, CutTypeFacts
    <2>2. asked' = asked /\ th[t].pc \in {"method", "path", "type"}
        BY <1>4 DEF CutMethod, CutPath, CutType, Cuts, At
    <2>3. asked'[t] # NoFile => th'[t].conn
        BY <2>1, <2>2 DEF Chosen, Cutting
    <2>4. QED
        BY <2>1, <2>3, ChosenEarly DEF Cutting
<1>5. QED
    BY <1>2, <1>3, <1>4

LEMMA OpensFile ==
    ASSUME TypeOK, NEW t \in Threads, NEW w, NEW i \in BOOLEAN, Opens(t, w, i)
    PROVE  /\ w \in Names /\ th'[t].pc = "header" /\ th'[t].file = w
           /\ up' = ~Overruns(mem, th[t].type, Huge)
<1>1. /\ w \in Names /\ up' = ~Overruns(mem, th[t].type, Huge)
      /\ Goto(t, "open", [th[t] EXCEPT !.pc = "header", !.file = w, !.index = i,
                                       !.fs = Size(w)])
    BY DEF Opens
<1>2. QED
    BY <1>1 DEF Goto, Become, TypeOK, Thread

LEMMA FailsFile ==
    ASSUME TypeOK, NEW t \in Threads, NEW w, OpenFails(t, w)
    PROVE  /\ th'[t].pc = "error"
           /\ up' = (th[t].type # NULL /\ ~Overruns(mem, th[t].type, Long))
           /\ w \in Names => "short" \in trouble'[t]
<1>1. /\ Goto(t, "open", [th[t] EXCEPT !.pc = "error"])
      /\ up' = (th[t].type # NULL /\ ~Overruns(mem, th[t].type, Long))
      /\ trouble' = Befalls(IF w \in Names THEN {t} ELSE {}, "short")
    BY DEF OpenFails, FailsToOpen
<1>2. th'[t].pc = "error"
    BY <1>1 DEF Goto, Become, TypeOK, Thread
<1>3. w \in Names => "short" \in trouble'[t]
    <2>1. ASSUME w \in Names
          PROVE  trouble' = Befalls({t}, "short")
        BY <1>1, <2>1
    <2>2. QED
        BY <2>1, BefallsType DEF TypeOK
<1>4. QED
    BY <1>1, <1>2, <1>3

LEMMA OpenChosen ==
    ASSUME ServerInv, NEW t \in Threads, OwnInv(t), Chosen(t), OpenIndex(t) \/ OpenNamed(t)
    PROVE  Chosen(t)'
<1>1. TypeOK
    BY DEF ServerInv
<1>2. Opening(t) /\ asked' = asked /\ th[t].pc = "open"
    BY <1>1, OpenIndexFacts, OpenNamedFacts
<1>3. asked'[t] # NoFile /\ th'[t].pc # "done" => th'[t].conn
    BY <1>2 DEF Chosen, Opening
<1>4. ASSUME Calm(t)'
      PROVE  \/ th'[t].pc = "header" /\ th'[t].file = Target[asked'[t]]
             \/ th'[t].pc = "error" /\ Target[asked'[t]] = Absent
    <2>1. asked'[t] = asked[t] /\ asked[t] # NoFile /\ trouble'[t] = {} /\ trouble[t] = {}
        BY <1>2, <1>4 DEF Calm, Opening
    <2>2. PICK r \in Requests : r = asked[t]
        BY <1>1, <2>1 DEF TypeOK
    <2>3. PICK q, w : q \in Given(t) /\ Chooses(t, q, w)
        BY <1>1, <2>1, OpenChooses
    <2>4. q = Line[r]
        BY <2>1, <2>2, <2>3 DEF Given
    <2>5. Target[r] = IF w \in Names THEN w ELSE Absent
        BY <2>3, <2>4, MeantIs, Zenon DEF Chooses
    <2>6. PICK i \in BOOLEAN : Opens(t, w, i) \/ OpenFails(t, w)
        BY <2>3, Zenon DEF Chooses
    <2>7. CASE Opens(t, w, i)
        BY <1>1, <2>1, <2>2, <2>5, <2>7, OpensFile
    <2>8. CASE OpenFails(t, w)
        <3>1. th'[t].pc = "error" /\ w \notin Names
            BY <1>1, <2>1, <2>8, FailsFile
        <3>2. QED
            BY <2>1, <2>2, <2>5, <3>1
    <2>9. QED
        BY <2>6, <2>7, <2>8
<1>5. th'[t].pc \in {"header", "error"}
    BY <1>2 DEF Opening
<1>6. QED
    BY <1>3, <1>4, <1>5 DEF Chosen

LEMMA IgnoreChosen ==
    ASSUME ServerInv, NEW t \in Threads, OwnInv(t), Chosen(t), Ignore(t)
    PROVE  Chosen(t)'
<1>1. TypeOK
    BY DEF ServerInv
<1>2. /\ th[t].pc = "open" /\ th'[t].pc = "close" /\ th'[t].conn = th[t].conn
      /\ th'[t].out = th[t].out /\ asked' = asked /\ trouble' = trouble
    BY <1>1, IgnoreFacts
<1>3. th[t].path = NULL /\ th[t].out = <<>>
    BY <1>2 DEF Ignore, ServerInv, PlaceInv, Before
<1>4. ASSUME Calm(t)
      PROVE  Reply(asked[t]) = <<>>
    <2>1. PICK r \in Requests : r = asked[t]
        BY <1>1, <1>4 DEF TypeOK, Calm
    <2>2. PICK q \in Given(t) : PathCut(q).tok = NULL
        BY <1>2, <1>3, <1>4, PathOfOwn DEF Calm
    <2>3. q = Line[r]
        BY <1>4, <2>1, <2>2 DEF Given, Calm
    <2>4. Target[r] = NoFile
        BY <2>2, <2>3, MeantIs, Zenon
    <2>5. QED
        BY <2>1, <2>4, ReplyIs
<1>5. Calm(t)' <=> Calm(t)
    BY <1>2 DEF Calm
<1>6. Reply(asked[t])' = Reply(asked[t])
    BY <1>2 DEF Reply
<1>7. QED
    BY <1>2, <1>3, <1>4, <1>5, <1>6 DEF Chosen

\* What t writes reaches its client, if nothing befell it.
LEMMA CalmReceives ==
    ASSUME NEW t \in Threads, ReplyInv(t), Chosen(t), Calm(t), th[t].pc # "done",
           NEW from, NEW to, NEW pos, NEW fs, NEW data,
           Writing(t, from, to, pos, fs, data)
    PROVE  th'[t].out = th[t].out \o data /\ th[t].conn /\ t \notin gone
    BY DEF ReplyInv, Chosen, Calm, Writing

\* A write changes neither the file nor what was asked.
LEMMA WriteChosen ==
    ASSUME NEW t \in Threads, Chosen(t), NEW from, NEW to, NEW pos, NEW fs, NEW data,
           Writing(t, from, to, pos, fs, data), from # "done", to \in After,
           to \in {"header", "body", "rest"} => from \in {"header", "body", "rest"},
           to # "error", to \in {"close", "done"} /\ Calm(t) => th'[t].out = Reply(asked[t])
    PROVE  Chosen(t)'
<1>1. /\ th[t].pc = from /\ th'[t].pc = to /\ asked' = asked /\ trouble' = trouble
      /\ th'[t].conn = th[t].conn /\ th'[t].file = th[t].file
    BY DEF Writing
<1>2. Calm(t)' <=> Calm(t)
    BY <1>1 DEF Calm
<1>3. Reply(asked[t])' = Reply(asked[t])
    BY <1>1 DEF Reply
<1>4. QED
    BY <1>1, <1>2, <1>3 DEF Chosen

LEMMA ErrorChosen ==
    ASSUME ServerInv, NEW t \in Threads, ReplyInv(t), Chosen(t), SendError(t)
    PROVE  Chosen(t)'
<1>1. Writing(t, "error", "close", th[t].pos, th[t].fs, <<Error500>>)
    BY SendErrorFacts DEF ServerInv
<1>2. th[t].out = <<>> /\ th[t].pc = "error"
    BY <1>1 DEF ServerInv, PlaceInv, Before, Writing
<1>3. <<>> \o <<Error500>> = <<Error500>>
    BY PartsTypes, ConcatEmptySeq
<1>4. ASSUME Calm(t)
      PROVE  th'[t].out = Reply(asked[t])
    <2>1. Target[asked[t]] = Absent
        BY <1>2, <1>4 DEF Chosen
    <2>2. th'[t].out = th[t].out \o <<Error500>>
        BY <1>1, <1>2, <1>4, CalmReceives
    <2>3. QED
        BY <1>2, <1>3, <2>1, <2>2, ReplyIs
<1>5. QED
    BY <1>1, <1>4, WriteChosen DEF After

LEMMA PieceChosen ==
    ASSUME ServerInv, NEW t \in Threads, ReplyInv(t), Chosen(t),
           SendHeader(t) \/ SendBlock(t)
    PROVE  Chosen(t)'
<1>1. TypeOK /\ PlaceInv(t)
    BY DEF ServerInv
<1>2. PICK from, to, pos, fs, data :
        /\ from \in {"header", "body"} /\ to \in {"body", "rest"}
        /\ Writing(t, from, to, pos, fs, data)
    BY <1>1, SendHeaderFacts, SendBlockFacts DEF Sending
<1>3. QED
    BY <1>2, WriteChosen DEF After

LEMMA RestChosen ==
    ASSUME ServerInv, NEW t \in Threads, ReplyInv(t), Chosen(t), SendRest(t)
    PROVE  Chosen(t)'
<1>1. PICK w, k, e, q :
        /\ w = th[t].file /\ k = th[t].pos /\ e = Len(Page[w]) /\ q = SubSeq(Page[w], k + 1, e)
        /\ w \in Names /\ e \in k..Len(Page[w])
        /\ Writing(t, "rest", "close", e, Size(w) - e, q)
    BY SendRestFacts DEF ServerInv, Sending
<1>2. k \in 0..Len(Page[w]) /\ th[t].pc = "rest"
    BY <1>1 DEF ServerInv, PlaceInv, Writing
<1>3. SentPart(w, k) \o q = Whole(w)
    BY <1>1, <1>2, NextPiece, EndPieces
<1>4. ASSUME Calm(t)
      PROVE  th'[t].out = Reply(asked[t])
    <2>1. Target[asked[t]] = w
        BY <1>1, <1>2, <1>4 DEF Chosen
    <2>2. th'[t].out = th[t].out \o q /\ th[t].conn /\ t \notin gone
        BY <1>1, <1>2, <1>4, CalmReceives
    <2>3. th[t].out = SentPart(w, k)
        BY <1>1, <1>2, <2>2 DEF ReplyInv
    <2>4. QED
        BY <1>1, <1>3, <2>1, <2>2, <2>3, ReplyIs
<1>5. QED
    BY <1>1, <1>4, WriteChosen DEF After

LEMMA CloseChosen ==
    ASSUME ServerInv, NEW t \in Threads, Chosen(t), Close(t)
    PROVE  Chosen(t)'
<1>1. /\ th[t].pc = "close" /\ th'[t].pc = "done" /\ th'[t].out = th[t].out
      /\ asked' = asked /\ trouble' = trouble
    BY CloseFacts DEF ServerInv
<1>2. Calm(t)' <=> Calm(t)
    BY <1>1 DEF Calm
<1>3. Reply(asked[t])' = Reply(asked[t])
    BY <1>1 DEF Reply
<1>4. QED
    BY <1>1, <1>2, <1>3 DEF Chosen

LEMMA StepChosen ==
    ASSUME ServerInv, NEW t \in Threads, OwnInv(t), ReplyInv(t), \A s \in Threads : Chosen(s),
           \/ Accept(t) \/ AcceptFails(t) \/ Read(t) \/ ThreadStep(t)
    PROVE  Chosen(t)'
<1>1. Chosen(t)
    OBVIOUS
<1>2. CASE \/ Accept(t) \/ AcceptFails(t) \/ Read(t)
           \/ CutMethod(t) \/ CutPath(t) \/ CutType(t)
    BY <1>1, <1>2, EarlyChosen
<1>3. CASE OpenIndex(t) \/ OpenNamed(t)
    BY <1>1, <1>3, OpenChosen
<1>4. CASE SendHeader(t) \/ SendBlock(t)
    BY <1>1, <1>4, PieceChosen
<1>5. CASE Ignore(t)
    BY <1>1, <1>5, IgnoreChosen
<1>6. CASE SendError(t)
    BY <1>1, <1>6, ErrorChosen
<1>7. CASE SendRest(t)
    BY <1>1, <1>7, RestChosen
<1>8. CASE Close(t)
    BY <1>1, <1>8, CloseChosen
<1>9. QED
    BY <1>2, <1>3, <1>4, <1>5, <1>6, <1>7, <1>8, Zenon DEF ThreadStep

\* A step of t leaves what the others were asked.
LEMMA OthersAsked ==
    ASSUME ServerInv, NEW t \in Threads, NEW s \in Threads \ {t},
           \/ Accept(t) \/ AcceptFails(t) \/ Read(t) \/ ThreadStep(t)
    PROVE  asked'[s] = asked[s]
<1>1. TypeOK /\ CursorInv /\ PlaceInv(t)
    BY DEF ServerInv
<1>2. CASE Read(t)
    <2>1. PICK q, k : ReadBy(t, q, k)
        BY <1>1, <1>2, ReadDoes
    <2>2. QED
        BY <2>1 DEF ReadBy, Shared
<1>3. CASE CutMethod(t) \/ CutPath(t) \/ CutType(t)
    BY <1>3 DEF CutMethod, CutPath, CutType, Cuts
<1>4. CASE OpenNamed(t)
    BY <1>1, <1>4, OpenNamedFacts
<1>5. CASE ~(Read(t) \/ CutMethod(t) \/ CutPath(t) \/ CutType(t) \/ OpenNamed(t))
    <2>1. \/ Accept(t) \/ AcceptFails(t) \/ Ignore(t) \/ OpenIndex(t)
          \/ SendError(t) \/ SendHeader(t) \/ SendBlock(t) \/ SendRest(t) \/ Close(t)
        BY <1>5, Zenon DEF ThreadStep
    <2>2. Quiet(t)
        BY <1>1, <2>1, QuietSteps
    <2>3. QED
        BY <2>2 DEF Quiet
<1>6. QED
    BY <1>2, <1>3, <1>4, <1>5

LEMMA ChosenCorrect == Spec => [](\A t \in Threads : Chosen(t))
<1> DEFINE I == \A t \in Threads : Chosen(t)
           O == \A t \in Threads : OwnInv(t)
           R == \A t \in Threads : ReplyInv(t)
<1>1. Init => I
    BY IdleType DEF Init, Chosen, Calm
<1>2. ASSUME ServerInv, O, R, I, [Next]_vars
      PROVE  I'
    <2>1. ASSUME NEW t \in Threads,
                 \/ Accept(t) \/ AcceptFails(t) \/ Read(t) \/ ThreadStep(t)
          PROVE  I'
        <3>1. Chosen(t)'
            BY <1>2, <2>1, StepChosen
        <3>2. Others(t) /\ \A s \in Threads : trouble[s] \subseteq trouble'[s]
            BY <1>2, <2>1, StepReplies
        <3>3. ASSUME NEW s \in Threads \ {t}
              PROVE  Chosen(s)'
            <4>1. asked'[s] = asked[s]
                BY <1>2, <2>1, OthersAsked
            <4>2. QED
                BY <1>2, <3>2, <4>1, ChosenAway DEF Others
        <3>4. QED
            BY <3>1, <3>3
    <2>2. ASSUME th' = th, asked' = asked, \A s \in Threads : trouble[s] \subseteq trouble'[s]
          PROVE  I'
        BY <1>2, <2>2, ChosenAway
    <2>3. ASSUME NEW t \in Threads, Leave(t)
          PROVE  I'
        <3>1. th' = th /\ asked' = asked /\ \A s \in Threads : trouble[s] \subseteq trouble'[s]
            BY <1>2, <2>3, LeaveFacts DEF ServerInv
        <3>2. QED
            BY <2>2, <3>1
    <2>4. CASE UNCHANGED vars
        <3>1. th' = th /\ asked' = asked /\ \A s \in Threads : trouble[s] \subseteq trouble'[s]
            BY <2>4 DEF vars
        <3>2. QED
            BY <2>2, <3>1
    <2>5. QED
        BY <1>2, <2>1, <2>3, <2>4, Zenon DEF Next
<1>3. QED
    BY <1>1, <1>2, ServerCorrect, OwnCorrect, RepliesCorrect, PTL DEF Spec

\* For any files and any requests, and for two threads or, while none of them is
\* mixed up, any number: a client that nobody interrupted while its request was
\* cut, that stayed, and for which there were descriptors receives the file that
\* it asked for, in full, or the error that it has earned, whatever the other
\* threads do to the cursor, the buffers and the descriptors (serv.c:104-176).
THEOREM RepliesAreOwn == Spec => []OwnReply
<1>1. (\A t \in Threads : Chosen(t)) => OwnReply
    BY DEF OwnReply, Chosen, Calm
<1>2. QED
    BY <1>1, ChosenCorrect, PTL

-----------------------------------------------------------------------------
(* What brings the process down.                                           *)

\* m is n but for a zero at place z.
Zeroed(m, n, z) ==
    /\ m \in [{0} -> Seq(Text)] /\ Len(m[0]) = Len(n[0])
    /\ m[0][z] = NUL /\ \A x \in 1..Len(n[0]) : x # z => m[0][x] = n[0][x]

LEMMA ZeroIs ==
    ASSUME NEW n \in [{0} -> Seq(Text)], NEW z \in 1..Len(n[0])
    PROVE  Zeroed([n EXCEPT ![0] = [n[0] EXCEPT ![z] = NUL]], n, z)
<1>1. PICK q \in Seq(Text) : q = n[0]
    OBVIOUS
<1>2. PICK r \in Seq(Text) : /\ r = [q EXCEPT ![z] = NUL] /\ Len(r) = Len(q) /\ r[z] = NUL
                             /\ \A x \in 1..Len(q) : x # z => r[x] = q[x]
    <2>1. PICK r : r = [q EXCEPT ![z] = NUL]
        OBVIOUS
    <2>2. NUL \in Text /\ z \in 1..Len(q)
        BY <1>1, NoNul
    <2>3. r \in Seq(Text)
        BY <2>1, <2>2, ExceptSeq, Zenon
    <2>4. Len(r) = Len(q)
        BY <2>1, <2>2, ExceptSeq, SMT
    <2>5. r[z] = NUL /\ \A x \in 1..Len(q) : x # z => r[x] = q[x]
        BY <2>1, <2>2
    <2>6. QED
        BY <2>1, <2>3, <2>4, <2>5
<1>3. [n EXCEPT ![0] = r] \in [{0} -> Seq(Text)] /\ [n EXCEPT ![0] = r][0] = r
    OBVIOUS
<1>4. QED
    BY <1>1, <1>2, <1>3 DEF Zeroed

\* At place i of buffer n is a word, with the separator b behind it; a call k
\* takes both.
Word(n, i, b) ==
    /\ i \in Nat \ {0} /\ i + 1 \in 1..Len(n[0])
    /\ n[0][i] # NUL /\ n[0][i] # b /\ n[0][i + 1] = b /\ b # NUL
Took(k, n, i) == k.cur = <<0, i + 2>> /\ Zeroed(k.mem, n, i + 1)

LEMMA WordCut ==
    ASSUME NEW n \in [{0} -> Seq(Text)], NEW i, NEW b, Word(n, i, b),
           NEW k, k = Cut(n, <<0, i>>, {b})
    PROVE  Took(k, n, i)
<1>1. PICK e \in 1..Len(n[0]) : e = i + 1
    BY DEF Word
<1>2. /\ 0 \in {0} /\ i \in DOMAIN n[0] /\ n[0][i] \notin {b}
      /\ i + 1 \in DOMAIN n[0] /\ n[0][i + 1] \in {b} /\ n[0][i + 1] # NUL /\ n[0][i] # NUL
    BY DEF Word
<1>3. FindsOne(n, 0, i, {b}, i)
    BY <1>2, CutFinds
<1>4. PICK a, c, x : /\ a = <<0, i>> /\ c = <<0, i + 2>>
                     /\ x = [n EXCEPT ![0] = [n[0] EXCEPT ![i + 1] = NUL]]
                     /\ k = [tok |-> a, cur |-> c, mem |-> x]
    BY <1>3, Zenon DEF FindsOne
<1>5. k.cur = c /\ k.mem = x
    <2>1. k = [tok |-> a, cur |-> c, mem |-> x]
        BY <1>4, Zenon
    <2>2. QED
        BY <2>1
<1>6. x = [n EXCEPT ![0] = [n[0] EXCEPT ![e] = NUL]]
    BY <1>1, <1>4, Zenon
<1>7. Zeroed(x, n, e)
    BY <1>6, ZeroIs, Zenon
<1>8. QED
    BY <1>1, <1>4, <1>5, <1>7, Zenon DEF Took

\* Six bytes: three words with b between them, and l at the end.
Six(q, b, l) ==
    /\ q \in Seq(Text) /\ Len(q) = 6 /\ b # NUL
    /\ \A i \in {1, 3, 5} : q[i] # NUL /\ q[i] # b
    /\ \A i \in {2, 4} : q[i] = b
    /\ q[6] = l

\* The call for a line takes the six bytes, up to the end.
LEMMA SixLine ==
    ASSUME NEW n \in [{0} -> Seq(Text)], NEW b, NEW l, Six(n[0], b, l), l # NUL,
           \A x \in 1..5 : n[0][x] # l, NEW k, k = Cut(n, <<0, 1>>, {l})
    PROVE  k.tok = <<0, 1>> /\ k.mem \in [{0} -> Seq(Text)] /\ Six(k.mem[0], b, NUL)
<1>1. PICK q \in Seq(Text) : q = n[0] /\ Six(q, b, l) /\ \A x \in 1..5 : q[x] # l
    OBVIOUS
<1>2. Len(q) = 6 /\ DOMAIN q = 1..6 /\ q[6] = l /\ \A x \in 1..5 : q[x] # l /\ q[x] # NUL
    <2>1. \A x \in 1..5 : x \in {1, 3, 5} \/ x \in {2, 4}
        OBVIOUS
    <2>2. \A x \in 1..5 : q[x] # NUL
        BY <1>1, <2>1 DEF Six
    <2>3. QED
        BY <1>1, <2>2 DEF Six
<1>3. /\ \A x \in 1..5 : ByteAt(q, x) \notin {l} \cup {NUL}
      /\ ByteAt(q, 6) = l
    BY <1>2 DEF ByteAt
<1>4. PICK i, j : Token1(q, 1, {l}, i, j)
    <2>1. NUL \notin {l} /\ 1 \in Nat \ {0}
        OBVIOUS
    <2>2. QED
        BY <2>1, TokenIs
<1>5. i = 1
    <2>1. ByteAt(q, 1) \notin {l} /\ 1 \in Nat \ {0}
        BY <1>3
    <2>2. FirstNotIn(q, 1, {l}) = 1
        BY <2>1, FirstPlaces
    <2>3. QED
        BY <1>4, <2>2 DEF Token1
<1>6. j = 6
    <2>1. j \in Nat \ {0} /\ j = FirstIn(q, 1, {l} \cup {NUL}) /\ ByteAt(q, j) \in {l} \cup {NUL}
        BY <1>4, <1>5 DEF Token1
    <2>2. \A x \in 1..(j - 1) : ByteAt(q, x) \notin {l} \cup {NUL}
        <3>1. NUL \in {l} \cup {NUL} /\ 1 \in Nat \ {0}
            OBVIOUS
        <3>2. QED
            BY <2>1, <3>1, SearchPasses
    <2>3. ~(6 \in 1..(j - 1))
        BY <1>3, <2>2
    <2>4. j \in 1..6 /\ j \notin 1..5
        BY <1>3, <2>1, <2>3
    <2>5. QED
        BY <2>4
<1>7. PICK a, c, x : /\ a = <<0, 1>> /\ c = <<0, 6 + 1>> /\ x = [n EXCEPT ![0][6] = NUL]
                     /\ k = [tok |-> a, cur |-> c, mem |-> x]
    <2>1. Token1(n[0], 1, {l}, 1, 6)
        BY <1>1, <1>4, <1>5, <1>6
    <2>2. Found(k, n, 0, 1, 6)
        BY <2>1, CutFound
    <2>3. ByteAt(n[0], 1) # NUL /\ ByteAt(n[0], 6) # NUL
        <3>1. 1 \in 1..5
            OBVIOUS
        <3>2. QED
            BY <1>1, <1>3, <3>1
    <2>4. QED
        BY <2>2, <2>3, Zenon DEF Found
<1>8. k.tok = <<0, 1>> /\ k.mem = [n EXCEPT ![0] = [n[0] EXCEPT ![6] = NUL]]
    <2>1. k.tok = a /\ k.mem = x
        <3>1. k = [tok |-> a, cur |-> c, mem |-> x]
            BY <1>7, Zenon
        <3>2. QED
            BY <3>1
    <2>2. [n EXCEPT ![0][6] = NUL] = [n EXCEPT ![0] = [n[0] EXCEPT ![6] = NUL]]
        OBVIOUS
    <2>3. QED
        BY <1>7, <2>1, <2>2, Zenon
<1>9. 6 \in 1..Len(n[0])
    BY <1>1, <1>2
<1>10. Zeroed(k.mem, n, 6)
    BY <1>8, <1>9, ZeroIs, Zenon
<1>11. Six(k.mem[0], b, NUL)
    BY <1>1, <1>10 DEF Zeroed, Six
<1>12. QED
    BY <1>8, <1>10, <1>11 DEF Zeroed

\* The last three calls take the three words.
LEMMA SixWords ==
    ASSUME NEW m \in [{0} -> Seq(Text)], NEW b, Six(m[0], b, NUL),
           NEW h, h = Cut(m, <<0, 1>>, {b}),
           NEW k, k = Cut(h.mem, h.cur, {b}), NEW l, l = Cut(k.mem, k.cur, {b})
    PROVE  l.tok # NULL
<1>1. /\ Len(m[0]) = 6 /\ b # NUL /\ m[0][1] # NUL /\ m[0][1] # b /\ m[0][2] = b
      /\ m[0][3] # NUL /\ m[0][3] # b /\ m[0][4] = b
      /\ m[0][5] # NUL /\ m[0][5] # b /\ m[0][6] = NUL
    BY DEF Six
<1>2. h.cur = <<0, 1 + 2>> /\ Zeroed(h.mem, m, 1 + 1)
    <2>1. Word(m, 1, b)
        BY <1>1 DEF Word
    <2>2. Took(h, m, 1)
        BY <2>1, WordCut, Zenon
    <2>3. QED
        BY <2>2, Zenon DEF Took
<1>3. PICK n \in [{0} -> Seq(Text)] :
        /\ n = h.mem /\ Len(n[0]) = 6 /\ n[0][3] # NUL /\ n[0][3] # b /\ n[0][4] = b
        /\ n[0][5] # NUL /\ n[0][5] # b /\ n[0][6] = NUL
    <2>1. Zeroed(h.mem, m, 2)
        <3>1. 1 + 1 = 2
            OBVIOUS
        <3>2. QED
            BY <1>2, <3>1
    <2>2. PICK n : n = h.mem /\ Zeroed(n, m, 2)
        BY <2>1
    <2>3. n \in [{0} -> Seq(Text)] /\ Len(n[0]) = 6
        BY <1>1, <2>2 DEF Zeroed
    <2>4. \A x \in {3, 4, 5, 6} : n[0][x] = m[0][x]
        BY <1>1, <2>2 DEF Zeroed
    <2>5. QED
        BY <1>1, <2>2, <2>3, <2>4
<1>4. k.cur = <<0, 3 + 2>> /\ Zeroed(k.mem, n, 3 + 1)
    <2>1. Word(n, 3, b)
        BY <1>1, <1>3 DEF Word
    <2>2. k = Cut(n, <<0, 3>>, {b})
        <3>1. 1 + 2 = 3
            OBVIOUS
        <3>2. QED
            BY <1>2, <1>3, <3>1
    <2>3. Took(k, n, 3)
        BY <2>1, <2>2, WordCut, Zenon
    <2>4. QED
        BY <2>3, Zenon DEF Took
<1>5. PICK o \in [{0} -> Seq(Text)] :
        o = k.mem /\ Len(o[0]) = 6 /\ o[0][5] # NUL /\ o[0][5] # b /\ o[0][6] = NUL
    <2>1. Zeroed(k.mem, n, 4)
        <3>1. 3 + 1 = 4
            OBVIOUS
        <3>2. QED
            BY <1>4, <3>1
    <2>2. PICK o : o = k.mem /\ Zeroed(o, n, 4)
        BY <2>1
    <2>3. o \in [{0} -> Seq(Text)] /\ Len(o[0]) = 6
        BY <1>3, <2>2 DEF Zeroed
    <2>4. o[0][5] = n[0][5] /\ o[0][6] = n[0][6]
        <3>1. 5 \in 1..Len(n[0]) /\ 6 \in 1..Len(n[0]) /\ 5 # 4 /\ 6 # 4
            BY <1>3
        <3>2. QED
            BY <2>2, <3>1, Zenon DEF Zeroed
    <2>5. QED
        BY <1>3, <2>2, <2>3, <2>4
<1>6. FindsLast(o, 0, 5, {b}, 5)
    <2>1. 0 \in {0} /\ 5 \in DOMAIN o[0] /\ o[0][5] \notin {b} /\ o[0][5] # NUL
          /\ o[0][5 + 1] = NUL
        BY <1>5
    <2>2. QED
        BY <2>1, CutFinds
<1>7. l = Cut(o, <<0, 5>>, {b})
    <2>1. 3 + 2 = 5
        OBVIOUS
    <2>2. QED
        BY <1>4, <1>5, <2>1
<1>8. PICK a, c : a = <<0, 5>> /\ l = [tok |-> a, cur |-> c, mem |-> o]
    BY <1>6, <1>7, Zenon DEF FindsLast
<1>9. l.tok = a
    <2>1. l = [tok |-> a, cur |-> c, mem |-> o]
        BY <1>8, Zenon
    <2>2. QED
        BY <2>1
<1>10. QED
    BY <1>8, <1>9, PairsAreNotNull

\* What is left in a buffer names no file, or states a version.
LEMMA LeftoversQuiet ==
    ASSUME NEW q \in Leftovers
    PROVE  PathCut(q).tok = NULL \/ TypeCut(q).tok # NULL
<1>1. q \in Seq(Text)
    BY LeftoversAreText
<1>2. PICK g, h, k, l : g = LineCut(q) /\ h = MethodCut(q) /\ k = PathCut(q) /\ l = TypeCut(q)
    OBVIOUS
<1>3. /\ g = Cut([x \in {0} |-> q], <<0, 1>>, LineEnd) /\ h = Cut(g.mem, From(g), Blank)
      /\ k = Cut(h.mem, h.cur, Blank) /\ l = Cut(k.mem, k.cur, Blank)
    BY <1>2, RefCuts, Zenon
<1>4. PICK m \in [{0} -> Seq(Text)] :
        m = [x \in {0} |-> q] /\ m[0] = q /\ g = Cut(m, <<0, 1>>, LineEnd)
    BY <1>1, <1>3
<1>5. ASSUME NEW i \in Nat \ {0}, ByteAt(q, i) = NUL
      PROVE  Cut(m, <<0, i>>, Blank) = [tok |-> NULL, cur |-> <<0, i>>, mem |-> m]
    BY <1>4, <1>5, NoNul, CutAtEnd DEF FindsNothing
<1>6. CASE q = <<>>
    <2>1. ByteAt(q, 1) = NUL /\ 1 \in Nat \ {0}
        BY <1>6 DEF ByteAt
    <2>2. g = [tok |-> NULL, cur |-> <<0, 1>>, mem |-> m]
        BY <1>4, <2>1, NoNul, CutAtEnd DEF FindsNothing
    <2>3. From(g) = <<0, 1>> /\ g.mem = m
        BY <2>2 DEF From
    <2>4. h = [tok |-> NULL, cur |-> <<0, 1>>, mem |-> m]
        BY <1>3, <1>5, <2>1, <2>3
    <2>5. h.cur = <<0, 1>> /\ h.mem = m
        BY <2>4
    <2>6. k = [tok |-> NULL, cur |-> <<0, 1>>, mem |-> m]
        BY <1>3, <1>5, <2>1, <2>5
    <2>7. QED
        BY <1>2, <2>6
<1>7. ASSUME NEW a, q = <<a>>, a # NUL, a \notin LineEnd, a \notin Blank
      PROVE  k.tok = NULL
    <2>1. /\ 0 \in {0} /\ 1 \in DOMAIN m[0] /\ m[0][1] # NUL /\ 1 + 1 \notin DOMAIN m[0]
          /\ m[0][1] \notin LineEnd /\ m[0][1] \notin Blank
        BY <1>4, <1>7
    <2>2. FindsLast(m, 0, 1, LineEnd, 1) /\ FindsLast(m, 0, 1, Blank, 1)
        BY <2>1, CutFinds
    <2>3. /\ g = [tok |-> <<0, 1>>, cur |-> <<0, 2>>, mem |-> m]
          /\ Cut(m, <<0, 1>>, Blank) = [tok |-> <<0, 1>>, cur |-> <<0, 2>>, mem |-> m]
        BY <1>4, <2>2 DEF FindsLast
    <2>4. From(g) = <<0, 1>> /\ g.mem = m
        BY <2>3, PairsAreNotNull DEF From
    <2>5. h.cur = <<0, 2>> /\ h.mem = m
        <3>1. h = [tok |-> <<0, 1>>, cur |-> <<0, 2>>, mem |-> m]
            BY <1>3, <2>3, <2>4, Zenon
        <3>2. QED
            BY <3>1, Zenon
    <2>6. ByteAt(q, 2) = NUL /\ 2 \in Nat \ {0}
        BY <1>7 DEF ByteAt
    <2>7. k = [tok |-> NULL, cur |-> <<0, 2>>, mem |-> m]
        BY <1>3, <1>5, <2>5, <2>6
    <2>8. QED
        BY <2>7
<1>8. ASSUME NEW b, NEW e, Six(q, b, e), LineEnd = {e}, Blank = {b}, e # NUL,
             \A x \in 1..5 : q[x] # e
      PROVE  l.tok # NULL
    <2>1. g.tok = <<0, 1>> /\ g.mem \in [{0} -> Seq(Text)] /\ Six(g.mem[0], b, NUL)
        <3>1. g = Cut(m, <<0, 1>>, {e}) /\ Six(m[0], b, e) /\ \A x \in 1..5 : m[0][x] # e
            BY <1>4, <1>8
        <3>2. QED
            BY <1>8, <3>1, SixLine
    <2>2. From(g) = <<0, 1>>
        BY <2>1, PairsAreNotNull DEF From
    <2>3. /\ h = Cut(g.mem, <<0, 1>>, {b}) /\ k = Cut(h.mem, h.cur, {b})
          /\ l = Cut(k.mem, k.cur, {b})
        BY <1>3, <1>8, <2>2
    <2>4. QED
        BY <2>1, <2>3, SixWords
<1>9. CASE q = <<"GET">>
    <2>1. "GET" # NUL /\ "GET" \notin LineEnd /\ "GET" \notin Blank
        BY Zenon DEF NUL, LineEnd, Blank
    <2>2. QED
        BY <1>2, <1>7, <1>9, <2>1, Zenon
<1>10. CASE q = ErrorText
    <2>1. \E a, b, c, d, e :
            /\ q = <<a, b, c, b, d, e>> /\ LineEnd = {e} /\ Blank = {b} /\ e # NUL /\ b # NUL
            /\ a # NUL /\ a # b /\ a # e /\ c # NUL /\ c # b /\ c # e
            /\ d # NUL /\ d # b /\ d # e /\ b # e
        <3>1. /\ q = <<"HTTP500", " ", "Internal", " ", "Server", "\n">>
              /\ LineEnd = {"\n"} /\ Blank = {" "} /\ "\n" # NUL /\ " " # NUL
              /\ "HTTP500" # NUL /\ "HTTP500" # " " /\ "HTTP500" # "\n"
              /\ "Internal" # NUL /\ "Internal" # " " /\ "Internal" # "\n"
              /\ "Server" # NUL /\ "Server" # " " /\ "Server" # "\n" /\ " " # "\n"
            BY <1>10, Zenon DEF ErrorText, LineEnd, Blank, NUL
        <3>2. QED
            BY <3>1, Zenon
    <2>2. PICK a, b, c, d, e :
            /\ q = <<a, b, c, b, d, e>> /\ LineEnd = {e} /\ Blank = {b} /\ e # NUL /\ b # NUL
            /\ a # NUL /\ a # b /\ a # e /\ c # NUL /\ c # b /\ c # e
            /\ d # NUL /\ d # b /\ d # e /\ b # e
        BY <2>1
    <2>3. /\ Len(q) = 6 /\ q[1] = a /\ q[2] = b /\ q[3] = c /\ q[4] = b /\ q[5] = d /\ q[6] = e
        BY <2>2
    <2>4. Six(q, b, e)
        BY <1>1, <2>2, <2>3 DEF Six
    <2>5. \A x \in 1..5 : q[x] # e
        <3>1. \A x \in 1..5 : x = 1 \/ x = 2 \/ x = 3 \/ x = 4 \/ x = 5
            OBVIOUS
        <3>2. QED
            BY <2>2, <2>3, <3>1
    <2>6. LineEnd = {e} /\ Blank = {b} /\ e # NUL
        BY <2>2, Zenon
    <2>7. l.tok # NULL
        BY <1>8, <2>4, <2>5, <2>6
    <2>8. QED
        BY <1>2, <2>7
<1>11. QED
    BY <1>6, <1>9, <1>10, Zenon DEF Leftovers

\* No third word of what is left in a buffer is long.
LEMMA LeftoversShort ==
    ASSUME NEW q \in Leftovers
    PROVE  ~Overruns(TypeCut(q).mem, TypeCut(q).tok, Long)
<1> DEFINE S == {NUL, "GET"} \cup Range(ErrorText)
           R(k) == /\ k.mem \in [{0} -> Seq(S)] /\ k.cur \in {0} \X (Nat \ {0})
                   /\ k.tok \in {NULL} \cup ({0} \X (Nat \ {0}))
<1>1. NUL \in S /\ S \cap Long = {}
    BY WordsAssumption, Zenon
<1>2. q \in Seq(S)
    <2>1. <<>> \in Seq(S) /\ <<"GET">> \in Seq(S)
        OBVIOUS
    <2>2. ErrorText \in Seq(S)
        <3>1. ErrorText \in Seq(Range(ErrorText))
            BY ErrorIsText DEF Range
        <3>2. QED
            BY <3>1
    <2>3. QED
        BY <2>1, <2>2, Zenon DEF Leftovers
<1> HIDE DEF S
<1>3. ASSUME NEW m \in [{0} -> Seq(S)], NEW p \in {0} \X (Nat \ {0}), NEW D, NUL \notin D
      PROVE  R(Cut(m, p, D))
    BY <1>1, <1>3, CutProperties
<1>4. R(LineCut(q))
    <2>1. PICK m \in [{0} -> Seq(S)] : m = [b \in {0} |-> q]
        BY <1>2
    <2>2. <<0, 1>> \in {0} \X (Nat \ {0})
        OBVIOUS
    <2>3. R(Cut(m, <<0, 1>>, LineEnd))
        BY <1>3, <2>2, NoNul, Zenon
    <2>4. LineCut(q) = Cut(m, <<0, 1>>, LineEnd)
        BY <2>1, RefCuts, Zenon
    <2>5. QED
        BY <2>3, <2>4, Zenon
<1>5. ASSUME NEW k, R(k)
      PROVE  R(Cut(k.mem, k.cur, Blank)) /\ R(Cut(k.mem, From(k), Blank))
    <2>1. From(k) \in {0} \X (Nat \ {0})
        BY <1>5 DEF From
    <2>2. k.mem \in [{0} -> Seq(S)] /\ k.cur \in {0} \X (Nat \ {0}) /\ NUL \notin Blank
        BY <1>5, NoNul, Zenon
    <2>3. QED
        BY <1>3, <2>1, <2>2, Zenon
<1> HIDE DEF R
<1>6. R(MethodCut(q))
    BY <1>4, <1>5, RefCuts, Zenon
<1>7. R(PathCut(q))
    BY <1>5, <1>6, RefCuts, Zenon
<1>8. R(TypeCut(q))
    BY <1>5, <1>7, RefCuts, Zenon
<1>9. PICK k : k = TypeCut(q) /\ R(k)
    BY <1>8
<1>10. CASE k.tok = NULL
    BY <1>9, <1>10, Zenon DEF Overruns
<1>11. CASE k.tok # NULL
    <2>1. PICK i \in Nat \ {0} : k.tok = <<0, i>>
        BY <1>9, <1>11 DEF R
    <2>2. k.mem \in [{0} -> Seq(S)] /\ <<0, i>> \in {0} \X (Nat \ {0})
        BY <1>9 DEF R
    <2>3. StringAt(k.mem, <<0, i>>) \in Seq(S)
        BY <2>2, StringTypes, Zenon
    <2>4. Range(StringAt(k.mem, <<0, i>>)) \subseteq S
        BY <2>3 DEF Range
    <2>5. QED
        BY <1>1, <1>9, <2>1, <2>4, Zenon DEF Overruns
<1>12. QED
    BY <1>10, <1>11

\* Request r cannot have its error, or its header.
NoError(r)  == TypeCut(Line[r]).tok = NULL
                   \/ Overruns(TypeCut(Line[r]).mem, TypeCut(Line[r]).tok, Long)
NoHeader(r) == Overruns(TypeCut(Line[r]).mem, TypeCut(Line[r]).tok, Huge)

\* t accounts for the end of the process.
Blamed(t) ==
    \/ trouble[t] \cap {"left", "mixed"} # {}
    \/ /\ asked[t] # NoFile
       /\ \/ NoError(asked[t]) /\ (Target[asked[t]] = Absent \/ "short" \in trouble[t])
          \/ NoHeader(asked[t]) /\ Target[asked[t]] \in Names

LEMMA BlamedIs == DownHasCause <=> (~up => \E t \in Threads : Blamed(t))
<1>1. ASSUME NEW t
      PROVE  Blamed(t) <=>
                \/ trouble[t] \cap {"left", "mixed"} # {}
                \/ /\ asked[t] # NoFile
                   /\ \E k \in {TypeCut(Line[asked[t]])} :
                        \/ /\ k.tok = NULL \/ Overruns(k.mem, k.tok, Long)
                           /\ Target[asked[t]] = Absent \/ "short" \in trouble[t]
                        \/ /\ Overruns(k.mem, k.tok, Huge)
                           /\ Target[asked[t]] \in Names
    BY Zenon DEF Blamed, NoError, NoHeader
<1>2. QED
    BY <1>1, Zenon DEF DownHasCause

LEMMA BlamedStays ==
    ASSUME NEW t \in Threads, Blamed(t), asked' = asked, trouble[t] \subseteq trouble'[t]
    PROVE  Blamed(t)'
<1>1. CASE trouble[t] \cap {"left", "mixed"} # {}
    BY <1>1 DEF Blamed
<1>2. CASE ~(trouble[t] \cap {"left", "mixed"} # {})
    <2>1. PICK r : r = asked[t] /\ r = asked'[t]
        OBVIOUS
    <2>2. /\ r # NoFile
          /\ \/ NoError(r) /\ (Target[r] = Absent \/ "short" \in trouble[t])
             \/ NoHeader(r) /\ Target[r] \in Names
        BY <1>2, <2>1, Zenon DEF Blamed
    <2>3. QED
        BY <2>1, <2>2, Zenon DEF Blamed
<1>3. QED
    BY <1>1, <1>2

\* Once the process has ended, all that happens is that clients leave.
LEMMA DownStops ==
    ASSUME ~up, [Next]_vars
    PROVE  (\E t \in Threads : Leave(t)) \/ UNCHANGED vars
<1>1. ASSUME NEW t \in Threads, Accept(t) \/ AcceptFails(t)
      PROVE  up
    BY <1>1, Zenon DEF Accept, AcceptFails, Goto, At
<1>2. ASSUME NEW t \in Threads, Read(t) \/ CutMethod(t) \/ CutPath(t) \/ CutType(t)
      PROVE  up
    BY <1>2, Zenon DEF Read, CutMethod, CutPath, CutType, Cuts, At
<1>3. ASSUME NEW t \in Threads, Ignore(t) \/ OpenIndex(t) \/ OpenNamed(t) \/ Close(t)
      PROVE  up
    <2>1. CASE Ignore(t) \/ Close(t)
        BY <2>1, Zenon DEF Ignore, Close, Returns, Goto, At
    <2>2. CASE OpenIndex(t)
        BY <2>2, Zenon DEF OpenIndex, Opens, OpenFails, FailsToOpen, Goto, At
    <2>3. CASE OpenNamed(t)
        BY <2>3, Zenon DEF OpenNamed, At
    <2>4. QED
        BY <1>3, <2>1, <2>2, <2>3
<1>4. ASSUME NEW t \in Threads, SendError(t) \/ SendHeader(t) \/ SendBlock(t) \/ SendRest(t)
      PROVE  up
    BY <1>4, Zenon DEF SendError, SendHeader, SendBlock, SendRest, SendPart, Write, Goto, At
<1>5. QED
    BY <1>1, <1>2, <1>3, <1>4, Zenon DEF Next, ThreadStep

\* Only writing, and looking for a file, can end the process.
LEMMA UpStays ==
    ASSUME NEW t \in Threads,
           \/ Accept(t) \/ AcceptFails(t) \/ Leave(t) \/ Read(t) \/ CutMethod(t)
           \/ CutPath(t) \/ CutType(t) \/ Ignore(t) \/ Close(t)
    PROVE  up' = up
<1>1. CASE Accept(t) \/ AcceptFails(t) \/ Leave(t) \/ Ignore(t) \/ Close(t)
    BY <1>1, Zenon DEF Accept, AcceptFails, Leave, Ignore, Close, Returns
<1>2. CASE Read(t)
    BY <1>2, Zenon DEF Read
<1>3. CASE CutMethod(t) \/ CutPath(t) \/ CutType(t)
    BY <1>3, Zenon DEF CutMethod, CutPath, CutType, Cuts
<1>4. QED
    BY <1>1, <1>2, <1>3

LEMMA WriteBlamed ==
    ASSUME NEW t \in Threads, ReplyInv(t), up, ~up',
           SendError(t) \/ SendHeader(t) \/ SendBlock(t) \/ SendRest(t)
    PROVE  Blamed(t)'
<1>1. PICK pc, r, data : Write(t, pc, r, data)
    BY Zenon DEF SendError, SendHeader, SendBlock, SendRest, SendPart
<1>2. t \in gone /\ trouble' = trouble
    BY <1>1 DEF Write
<1>3. "left" \in trouble'[t]
    BY <1>2 DEF ReplyInv
<1>4. QED
    BY <1>3 DEF Blamed

LEMMA OpenBlamed ==
    ASSUME ServerInv, NEW t \in Threads, OwnInv(t), up, ~up', OpenIndex(t) \/ OpenNamed(t)
    PROVE  Blamed(t)'
<1>1. TypeOK
    BY DEF ServerInv
<1>2. Opening(t) /\ asked' = asked /\ th[t].pc = "open"
    BY <1>1, OpenIndexFacts, OpenNamedFacts
<1>3. trouble[t] \subseteq trouble'[t]
    BY <1>2 DEF Opening
<1>4. CASE "mixed" \in trouble[t]
    BY <1>3, <1>4 DEF Blamed
<1>5. CASE "mixed" \notin trouble[t]
    <2>1. PICK q, w : q \in Given(t) /\ Chooses(t, q, w)
        BY <1>1, <1>5, OpenChooses
    <2>2. PICK i \in BOOLEAN : Opens(t, w, i) \/ OpenFails(t, w)
        BY <2>1, Zenon DEF Chooses
    <2>3. \/ w \in Names /\ Overruns(mem, th[t].type, Huge)
          \/ /\ th[t].type = NULL \/ Overruns(mem, th[t].type, Long)
             /\ w \in Names => "short" \in trouble'[t]
        <3>1. CASE Opens(t, w, i)
            BY <1>1, <3>1, OpensFile
        <3>2. CASE OpenFails(t, w)
            BY <1>1, <3>2, FailsFile
        <3>3. QED
            BY <2>2, <3>1, <3>2
    <2>4. PICK k : k = TypeCut(q)
        OBVIOUS
    <2>5. \/ w \in Names /\ Overruns(k.mem, k.tok, Huge)
          \/ /\ k.tok = NULL \/ Overruns(k.mem, k.tok, Long)
             /\ w \in Names => "short" \in trouble'[t]
        BY <2>1, <2>3, <2>4, Zenon DEF Chooses, SameType
    <2>6. asked[t] # NoFile
        <3>1. k.tok = NULL \/ Overruns(k.mem, k.tok, Long)
            BY <2>5, WordsAssumption, Zenon DEF Overruns
        <3>2. PathCut(q).tok # NULL
            BY <2>1, Zenon DEF Chooses
        <3>3. q \notin Leftovers
            BY <2>4, <3>1, <3>2, LeftoversQuiet, LeftoversShort, Zenon
        <3>4. QED
            BY <2>1, <3>3 DEF Given
    <2>7. PICK r \in Requests : r = asked[t] /\ r = asked'[t] /\ q = Line[r]
        BY <1>1, <1>2, <2>1, <2>6 DEF TypeOK, Given
    <2>8. Target[r] = IF w \in Names THEN w ELSE Absent
        BY <2>1, <2>7, MeantIs, Zenon DEF Chooses
    <2>9. \/ NoHeader(r) /\ Target[r] \in Names
          \/ NoError(r) /\ (Target[r] = Absent \/ "short" \in trouble'[t])
        BY <2>4, <2>5, <2>7, <2>8, Zenon DEF NoError, NoHeader
    <2>10. QED
        BY <2>6, <2>7, <2>9, Zenon DEF Blamed
<1>6. QED
    BY <1>4, <1>5

\* For any number of threads, any files and any requests: the process ends only
\* after a client left before its reply was complete, requests were mixed up, a
\* request without a third word, or one too long for the error's text, met an
\* error, or a request's third word was too long for a header.  What an unread
\* buffer holds never does it, nor a full table of descriptors or a missing file
\* for a request with a version of the usual length (serv.c:50, 52, 63, 122-125,
\* 142-145).
THEOREM DownIsCaused == Spec => []DownHasCause
<1> DEFINE I == ~up => \E t \in Threads : Blamed(t)
           O == \A t \in Threads : OwnInv(t)
           R == \A t \in Threads : ReplyInv(t)
<1>1. Init => I
    BY DEF Init
<1>2. ASSUME ServerInv, O, R, I, [Next]_vars
      PROVE  I'
    <2>1. CASE ~up
        <3>1. PICK s \in Threads : Blamed(s)
            BY <1>2, <2>1
        <3>2. CASE UNCHANGED vars
            <4>1. asked' = asked /\ trouble' = trouble
                BY <3>2 DEF vars
            <4>2. QED
                BY <3>1, <4>1, BlamedStays
        <3>3. ASSUME NEW t \in Threads, Leave(t)
              PROVE  I'
            <4>1. asked' = asked /\ trouble[s] \subseteq trouble'[s]
                BY <1>2, <3>3, LeaveFacts DEF ServerInv
            <4>2. QED
                BY <3>1, <4>1, BlamedStays
        <3>4. QED
            BY <1>2, <2>1, <3>2, <3>3, DownStops
    <2>2. CASE up
        <3>1. ASSUME ~up'
              PROVE  \E t \in Threads : Blamed(t)'
            <4>1. UNCHANGED vars => up' = up
                BY DEF vars
            <4>2. PICK t \in Threads :
                    \/ Accept(t) \/ AcceptFails(t) \/ Leave(t) \/ Read(t) \/ ThreadStep(t)
                BY <1>2, <2>2, <3>1, <4>1, Zenon DEF Next
            <4>3. \/ SendError(t) \/ SendHeader(t) \/ SendBlock(t) \/ SendRest(t)
                  \/ OpenIndex(t) \/ OpenNamed(t)
                BY <2>2, <3>1, <4>2, UpStays, Zenon DEF ThreadStep
            <4>4. ReplyInv(t) /\ OwnInv(t)
                BY <1>2
            <4>5. QED
                BY <1>2, <2>2, <3>1, <4>3, <4>4, WriteBlamed, OpenBlamed
        <3>2. QED
            BY <3>1
    <2>3. up \in BOOLEAN
        BY <1>2 DEF ServerInv, TypeOK
    <2>4. QED
        BY <2>1, <2>2
<1>3. I => DownHasCause
    BY BlamedIs, Zenon
<1>4. QED
    BY <1>1, <1>2, <1>3, ServerCorrect, OwnCorrect, RepliesCorrect, PTL DEF Spec
=============================================================================
