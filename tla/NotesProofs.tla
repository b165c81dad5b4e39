----------------------------- MODULE NotesProofs -----------------------------
(***************************************************************************)
(* Names, notes and instructions use the pool of constants as DataPool     *)
(* says, so that what is proved of the pool holds of the whole program.    *)
(***************************************************************************)
EXTENDS Notes, DataPoolProofs, Induction, SequenceTheorems

(***************************************************************************)
(* Nodes hold immediates of the program, from Instruction to RealizeNode.  *)
(***************************************************************************)
Sequence == \E S : list \in Seq(S)
Held == \A i \in DOMAIN list : list[i].imm \subseteq Immediates

LEMMA Appended ==
  ASSUME Sequence, Held, NEW n, n.imm \subseteq Immediates, list' = Append(list, n)
  PROVE  Sequence' /\ Held'
  <1>1. PICK S : list \in Seq(S)
    BY DEF Sequence
  <1>2. list \in Seq(S \cup {n}) /\ list' \in Seq(S \cup {n}) /\ Len(list') = Len(list) + 1
        /\ DOMAIN list' = 1..Len(list) + 1 /\ DOMAIN list = 1..Len(list) /\ list'[Len(list) + 1] = n
        /\ \A i \in 1..Len(list) : list'[i] = list[i]
    BY <1>1
  <1>3. Sequence'
    BY <1>2 DEF Sequence
  <1>. QED
    BY <1>2, <1>3 DEF Held

LEMMA HeldStart == Init => Sequence /\ Held
  <1>. SUFFICES ASSUME Init PROVE Sequence /\ Held
    OBVIOUS
  <1>1. list = <<>> /\ list \in Seq({0}) /\ DOMAIN list = {}
    BY DEF Init
  <1>. QED
    BY <1>1 DEF Sequence, Held

LEMMA HeldStep ==
  ASSUME Sequence, Held, [Next]_vars
  PROVE  Sequence' /\ Held'
  <1>1. ASSUME NEW data, AddName(data)
        PROVE  Sequence' /\ Held'
    BY <1>1, Appended DEF AddName, NodeOf
  <1>2. ASSUME NEW data, NEW line, NEW bytes, AddNote(data, line, bytes)
        PROVE  Sequence' /\ Held'
    BY <1>2, Appended DEF AddNote, NodeOf
  <1>3. ASSUME NEW imm \in {{}} \cup {{p} : p \in Immediates}, Instruction(imm)
        PROVE  Sequence' /\ Held'
    <2>. DEFINE n == [NodeOf("code", NULL, 0) EXCEPT !.imm = imm]
    <2>1. list' = Append(list, n)
      BY <1>3 DEF Instruction
    <2>2. n.imm \subseteq Immediates
      BY DEF NodeOf
    <2>. HIDE DEF n
    <2>. QED
      BY <2>1, <2>2, Appended
  <1>4. CASE UNCHANGED list
    BY <1>4 DEF Sequence, Held
  <1>5. CASE Build
    BY <1>1, <1>2, <1>3, <1>4, <1>5 DEF Build, Name, NameOfNone, Note, NoteOfNoFile, NoteFails
  <1>6. CASE \/ Realize \/ RealizeNode \/ EndRealize
             \/ AnnotateName \/ AnnotateNote \/ EndAnnotate
    BY <1>4, <1>6 DEF Realize, RealizeNode, EndRealize, AnnotateName, AnnotateNote, EndAnnotate
  <1>7. CASE UNCHANGED vars
    BY <1>4, <1>7 DEF vars, noteVars
  <1>. QED
    BY <1>5, <1>6, <1>7 DEF Next

(***************************************************************************)
(* Each step asks for a constant as the library does, or leaves the pool.  *)
(***************************************************************************)
LEMMA StepOfPool ==
  ASSUME Held, [Next]_vars
  PROVE  [PoolNext]_poolVars
  <1>1. ASSUME NEW c \in Constants, NEW a \in Alignments(c), Data(c, a)
        PROVE  PoolNext
    BY <1>1 DEF PoolNext
  <1>2. CASE \E c \in Names : Name(c)
    BY <1>1, <1>2, NotesAssumption DEF Name, Alignments
  <1>3. CASE \E c \in Files, line \in Lines : Note(c, line)
    BY <1>1, <1>3, NotesAssumption DEF Note, Alignments
  <1>4. CASE RealizeNode
    <2>1. PICK p \in Immediates : Data(p[1], p[2])
      BY <1>4 DEF RealizeNode, Held
    <2>. QED
      BY <1>1, <2>1, NotesAssumption
  <1>5. CASE NameOfNone \/ NoteOfNoFile \/ NoteFails
    BY <1>5 DEF NameOfNone, NoteOfNoFile, NoteFails, poolVars
  <1>6. CASE \E imm \in {{}} \cup {{p} : p \in Immediates} : Instruction(imm)
    BY <1>6 DEF Instruction, poolVars
  <1>7. CASE Realize \/ EndRealize \/ AnnotateName \/ AnnotateNote \/ EndAnnotate
    BY <1>7 DEF Realize, EndRealize, AnnotateName, AnnotateNote, EndAnnotate, poolVars
  <1>8. CASE UNCHANGED vars
    BY <1>8 DEF vars, poolVars
  <1>. QED
    BY <1>2, <1>3, <1>4, <1>5, <1>6, <1>7, <1>8 DEF Next, Build

(***************************************************************************)
(* What a program does to the pool is what DataPool says.                  *)
(***************************************************************************)
THEOREM NotesUsePool == Spec => PoolSpec
  <1>1. Init => PoolInit
    BY DEF Init
  <1>. QED
    BY <1>1, HeldStart, HeldStep, StepOfPool, PTL DEF Spec, PoolSpec

(***************************************************************************)
(* So the constants of a program fit, have the alignment they were asked   *)
(* for with, and keep one place each.                                      *)
(***************************************************************************)
THEOREM ProgramConstants == Spec => []Fits /\ []AlignedIfOnce /\ OnePlaceEach
  BY NotesUsePool, ConstantsFit, ConstantsAligned, PoolRefinesTable
(***************************************************************************)
(* The binary searches.  Each looks at the middle of bot..top, and goes to *)
(* the left, stays there, or goes to the right.                            *)
(***************************************************************************)

\* What a search returns that goes left from places in left, and stays at those in here.
Bisects(f, n, left, here) ==
  f = [range \in Ranges(n) |->
        IF range[1] >= range[2] THEN Middle(range)
        ELSE IF Middle(range) \in left THEN f[<<range[1], Middle(range)>>]
        ELSE IF Middle(range) \in here THEN Middle(range)
        ELSE f[<<Middle(range) + 1, range[2]>>]]

\* All searches lead to place r.
LeadTo(r, n, left, here) ==
  /\ r \in 0..n
  /\ \A i \in 0..n - 1 : /\ i > r => i \in left
                         /\ i < r => i \notin left /\ i \notin here
                         /\ i = r => i \in left \/ i \in here

LEMMA MiddleBounds ==
  ASSUME NEW bot \in Nat, NEW top \in Nat
  PROVE  /\ Middle(<<bot, top>>) \in Nat /\ (bot = top => Middle(<<bot, top>>) = bot)
         /\ bot < top => bot =< Middle(<<bot, top>>) /\ Middle(<<bot, top>>) < top
  BY DEF Middle

\* There is such a search: it returns the place nearest to r.
LEMMA SearchExists ==
  ASSUME NEW n \in Nat, NEW left, NEW here, NEW r, LeadTo(r, n, left, here)
  PROVE  \E f : Bisects(f, n, left, here)
  <1>. DEFINE Near(s) == IF s[1] >= s[2] THEN Middle(s)
                         ELSE IF r =< s[1] THEN s[1] ELSE IF r >= s[2] THEN s[2] ELSE r
              f == [s \in Ranges(n) |-> Near(s)]
              Go(s) == IF s[1] >= s[2] THEN Middle(s)
                ELSE IF Middle(s) \in left THEN f[<<s[1], Middle(s)>>]
                ELSE IF Middle(s) \in here THEN Middle(s)
                ELSE f[<<Middle(s) + 1, s[2]>>]
  <1>1. r \in 0..n /\ r \in Nat
    BY DEF LeadTo
  <1>2. ASSUME NEW s \in Ranges(n)
        PROVE  Go(s) = Near(s)
    <2>0. PICK bot \in 0..n, top \in 0..n : s = <<bot, top>>
      BY DEF Ranges
    <2>1. CASE bot >= top
      BY <2>0, <2>1
    <2>2. CASE bot < top
      <3>. PICK i : i = Middle(s)
        OBVIOUS
      <3>1. i \in Nat /\ bot =< i /\ i < top /\ i \in 0..n - 1 /\ i \in 0..n /\ i + 1 \in 0..n
        BY <2>0, <2>2, MiddleBounds
      <3>2. f[<<bot, i>>] = Near(<<bot, i>>) /\ f[<<i + 1, top>>] = Near(<<i + 1, top>>)
        BY <3>1 DEF Ranges
      <3>3. Middle(<<bot, bot>>) = bot /\ Middle(<<top, top>>) = top
        BY MiddleBounds
      <3>4. Near(s) = IF r =< bot THEN bot ELSE IF r >= top THEN top ELSE r
        BY <2>0, <2>2
      <3>5. Go(s) = IF i \in left THEN Near(<<bot, i>>) ELSE IF i \in here THEN i ELSE Near(<<i + 1, top>>)
        <4>1. s[1] = bot /\ s[2] = top
          BY <2>0
        <4>. HIDE DEF f, Near
        <4>. QED
          BY <2>2, <3>2, <4>1
      <3>6. Near(<<bot, i>>) = IF bot = i THEN bot ELSE IF r =< bot THEN bot ELSE IF r >= i THEN i ELSE r
        BY <3>1, <3>3
      <3>7. Near(<<i + 1, top>>) = IF i + 1 = top THEN top ELSE IF r =< i + 1 THEN i + 1 ELSE IF r >= top THEN top ELSE r
        BY <3>1, <3>3
      <3>8. (i > r => i \in left) /\ (i < r => i \notin left /\ i \notin here) /\ (i = r => i \in left \/ i \in here)
        BY <3>1 DEF LeadTo
      <3>. HIDE DEF Near, Go, f
      <3>9. CASE i > r
        BY <1>1, <2>2, <3>1, <3>4, <3>5, <3>6, <3>8, <3>9
      <3>10. CASE i < r
        BY <1>1, <2>2, <3>1, <3>4, <3>5, <3>7, <3>8, <3>10
      <3>11. CASE i = r
        BY <1>1, <2>2, <3>1, <3>4, <3>5, <3>6, <3>8, <3>11
      <3>. QED
        BY <1>1, <3>1, <3>9, <3>10, <3>11
    <2>. QED
      BY <2>1, <2>2
  <1>3. f = [s \in Ranges(n) |-> Go(s)]
    BY <1>2
  <1>. QED
    BY <1>3 DEF Bisects

LEMMA SearchFinds ==
  ASSUME NEW n \in Nat, NEW left, NEW here, NEW r, LeadTo(r, n, left, here),
         NEW f, Bisects(f, n, left, here)
  PROVE  f[<<0, n>>] = r
  <1>. DEFINE S == {d \in Nat : \A bot, top \in 0..n : bot =< r /\ r =< top /\ top - bot =< d => f[<<bot, top>>] = r}
  <1>1. r \in 0..n /\ r \in Nat
    BY DEF LeadTo
  <1>2. ASSUME NEW bot \in 0..n, NEW top \in 0..n
        PROVE  f[<<bot, top>>] =
           IF bot >= top THEN Middle(<<bot, top>>)
           ELSE IF Middle(<<bot, top>>) \in left THEN f[<<bot, Middle(<<bot, top>>)>>]
           ELSE IF Middle(<<bot, top>>) \in here THEN Middle(<<bot, top>>)
           ELSE f[<<Middle(<<bot, top>>) + 1, top>>]
    <2>. PICK s : s = <<bot, top>>
      OBVIOUS
    <2>1. s \in Ranges(n) /\ s[1] = bot /\ s[2] = top
      BY DEF Ranges
    <2>2. f[s] = IF s[1] >= s[2] THEN Middle(s)
                 ELSE IF Middle(s) \in left THEN f[<<s[1], Middle(s)>>]
                 ELSE IF Middle(s) \in here THEN Middle(s)
                 ELSE f[<<Middle(s) + 1, s[2]>>]
      BY <2>1 DEF Bisects
    <2>. QED
      BY <2>1, <2>2
  <1>3. f[<<r, r>>] = r
    <2>1. f[<<r, r>>] = IF r >= r THEN Middle(<<r, r>>)
                        ELSE IF Middle(<<r, r>>) \in left THEN f[<<r, Middle(<<r, r>>)>>]
                        ELSE IF Middle(<<r, r>>) \in here THEN Middle(<<r, r>>)
                        ELSE f[<<Middle(<<r, r>>) + 1, r>>]
      BY <1>1, <1>2
    <2>2. r >= r /\ Middle(<<r, r>>) = r
      BY <1>1, MiddleBounds
    <2>. QED
      BY <2>1, <2>2
  <1>4. 0 \in S
    <2>1. ASSUME NEW bot \in 0..n, NEW top \in 0..n, bot =< r, r =< top, top - bot =< 0
          PROVE  bot = r /\ top = r
      BY <1>1, <2>1
    <2>. QED
      BY <1>3, <2>1
  <1>5. ASSUME NEW d \in Nat, d \in S PROVE d + 1 \in S
    <2>. SUFFICES ASSUME NEW bot \in 0..n, NEW top \in 0..n, bot =< r, r =< top, top - bot =< d + 1
                  PROVE  f[<<bot, top>>] = r
      OBVIOUS
    <2>0. CASE ~(bot < top)
      <3>1. bot = r /\ top = r
        BY <1>1, <2>0
      <3>. QED
        BY <1>3, <3>1
    <2>1. CASE bot < top
      <3>. PICK i : i = Middle(<<bot, top>>)
        OBVIOUS
      <3>1. i \in Nat /\ bot =< i /\ i < top /\ i \in 0..n - 1 /\ i \in 0..n /\ i + 1 \in 0..n
        BY <2>1, MiddleBounds
      <3>2. f[<<bot, top>>] = IF i \in left THEN f[<<bot, i>>] ELSE IF i \in here THEN i ELSE f[<<i + 1, top>>]
        BY <1>2, <2>1
      <3>3. (i > r => i \in left) /\ (i < r => i \notin left /\ i \notin here) /\ (i = r => i \in left \/ i \in here)
        BY <3>1 DEF LeadTo
      <3>4. \A b, t \in 0..n : b =< r /\ r =< t /\ t - b =< d => f[<<b, t>>] = r
        BY <1>5
      <3>. HIDE DEF S
      <3>5. r =< i => f[<<bot, i>>] = r
        BY <1>1, <3>1, <3>4
      <3>6. i < r => f[<<i + 1, top>>] = r
        BY <1>1, <3>1, <3>4
      <3>. QED
        BY <1>1, <3>1, <3>2, <3>3, <3>5, <3>6
    <2>. QED
      BY <2>0, <2>1
  <1>6. n \in S
    <2>. HIDE DEF S
    <2>. QED
      BY <1>4, <1>5, SetInduction
  <1>. QED
    BY <1>1, <1>6

LEMMA InsertBehind ==
  ASSUME NEW keys \in Seq(Int), NEW x \in Int, \A k \in 1..Len(keys) : keys[k] =< x
  PROVE  InsertIndex(keys, x) = Len(keys)
  <1>. DEFINE n == Len(keys)
              P(f) == f = [range \in Ranges(n) |->
                        IF range[1] >= range[2] THEN Middle(range)
                        ELSE IF x < keys[Middle(range) + 1] THEN f[<<range[1], Middle(range)>>]
                        ELSE f[<<Middle(range) + 1, range[2]>>]]
  <1>1. n \in Nat /\ LeadTo(n, n, {}, {})
    BY DEF LeadTo
  <1>2. ASSUME NEW f
        PROVE  P(f) <=> Bisects(f, n, {}, {})
    <2>1. ASSUME NEW range \in Ranges(n), range[1] < range[2]
          PROVE  ~(x < keys[Middle(range) + 1])
      <3>1. PICK bot \in 0..n, top \in 0..n : range = <<bot, top>>
        BY DEF Ranges
      <3>2. Middle(range) + 1 \in 1..n
        BY <1>1, <2>1, <3>1, MiddleBounds
      <3>. QED
        BY <3>2
    <2>2. ASSUME NEW range \in Ranges(n)
          PROVE  range[1] >= range[2] \/ range[1] < range[2]
      BY DEF Ranges
    <2>. QED
      BY <2>1, <2>2 DEF Bisects
  <1>3. \E f : P(f)
    BY <1>1, <1>2, SearchExists
  <1>4. InsertIndex(keys, x) = (CHOOSE f : P(f))[<<0, n>>]
    BY DEF InsertIndex
  <1>. HIDE DEF P
  <1>5. P(CHOOSE f : P(f))
    BY <1>3
  <1>. QED
    BY <1>1, <1>2, <1>4, <1>5, SearchFinds

(***************************************************************************)
(* The last of keys that do not decrease which is not behind x.            *)
(***************************************************************************)
LEMMA SearchAt ==
  ASSUME NEW keys \in Seq(Int), NEW x \in Int, NEW c \in 1..Len(keys),
         \A k \in 1..Len(keys) : keys[k] =< x <=> k =< c
  PROVE  SearchIndex(keys, x) = c - 1
  <1>. DEFINE n == Len(keys)
              left == {i \in 0..n - 1 : x < keys[i + 1]}
              here == {i \in 0..n - 1 : i = n - 1 \/ x < keys[i + 2]}
              P(f) == f = [range \in Ranges(n) |->
                        IF range[1] >= range[2] THEN Middle(range)
                        ELSE IF x < keys[Middle(range) + 1] THEN f[<<range[1], Middle(range)>>]
                        ELSE IF Middle(range) = n - 1 \/ x < keys[Middle(range) + 2] THEN Middle(range)
                        ELSE f[<<Middle(range) + 1, range[2]>>]]
  <1>0. n \in Nat /\ c \in 1..n /\ c - 1 \in 0..n - 1 /\ c - 1 \in 0..n
    OBVIOUS
  <1>1. LeadTo(c - 1, n, left, here)
    <2>1. ASSUME NEW i \in 0..n - 1
          PROVE  /\ i > c - 1 => i \in left
                 /\ i < c - 1 => i \notin left /\ i \notin here
                 /\ i = c - 1 => i \in here
      <3>1. i + 1 \in 1..n /\ (i # n - 1 => i + 2 \in 1..n)
        BY <1>0
      <3>2. (x < keys[i + 1]) <=> i + 1 > c
        BY <1>0, <3>1
      <3>3. i # n - 1 => ((x < keys[i + 2]) <=> i + 2 > c)
        BY <1>0, <3>1
      <3>. QED
        BY <1>0, <3>1, <3>2, <3>3
    <2>. HIDE DEF left, here
    <2>. QED
      BY <1>0, <2>1 DEF LeadTo
  <1>2. ASSUME NEW f
        PROVE  P(f) <=> Bisects(f, n, left, here)
    <2>1. ASSUME NEW range \in Ranges(n), range[1] < range[2]
          PROVE  Middle(range) \in 0..n - 1
      <3>1. PICK bot \in 0..n, top \in 0..n : range = <<bot, top>>
        BY DEF Ranges
      <3>. QED
        BY <2>1, <3>1, MiddleBounds
    <2>2. ASSUME NEW range \in Ranges(n)
          PROVE  range[1] >= range[2] \/ range[1] < range[2]
      BY DEF Ranges
    <2>3. ASSUME NEW range \in Ranges(n), range[1] < range[2]
          PROVE  /\ (x < keys[Middle(range) + 1]) <=> Middle(range) \in left
                 /\ (Middle(range) = n - 1 \/ x < keys[Middle(range) + 2]) <=> Middle(range) \in here
      <3>1. Middle(range) \in 0..n - 1
        BY <2>1, <2>3
      <3>. QED
        BY <3>1
    <2>. HIDE DEF left, here
    <2>. QED
      BY <2>2, <2>3 DEF Bisects
  <1>3. SearchIndex(keys, x) = (CHOOSE f : P(f))[<<0, n>>]
    BY DEF SearchIndex
  <1>. HIDE DEF P, left, here
  <1>4. \E f : P(f)
    BY <1>0, <1>1, <1>2, SearchExists
  <1>5. P(CHOOSE f : P(f))
    BY <1>4
  <1>. QED
    BY <1>0, <1>1, <1>2, <1>3, <1>5, SearchFinds

(***************************************************************************)
(* The note that an address is in: none of those in front of it reaches so *)
(* far, and those behind it start behind the address.                      *)
(***************************************************************************)
LEMMA NoteIndexAt ==
  ASSUME Len(notes) \in Nat, NEW x \in Int, NEW c \in 0..Len(notes),
         \A k \in 1..Len(notes) :
           /\ notes[k].code \in Int /\ notes[k].size \in Int
           /\ k > c => x < notes[k].code
           /\ k =< c => ~(x < notes[k].code)
           /\ (x - notes[k].code < notes[k].size /\ k =< c) <=> k = c
  PROVE  NoteIndex(x) = IF c = 0 THEN 0 ELSE c - 1
  <1>. DEFINE n == Len(notes)
              r == IF c = 0 THEN 0 ELSE c - 1
              left == {i \in 0..n - 1 : x < notes[i + 1].code}
              here == {i \in 0..n - 1 : x - notes[i + 1].code < notes[i + 1].size}
              P(f) == f = [range \in Ranges(n) |->
                        IF range[1] >= range[2] THEN Middle(range)
                        ELSE IF x < notes[Middle(range) + 1].code THEN f[<<range[1], Middle(range)>>]
                        ELSE IF x - notes[Middle(range) + 1].code < notes[Middle(range) + 1].size
                        THEN Middle(range)
                        ELSE f[<<Middle(range) + 1, range[2]>>]]
  <1>0. n \in Nat /\ c \in 0..n /\ r \in 0..n /\ r \in Nat /\ (c # 0 => r = c - 1) /\ (c = 0 => r = 0)
    OBVIOUS
  <1>1. LeadTo(r, n, left, here)
    <2>1. ASSUME NEW i \in 0..n - 1
          PROVE  /\ i > r => i \in left
                 /\ i < r => i \notin left /\ i \notin here
                 /\ i = r => i \in left \/ i \in here
      <3>1. i + 1 \in 1..n /\ i \in Nat
        BY <1>0
      <3>2. /\ i + 1 > c => i \in left
            /\ i + 1 =< c => i \notin left
            /\ i + 1 < c => i \notin here
            /\ i + 1 = c => i \in here
        BY <1>0, <3>1
      <3>. HIDE DEF left, here, r
      <3>. QED
        BY <1>0, <3>1, <3>2
    <2>. HIDE DEF left, here, r
    <2>. QED
      BY <1>0, <2>1 DEF LeadTo
  <1>2. ASSUME NEW f
        PROVE  P(f) <=> Bisects(f, n, left, here)
    <2>1. ASSUME NEW range \in Ranges(n), range[1] < range[2]
          PROVE  Middle(range) \in 0..n - 1
      <3>1. PICK bot \in 0..n, top \in 0..n : range = <<bot, top>>
        BY DEF Ranges
      <3>. QED
        BY <2>1, <3>1, MiddleBounds
    <2>2. ASSUME NEW range \in Ranges(n)
          PROVE  range[1] >= range[2] \/ range[1] < range[2]
      BY DEF Ranges
    <2>3. ASSUME NEW range \in Ranges(n), range[1] < range[2]
          PROVE  /\ (x < notes[Middle(range) + 1].code) <=> Middle(range) \in left
                 /\ (x - notes[Middle(range) + 1].code < notes[Middle(range) + 1].size) <=> Middle(range) \in here
      <3>1. Middle(range) \in 0..n - 1
        BY <2>1, <2>3
      <3>. QED
        BY <3>1
    <2>. HIDE DEF left, here
    <2>. QED
      BY <2>2, <2>3 DEF Bisects
  <1>3. NoteIndex(x) = (CHOOSE f : P(f))[<<0, n>>]
    BY DEF NoteIndex
  <1>. HIDE DEF P, left, here, r
  <1>4. \E f : P(f)
    BY <1>0, <1>1, <1>2, SearchExists
  <1>5. P(CHOOSE f : P(f))
    BY <1>4
  <1>6. NoteIndex(x) = r
    BY <1>0, <1>1, <1>2, <1>3, <1>5, SearchFinds
  <1>. QED
    BY <1>6 DEF r

-----------------------------------------------------------------------------
(***************************************************************************)
(* Sets of nodes of a list, and the address of a node.                     *)
(***************************************************************************)
NamesIn(l)  == {j \in DOMAIN l : l[j].kind = "name"}
FilesIn(l)  == {j \in DOMAIN l : l[j].kind = "note" /\ l[j].data # NULL}
CodeIn(l)   == {j \in DOMAIN l : l[j].kind = "code"}
AtIn(l, i)  == Cardinality({j \in CodeIn(l) : j < i})

LEMMA SetsOfNodes ==
  ASSUME NEW i
  PROVE  /\ Kind({"name"}) = NamesIn(list) /\ Kind({"code"}) = CodeIn(list) /\ At(i) = AtIn(list, i)
         /\ FilesIn(list) \subseteq Kind({"note"})
         /\ {j \in Kind({"name", "note"}) : list[j].kind = "note" => list[j].data # NULL}
            = NamesIn(list) \cup FilesIn(list)
  <1>1. Kind({"code"}) = CodeIn(list)
    BY DEF Kind, CodeIn
  <1>2. At(i) = AtIn(list, i)
    BY <1>1 DEF At, AtIn
  <1>. QED
    BY <1>1, <1>2 DEF Kind, NamesIn, FilesIn

(***************************************************************************)
(* Addresses grow along the list, and behind each instruction.             *)
(***************************************************************************)
LEMMA Addresses ==
  ASSUME NEW l, NEW n \in Nat, DOMAIN l = 1..n, NEW i \in Int, NEW j \in Int, i =< j
  PROVE  /\ AtIn(l, i) \in Nat /\ AtIn(l, j) \in Nat /\ AtIn(l, i) =< AtIn(l, j)
         /\ i \in CodeIn(l) /\ i < j => AtIn(l, i) < AtIn(l, j)
  <1>. DEFINE A == {k \in CodeIn(l) : k < i}
              B == {k \in CodeIn(l) : k < j}
  <1>0. CodeIn(l) \subseteq 1..n /\ IsFiniteSet(1..n)
    BY FS_Interval DEF CodeIn
  <1>1. IsFiniteSet(1..n) /\ A \subseteq B /\ B \subseteq 1..n
    BY <1>0
  <1>2. IsFiniteSet(B) /\ IsFiniteSet(A)
    BY <1>1, FS_Subset
  <1>3. Cardinality(A) \in Nat /\ Cardinality(B) \in Nat
    BY <1>2, FS_CardinalityType
  <1>4. i \in CodeIn(l) /\ i < j => i \in B /\ i \notin A
    OBVIOUS
  <1>5. AtIn(l, i) = Cardinality(A) /\ AtIn(l, j) = Cardinality(B)
    BY DEF AtIn
  <1>. HIDE DEF A, B
  <1>6. Cardinality(A) =< Cardinality(B) /\ (Cardinality(B) = Cardinality(A) => B = A)
    BY <1>1, <1>2, FS_Subset, Zenon
  <1>7. A # B => Cardinality(A) < Cardinality(B)
    <2>. PICK a, b : a = Cardinality(A) /\ b = Cardinality(B)
      OBVIOUS
    <2>1. A # B => a # b
      BY <1>6
    <2>2. a \in Nat /\ b \in Nat /\ a =< b
      BY <1>3, <1>6
    <2>3. a # b => a < b
      BY <2>2
    <2>. QED
      BY <2>1, <2>3
  <1>. QED
    BY <1>3, <1>4, <1>5, <1>6, <1>7

(***************************************************************************)
(* So the address tells on which side of an instruction another node is.   *)
(***************************************************************************)
LEMMA Sides ==
  ASSUME NEW l, NEW n \in Nat, DOMAIN l = 1..n, NEW i \in CodeIn(l), NEW j \in Int, i # j
  PROVE  /\ AtIn(l, i) \in Nat /\ AtIn(l, j) \in Nat
         /\ (AtIn(l, j) =< AtIn(l, i)) <=> j < i
         /\ (AtIn(l, i) < AtIn(l, j)) <=> i < j
  <1>1. i \in Int
    BY DEF CodeIn
  <1>2. CASE i < j
    <2>1. AtIn(l, i) < AtIn(l, j) /\ AtIn(l, i) \in Nat /\ AtIn(l, j) \in Nat
      BY <1>1, <1>2, Addresses
    <2>. QED
      BY <1>1, <1>2, <2>1
  <1>3. CASE j < i
    <2>1. AtIn(l, j) =< AtIn(l, i) /\ AtIn(l, i) \in Nat /\ AtIn(l, j) \in Nat
      BY <1>1, <1>3, Addresses
    <2>. QED
      BY <1>1, <1>3, <2>1
  <1>. QED
    BY <1>1, <1>2, <1>3

-----------------------------------------------------------------------------
(***************************************************************************)
(* The tables.  Each entry of a line stands for a node with a file, in     *)
(* order: js are those of a line, ms those of the lines of a note.         *)
(***************************************************************************)
EntrySet(l) == [offset : Int, line : {l[j].line : j \in DOMAIN l}]
LineSet(l)  == [file : {l[j].data : j \in DOMAIN l}, entries : Seq(EntrySet(l))]
NoteSet(l)  == [code : Nat, name : {NULL} \cup {l[j].data : j \in DOMAIN l}, lines : Seq(LineSet(l)), size : Nat]

LineHolds(l, line, js, code) ==
  /\ line \in LineSet(l) /\ js \in Seq(FilesIn(l)) /\ js # <<>> /\ Len(line.entries) = Len(js)
  /\ \A e \in 1..Len(js) : /\ l[js[e]].data = line.file
                           /\ line.entries[e].line = l[js[e]].line
                           /\ line.entries[e].offset = AtIn(l, js[e]) - code
  /\ \A e, f \in 1..Len(js) : e < f => js[e] < js[f]

LinesHold(l, lines, ms, code, S) ==
  /\ lines \in Seq(LineSet(l)) /\ ms \in Seq(Seq(FilesIn(l))) /\ Len(ms) = Len(lines)
  /\ \A k \in 1..Len(ms) : LineHolds(l, lines[k], ms[k], code)
  /\ \A k, m \in 1..Len(ms) : k < m =>
       \A e \in 1..Len(ms[k]), f \in 1..Len(ms[m]) : ms[k][e] < ms[m][f]
  /\ \A k \in 1..Len(ms) : \A e \in 1..Len(ms[k]) : ms[k][e] \in S
  /\ \A j \in S : \E k \in 1..Len(ms) : \E e \in 1..Len(ms[k]) : ms[k][e] = j

(***************************************************************************)
(* o are the nodes at which the notes start; p is how far the tables are.  *)
(***************************************************************************)
End(o, k, p) == IF k < Len(o) THEN o[k + 1] ELSE p
Section(l, o, k, p) == {j \in FilesIn(l) : o[k] =< j /\ j < End(o, k, p)}

NoteHolds(l, note, o, k, p) ==
  /\ note.code = AtIn(l, o[k])
  /\ note.name = IF o[k] \in NamesIn(l) THEN l[o[k]].data ELSE NULL
  /\ \E ms : LinesHold(l, note.lines, ms, note.code, Section(l, o, k, p))

Starts(l, o, p) ==
  /\ o \in Seq(NamesIn(l) \cup FilesIn(l))
  /\ \A k, m \in 1..Len(o) : k < m => o[k] < o[m]
  /\ \A k \in 1..Len(o) : o[k] < p /\ (o[k] \in FilesIn(l) => k = 1)
  /\ \A j \in NamesIn(l) : j < p => \E k \in 1..Len(o) : o[k] = j
  /\ \A j \in FilesIn(l) : j < p => o # <<>> /\ o[1] =< j

PartsHold(l, all, o, p) ==
  /\ all \in Seq(NoteSet(l)) /\ Len(all) = Len(o)
  /\ \A k \in 1..Len(o) : NoteHolds(l, all[k], o, k, p)
  /\ \A k \in 1..Len(o) - 1 : all[k].size = AtIn(l, o[k + 1]) - AtIn(l, o[k])

TablesHold(l, all, o, p) == Starts(l, o, p) /\ PartsHold(l, all, o, p)

-----------------------------------------------------------------------------
(***************************************************************************)
(* Nodes come in order, so that a line or an entry is always added behind  *)
(* the others.                                                             *)
(***************************************************************************)
LEMMA InsertedBehind ==
  ASSUME NEW T, NEW s \in Seq(T), NEW e \in T
  PROVE  InsertAt(s, Len(s) + 1, e) = Append(s, e)
  <1>1. SubSeq(s, 1, Len(s) + 1 - 1) = s
    OBVIOUS
  <1>2. SubSeq(s, Len(s) + 1, Len(s)) = <<>>
    OBVIOUS
  <1>3. (s \o <<e>>) \o <<>> = Append(s, e)
    OBVIOUS
  <1>4. InsertAt(s, Len(s) + 1, e) = (SubSeq(s, 1, Len(s) + 1 - 1) \o <<e>>) \o SubSeq(s, Len(s) + 1, Len(s))
    BY DEF InsertAt
  <1>. QED
    BY <1>1, <1>2, <1>3, <1>4, Zenon

LEMMA EntryAdded ==
  ASSUME NEW T, NEW entries \in Seq([offset : Int, line : T]), NEW entry \in [offset : Int, line : T],
         \A e \in 1..Len(entries) : entries[e].offset =< entry.offset
  PROVE  WithEntry(entries, entry) = Append(entries, entry)
  <1>. PICK n : n = Len(entries)
    OBVIOUS
  <1>. PICK keys : keys = Offsets(entries)
    OBVIOUS
  <1>1. n \in Nat /\ DOMAIN entries = 1..n /\ entry.offset \in Int
        /\ \A e \in 1..n : entries[e].offset \in Int
    <2>1. n \in Nat /\ DOMAIN entries = 1..n /\ entry.offset \in Int
      OBVIOUS
    <2>2. \A e \in 1..n : entries[e] \in [offset : Int, line : T]
      BY ElementOfSeq
    <2>. QED
      BY <2>1, <2>2
  <1>2. keys \in Seq(Int) /\ Len(keys) = n /\ \A e \in 1..n : keys[e] = entries[e].offset
    BY <1>1 DEF Offsets
  <1>3. InsertIndex(keys, entry.offset) = n
    BY <1>1, <1>2, InsertBehind
  <1>4. WithEntry(entries, entry) = InsertAt(entries, n + 1, entry)
    BY <1>1, <1>3 DEF WithEntry
  <1>. QED
    BY <1>4, InsertedBehind

(***************************************************************************)
(* A node with the file of the last line is added to it.                   *)
(***************************************************************************)
EntryOf(l, a, code) == [offset |-> AtIn(l, a) - code, line |-> l[a].line]

LEMMA LineGrows ==
  ASSUME NEW l, NEW n \in Nat, DOMAIN l = 1..n, NEW line, NEW js, NEW code \in Int, LineHolds(l, line, js, code),
         NEW a \in FilesIn(l), l[a].data = line.file, \A e \in 1..Len(js) : js[e] < a
  PROVE  LineHolds(l, [line EXCEPT !.entries = WithEntry(@, EntryOf(l, a, code))], Append(js, a), code)
  <1>. PICK q : q = Len(js)
    OBVIOUS
  <1>. PICK entries : entries = line.entries
    OBVIOUS
  <1>. PICK entry : entry = EntryOf(l, a, code)
    OBVIOUS
  <1>0. /\ line \in LineSet(l) /\ js \in Seq(FilesIn(l)) /\ js # <<>> /\ Len(entries) = q
        /\ \A e \in 1..q : /\ l[js[e]].data = line.file
                           /\ entries[e].line = l[js[e]].line
                           /\ entries[e].offset = AtIn(l, js[e]) - code
        /\ \A e, f \in 1..q : e < f => js[e] < js[f]
    BY DEF LineHolds
  <1>1. /\ q \in Nat /\ entries \in Seq(EntrySet(l)) /\ a \in 1..n
        /\ \A e \in 1..q : js[e] \in FilesIn(l) /\ js[e] \in 1..n
    BY <1>0 DEF LineSet, FilesIn
  <1>2. AtIn(l, a) \in Nat /\ \A e \in 1..q : AtIn(l, js[e]) \in Nat /\ AtIn(l, js[e]) =< AtIn(l, a)
    <2>1. AtIn(l, a) \in Nat
      <3>1. a \in Int /\ a =< a
        BY <1>1
      <3>. QED
        BY <3>1, Addresses
    <2>2. ASSUME NEW e \in 1..q
          PROVE  AtIn(l, js[e]) \in Nat /\ AtIn(l, js[e]) =< AtIn(l, a)
      <3>1. js[e] \in Int /\ a \in Int /\ js[e] =< a
        BY <1>1
      <3>. QED
        BY <3>1, Addresses
    <2>. QED
      BY <2>1, <2>2
  <1>3. entry \in EntrySet(l) /\ entry.line = l[a].line /\ entry.offset = AtIn(l, a) - code
    BY <1>1, <1>2 DEF EntryOf, EntrySet
  <1>4. \A e \in 1..Len(entries) : entries[e].offset =< entry.offset
    BY <1>0, <1>2, <1>3
  <1>5. WithEntry(entries, entry) = Append(entries, entry)
    BY <1>1, <1>3, <1>4, EntryAdded DEF EntrySet
  <1>. PICK more : more = Append(entries, entry)
    OBVIOUS
  <1>. PICK js2 : js2 = Append(js, a)
    OBVIOUS
  <1>. PICK line2 : line2 = [line EXCEPT !.entries = WithEntry(@, EntryOf(l, a, code))]
    OBVIOUS
  <1>6. line2.entries = more /\ line2.file = line.file /\ line2 \in LineSet(l)
    <2>1. more \in Seq(EntrySet(l))
      BY <1>1, <1>3
    <2>2. line2 = [line EXCEPT !.entries = more]
      BY <1>5
    <2>. QED
      BY <1>0, <2>1, <2>2 DEF LineSet
  <1>7. /\ js2 \in Seq(FilesIn(l)) /\ js2 # <<>> /\ Len(js2) = q + 1 /\ js2[q + 1] = a
        /\ \A e \in 1..q : js2[e] = js[e]
    BY <1>0, <1>1
  <1>8. /\ Len(more) = q + 1 /\ more[q + 1] = entry
        /\ \A e \in 1..q : more[e] = entries[e]
    BY <1>0, <1>1, <1>3
  <1>9. \A e \in 1..q + 1 : e \in 1..q \/ e = q + 1
    BY <1>1
  <1>10. \A e \in 1..Len(js2) : /\ l[js2[e]].data = line2.file
                                /\ line2.entries[e].line = l[js2[e]].line
                                /\ line2.entries[e].offset = AtIn(l, js2[e]) - code
    BY <1>0, <1>3, <1>6, <1>7, <1>8, <1>9
  <1>11. ASSUME NEW e \in 1..Len(js2), NEW f \in 1..Len(js2), e < f
         PROVE  js2[e] < js2[f]
    <2>1. e \in 1..q /\ (f \in 1..q \/ f = q + 1)
      BY <1>1, <1>7, <1>11
    <2>. QED
      BY <1>0, <1>7, <1>11, <2>1
  <1>. QED
    BY <1>6, <1>7, <1>8, <1>10, <1>11 DEF LineHolds

(***************************************************************************)
(* How many entries there are: one more, in the last line if it is of the  *)
(* file, or in a line of its own.                                          *)
(***************************************************************************)
Continues(lines, file) == Len(lines) > 0 /\ lines[Len(lines)].file = file

Longer(lines, more, file) ==
  /\ Continues(lines, file) =>
       /\ Len(more) = Len(lines) /\ \A k \in 1..Len(lines) - 1 : more[k] = lines[k]
       /\ Len(more[Len(lines)].entries) = Len(lines[Len(lines)].entries) + 1
  /\ ~Continues(lines, file) =>
       /\ Len(more) = Len(lines) + 1 /\ \A k \in 1..Len(lines) : more[k] = lines[k]
       /\ Len(more[Len(lines) + 1].entries) = 1

LEMMA LineAdded ==
  ASSUME NEW l, NEW n \in Nat, DOMAIN l = 1..n, NEW lines, NEW ms, NEW code \in Int, NEW S,
         LinesHold(l, lines, ms, code, S), NEW a \in FilesIn(l), \A j \in S : j < a
  PROVE  /\ \E more : LinesHold(l, WithLine(lines, l[a].data, EntryOf(l, a, code)), more, code, S \cup {a})
         /\ Longer(lines, WithLine(lines, l[a].data, EntryOf(l, a, code)), l[a].data)
  <1>. PICK q : q = Len(lines)
    OBVIOUS
  <1>. PICK entry : entry = EntryOf(l, a, code)
    OBVIOUS
  <1>. PICK keys : keys = Firsts(lines)
    OBVIOUS
  <1>. PICK result : result = WithLine(lines, l[a].data, EntryOf(l, a, code))
    OBVIOUS
  <1>0. /\ lines \in Seq(LineSet(l)) /\ ms \in Seq(Seq(FilesIn(l))) /\ Len(ms) = q
        /\ \A k \in 1..q : LineHolds(l, lines[k], ms[k], code)
        /\ \A k, m \in 1..q : k < m =>
             \A e \in 1..Len(ms[k]), f \in 1..Len(ms[m]) : ms[k][e] < ms[m][f]
        /\ \A k \in 1..q : \A e \in 1..Len(ms[k]) : ms[k][e] \in S
        /\ \A j \in S : \E k \in 1..q : \E e \in 1..Len(ms[k]) : ms[k][e] = j
    BY DEF LinesHold
  <1>1. q \in Nat /\ DOMAIN lines = 1..q /\ a \in 1..n
        /\ \A k \in 1..q : lines[k] \in LineSet(l) /\ ms[k] \in Seq(FilesIn(l))
    BY <1>0 DEF FilesIn
  <1>2. entry.offset = AtIn(l, a) - code /\ AtIn(l, a) \in Nat /\ entry.line = l[a].line
        /\ entry \in EntrySet(l)
    <2>1. AtIn(l, a) \in Nat
      <3>1. a \in Int /\ a =< a
        BY <1>1
      <3>. QED
        BY <3>1, Addresses
    <2>. QED
      <3>1. entry = [offset |-> AtIn(l, a) - code, line |-> l[a].line] /\ AtIn(l, a) - code \in Int
        BY <2>1 DEF EntryOf
      <3>2. l[a].line \in {l[j].line : j \in DOMAIN l}
        BY <1>1
      <3>. QED
        BY <2>1, <3>1, <3>2 DEF EntrySet
  <1>3. ASSUME NEW k \in 1..q
        PROVE  lines[k].entries[1].offset \in Int /\ lines[k].entries[1].offset =< entry.offset
    <2>1. LineHolds(l, lines[k], ms[k], code)
      BY <1>0
    <2>2. ms[k] \in Seq(FilesIn(l)) /\ ms[k] # <<>> /\ 1 \in 1..Len(ms[k])
          /\ lines[k].entries[1].offset = AtIn(l, ms[k][1]) - code
      <3>1. ms[k] \in Seq(FilesIn(l)) /\ ms[k] # <<>>
        BY <2>1 DEF LineHolds
      <3>2. 1 \in 1..Len(ms[k])
        BY <3>1
      <3>. QED
        BY <2>1, <3>1, <3>2 DEF LineHolds
    <2>3. ms[k][1] \in S /\ ms[k][1] \in FilesIn(l)
      BY <1>0, <2>2
    <2>4. ms[k][1] \in Int /\ a \in Int /\ ms[k][1] =< a
      BY <1>1, <2>3 DEF FilesIn
    <2>5. AtIn(l, ms[k][1]) \in Nat /\ AtIn(l, ms[k][1]) =< AtIn(l, a)
      BY <2>4, Addresses
    <2>. QED
      BY <1>2, <2>2, <2>5
  <1>4. keys \in Seq(Int) /\ Len(keys) = q /\ \A k \in 1..q : keys[k] = lines[k].entries[1].offset
    <2>1. keys = [k \in 1..q |-> lines[k].entries[1].offset]
      BY <1>1 DEF Firsts
    <2>2. keys \in [1..q -> Int]
      BY <1>3, <2>1
    <2>. QED
      BY <1>1, <2>1, <2>2
  <1>5. InsertIndex(keys, entry.offset) = q
    <2>1. entry.offset \in Int /\ \A k \in 1..Len(keys) : keys[k] =< entry.offset
      BY <1>2, <1>3, <1>4
    <2>. QED
      BY <1>4, <2>1, InsertBehind
  <1>6. CASE q > 0 /\ lines[q].file = l[a].data
    <2>. PICK line2 : line2 = [lines[q] EXCEPT !.entries = WithEntry(@, EntryOf(l, a, code))]
      OBVIOUS
    <2>1. q \in 1..q /\ q - 1 + 1 = q
      BY <1>1, <1>6
    <2>2. result = [lines EXCEPT ![q].entries = WithEntry(@, entry)]
      BY <1>1, <1>5, <1>6, <2>1 DEF WithLine
    <2>3. result = [lines EXCEPT ![q] = line2]
      BY <2>2
    <2>. PICK more : more = [ms EXCEPT ![q] = Append(ms[q], a)]
      OBVIOUS
    <2>4. LineHolds(l, lines[q], ms[q], code) /\ \A e \in 1..Len(ms[q]) : ms[q][e] < a
      BY <1>0, <2>1
    <2>5. LineHolds(l, line2, Append(ms[q], a), code)
      BY <1>6, <2>4, LineGrows
    <2>6. line2 \in LineSet(l) /\ Append(ms[q], a) \in Seq(FilesIn(l))
      BY <2>5 DEF LineHolds
    <2>7. /\ result \in Seq(LineSet(l)) /\ Len(result) = q /\ result[q] = line2
          /\ \A k \in 1..q : k # q => result[k] = lines[k]
      <3>1. result \in Seq(LineSet(l)) /\ Len(result) = q
        BY <1>0, <2>1, <2>3, <2>6, ExceptSeq
      <3>. QED
        BY <1>1, <2>1, <2>3, <3>1
    <2>8. /\ more \in Seq(Seq(FilesIn(l))) /\ Len(more) = q /\ more[q] = Append(ms[q], a)
          /\ \A k \in 1..q : k # q => more[k] = ms[k]
      BY <1>0, <1>1, <2>1, <2>6
    <2>9. /\ Len(more[q]) = Len(ms[q]) + 1 /\ Len(ms[q]) \in Nat /\ more[q][Len(ms[q]) + 1] = a
          /\ \A e \in 1..Len(ms[q]) : more[q][e] = ms[q][e]
      BY <1>1, <2>1, <2>8
    <2>10. \A k \in 1..q : LineHolds(l, result[k], more[k], code)
      BY <1>0, <2>5, <2>7, <2>8
    <2>11. ASSUME NEW k \in 1..q, NEW e \in 1..Len(more[k])
           PROVE  \/ e \in 1..Len(ms[k]) /\ more[k][e] = ms[k][e]
                  \/ k = q /\ more[k][e] = a
      <3>1. CASE k = q
        BY <2>9, <2>11, <3>1
      <3>2. CASE k # q
        BY <2>8, <2>11, <3>2
      <3>. QED
        BY <3>1, <3>2
    <2>12. ASSUME NEW k \in 1..q, NEW m \in 1..q, k < m, NEW e \in 1..Len(more[k]), NEW f \in 1..Len(more[m])
           PROVE  more[k][e] < more[m][f]
      <3>1. k # q /\ k < q
        BY <1>1, <2>12
      <3>2. e \in 1..Len(ms[k]) /\ more[k][e] = ms[k][e]
        BY <2>8, <2>12, <3>1
      <3>3. ms[k][e] \in S
        BY <1>0, <3>2
      <3>4. CASE f \in 1..Len(ms[m]) /\ more[m][f] = ms[m][f]
        BY <1>0, <2>12, <3>2, <3>4
      <3>5. CASE more[m][f] = a
        BY <3>2, <3>3, <3>5
      <3>. QED
        BY <2>11, <2>12, <3>4, <3>5
    <2>13. \A k \in 1..q : \A e \in 1..Len(more[k]) : more[k][e] \in S \cup {a}
      BY <1>0, <2>11
    <2>14. ASSUME NEW j \in S \cup {a}
           PROVE  \E k \in 1..q : \E e \in 1..Len(more[k]) : more[k][e] = j
      <3>1. CASE j = a
        <4>1. Len(ms[q]) + 1 \in 1..Len(more[q])
          BY <2>9
        <4>. QED
          BY <2>1, <2>9, <3>1, <4>1
      <3>2. CASE j \in S
        <4>1. PICK k \in 1..q : \E e \in 1..Len(ms[k]) : ms[k][e] = j
          BY <1>0, <3>2
        <4>2. PICK e \in 1..Len(ms[k]) : ms[k][e] = j
          BY <4>1
        <4>3. e \in 1..Len(more[k]) /\ more[k][e] = j
          <5>1. CASE k = q
            BY <2>9, <4>2, <5>1
          <5>2. CASE k # q
            BY <2>8, <4>2, <5>2
          <5>. QED
            BY <5>1, <5>2
        <4>. QED
          BY <4>3
      <3>. QED
        BY <2>14, <3>1, <3>2
    <2>15. LinesHold(l, result, more, code, S \cup {a})
      <3>1. Len(more) = Len(result) /\ 1..Len(more) = 1..q
        BY <2>7, <2>8
      <3>2. /\ \A k, m \in 1..Len(more) : k < m =>
                 \A e \in 1..Len(more[k]), f \in 1..Len(more[m]) : more[k][e] < more[m][f]
            /\ \A k \in 1..Len(more) : \A e \in 1..Len(more[k]) : more[k][e] \in S \cup {a}
            /\ \A j \in S \cup {a} : \E k \in 1..Len(more) : \E e \in 1..Len(more[k]) : more[k][e] = j
            /\ \A k \in 1..Len(more) : LineHolds(l, result[k], more[k], code)
        <4>1. \A k, m \in 1..q : k < m => \A e \in 1..Len(more[k]), f \in 1..Len(more[m]) : more[k][e] < more[m][f]
          BY <2>12
        <4>2. \A j \in S \cup {a} : \E k \in 1..q : \E e \in 1..Len(more[k]) : more[k][e] = j
          BY <2>14
        <4>5. \A k, m \in 1..Len(more) : k < m =>
                 \A e \in 1..Len(more[k]), f \in 1..Len(more[m]) : more[k][e] < more[m][f]
          BY <4>1, <3>1
        <4>6. \A k \in 1..Len(more) : \A e \in 1..Len(more[k]) : more[k][e] \in S \cup {a}
          BY <2>13, <3>1
        <4>7. \A j \in S \cup {a} : \E k \in 1..Len(more) : \E e \in 1..Len(more[k]) : more[k][e] = j
          BY <4>2, <3>1
        <4>8. \A k \in 1..Len(more) : LineHolds(l, result[k], more[k], code)
          BY <2>10, <3>1
        <4>. QED
          BY <4>5, <4>6, <4>7, <4>8
      <3>. QED
        BY <2>7, <2>8, <3>1, <3>2 DEF LinesHold
    <2>16. Longer(lines, result, l[a].data)
      <3>1. Len(line2.entries) = Len(ms[q]) + 1 /\ Len(lines[q].entries) = Len(ms[q])
        BY <2>4, <2>5, <2>8, <2>9 DEF LineHolds
      <3>2. \A k \in 1..q - 1 : k \in 1..q /\ k # q
        BY <1>1
      <3>. QED
        BY <1>6, <2>7, <3>1, <3>2 DEF Longer, Continues
    <2>. QED
      BY <2>15, <2>16
  <1>7. CASE ~(q > 0 /\ lines[q].file = l[a].data)
    <2>. PICK line2 : line2 = [file |-> l[a].data, entries |-> <<entry>>]
      OBVIOUS
    <2>1. line2 \in LineSet(l)
      <3>1. <<entry>> \in Seq(EntrySet(l))
        BY <1>2
      <3>. QED
        BY <1>1, <3>1 DEF LineSet
    <2>2. result = InsertAt(lines, q + 1, line2)
      BY <1>1, <1>5, <1>7 DEF WithLine
    <2>3. result = Append(lines, line2)
      BY <1>0, <2>1, <2>2, InsertedBehind
    <2>. PICK more : more = Append(ms, <<a>>)
      OBVIOUS
    <2>4. <<a>> \in Seq(FilesIn(l)) /\ Len(<<a>>) = 1 /\ <<a>>[1] = a
      OBVIOUS
    <2>5. LineHolds(l, line2, <<a>>, code)
      <3>1. Len(line2.entries) = 1 /\ line2.entries[1] = entry /\ line2.file = l[a].data
        OBVIOUS
      <3>2. <<a>> # <<>>
        OBVIOUS
      <3>. QED
        BY <1>2, <2>1, <2>4, <3>1, <3>2 DEF LineHolds
    <2>6. /\ result \in Seq(LineSet(l)) /\ Len(result) = q + 1 /\ result[q + 1] = line2
          /\ \A k \in 1..q : result[k] = lines[k]
      <3>1. q = Len(lines) /\ lines \in Seq(LineSet(l))
        BY <1>0
      <3>. QED
        BY <2>1, <2>3, <3>1, AppendProperties
    <2>7. /\ more \in Seq(Seq(FilesIn(l))) /\ Len(more) = q + 1 /\ more[q + 1] = <<a>>
          /\ \A k \in 1..q : more[k] = ms[k]
      <3>1. q = Len(ms) /\ ms \in Seq(Seq(FilesIn(l)))
        BY <1>0
      <3>. QED
        BY <2>4, <3>1, AppendProperties
    <2>8. \A k \in 1..q + 1 : k \in 1..q \/ k = q + 1
      BY <1>1
    <2>9. \A k \in 1..q + 1 : LineHolds(l, result[k], more[k], code)
      BY <1>0, <2>5, <2>6, <2>7, <2>8
    <2>10. ASSUME NEW k \in 1..q + 1, NEW m \in 1..q + 1, k < m, NEW e \in 1..Len(more[k]), NEW f \in 1..Len(more[m])
           PROVE  more[k][e] < more[m][f]
      <3>1. k \in 1..q /\ more[k] = ms[k] /\ ms[k][e] \in S
        BY <1>0, <1>1, <2>7, <2>10
      <3>2. CASE m \in 1..q
        BY <1>0, <2>7, <2>10, <3>1, <3>2
      <3>3. CASE m = q + 1
        <4>1. f = 1 /\ more[m][f] = a
          BY <2>4, <2>7, <2>10, <3>3
        <4>. QED
          BY <3>1, <4>1
      <3>. QED
        BY <2>8, <2>10, <3>2, <3>3
    <2>11. ASSUME NEW k \in 1..q + 1, NEW e \in 1..Len(more[k]) PROVE more[k][e] \in S \cup {a}
      <3>1. CASE k \in 1..q
        BY <1>0, <2>7, <2>11, <3>1
      <3>2. CASE k = q + 1
        BY <2>4, <2>7, <2>11, <3>2
      <3>. QED
        BY <2>8, <2>11, <3>1, <3>2
    <2>12. ASSUME NEW j \in S \cup {a}
           PROVE  \E k \in 1..q + 1 : \E e \in 1..Len(more[k]) : more[k][e] = j
      <3>1. CASE j = a
        <4>1. q + 1 \in 1..q + 1 /\ 1 \in 1..Len(more[q + 1]) /\ more[q + 1][1] = a
          BY <1>1, <2>4, <2>7
        <4>. QED
          BY <3>1, <4>1
      <3>2. CASE j \in S
        <4>1. PICK k \in 1..q : \E e \in 1..Len(ms[k]) : ms[k][e] = j
          BY <1>0, <3>2
        <4>2. k \in 1..q + 1 /\ more[k] = ms[k]
          BY <1>1, <2>7
        <4>. QED
          BY <4>1, <4>2
      <3>. QED
        BY <2>12, <3>1, <3>2
    <2>13. LinesHold(l, result, more, code, S \cup {a})
      <3>1. Len(more) = Len(result) /\ 1..Len(more) = 1..q + 1
        BY <2>6, <2>7
      <3>2. /\ \A k, m \in 1..Len(more) : k < m =>
                 \A e \in 1..Len(more[k]), f \in 1..Len(more[m]) : more[k][e] < more[m][f]
            /\ \A k \in 1..Len(more) : \A e \in 1..Len(more[k]) : more[k][e] \in S \cup {a}
            /\ \A j \in S \cup {a} : \E k \in 1..Len(more) : \E e \in 1..Len(more[k]) : more[k][e] = j
            /\ \A k \in 1..Len(more) : LineHolds(l, result[k], more[k], code)
        <4>1. \A k, m \in 1..q + 1 : k < m => \A e \in 1..Len(more[k]), f \in 1..Len(more[m]) : more[k][e] < more[m][f]
          BY <2>10
        <4>2. \A j \in S \cup {a} : \E k \in 1..q + 1 : \E e \in 1..Len(more[k]) : more[k][e] = j
          BY <2>12
        <4>3. \A k \in 1..q + 1 : \A e \in 1..Len(more[k]) : more[k][e] \in S \cup {a}
          BY <2>11
        <4>5. \A k, m \in 1..Len(more) : k < m =>
                 \A e \in 1..Len(more[k]), f \in 1..Len(more[m]) : more[k][e] < more[m][f]
          BY <4>1, <3>1
        <4>6. \A k \in 1..Len(more) : \A e \in 1..Len(more[k]) : more[k][e] \in S \cup {a}
          BY <4>3, <3>1
        <4>7. \A j \in S \cup {a} : \E k \in 1..Len(more) : \E e \in 1..Len(more[k]) : more[k][e] = j
          BY <4>2, <3>1
        <4>8. \A k \in 1..Len(more) : LineHolds(l, result[k], more[k], code)
          BY <2>9, <3>1
        <4>. QED
          BY <4>5, <4>6, <4>7, <4>8
      <3>. QED
        BY <2>6, <2>7, <3>1, <3>2 DEF LinesHold
    <2>14. Longer(lines, result, l[a].data)
      <3>1. Len(line2.entries) = 1
        OBVIOUS
      <3>. QED
        BY <1>7, <2>6, <3>1 DEF Longer, Continues
    <2>. QED
      BY <2>13, <2>14
  <1>. QED
    BY <1>6, <1>7

-----------------------------------------------------------------------------
(***************************************************************************)
(* Nodes that are neither names nor notes with a file are skipped.         *)
(***************************************************************************)
LEMMA Skipped ==
  ASSUME NEW l, NEW n \in Nat, DOMAIN l = 1..n, NEW all, NEW o, NEW p \in Int, NEW r \in Int,
         TablesHold(l, all, o, p), p =< r, \A j \in NamesIn(l) \cup FilesIn(l) : j < r => j < p
  PROVE  TablesHold(l, all, o, r)
  <1>1. \A j \in NamesIn(l) \cup FilesIn(l) : j \in 1..n
    BY DEF NamesIn, FilesIn
  <1>2. /\ o \in Seq(NamesIn(l) \cup FilesIn(l))
        /\ \A k \in 1..Len(o) : o[k] \in NamesIn(l) \cup FilesIn(l)
    BY DEF TablesHold, Starts
  <1>3. Starts(l, o, r)
    <2>1. \A k \in 1..Len(o) : o[k] < r
      BY <1>1, <1>2 DEF TablesHold, Starts
    <2>. QED
      BY <2>1 DEF TablesHold, Starts
  <1>4. \A k \in 1..Len(o) : Section(l, o, k, r) = Section(l, o, k, p)
    <2>1. \A j \in FilesIn(l) : j < r <=> j < p
      BY <1>1
    <2>. QED
      BY <2>1 DEF Section, End
  <1>5. PartsHold(l, all, o, r)
    BY <1>4 DEF TablesHold, PartsHold, NoteHolds
  <1>. QED
    BY <1>3, <1>5 DEF TablesHold

(***************************************************************************)
(* What is unchanged as the last note is ended.                            *)
(***************************************************************************)
LEMMA EndedHolds ==
  ASSUME NEW l, NEW o, NEW p, NEW code \in Nat, PartsHold(l, notes, o, p),
         o # <<>> => notes[Len(o)].code =< code, o \in Seq(Int)
  PROVE  /\ PartsHold(l, Ended(code), o, p)
         /\ o # <<>> => Ended(code)[Len(o)].size = code - notes[Len(o)].code
  <1>. PICK q : q = Len(o)
    OBVIOUS
  <1>. PICK all : all = Ended(code)
    OBVIOUS
  <1>1. q \in Nat /\ notes \in Seq(NoteSet(l)) /\ Len(notes) = q /\ DOMAIN notes = 1..q /\ (o # <<>> <=> q # 0)
    BY DEF PartsHold
  <1>2. \A k \in 1..q : notes[k] \in NoteSet(l)
    BY <1>1
  <1>3. all = [k \in 1..q |-> IF k = q THEN [notes[k] EXCEPT !.size = code - notes[k].code] ELSE notes[k]]
    BY <1>1 DEF Ended
  <1>4. ASSUME NEW k \in 1..q
        PROVE  /\ all[k] \in NoteSet(l) /\ all[k].code = notes[k].code /\ all[k].name = notes[k].name
               /\ all[k].lines = notes[k].lines
               /\ k < q => all[k] = notes[k]
               /\ k = q => all[k].size = code - notes[k].code
    <2>1. CASE k = q
      <3>1. all[k] = [notes[k] EXCEPT !.size = code - notes[k].code]
        BY <1>3, <2>1
      <3>2. notes[k] \in NoteSet(l) /\ notes[k].code \in Nat /\ notes[k].code =< code
        <4>1. notes[k] \in NoteSet(l) /\ q # 0 /\ k = Len(o)
          BY <1>1, <1>2, <2>1
        <4>2. notes[k].code =< code
          BY <1>1, <4>1
        <4>. QED
          BY <4>1, <4>2 DEF NoteSet
      <3>3. code - notes[k].code \in Nat
        BY <3>2
      <3>. QED
        BY <2>1, <3>1, <3>2, <3>3 DEF NoteSet
    <2>2. CASE k # q
      BY <1>2, <1>3, <2>2
    <2>. QED
      BY <2>1, <2>2
  <1>5. all \in Seq(NoteSet(l)) /\ Len(all) = q
    <2>1. all \in [1..q -> NoteSet(l)]
      BY <1>3, <1>4
    <2>. QED
      BY <1>1, <2>1
  <1>6. \A k \in 1..q : NoteHolds(l, all[k], o, k, p)
    BY <1>4 DEF PartsHold, NoteHolds
  <1>7. \A k \in 1..q - 1 : all[k].size = AtIn(l, o[k + 1]) - AtIn(l, o[k])
    <2>1. \A k \in 1..q - 1 : k \in 1..q /\ k < q
      BY <1>1
    <2>. QED
      BY <1>4, <2>1 DEF PartsHold
  <1>8. PartsHold(l, all, o, p)
    BY <1>5, <1>6, <1>7 DEF PartsHold
  <1>9. q # 0 => q \in 1..q
    BY <1>1
  <1>. QED
    BY <1>1, <1>4, <1>8, <1>9

(***************************************************************************)
(* A note starts at a name, or at the first file in front of all names.    *)
(***************************************************************************)
Started(l, a) ==
  [code |-> AtIn(l, a), name |-> IF a \in NamesIn(l) THEN l[a].data ELSE NULL, lines |-> <<>>, size |-> 0]

LEMMA NoteStarted ==
  ASSUME NEW l, NEW n \in Nat, DOMAIN l = 1..n, NEW all, NEW o, NEW a \in 1..n, TablesHold(l, all, o, a),
         a \in NamesIn(l) \/ (a \in FilesIn(l) /\ o = <<>>),
         o # <<>> => all[Len(o)].size = AtIn(l, a) - AtIn(l, o[Len(o)]),
         NEW p \in {a, a + 1}, p = a \/ a \in NamesIn(l)
  PROVE  Starts(l, Append(o, a), a + 1) /\ PartsHold(l, Append(all, Started(l, a)), Append(o, a), p)
  <1>. PICK q : q = Len(o)
    OBVIOUS
  <1>. PICK o2 : o2 = Append(o, a)
    OBVIOUS
  <1>. PICK more : more = Append(all, Started(l, a))
    OBVIOUS
  <1>0. /\ \A j \in NamesIn(l) \cup FilesIn(l) : j \in 1..n
        /\ \A j \in NamesIn(l) : j \notin FilesIn(l)
    BY DEF NamesIn, FilesIn
  <1>1. /\ o \in Seq(NamesIn(l) \cup FilesIn(l))
        /\ \A k, m \in 1..q : k < m => o[k] < o[m]
        /\ \A k \in 1..q : o[k] < a /\ (o[k] \in FilesIn(l) => k = 1)
        /\ \A j \in NamesIn(l) : j < a => \E k \in 1..q : o[k] = j
        /\ \A j \in FilesIn(l) : j < a => o # <<>> /\ o[1] =< j
    BY DEF TablesHold, Starts
  <1>2. q \in Nat /\ (o # <<>> <=> q # 0)
        /\ \A k \in 1..q : o[k] \in NamesIn(l) \cup FilesIn(l) /\ o[k] \in 1..n
    BY <1>0, <1>1
  <1>3. /\ o2 \in Seq(NamesIn(l) \cup FilesIn(l)) /\ Len(o2) = q + 1 /\ o2[q + 1] = a /\ o2 # <<>>
        /\ \A k \in 1..q : o2[k] = o[k]
    BY <1>1, <1>2, AppendProperties
  <1>4. \A k \in 1..q + 1 : k \in 1..q \/ k = q + 1
    BY <1>2
  <1>5. /\ all \in Seq(NoteSet(l)) /\ Len(all) = q
        /\ \A k \in 1..q : NoteHolds(l, all[k], o, k, a)
        /\ \A k \in 1..q - 1 : all[k].size = AtIn(l, o[k + 1]) - AtIn(l, o[k])
    BY DEF TablesHold, PartsHold
  <1>6. AtIn(l, a) \in Nat
    <2>1. a \in Int /\ a =< a
      OBVIOUS
    <2>. QED
      BY <2>1, Addresses
  <1>7. Started(l, a) \in NoteSet(l)
    <2>1. Started(l, a).name \in {NULL} \cup {l[j].data : j \in DOMAIN l}
      BY DEF Started
    <2>2. <<>> \in Seq(LineSet(l))
      OBVIOUS
    <2>. QED
      BY <1>6, <2>1, <2>2 DEF Started, NoteSet
  <1>8. /\ more \in Seq(NoteSet(l)) /\ Len(more) = q + 1 /\ more[q + 1] = Started(l, a)
        /\ \A k \in 1..q : more[k] = all[k]
    BY <1>5, <1>7, AppendProperties
  <1>9. Starts(l, o2, a + 1)
    <2>1. ASSUME NEW k \in 1..q + 1, NEW m \in 1..q + 1, k < m
          PROVE  o2[k] < o2[m]
      <3>1. k \in 1..q
        BY <1>2, <2>1
      <3>. QED
        BY <1>1, <1>3, <1>4, <2>1, <3>1
    <2>2. ASSUME NEW k \in 1..q + 1
          PROVE  o2[k] < a + 1 /\ (o2[k] \in FilesIn(l) => k = 1)
      <3>1. CASE k \in 1..q
        BY <1>1, <1>2, <1>3, <3>1
      <3>2. CASE k = q + 1
        BY <1>0, <1>2, <1>3, <3>2
      <3>. QED
        BY <1>4, <3>1, <3>2
    <2>3. ASSUME NEW j \in NamesIn(l), j < a + 1
          PROVE  \E k \in 1..q + 1 : o2[k] = j
      <3>1. CASE j = a
        BY <1>2, <1>3, <3>1
      <3>2. CASE j # a
        <4>1. j < a
          BY <1>0, <2>3, <3>2
        <4>2. PICK k \in 1..q : o[k] = j
          BY <1>1, <4>1
        <4>3. k \in 1..q + 1
          BY <1>2
        <4>. QED
          BY <1>3, <4>2, <4>3
      <3>. QED
        BY <3>1, <3>2
    <2>4. ASSUME NEW j \in FilesIn(l), j < a + 1
          PROVE  o2[1] =< j
      <3>1. CASE j = a
        <4>1. o = <<>> /\ q = 0
          BY <1>0, <1>2, <3>1
        <4>. QED
          BY <1>3, <3>1, <4>1
      <3>2. CASE j # a
        <4>1. j < a
          BY <1>0, <2>4, <3>2
        <4>2. o # <<>> /\ o[1] =< j /\ 1 \in 1..q
          BY <1>1, <1>2, <4>1
        <4>. QED
          BY <1>3, <4>2
      <3>. QED
        BY <3>1, <3>2
    <2>. QED
      BY <1>3, <2>1, <2>2, <2>3, <2>4 DEF Starts
  <1>10. ASSUME NEW k \in 1..q
         PROVE  NoteHolds(l, more[k], o2, k, p)
    <2>1. o2[k] = o[k] /\ more[k] = all[k] /\ NoteHolds(l, all[k], o, k, a)
      BY <1>3, <1>5, <1>8
    <2>2. End(o2, k, p) = End(o, k, a)
      <3>1. k < q + 1 /\ k + 1 \in 1..q + 1 /\ (k < q => k + 1 \in 1..q) /\ (~(k < q) => k = q)
        BY <1>2
      <3>. QED
        BY <1>3, <3>1 DEF End
    <2>3. Section(l, o2, k, p) = Section(l, o, k, a)
      BY <2>1, <2>2 DEF Section
    <2>. QED
      BY <2>1, <2>3 DEF NoteHolds
  <1>11. NoteHolds(l, more[q + 1], o2, q + 1, p)
    <2>1. Section(l, o2, q + 1, p) = {}
      <3>1. End(o2, q + 1, p) = p
        BY <1>2, <1>3 DEF End
      <3>2. ASSUME NEW j \in FilesIn(l), a =< j, j < p PROVE FALSE
        <4>1. j = a /\ p = a + 1
          BY <1>0, <3>2
        <4>. QED
          BY <1>0, <4>1
      <3>. QED
        BY <1>3, <3>1, <3>2 DEF Section
    <2>2. LinesHold(l, <<>>, <<>>, AtIn(l, a), {})
      <3>1. Len(<<>>) = 0 /\ 1..0 = {}
        OBVIOUS
      <3>2. <<>> \in Seq(LineSet(l)) /\ <<>> \in Seq(Seq(FilesIn(l)))
        OBVIOUS
      <3>. QED
        BY <3>1, <3>2 DEF LinesHold
    <2>3. more[q + 1].code = AtIn(l, a) /\ more[q + 1].lines = <<>>
          /\ more[q + 1].name = IF a \in NamesIn(l) THEN l[a].data ELSE NULL
      BY <1>8 DEF Started
    <2>4. \E ms : LinesHold(l, more[q + 1].lines, ms, more[q + 1].code, Section(l, o2, q + 1, p))
      BY <2>1, <2>2, <2>3
    <2>. QED
      BY <1>3, <2>3, <2>4 DEF NoteHolds
  <1>12. ASSUME NEW k \in 1..q + 1 - 1
         PROVE  more[k].size = AtIn(l, o2[k + 1]) - AtIn(l, o2[k])
    <2>1. k \in 1..q /\ (k = q \/ (k \in 1..q - 1 /\ k + 1 \in 1..q))
      BY <1>2
    <2>2. CASE k = q
      <3>1. all[q].size = AtIn(l, a) - AtIn(l, o[q])
        BY <1>2, <2>1
      <3>. QED
        BY <1>3, <1>8, <2>1, <2>2, <3>1
    <2>3. CASE k # q
      BY <1>3, <1>5, <1>8, <2>1, <2>3
    <2>. QED
      BY <2>2, <2>3
  <1>13. \A k \in 1..q + 1 : NoteHolds(l, more[k], o2, k, p)
    BY <1>4, <1>10, <1>11
  <1>14. PartsHold(l, more, o2, p)
    BY <1>3, <1>8, <1>12, <1>13 DEF PartsHold
  <1>. QED
    BY <1>9, <1>14

(***************************************************************************)
(* A node with a file belongs to the last note.                            *)
(***************************************************************************)
LEMMA FileNoted ==
  ASSUME NEW n \in Nat, DOMAIN list = 1..n, NEW all, NEW o, NEW a \in FilesIn(list), o # <<>>,
         Starts(list, o, a + 1), PartsHold(list, all, o, a)
  PROVE  TablesHold(list, SetNote(all, a), o, a + 1)
  <1>. PICK q : q = Len(o)
    OBVIOUS
  <1>. PICK more : more = SetNote(all, a)
    OBVIOUS
  <1>. PICK lines : lines = WithLine(all[q].lines, list[a].data, EntryOf(list, a, all[q].code))
    OBVIOUS
  <1>1. /\ o \in Seq(NamesIn(list) \cup FilesIn(list)) /\ q \in Nat /\ q \in 1..q
        /\ \A k, m \in 1..q : k < m => o[k] < o[m]
        /\ \A k \in 1..q : o[k] < a + 1 /\ o[k] \in 1..n
    <2>1. o \in Seq(NamesIn(list) \cup FilesIn(list)) /\ \A k \in 1..q : o[k] < a + 1
      BY DEF Starts
    <2>2. q \in Nat /\ q \in 1..q
      BY <2>1
    <2>3. \A k \in 1..q : o[k] \in NamesIn(list) \cup FilesIn(list)
      BY <2>1, ElementOfSeq
    <2>4. \A k, m \in 1..q : k < m => o[k] < o[m]
      BY DEF Starts
    <2>. QED
      BY <2>1, <2>2, <2>3, <2>4 DEF NamesIn, FilesIn
  <1>2. /\ all \in Seq(NoteSet(list)) /\ Len(all) = q
        /\ \A k \in 1..q : NoteHolds(list, all[k], o, k, a)
        /\ \A k \in 1..q - 1 : all[k].size = AtIn(list, o[k + 1]) - AtIn(list, o[k])
    BY DEF PartsHold
  <1>3. \A k \in 1..q : all[k] \in NoteSet(list)
    BY <1>2, ElementOfSeq
  <1>4. a \in 1..n /\ \A j \in FilesIn(list) : j \in 1..n
    BY DEF FilesIn
  <1>5. more = [all EXCEPT ![q].lines = lines]
    BY <1>2, SetsOfNodes DEF SetNote, EntryOf
  <1>. PICK note : note = [all[q] EXCEPT !.lines = lines]
    OBVIOUS
  <1>6. more = [all EXCEPT ![q] = note]
    BY <1>5
  <1>7. Section(list, o, q, a + 1) = Section(list, o, q, a) \cup {a}
    <2>1. End(o, q, a + 1) = a + 1 /\ End(o, q, a) = a
      BY <1>1 DEF End
    <2>2. o[q] =< a
      BY <1>1, <1>4
    <2>3. \A j \in FilesIn(list) : j < a + 1 <=> (j < a \/ j = a)
      BY <1>4
    <2>. QED
      BY <2>1, <2>2, <2>3 DEF Section
  <1>8. PICK new : LinesHold(list, lines, new, all[q].code, Section(list, o, q, a + 1))
    <2>1. PICK ms : LinesHold(list, all[q].lines, ms, all[q].code, Section(list, o, q, a))
      BY <1>1, <1>2 DEF NoteHolds
    <2>2. \A j \in Section(list, o, q, a) : j < a
      BY <1>1 DEF Section, End
    <2>3. all[q].code \in Int
      BY <1>1, <1>3 DEF NoteSet
    <2>4. \E new : LinesHold(list, lines, new, all[q].code, Section(list, o, q, a) \cup {a})
      BY <2>1, <2>2, <2>3, LineAdded
    <2>. QED
      BY <1>7, <2>4
  <1>9. /\ note \in NoteSet(list) /\ note.code = all[q].code /\ note.name = all[q].name
        /\ note.lines = lines /\ note.size = all[q].size
    <2>1. lines \in Seq(LineSet(list))
      BY <1>8 DEF LinesHold
    <2>. QED
      BY <1>1, <1>3, <2>1 DEF NoteSet
  <1>10. /\ more \in Seq(NoteSet(list)) /\ Len(more) = q /\ more[q] = note
         /\ \A k \in 1..q : k # q => more[k] = all[k]
    <2>1. q \in 1..Len(all)
      BY <1>1, <1>2
    <2>. QED
      <3>1. /\ more \in Seq(NoteSet(list)) /\ Len(more) = Len(all)
            /\ \A k \in 1..Len(all) : more[k] = IF k = q THEN note ELSE all[k]
        BY <1>2, <1>6, <1>9, <2>1, ExceptSeq
      <3>. QED
        BY <1>1, <1>2, <3>1
  <1>11. ASSUME NEW k \in 1..q
         PROVE  NoteHolds(list, more[k], o, k, a + 1)
    <2>1. CASE k = q
      <3>1. NoteHolds(list, all[q], o, q, a)
        BY <1>1, <1>2
      <3>. QED
        BY <1>8, <1>9, <1>10, <2>1, <3>1 DEF NoteHolds
    <2>2. CASE k # q
      <3>1. k < Len(o)
        BY <1>1, <2>2
      <3>2. Section(list, o, k, a + 1) = Section(list, o, k, a)
        BY <3>1 DEF Section, End
      <3>. QED
        BY <1>2, <1>10, <2>2, <3>2 DEF NoteHolds
    <2>. QED
      BY <2>1, <2>2
  <1>12. \A k \in 1..q - 1 : more[k].size = AtIn(list, o[k + 1]) - AtIn(list, o[k])
    <2>1. \A k \in 1..q - 1 : k \in 1..q /\ k # q
      BY <1>1
    <2>. QED
      BY <1>2, <1>10, <2>1
  <1>13. PartsHold(list, more, o, a + 1)
    BY <1>10, <1>11, <1>12 DEF PartsHold
  <1>. QED
    BY <1>13 DEF TablesHold

-----------------------------------------------------------------------------
(***************************************************************************)
(* The last of a set of nodes.                                             *)
(***************************************************************************)
LEMMA Largest ==
  ASSUME NEW n \in Nat, NEW T, T \subseteq 1..n, T # {}
  PROVE  \E j \in T : \A m \in T : m =< j
  <1>. DEFINE U == {n - j : j \in T}
  <1>1. U \subseteq Nat /\ U # {}
    <2>1. \A j \in T : n - j \in Nat
      OBVIOUS
    <2>2. PICK j : j \in T
      OBVIOUS
    <2>3. n - j \in U
      BY <2>2
    <2>. QED
      BY <2>1, <2>3
  <1>2. PICK u \in U : \A v \in U : u =< v
    BY <1>1, Smallest
  <1>3. PICK j \in T : u = n - j
    BY <1>2
  <1>4. ASSUME NEW m \in T PROVE m =< j
    <2>1. n - m \in U /\ m \in 1..n /\ j \in 1..n
      BY <1>3
    <2>. QED
      BY <1>2, <1>3, <2>1
  <1>. QED
    BY <1>4

LEMMA LastOfIs ==
  ASSUME NEW T, T \subseteq Nat \ {0}
  PROVE  /\ T = {} => LastOf(T) = 0
         /\ \A j \in T : (\A m \in T : m =< j) => LastOf(T) = j
  <1>1. ASSUME NEW j \in T \cup {0}, \A m \in T \cup {0} : j >= m
        PROVE  LastOf(T) = j
    <2>1. \A k \in T \cup {0} : (\A m \in T \cup {0} : k >= m) => k = j
      <3>1. ASSUME NEW k \in T \cup {0}, \A m \in T \cup {0} : k >= m PROVE k = j
        <4>1. k >= j /\ j >= k /\ k \in Nat /\ j \in Nat
          BY <1>1, <3>1
        <4>. QED
          BY <4>1
      <3>. QED
        BY <3>1
    <2>. QED
      BY <1>1, <2>1 DEF LastOf, Max
  <1>2. T = {} => LastOf(T) = 0
    <2>1. T = {} => \A m \in T \cup {0} : 0 >= m
      OBVIOUS
    <2>. QED
      BY <1>1, <2>1
  <1>3. ASSUME NEW j \in T, \A m \in T : m =< j PROVE LastOf(T) = j
    <2>1. \A m \in T \cup {0} : j >= m
      BY <1>3
    <2>. QED
      BY <1>1, <2>1
  <1>. QED
    BY <1>2, <1>3

(***************************************************************************)
(* The keys of the searches in a note: up to the address are those of the  *)
(* nodes in front of the instruction.                                      *)
(***************************************************************************)
Keyed(lines, ms, x, i) ==
  /\ x \in Int /\ Firsts(lines) \in Seq(Int) /\ Len(Firsts(lines)) = Len(ms)
  /\ \A k \in 1..Len(ms) :
       /\ 1 \in 1..Len(ms[k]) /\ (Firsts(lines)[k] =< x <=> ms[k][1] < i)
       /\ Offsets(lines[k].entries) \in Seq(Int) /\ Len(Offsets(lines[k].entries)) = Len(ms[k])
       /\ \A e \in 1..Len(ms[k]) : Offsets(lines[k].entries)[e] =< x <=> ms[k][e] < i

LEMMA KeysOfLines ==
  ASSUME NEW l, NEW n \in Nat, DOMAIN l = 1..n, NEW lines, NEW ms, NEW code \in Int, NEW S,
         LinesHold(l, lines, ms, code, S), NEW i \in CodeIn(l), NEW x, x = AtIn(l, i) - code
  PROVE  Keyed(lines, ms, x, i)
  <1>. PICK q : q = Len(ms)
    OBVIOUS
  <1>1. /\ lines \in Seq(LineSet(l)) /\ Len(lines) = q /\ q \in Nat /\ DOMAIN lines = 1..q
        /\ \A k \in 1..q : LineHolds(l, lines[k], ms[k], code)
    BY DEF LinesHold
  <1>2. i \in 1..n /\ AtIn(l, i) \in Nat /\ x \in Int
    <2>1. i \in Int /\ i =< i /\ i \in 1..n
      BY DEF CodeIn
    <2>. QED
      BY <2>1, Addresses
  <1>3. ASSUME NEW j \in FilesIn(l)
        PROVE  j \in Int /\ AtIn(l, j) - code \in Int /\ (AtIn(l, j) - code =< x <=> j < i)
    <2>1. j \in Int /\ j # i
      BY DEF FilesIn, CodeIn
    <2>2. AtIn(l, j) \in Nat /\ (AtIn(l, j) =< AtIn(l, i) <=> j < i)
      BY <2>1, Sides
    <2>3. AtIn(l, j) - code =< x <=> AtIn(l, j) =< AtIn(l, i)
      BY <1>2, <2>2
    <2>. QED
      BY <2>1, <2>2, <2>3
  <1>4. ASSUME NEW k \in 1..q
        PROVE  /\ 1 \in 1..Len(ms[k])
               /\ Offsets(lines[k].entries) \in Seq(Int) /\ Len(Offsets(lines[k].entries)) = Len(ms[k])
               /\ \A e \in 1..Len(ms[k]) : Offsets(lines[k].entries)[e] =< x <=> ms[k][e] < i
               /\ lines[k].entries[1].offset = Offsets(lines[k].entries)[1]
    <2>. PICK js : js = ms[k]
      OBVIOUS
    <2>. PICK entries : entries = lines[k].entries
      OBVIOUS
    <2>. PICK keys : keys = Offsets(entries)
      OBVIOUS
    <2>1. /\ lines[k] \in LineSet(l) /\ js \in Seq(FilesIn(l)) /\ js # <<>> /\ Len(entries) = Len(js)
          /\ \A e \in 1..Len(js) : entries[e].offset = AtIn(l, js[e]) - code
      BY <1>1 DEF LineHolds
    <2>2. entries \in Seq(EntrySet(l)) /\ Len(js) \in Nat /\ 1 \in 1..Len(js) /\ DOMAIN entries = 1..Len(js)
          /\ \A e \in 1..Len(js) : js[e] \in FilesIn(l)
      <3>1. entries \in Seq(EntrySet(l))
        BY <2>1 DEF LineSet
      <3>. QED
        BY <2>1, <3>1
    <2>3. keys = [e \in 1..Len(js) |-> entries[e].offset]
      BY <2>2 DEF Offsets
    <2>4. \A e \in 1..Len(js) : keys[e] = AtIn(l, js[e]) - code /\ keys[e] \in Int
      BY <1>3, <2>1, <2>2, <2>3
    <2>5. keys \in Seq(Int) /\ Len(keys) = Len(js)
      <3>1. keys \in [1..Len(js) -> Int]
        BY <2>3, <2>4
      <3>. QED
        BY <2>2, <3>1
    <2>. QED
      <3>1. \A e \in 1..Len(js) : keys[e] =< x <=> js[e] < i
        BY <1>3, <2>2, <2>4
      <3>2. entries[1].offset = keys[1]
        BY <2>2, <2>3
      <3>. QED
        BY <2>2, <2>5, <3>1, <3>2
  <1>5. Firsts(lines) = [k \in 1..q |-> lines[k].entries[1].offset]
    BY <1>1 DEF Firsts
  <1>6. \A k \in 1..q : Firsts(lines)[k] \in Int /\ (Firsts(lines)[k] =< x <=> ms[k][1] < i)
    BY <1>4, <1>5
  <1>7. Firsts(lines) \in Seq(Int) /\ Len(Firsts(lines)) = q
    <2>1. Firsts(lines) \in [1..q -> Int]
      BY <1>5, <1>6
    <2>. QED
      BY <1>1, <2>1
  <1>. QED
    BY <1>2, <1>4, <1>6, <1>7 DEF Keyed

(***************************************************************************)
(* What is found in a note is what the last node in front of the           *)
(* instruction says.                                                       *)
(***************************************************************************)
Answers(lines, x, data, number) ==
  LET line == lines[SearchIndex(Firsts(lines), x) + 1]
  IN /\ lines # <<>> /\ ~(x < Firsts(lines)[1])
     /\ line.file = data
     /\ line.entries[SearchIndex(Offsets(line.entries), x) + 1].line = number

LEMMA LinesSearched ==
  ASSUME NEW l, NEW n \in Nat, DOMAIN l = 1..n, NEW lines, NEW ms, NEW code \in Int, NEW S,
         LinesHold(l, lines, ms, code, S), NEW i \in CodeIn(l), NEW x, x = AtIn(l, i) - code,
         NEW j \in S, j < i, \A m \in S : m < i => m =< j
  PROVE  Answers(lines, x, l[j].data, l[j].line)
  <1>. PICK q : q = Len(ms)
    OBVIOUS
  <1>1. /\ lines \in Seq(LineSet(l)) /\ Len(lines) = q /\ q \in Nat
        /\ \A k \in 1..q : LineHolds(l, lines[k], ms[k], code)
        /\ \A k, m \in 1..q : k < m => \A e \in 1..Len(ms[k]), f \in 1..Len(ms[m]) : ms[k][e] < ms[m][f]
        /\ \A k \in 1..q : \A e \in 1..Len(ms[k]) : ms[k][e] \in S
        /\ \A k \in 1..q : ms[k] \in Seq(FilesIn(l))
    BY DEF LinesHold
  <1>2. i \in Int /\ \A k \in 1..q : \A e \in 1..Len(ms[k]) : ms[k][e] \in Int
    <2>1. \A k \in 1..q : \A e \in 1..Len(ms[k]) : ms[k][e] \in FilesIn(l)
      BY <1>1, ElementOfSeq
    <2>. QED
      BY <2>1 DEF CodeIn, FilesIn
  <1>3. PICK k \in 1..q : \E e \in 1..Len(ms[k]) : ms[k][e] = j
    BY DEF LinesHold
  <1>4. PICK e \in 1..Len(ms[k]) : ms[k][e] = j
    BY <1>3
  <1>5. LineHolds(l, lines[k], ms[k], code) /\ Len(ms[k]) \in Nat
    BY <1>1
  <1>6. /\ x \in Int /\ Firsts(lines) \in Seq(Int) /\ Len(Firsts(lines)) = q
        /\ \A m \in 1..q :
              /\ 1 \in 1..Len(ms[m]) /\ (Firsts(lines)[m] =< x <=> ms[m][1] < i)
        /\ Offsets(lines[k].entries) \in Seq(Int) /\ Len(Offsets(lines[k].entries)) = Len(ms[k])
        /\ \A f \in 1..Len(ms[k]) : Offsets(lines[k].entries)[f] =< x <=> ms[k][f] < i
    <2>1. Keyed(lines, ms, x, i)
      BY KeysOfLines
    <2>. QED
      BY <2>1 DEF Keyed
  <1>7. ASSUME NEW m \in 1..q
        PROVE  ms[m][1] < i <=> m =< k
    <2>1. 1 \in 1..Len(ms[m]) /\ 1 \in 1..Len(ms[k])
      BY <1>6
    <2>2. CASE m < k
      <3>1. ms[m][1] < j
        BY <1>1, <1>4, <2>1, <2>2
      <3>. QED
        BY <1>2, <1>4, <2>1, <2>2, <3>1
    <2>3. CASE m = k
      <3>1. 1 < e => ms[k][1] < j
        BY <1>4, <1>5, <2>1 DEF LineHolds
      <3>2. e = 1 \/ 1 < e
        BY <1>4, <1>5
      <3>. QED
        BY <1>2, <1>4, <2>1, <2>3, <3>1, <3>2
    <2>4. CASE k < m
      <3>1. j < ms[m][1] /\ ms[m][1] \in S
        BY <1>1, <1>4, <2>1, <2>4
      <3>. QED
        BY <1>2, <1>4, <2>1, <2>4, <3>1
    <2>. QED
      BY <1>1, <2>2, <2>3, <2>4
  <1>8. ASSUME NEW f \in 1..Len(ms[k])
        PROVE  ms[k][f] < i <=> f =< e
    <2>1. CASE f < e
      <3>1. ms[k][f] < j
        BY <1>4, <1>5, <2>1 DEF LineHolds
      <3>. QED
        BY <1>2, <1>4, <2>1, <3>1
    <2>2. CASE f = e
      BY <1>4, <2>2
    <2>3. CASE e < f
      <3>1. j < ms[k][f] /\ ms[k][f] \in S
        BY <1>1, <1>4, <1>5, <2>3 DEF LineHolds
      <3>. QED
        BY <1>2, <1>4, <2>3, <3>1
    <2>. QED
      BY <1>5, <2>1, <2>2, <2>3
  <1>9. SearchIndex(Firsts(lines), x) = k - 1
    <2>1. \A m \in 1..Len(Firsts(lines)) : Firsts(lines)[m] =< x <=> m =< k
      BY <1>6, <1>7
    <2>. QED
      BY <1>6, <2>1, SearchAt
  <1>10. SearchIndex(Offsets(lines[k].entries), x) = e - 1
    <2>1. \A m \in 1..Len(Offsets(lines[k].entries)) : Offsets(lines[k].entries)[m] =< x <=> m =< e
      BY <1>6, <1>8
    <2>. QED
      BY <1>6, <2>1, SearchAt
  <1>11. k - 1 + 1 = k /\ e - 1 + 1 = e
    BY <1>1, <1>5
  <1>12. lines # <<>> /\ ~(x < Firsts(lines)[1])
    <2>1. 1 \in 1..q /\ 1 =< k
      BY <1>1
    <2>2. Firsts(lines)[1] \in Int /\ Firsts(lines)[1] =< x
      BY <1>6, <1>7, <2>1
    <2>. QED
      BY <1>1, <1>6, <2>1, <2>2
  <1>13. lines[k].file = l[j].data /\ lines[k].entries[e].line = l[j].line
    BY <1>4, <1>5 DEF LineHolds
  <1>. QED
    BY <1>9, <1>10, <1>11, <1>12, <1>13 DEF Answers

LEMMA NothingSaid ==
  ASSUME NEW l, NEW n \in Nat, DOMAIN l = 1..n, NEW lines, NEW ms, NEW code \in Int, NEW S,
         LinesHold(l, lines, ms, code, S), NEW i \in CodeIn(l), NEW x, x = AtIn(l, i) - code,
         \A j \in S : ~(j < i), lines # <<>>
  PROVE  x < Firsts(lines)[1]
  <1>1. Len(lines) = Len(ms) /\ 1 \in 1..Len(ms)
    <2>1. lines \in Seq(LineSet(l)) /\ Len(lines) = Len(ms)
      BY DEF LinesHold
    <2>. QED
      BY <2>1
  <1>2. /\ x \in Int /\ Firsts(lines) \in Seq(Int) /\ Len(Firsts(lines)) = Len(ms)
        /\ 1 \in 1..Len(ms[1]) /\ (Firsts(lines)[1] =< x <=> ms[1][1] < i)
    <2>1. Keyed(lines, ms, x, i)
      BY KeysOfLines
    <2>. QED
      BY <1>1, <2>1 DEF Keyed
  <1>3. ms[1][1] \in S
    BY <1>1, <1>2 DEF LinesHold
  <1>4. Firsts(lines)[1] \in Int
    BY <1>1, <1>2
  <1>. QED
    BY <1>2, <1>3, <1>4

(***************************************************************************)
(* Complete tables: nothing is left to put in them, and the last note      *)
(* reaches to the end of the code.                                         *)
(***************************************************************************)
Completed(l, all, o, p) ==
  /\ TablesHold(l, all, o, p)
  /\ \A j \in NamesIn(l) \cup FilesIn(l) : j < p
  /\ o # <<>> => all[Len(o)].size = AtIn(l, Len(l) + 1) - all[Len(o)].code

\* Where the code of a note ends.
Limit(l, o, k) == IF k < Len(o) THEN o[k + 1] ELSE Len(l) + 1

LEMMA NotesInOrder ==
  ASSUME NEW n \in Nat, DOMAIN list = 1..n, Len(list) = n, NEW o, Completed(list, notes, o, place),
         NEW i \in CodeIn(list), NEW k \in 1..Len(o)
  PROVE  /\ Len(notes) = Len(o) /\ notes[k].code \in Int /\ notes[k].size \in Int
         /\ AtIn(list, i) \in Int
         /\ AtIn(list, i) < notes[k].code <=> i < o[k]
         /\ AtIn(list, i) - notes[k].code < notes[k].size <=> i < Limit(list, o, k)
         /\ o[k] \in 1..n /\ o[k] # i
  <1>. PICK q : q = Len(o)
    OBVIOUS
  <1>. PICK x : x = AtIn(list, i)
    OBVIOUS
  <1>1. /\ o \in Seq(NamesIn(list) \cup FilesIn(list)) /\ q \in Nat
        /\ notes \in Seq(NoteSet(list)) /\ Len(notes) = q
        /\ NoteHolds(list, notes[k], o, k, place)
        /\ k < q => notes[k].size = AtIn(list, o[k + 1]) - AtIn(list, o[k])
        /\ k = q => notes[k].size = AtIn(list, n + 1) - notes[k].code
    <2>1. o \in Seq(NamesIn(list) \cup FilesIn(list)) /\ q \in Nat
      BY DEF Completed, TablesHold, Starts
    <2>2. /\ notes \in Seq(NoteSet(list)) /\ Len(notes) = q
          /\ NoteHolds(list, notes[k], o, k, place)
      BY DEF Completed, TablesHold, PartsHold
    <2>3. k < q => notes[k].size = AtIn(list, o[k + 1]) - AtIn(list, o[k])
      <3>1. k < q => k \in 1..q - 1
        BY <2>1
      <3>. QED
        BY <3>1 DEF Completed, TablesHold, PartsHold
    <2>4. k = q => notes[k].size = AtIn(list, n + 1) - notes[k].code
      <3>1. k = q => o # <<>>
        BY <2>1
      <3>. QED
        BY <3>1 DEF Completed
    <2>. QED
      BY <2>1, <2>2, <2>3, <2>4
  <1>2. notes[k].code = AtIn(list, o[k])
    BY <1>1 DEF NoteHolds
  <1>3. \A m \in 1..q : o[m] \in 1..n /\ o[m] # i
    <2>1. \A m \in 1..q : o[m] \in NamesIn(list) \cup FilesIn(list)
      BY <1>1, ElementOfSeq
    <2>. QED
      BY <2>1 DEF NamesIn, FilesIn, CodeIn
  <1>4. i \in 1..n /\ i # n + 1
    BY DEF CodeIn
  <1>5. ASSUME NEW j \in 1..n + 1, j # i
        PROVE  x \in Nat /\ AtIn(list, j) \in Nat /\ (x < AtIn(list, j) <=> i < j)
    <2>1. j \in Int
      BY <1>5
    <2>. QED
      BY <1>5, <2>1, Sides
  <1>6. Limit(list, o, k) \in 1..n + 1 /\ Limit(list, o, k) # i
        /\ notes[k].size = AtIn(list, Limit(list, o, k)) - AtIn(list, o[k])
    <2>1. CASE k < q
      <3>1. k + 1 \in 1..q /\ Limit(list, o, k) = o[k + 1]
        BY <1>1, <2>1 DEF Limit
      <3>. QED
        BY <1>1, <1>3, <2>1, <3>1
    <2>2. CASE ~(k < q)
      <3>1. k = q /\ Limit(list, o, k) = n + 1
        BY <1>1, <2>2 DEF Limit
      <3>. QED
        BY <1>1, <1>2, <1>4, <3>1
    <2>. QED
      BY <2>1, <2>2
  <1>7. o[k] \in 1..n + 1 /\ o[k] # i /\ o[k] \in 1..n
    BY <1>3
  <1>8. x \in Nat /\ AtIn(list, o[k]) \in Nat /\ (x < AtIn(list, o[k]) <=> i < o[k])
    BY <1>5, <1>7
  <1>9. AtIn(list, Limit(list, o, k)) \in Nat /\ (x < AtIn(list, Limit(list, o, k)) <=> i < Limit(list, o, k))
    BY <1>5, <1>6
  <1>10. x - notes[k].code < notes[k].size <=> x < AtIn(list, Limit(list, o, k))
    BY <1>2, <1>6, <1>8, <1>9
  <1>. QED
    BY <1>1, <1>2, <1>6, <1>7, <1>8, <1>9, <1>10

(***************************************************************************)
(* Code in front of all notes.                                             *)
(***************************************************************************)
LEMMA NoNoteFound ==
  ASSUME NEW n \in Nat, DOMAIN list = 1..n, Len(list) = n, NEW o, Completed(list, notes, o, place),
         NEW i \in CodeIn(list), \A k \in 1..Len(o) : ~(o[k] < i)
  PROVE  GetNote(AtIn(list, i)) = Expected(i)
  <1>. PICK q : q = Len(o)
    OBVIOUS
  <1>. PICK x : x = AtIn(list, i)
    OBVIOUS
  <1>1. /\ o \in Seq(NamesIn(list) \cup FilesIn(list)) /\ q \in Nat /\ Len(notes) = q
        /\ \A j \in NamesIn(list) : j < place => \E k \in 1..q : o[k] = j
        /\ \A j \in FilesIn(list) : j < place => o # <<>> /\ o[1] =< j
        /\ \A j \in NamesIn(list) \cup FilesIn(list) : j < place /\ j \in 1..n
    <2>1. /\ o \in Seq(NamesIn(list) \cup FilesIn(list)) /\ q \in Nat
          /\ \A j \in NamesIn(list) : j < place => \E k \in 1..q : o[k] = j
          /\ \A j \in FilesIn(list) : j < place => o # <<>> /\ o[1] =< j
      BY DEF Completed, TablesHold, Starts
    <2>2. Len(notes) = q
      BY DEF Completed, TablesHold, PartsHold
    <2>3. \A j \in NamesIn(list) \cup FilesIn(list) : j < place /\ j \in 1..n
      BY DEF Completed, NamesIn, FilesIn
    <2>. QED
      BY <2>1, <2>2, <2>3
  <1>2. i \in 1..n
    BY DEF CodeIn
  <1>3. x \in Int
    <2>1. i \in Int /\ i =< i
      BY <1>2
    <2>2. AtIn(list, i) \in Nat
      BY <2>1, Addresses
    <2>. QED
      BY <2>2
  <1>4. ASSUME NEW k \in 1..q
        PROVE  notes[k].code \in Int /\ notes[k].size \in Int /\ x < notes[k].code
    <2>1. /\ notes[k].code \in Int /\ notes[k].size \in Int
          /\ x < notes[k].code <=> i < o[k]
          /\ o[k] \in 1..n /\ o[k] # i
      BY NotesInOrder
    <2>2. i < o[k]
      BY <1>2, <2>1
    <2>. QED
      BY <2>1, <2>2
  <1>5. NoteIndex(x) = 0
    <2>1. 0 \in 0..Len(notes) /\ Len(notes) \in Nat
      BY <1>1
    <2>2. \A k \in 1..Len(notes) :
             /\ notes[k].code \in Int /\ notes[k].size \in Int
             /\ k > 0 => x < notes[k].code
             /\ k =< 0 => ~(x < notes[k].code)
             /\ (x - notes[k].code < notes[k].size /\ k =< 0) <=> k = 0
      BY <1>1, <1>4
    <2>. QED
      BY <1>3, <2>1, <2>2, NoteIndexAt
  <1>6. GetNote(x) = NotFound
    <2>1. CASE q = 0
      BY <1>1, <1>5, <2>1 DEF GetNote
    <2>2. CASE q # 0
      <3>1. 1 \in 1..q /\ 0 + 1 = 1
        BY <1>1, <2>2
      <3>2. x < notes[NoteIndex(x) + 1].code
        BY <1>4, <1>5, <3>1
      <3>. QED
        BY <3>2 DEF GetNote
    <2>. QED
      BY <2>1, <2>2
  <1>7. \A j \in NamesIn(list) \cup FilesIn(list) : ~(j < i)
    <2>1. ASSUME NEW j \in NamesIn(list) PROVE ~(j < i)
      BY <1>1
    <2>2. ASSUME NEW j \in FilesIn(list), j < i PROVE FALSE
      <3>1. o # <<>> /\ o[1] =< j
        BY <1>1
      <3>2. 1 \in 1..q /\ q # 0
        BY <1>1, <3>1
      <3>3. o[1] \in 1..n /\ j \in 1..n /\ ~(o[1] < i)
        BY <1>1, <3>2
      <3>. QED
        BY <1>2, <2>2, <3>1, <3>3
    <2>. QED
      BY <2>1, <2>2
  <1>8. Expected(i) = NotFound
    <2>. PICK name : name = LastOf({j \in Kind({"name"}) : j < i})
      OBVIOUS
    <2>. DEFINE T == {j \in Kind({"note"}) : name < j /\ j < i /\ list[j].data # NULL}
    <2>1. T = {}
      BY <1>7 DEF Kind, FilesIn
    <2>2. LastOf(T) = 0
      <3>. HIDE DEF T
      <3>. QED
        BY <2>1, LastOfIs
    <2>. QED
      BY <2>2 DEF Expected
  <1>. QED
    BY <1>6, <1>8

(***************************************************************************)
(* Code in note c: what the reference says is in the section of the note.  *)
(***************************************************************************)
LEMMA NameBefore ==
  ASSUME NEW n \in Nat, DOMAIN list = 1..n, NEW o, Completed(list, notes, o, place),
         NEW i \in CodeIn(list), NEW c \in 1..Len(o), o[c] < i, \A k \in 1..Len(o) : o[k] < i => k =< c
  PROVE  LastOf({j \in Kind({"name"}) : j < i}) = IF o[c] \in NamesIn(list) THEN o[c] ELSE 0
  <1>. DEFINE T == {j \in NamesIn(list) : j < i}
  <1>1. /\ \A k, m \in 1..Len(o) : k < m => o[k] < o[m]
        /\ \A k \in 1..Len(o) : o[k] \in FilesIn(list) => k = 1
        /\ \A j \in NamesIn(list) : j < place => \E k \in 1..Len(o) : o[k] = j
        /\ o \in Seq(NamesIn(list) \cup FilesIn(list))
    BY DEF Completed, TablesHold, Starts
  <1>2. \A j \in NamesIn(list) \cup FilesIn(list) : j < place /\ j \in 1..n
    BY DEF Completed, NamesIn, FilesIn
  <1>3. o[c] \in NamesIn(list) \cup FilesIn(list) /\ o[c] \in 1..n
    BY <1>1, <1>2, ElementOfSeq
  <1>4. ASSUME NEW j \in T
        PROVE  \E k \in 1..c : o[k] = j
    <2>1. PICK k \in 1..Len(o) : o[k] = j
      BY <1>1, <1>2
    <2>2. k =< c
      BY <2>1
    <2>. QED
      BY <2>1, <2>2
  <1>5. T \subseteq Nat \ {0}
    BY <1>2
  <1>6. T = {j \in Kind({"name"}) : j < i}
    BY DEF Kind, NamesIn
  <1>7. CASE o[c] \in NamesIn(list)
    <2>1. o[c] \in T
      BY <1>7
    <2>2. ASSUME NEW j \in T PROVE j =< o[c]
      <3>1. PICK k \in 1..c : o[k] = j
        BY <1>4
      <3>2. k \in 1..Len(o) /\ (k = c \/ k < c)
        OBVIOUS
      <3>3. k < c => j < o[c]
        BY <1>1, <3>1, <3>2
      <3>4. j \in 1..n
        BY <1>2
      <3>. QED
        BY <1>3, <3>1, <3>2, <3>3, <3>4
    <2>. HIDE DEF T
    <2>. QED
      BY <1>5, <1>6, <1>7, <2>1, <2>2, LastOfIs
  <1>8. CASE o[c] \notin NamesIn(list)
    <2>1. c = 1 /\ o[c] \in FilesIn(list)
      BY <1>1, <1>3, <1>8
    <2>2. T = {}
      <3>1. ASSUME NEW j \in T PROVE FALSE
        <4>1. PICK k \in 1..c : o[k] = j
          BY <1>4
        <4>2. k = c
          BY <2>1
        <4>. QED
          BY <1>8, <4>1, <4>2
      <3>. QED
        BY <3>1
    <2>. HIDE DEF T
    <2>. QED
      BY <1>5, <1>6, <1>8, <2>2, LastOfIs
  <1>. QED
    BY <1>7, <1>8

LEMMA FilesBefore ==
  ASSUME NEW n \in Nat, DOMAIN list = 1..n, NEW o, Completed(list, notes, o, place),
         NEW i \in CodeIn(list), NEW c \in 1..Len(o), o[c] < i, \A k \in 1..Len(o) : o[k] < i => k =< c,
         NEW name, name = IF o[c] \in NamesIn(list) THEN o[c] ELSE 0
  PROVE  {j \in Kind({"note"}) : name < j /\ j < i /\ list[j].data # NULL}
         = {j \in Section(list, o, c, place) : j < i}
  <1>1. /\ \A k \in 1..Len(o) : o[k] \in FilesIn(list) => k = 1
        /\ \A j \in FilesIn(list) : j < place => o # <<>> /\ o[1] =< j
        /\ o \in Seq(NamesIn(list) \cup FilesIn(list))
    BY DEF Completed, TablesHold, Starts
  <1>2. \A j \in NamesIn(list) \cup FilesIn(list) : j < place /\ j \in 1..n
    BY DEF Completed, NamesIn, FilesIn
  <1>3. \A k \in 1..Len(o) : o[k] \in NamesIn(list) \cup FilesIn(list) /\ o[k] \in 1..n
    BY <1>1, <1>2, ElementOfSeq
  <1>4. \A j \in FilesIn(list) : j \notin NamesIn(list) /\ j \in 1..n
    BY <1>2 DEF NamesIn, FilesIn
  <1>5. i \in 1..n /\ Len(o) \in Nat
    BY <1>1 DEF CodeIn
  <1>6. ASSUME NEW j \in FilesIn(list), j < i
        PROVE  name < j <=> (o[c] =< j /\ j < End(o, c, place))
    <2>1. j < End(o, c, place)
      <3>1. CASE c < Len(o)
        <4>1. c + 1 \in 1..Len(o) /\ ~(c + 1 =< c)
          BY <1>5, <3>1
        <4>2. ~(o[c + 1] < i) /\ o[c + 1] \in 1..n
          BY <1>3, <4>1
        <4>. QED
          BY <1>4, <1>5, <1>6, <3>1, <4>2 DEF End
      <3>2. CASE ~(c < Len(o))
        BY <1>2, <3>2 DEF End
      <3>. QED
        BY <3>1, <3>2
    <2>2. CASE o[c] \in NamesIn(list)
      <3>1. o[c] # j /\ name = o[c] /\ o[c] \in 1..n /\ j \in 1..n
        BY <1>3, <1>4, <2>2
      <3>. QED
        BY <2>1, <3>1
    <2>3. CASE o[c] \notin NamesIn(list)
      <3>1. c = 1 /\ name = 0 /\ o[1] =< j /\ j \in 1..n
        BY <1>1, <1>2, <1>3, <1>4, <2>3
      <3>. QED
        BY <2>1, <3>1
    <2>. QED
      BY <2>2, <2>3
  <1>. QED
    BY <1>6 DEF Section, Kind, FilesIn

LEMMA NoteFound ==
  ASSUME NEW n \in Nat, DOMAIN list = 1..n, Len(list) = n, NEW o, Completed(list, notes, o, place),
         NEW i \in CodeIn(list), NEW c \in 1..Len(o), o[c] < i, \A k \in 1..Len(o) : o[k] < i => k =< c
  PROVE  GetNote(AtIn(list, i)) = Expected(i)
  <1>. PICK q : q = Len(o)
    OBVIOUS
  <1>. PICK x : x = AtIn(list, i)
    OBVIOUS
  <1>. PICK S : S = Section(list, o, c, place)
    OBVIOUS
  <1>. PICK name : name = IF o[c] \in NamesIn(list) THEN o[c] ELSE 0
    OBVIOUS
  <1>. PICK T : T = {j \in S : j < i}
    OBVIOUS
  <1>1. /\ o \in Seq(NamesIn(list) \cup FilesIn(list)) /\ q \in Nat /\ Len(notes) = q
        /\ NoteHolds(list, notes[c], o, c, place)
        /\ \A k, m \in 1..q : k < m => o[k] < o[m]
    BY DEF Completed, TablesHold, Starts, PartsHold
  <1>2. i \in 1..n
    BY DEF CodeIn
  <1>3. ASSUME NEW k \in 1..q
        PROVE  /\ notes[k].code \in Int /\ notes[k].size \in Int /\ x \in Int
               /\ x < notes[k].code <=> i < o[k]
               /\ x - notes[k].code < notes[k].size <=> i < Limit(list, o, k)
               /\ o[k] \in 1..n /\ o[k] # i
    BY NotesInOrder
  <1>4. ASSUME NEW k \in 1..q
        PROVE  o[k] < i <=> k =< c
    <2>1. k < c => o[k] < o[c]
      BY <1>1
    <2>2. o[k] \in 1..n /\ o[c] \in 1..n
      BY <1>3
    <2>. QED
      BY <1>2, <2>1, <2>2
  <1>5. ASSUME NEW k \in 1..q, k =< c
        PROVE  i < Limit(list, o, k) <=> k = c
    <2>1. CASE k < q
      <3>1. k + 1 \in 1..q /\ Limit(list, o, k) = o[k + 1]
        BY <1>1, <2>1 DEF Limit
      <3>2. o[k + 1] < i <=> k + 1 =< c
        BY <1>4, <3>1
      <3>3. o[k + 1] \in 1..n /\ o[k + 1] # i
        BY <1>3, <3>1
      <3>. QED
        BY <1>2, <1>5, <3>1, <3>2, <3>3
    <2>2. CASE ~(k < q)
      <3>1. k = q /\ k = c /\ Limit(list, o, k) = n + 1
        BY <1>1, <1>5, <2>2 DEF Limit
      <3>. QED
        BY <1>2, <3>1
    <2>. QED
      BY <2>1, <2>2
  <1>6. NoteIndex(x) = c - 1
    <2>1. c \in 0..Len(notes) /\ c # 0 /\ Len(notes) \in Nat
      BY <1>1
    <2>2. ASSUME NEW k \in 1..Len(notes)
          PROVE  /\ notes[k].code \in Int /\ notes[k].size \in Int
                 /\ k > c => x < notes[k].code
                 /\ k =< c => ~(x < notes[k].code)
                 /\ (x - notes[k].code < notes[k].size /\ k =< c) <=> k = c
      <3>1. k \in 1..q
        BY <1>1
      <3>2. /\ notes[k].code \in Int /\ notes[k].size \in Int
            /\ x < notes[k].code <=> i < o[k]
            /\ x - notes[k].code < notes[k].size <=> i < Limit(list, o, k)
            /\ o[k] \in 1..n /\ o[k] # i
        BY <1>3, <3>1
      <3>3. o[k] < i <=> k =< c
        BY <1>4, <3>1
      <3>4. k =< c => (i < Limit(list, o, k) <=> k = c)
        BY <1>5, <3>1
      <3>. QED
        BY <1>2, <3>2, <3>3, <3>4
    <2>3. x \in Int
      BY <1>3
    <2>4. NoteIndex(x) = IF c = 0 THEN 0 ELSE c - 1
      BY <2>1, <2>2, <2>3, NoteIndexAt
    <2>. QED
      BY <2>1, <2>4
  <1>. PICK note : note = notes[c]
    OBVIOUS
  <1>7. note = notes[NoteIndex(x) + 1] /\ ~(NoteIndex(x) >= Len(notes))
    <2>1. c - 1 + 1 = c /\ ~(c - 1 >= q)
      BY <1>1
    <2>. QED
      BY <1>1, <1>6, <2>1
  <1>8. /\ note.code \in Int /\ note.size \in Int /\ x \in Int
        /\ ~(x < note.code) /\ ~(x >= note.code + note.size)
    <2>1. /\ note.code \in Int /\ note.size \in Int /\ x \in Int
          /\ x < note.code <=> i < o[c]
          /\ x - note.code < note.size <=> i < Limit(list, o, c)
          /\ o[c] \in 1..n
      BY <1>3
    <2>2. i < Limit(list, o, c)
      BY <1>5
    <2>3. ~(i < o[c])
      BY <1>2, <2>1
    <2>4. ~(x < note.code) /\ x - note.code < note.size
      BY <2>1, <2>2, <2>3
    <2>. QED
      BY <2>1, <2>4
  <1>9. PICK ms : LinesHold(list, note.lines, ms, note.code, S)
    BY <1>1 DEF NoteHolds
  <1>. PICK within : within = AtIn(list, i) - note.code
    OBVIOUS
  <1>10. LastOf({j \in Kind({"name"}) : j < i}) = name
    BY NameBefore
  <1>11. {j \in Kind({"note"}) : name < j /\ j < i /\ list[j].data # NULL} = T
    BY FilesBefore
  <1>12. T \subseteq 1..n /\ T \subseteq Nat \ {0}
    BY DEF Section, FilesIn
  <1>13. Expected(i) = IF LastOf(T) = 0 THEN NotFound
                       ELSE <<IF name = 0 THEN NULL ELSE list[name].data, list[LastOf(T)].data, list[LastOf(T)].line>>
    BY <1>10, <1>11 DEF Expected
  <1>14. CASE T = {}
    <2>1. Expected(i) = NotFound
      BY <1>12, <1>13, <1>14, LastOfIs
    <2>2. \A j \in S : ~(j < i)
      BY <1>14
    <2>3. note.lines # <<>> => within < Firsts(note.lines)[1]
      BY <1>8, <1>9, <2>2, NothingSaid
    <2>4. GetNote(x) = NotFound
      BY <1>7, <2>3 DEF GetNote
    <2>. QED
      BY <2>1, <2>4
  <1>15. CASE T # {}
    <2>1. PICK j \in T : \A m \in T : m =< j
      BY <1>12, <1>15, Largest
    <2>2. LastOf(T) = j /\ j # 0
      BY <1>12, <2>1, LastOfIs
    <2>. PICK line : line = note.lines[SearchIndex(Firsts(note.lines), within) + 1]
      OBVIOUS
    <2>3. /\ note.lines # <<>> /\ ~(within < Firsts(note.lines)[1])
          /\ line.file = list[j].data
          /\ line.entries[SearchIndex(Offsets(line.entries), within) + 1].line = list[j].line
      <3>1. j \in S /\ j < i /\ \A m \in S : m < i => m =< j
        BY <2>1
      <3>2. Answers(note.lines, within, list[j].data, list[j].line)
        BY <1>8, <1>9, <3>1, LinesSearched
      <3>. QED
        BY <3>2 DEF Answers
    <2>4. GetNote(x) = <<note.name, line.file, line.entries[SearchIndex(Offsets(line.entries), within) + 1].line>>
      BY <1>7, <1>8, <2>3 DEF GetNote
    <2>5. note.name = IF name = 0 THEN NULL ELSE list[name].data
      <3>1. note.name = IF o[c] \in NamesIn(list) THEN list[o[c]].data ELSE NULL
        BY <1>1 DEF NoteHolds
      <3>2. o[c] \in 1..n /\ o[c] # 0
        BY <1>3
      <3>. QED
        BY <3>1, <3>2
    <2>. QED
      BY <1>13, <2>2, <2>3, <2>4, <2>5
  <1>. QED
    BY <1>14, <1>15

-----------------------------------------------------------------------------
(***************************************************************************)
(* The types of nodes, and what is known of the tables in each phase.      *)
(***************************************************************************)
Listed ==
  /\ Sequence
  /\ \A i \in DOMAIN list :
       /\ list[i].kind \in {"name", "note", "code"}
       /\ list[i].kind # "code" => list[i].data \in {NULL} \cup DOMAIN nodes

Annotating ==
  /\ phase \in {"build", "realize", "annotate", "done", "failed"}
  /\ place \in 1..Len(list) + 1 /\ space \in Nat /\ last \in {NULL} \cup Kind({"note"})
  /\ phase \in {"build", "realize", "failed"} => notes = <<>>
  /\ phase \in {"annotate", "done"} => \E o : TablesHold(list, notes, o, place)
  /\ phase = "done" => \E o : Completed(list, notes, o, place)

NotesInv == PoolInv /\ Listed /\ Held /\ Annotating

LEMMA ListLong ==
  ASSUME Sequence
  PROVE  Len(list) \in Nat /\ DOMAIN list = 1..Len(list)
  <1>1. PICK S : list \in Seq(S)
    BY DEF Sequence
  <1>. QED
    BY <1>1

LEMMA NotesStart == Init => Listed /\ Annotating
  <1>. SUFFICES ASSUME Init PROVE Listed /\ Annotating
    OBVIOUS
  <1>1. list = <<>> /\ Sequence /\ DOMAIN list = {} /\ Len(list) = 0
    BY HeldStart DEF Init
  <1>2. phase = "build" /\ place = 1 /\ space = 40 /\ last = NULL /\ notes = <<>>
    BY DEF Init, SizeofNote
  <1>. QED
    BY <1>1, <1>2 DEF Listed, Annotating

(***************************************************************************)
(* The next node that is looked at.                                        *)
(***************************************************************************)
LEMMA AheadIs ==
  ASSUME NEW n \in Nat, Len(list) = n, place \in 1..n + 1, NEW S, S \subseteq 1..n
  PROVE  /\ Ahead(S) \in S \cup {n + 1} /\ Ahead(S) \in 1..n + 1 /\ place =< Ahead(S)
         /\ \A j \in S : j < Ahead(S) => j < place
  <1>. PICK T : T = {i \in S : i >= place} \cup {n + 1}
    OBVIOUS
  <1>1. T \subseteq Nat /\ T # {} /\ T \subseteq S \cup {n + 1} /\ \A i \in T : place =< i /\ i \in 1..n + 1
    <2>1. T # {} /\ T \subseteq S \cup {n + 1}
      OBVIOUS
    <2>2. \A i \in T : place =< i /\ i \in 1..n + 1 /\ i \in Nat
      OBVIOUS
    <2>. QED
      BY <2>1, <2>2
  <1>2. \E x \in T : \A y \in T : x =< y
    BY <1>1, Smallest
  <1>3. Ahead(S) \in T /\ \A y \in T : Ahead(S) =< y
    <2>1. Ahead(S) = CHOOSE x \in T : \A y \in T : x =< y
      BY DEF Ahead, Min
    <2>. QED
      BY <1>2, <2>1
  <1>4. \A j \in S : j < Ahead(S) => j < place
    <2>1. ASSUME NEW j \in S, j < Ahead(S), ~(j < place) PROVE FALSE
      <3>1. j \in T /\ j \in 1..n /\ Ahead(S) \in 1..n + 1
        BY <1>1, <1>3, <2>1
      <3>2. Ahead(S) =< j
        BY <1>3, <3>1
      <3>. QED
        BY <2>1, <3>1, <3>2
    <2>. QED
      BY <2>1
  <1>. QED
    BY <1>1, <1>3, <1>4

(***************************************************************************)
(* The list while it is built.                                             *)
(***************************************************************************)
LEMMA NodesGrow ==
  ASSUME PoolInv, [PoolNext]_poolVars
  PROVE  DOMAIN nodes \subseteq DOMAIN nodes'
  <1>1. nodes' = nodes \/ \E n : nodes' = Append(nodes, n)
    BY DEF PoolNext, Data, Share, Add, poolVars
  <1>2. nodes \in Seq(NodeSet)
    BY DEF PoolInv, PoolTyped
  <1>3. ASSUME NEW n, nodes' = Append(nodes, n) PROVE DOMAIN nodes \subseteq DOMAIN nodes'
    <2>1. nodes \in Seq(NodeSet \cup {n}) /\ n \in NodeSet \cup {n}
      BY <1>2
    <2>2. nodes' \in Seq(NodeSet \cup {n}) /\ Len(nodes') = Len(nodes) + 1
      BY <1>3, <2>1, AppendProperties
    <2>3. DOMAIN nodes = 1..Len(nodes) /\ DOMAIN nodes' = 1..Len(nodes') /\ Len(nodes) \in Nat
      BY <2>1, <2>2
    <2>. QED
      BY <2>2, <2>3
  <1>. QED
    BY <1>1, <1>3

LEMMA ListGrows ==
  ASSUME Listed, Annotating, phase = "build", DOMAIN nodes \subseteq DOMAIN nodes',
         NEW n, list' = Append(list, n), n.kind \in {"name", "note", "code"},
         n.kind # "code" => n.data \in {NULL} \cup DOMAIN nodes',
         UNCHANGED <<phase, place, notes>>, space' \in Nat,
         last' \in {NULL, last} \/ (last' = Len(list) + 1 /\ n.kind = "note")
  PROVE  Listed' /\ Annotating'
  <1>. PICK m : m = Len(list)
    OBVIOUS
  <1>1. PICK S : list \in Seq(S)
    BY DEF Listed, Sequence
  <1>2. list \in Seq(S \cup {n}) /\ n \in S \cup {n}
    BY <1>1
  <1>3. list' \in Seq(S \cup {n}) /\ Len(list') = m + 1 /\ list'[m + 1] = n
        /\ \A i \in 1..m : list'[i] = list[i]
    BY <1>2, AppendProperties
  <1>4. m \in Nat /\ DOMAIN list = 1..m /\ DOMAIN list' = 1..m + 1
    BY <1>2, <1>3
  <1>5. Listed'
    <2>1. ASSUME NEW i \in 1..m + 1
          PROVE  /\ list'[i].kind \in {"name", "note", "code"}
                 /\ list'[i].kind # "code" => list'[i].data \in {NULL} \cup DOMAIN nodes'
      <3>1. CASE i \in 1..m
        BY <1>3, <1>4, <3>1 DEF Listed
      <3>2. CASE i = m + 1
        BY <1>3, <3>2
      <3>. QED
        BY <1>4, <3>1, <3>2
    <2>2. Sequence'
      BY <1>3 DEF Sequence
    <2>. QED
      BY <1>4, <2>1, <2>2 DEF Listed
  <1>6. last' \in {NULL} \cup {i \in 1..m + 1 : list'[i].kind = "note"}
    <2>1. last \in {NULL} \cup {i \in 1..m : list[i].kind = "note"}
      BY <1>4 DEF Annotating, Kind
    <2>2. last \in {NULL} \cup {i \in 1..m + 1 : list'[i].kind = "note"}
      BY <1>3, <1>4, <2>1
    <2>3. last' = m + 1 /\ n.kind = "note" => last' \in {i \in 1..m + 1 : list'[i].kind = "note"}
      BY <1>3, <1>4
    <2>. QED
      BY <2>2, <2>3
  <1>7. last' \in ({NULL} \cup Kind({"note"}))'
    BY <1>4, <1>6 DEF Kind
  <1>8. place' \in 1..Len(list') + 1
    BY <1>3, <1>4 DEF Annotating
  <1>9. phase' = "build" /\ notes' = <<>>
    BY DEF Annotating
  <1>. QED
    BY <1>5, <1>7, <1>8, <1>9 DEF Annotating

(***************************************************************************)
(* A node that jit_data returns is one.                                    *)
(***************************************************************************)
LEMMA NodeReturned ==
  ASSUME PoolInv, NEW c \in Constants, NEW a \in Alignments(c), Data(c, a)
  PROVE  Node(c) \in DOMAIN nodes'
  <1>1. nodes \in Seq(NodeSet) /\ DOMAIN nodes = 1..Len(nodes) /\ Len(nodes) \in Nat
    BY DEF PoolInv, PoolTyped
  <1>2. CASE Found(c) = {}
    <2>1. Add(c, a)
      BY <1>2 DEF Data, Share
    <2>2. nodes' \in Seq(NodeSet) /\ Len(nodes') = New /\ New = Len(nodes) + 1
      BY <2>1, AddedNode
    <2>3. DOMAIN nodes' = 1..New /\ New \in 1..New
      BY <1>1, <2>2
    <2>. QED
      BY <1>2, <2>3 DEF Node
  <1>3. CASE Found(c) # {}
    <2>1. nodes' = nodes
      BY <1>3 DEF Data, Share, Add
    <2>2. Found(c) \subseteq 1..Len(nodes)
      <3>1. Hash[c] \in Nat /\ size \in Nat \ {0} /\ table \in [0..size - 1 -> SUBSET (1..Len(nodes))]
        BY PoolAssumption DEF PoolInv, PoolTyped
      <3>2. Bucket(c, size) \in 0..size - 1
        BY <3>1, InTable DEF Bucket
      <3>. QED
        BY <3>1, <3>2 DEF Found
    <2>3. Node(c) \in Found(c)
      BY <1>3 DEF Node
    <2>. QED
      BY <1>1, <2>1, <2>2, <2>3
  <1>. QED
    BY <1>2, <1>3

-----------------------------------------------------------------------------
(***************************************************************************)
(* jit_annotate.                                                           *)
(***************************************************************************)
LEMMA NextMark ==
  ASSUME Listed, Annotating
  PROVE  /\ Annotated \in NamesIn(list) \cup FilesIn(list) \cup {Len(list) + 1}
         /\ Annotated \in 1..Len(list) + 1 /\ place =< Annotated
         /\ \A j \in NamesIn(list) \cup FilesIn(list) : j < Annotated => j < place
  <1>. DEFINE M == NamesIn(list) \cup FilesIn(list)
  <1>1. Len(list) \in Nat /\ DOMAIN list = 1..Len(list)
    BY ListLong DEF Listed
  <1>2. Annotated = Ahead(M)
    BY SetsOfNodes DEF Annotated
  <1>3. M \subseteq 1..Len(list)
    BY <1>1 DEF NamesIn, FilesIn
  <1>4. place \in 1..Len(list) + 1
    BY DEF Annotating
  <1>. HIDE DEF M
  <1>5. /\ Ahead(M) \in M \cup {Len(list) + 1} /\ Ahead(M) \in 1..Len(list) + 1 /\ place =< Ahead(M)
        /\ \A j \in M : j < Ahead(M) => j < place
    BY <1>1, <1>3, <1>4, AheadIs
  <1>. QED
    BY <1>2, <1>5 DEF M

\* The last note is ended where the next one starts, or where the code ends.
LEMMA LastEnded ==
  ASSUME NEW n \in Nat, DOMAIN list = 1..n, NEW o, NEW p, NEW a \in 1..n + 1, TablesHold(list, notes, o, p),
         \A k \in 1..Len(o) : o[k] < a
  PROVE  /\ PartsHold(list, Ended(At(a)), o, p) /\ At(a) = AtIn(list, a) /\ At(a) \in Nat
         /\ o # <<>> => Ended(At(a))[Len(o)].size = AtIn(list, a) - AtIn(list, o[Len(o)])
         /\ o # <<>> => Ended(At(a))[Len(o)].code = AtIn(list, o[Len(o)])
  <1>1. At(a) = AtIn(list, a)
    BY SetsOfNodes
  <1>2. At(a) \in Nat
    <2>1. a \in Int /\ a =< a
      OBVIOUS
    <2>. QED
      BY <1>1, <2>1, Addresses
  <1>3. PartsHold(list, notes, o, p) /\ o \in Seq(NamesIn(list) \cup FilesIn(list))
    BY DEF TablesHold, Starts
  <1>4. o \in Seq(Int) /\ Len(o) \in Nat /\ (o # <<>> => Len(o) \in 1..Len(o))
    <2>1. NamesIn(list) \cup FilesIn(list) \subseteq Int
      BY DEF NamesIn, FilesIn
    <2>. QED
      BY <1>3, <2>1
  <1>5. ASSUME o # <<>>
        PROVE  notes[Len(o)].code = AtIn(list, o[Len(o)]) /\ notes[Len(o)].code =< At(a)
    <2>1. Len(o) \in 1..Len(o)
      BY <1>4, <1>5
    <2>2. notes[Len(o)].code = AtIn(list, o[Len(o)])
      BY <1>3, <2>1 DEF PartsHold, NoteHolds
    <2>3. o[Len(o)] \in Int /\ a \in Int /\ o[Len(o)] =< a
      BY <1>4, <2>1
    <2>. QED
      BY <1>1, <2>2, <2>3, Addresses
  <1>6. /\ PartsHold(list, Ended(At(a)), o, p)
        /\ o # <<>> => Ended(At(a))[Len(o)].size = At(a) - notes[Len(o)].code
    BY <1>2, <1>3, <1>4, <1>5, EndedHolds
  <1>7. o # <<>> => Ended(At(a))[Len(o)].code = AtIn(list, o[Len(o)])
    BY <1>4, <1>6 DEF PartsHold, NoteHolds
  <1>. QED
    BY <1>1, <1>2, <1>5, <1>6, <1>7

LEMMA Begun ==
  ASSUME NEW n \in Nat, DOMAIN list = 1..n, NEW o, NEW a \in 1..n, TablesHold(list, notes, o, a),
         a \in NamesIn(list) \/ (a \in FilesIn(list) /\ o = <<>>),
         NEW name, name = IF a \in NamesIn(list) THEN list[a].data ELSE NULL,
         NEW p \in {a, a + 1}, p = a \/ a \in NamesIn(list)
  PROVE  /\ Starts(list, Append(o, a), a + 1)
         /\ PartsHold(list, WithNote(At(a), name), Append(o, a), p)
  <1>. PICK all : all = Ended(At(a))
    OBVIOUS
  <1>1. \A k \in 1..Len(o) : o[k] < a
    BY DEF TablesHold, Starts
  <1>2. a \in 1..n + 1
    OBVIOUS
  <1>3. /\ PartsHold(list, all, o, a) /\ At(a) = AtIn(list, a)
        /\ o # <<>> => all[Len(o)].size = AtIn(list, a) - AtIn(list, o[Len(o)])
    BY <1>1, <1>2, LastEnded
  <1>4. TablesHold(list, all, o, a)
    BY <1>3 DEF TablesHold
  <1>5. Starts(list, Append(o, a), a + 1) /\ PartsHold(list, Append(all, Started(list, a)), Append(o, a), p)
    BY <1>3, <1>4, NoteStarted
  <1>6. WithNote(At(a), name) = Append(all, Started(list, a))
    BY <1>3 DEF WithNote, Started
  <1>. QED
    BY <1>5, <1>6

LEMMA AnnotateNameStep ==
  ASSUME Listed, Annotating, AnnotateName
  PROVE  Listed' /\ Annotating'
  <1>. PICK n : n = Len(list)
    OBVIOUS
  <1>. PICK a : a = Annotated
    OBVIOUS
  <1>1. n \in Nat /\ DOMAIN list = 1..n
    BY ListLong DEF Listed
  <1>2. a \in NamesIn(list) /\ a \in 1..n /\ place \in 1..n + 1 /\ place =< a
        /\ \A j \in NamesIn(list) \cup FilesIn(list) : j < a => j < place
    <2>1. a \in NamesIn(list)
      BY SetsOfNodes DEF AnnotateName
    <2>2. a \in 1..n
      BY <1>1, <2>1 DEF NamesIn
    <2>. QED
      BY <2>1, <2>2, NextMark DEF Annotating
  <1>3. PICK o : TablesHold(list, notes, o, place)
    BY DEF AnnotateName, Annotating
  <1>4. TablesHold(list, notes, o, a)
    BY <1>1, <1>2, <1>3, Skipped
  <1>5. notes' = WithNote(At(a), list[a].data) /\ place' = a + 1 /\ UNCHANGED <<list, last, space, phase, nodes>>
        /\ phase = "annotate"
    BY DEF AnnotateName, poolVars
  <1>6. TablesHold(list, notes', Append(o, a), a + 1)
    <2>1. Starts(list, Append(o, a), a + 1) /\ PartsHold(list, WithNote(At(a), list[a].data), Append(o, a), a + 1)
      BY <1>1, <1>2, <1>4, Begun
    <2>. QED
      BY <1>5, <2>1 DEF TablesHold
  <1>7. place' \in 1..n + 1 /\ n = Len(list')
    BY <1>1, <1>2, <1>5
  <1>8. Listed'
    BY <1>5 DEF Listed, Sequence
  <1>9. last' \in ({NULL} \cup Kind({"note"}))' /\ space' \in Nat
    BY <1>5 DEF Annotating, Kind
  <1>. QED
    BY <1>5, <1>6, <1>7, <1>8, <1>9 DEF Annotating

\* A file noted while there are no tables begins them with a note that has no
\* name: the case of Begun that jit_annotate meets at a note.
LEMMA BegunByFile ==
  ASSUME NEW n \in Nat, DOMAIN list = 1..n, NEW a \in 1..n, a \in FilesIn(list), a \notin NamesIn(list),
         TablesHold(list, notes, <<>>, a)
  PROVE  /\ Starts(list, Append(<<>>, a), a + 1)
         /\ PartsHold(list, WithNote(At(a), NULL), Append(<<>>, a), a)
  <1>1. a \in NamesIn(list) \/ (a \in FilesIn(list) /\ <<>> = <<>>)
    OBVIOUS
  <1>2. NULL = IF a \in NamesIn(list) THEN list[a].data ELSE NULL
    OBVIOUS
  <1>3. a \in {a, a + 1} /\ (a = a \/ a \in NamesIn(list))
    OBVIOUS
  <1>. QED
    BY <1>1, <1>2, <1>3, Begun

LEMMA AnnotateNoteStep ==
  ASSUME Listed, Annotating, AnnotateNote
  PROVE  Listed' /\ Annotating'
  <1>. PICK n : n = Len(list)
    OBVIOUS
  <1>. PICK a : a = Annotated
    OBVIOUS
  <1>1. n \in Nat /\ DOMAIN list = 1..n
    BY ListLong DEF Listed
  <1>2. a \in FilesIn(list) /\ a \notin NamesIn(list) /\ a \in 1..n /\ place \in 1..n + 1 /\ place =< a
        /\ \A j \in NamesIn(list) \cup FilesIn(list) : j < a => j < place
    <2>1. a \in Kind({"note"}) /\ a \in 1..n
      BY <1>1 DEF AnnotateNote, Kind
    <2>2. a \in NamesIn(list) \cup FilesIn(list)
      BY <1>1, <2>1, NextMark
    <2>3. a \notin NamesIn(list)
      BY <2>1 DEF Kind, NamesIn
    <2>. QED
      BY <2>1, <2>2, <2>3, NextMark DEF Annotating
  <1>3. PICK o : TablesHold(list, notes, o, place)
    BY DEF AnnotateNote, Annotating
  <1>4. TablesHold(list, notes, o, a)
    BY <1>1, <1>2, <1>3, Skipped
  <1>5. /\ notes' = SetNote(IF notes = <<>> THEN WithNote(At(a), NULL) ELSE notes, a)
        /\ place' = a + 1 /\ UNCHANGED <<list, last, space, phase, nodes>> /\ phase = "annotate"
    BY DEF AnnotateNote, poolVars
  <1>6. o \in Seq(NamesIn(list) \cup FilesIn(list)) /\ notes \in Seq(NoteSet(list)) /\ Len(notes) = Len(o)
    BY <1>4 DEF TablesHold, Starts, PartsHold
  <1>7. \E new : TablesHold(list, notes', new, a + 1)
    <2>1. CASE notes = <<>>
      <3>1. o = <<>>
        BY <1>6, <2>1
      <3>2. Starts(list, Append(o, a), a + 1) /\ PartsHold(list, WithNote(At(a), NULL), Append(o, a), a)
        <4>1. TablesHold(list, notes, <<>>, a)
          BY <1>4, <3>1
        <4>. QED
          BY <1>1, <1>2, <3>1, <4>1, BegunByFile
      <3>3. Append(o, a) # <<>>
        <4>1. Len(Append(o, a)) = 1
          BY <3>1
        <4>. QED
          BY <4>1
      <3>4. TablesHold(list, SetNote(WithNote(At(a), NULL), a), Append(o, a), a + 1)
        BY <1>1, <1>2, <3>2, <3>3, FileNoted
      <3>. QED
        BY <1>5, <2>1, <3>4
    <2>2. CASE notes # <<>>
      <3>1. o # <<>>
        BY <1>6, <2>2
      <3>2. Starts(list, o, a + 1)
        <4>1. /\ \A k, m \in 1..Len(o) : k < m => o[k] < o[m]
              /\ \A k \in 1..Len(o) : o[k] < a /\ (o[k] \in FilesIn(list) => k = 1)
              /\ \A j \in NamesIn(list) : j < a => \E k \in 1..Len(o) : o[k] = j
              /\ \A j \in FilesIn(list) : j < a => o # <<>> /\ o[1] =< j
          BY <1>4 DEF TablesHold, Starts
        <4>2. \A j \in NamesIn(list) \cup FilesIn(list) : j \in 1..n
          BY <1>1 DEF NamesIn, FilesIn
        <4>3. 1 \in 1..Len(o) /\ \A k \in 1..Len(o) : o[k] \in 1..n
          BY <1>6, <3>1, <4>2, ElementOfSeq
        <4>4. \A k \in 1..Len(o) : o[k] < a + 1
          BY <1>2, <4>1, <4>3
        <4>5. \A j \in NamesIn(list) : j < a + 1 => j < a
          BY <1>2, <4>2
        <4>6. \A j \in FilesIn(list) : j < a + 1 => o[1] =< j
          <5>1. ASSUME NEW j \in FilesIn(list), j < a + 1 PROVE o[1] =< j
            <6>1. j < a \/ j = a
              BY <1>2, <4>2, <5>1
            <6>2. o[1] =< a
              BY <1>2, <4>1, <4>3
            <6>. QED
              BY <4>1, <6>1, <6>2
          <5>. QED
            BY <5>1
        <4>. QED
          BY <1>6, <3>1, <4>1, <4>4, <4>5, <4>6 DEF Starts
      <3>3. TablesHold(list, SetNote(notes, a), o, a + 1)
        BY <1>1, <1>2, <1>4, <3>1, <3>2, FileNoted DEF TablesHold
      <3>. QED
        BY <1>5, <2>2, <3>3
    <2>. QED
      BY <2>1, <2>2
  <1>8. place' \in 1..n + 1 /\ n = Len(list')
    BY <1>1, <1>2, <1>5
  <1>9. Listed'
    BY <1>5 DEF Listed, Sequence
  <1>10. last' \in ({NULL} \cup Kind({"note"}))' /\ space' \in Nat
    BY <1>5 DEF Annotating, Kind
  <1>. QED
    BY <1>5, <1>7, <1>8, <1>9, <1>10 DEF Annotating

LEMMA EndAnnotateStep ==
  ASSUME Listed, Annotating, EndAnnotate
  PROVE  Listed' /\ Annotating'
  <1>. PICK n : n = Len(list)
    OBVIOUS
  <1>1. n \in Nat /\ DOMAIN list = 1..n /\ place \in 1..n + 1
    BY ListLong DEF Listed, Annotating
  <1>2. \A j \in NamesIn(list) \cup FilesIn(list) : j < place
    <2>1. Annotated = n + 1
      BY <1>1, NextMark DEF EndAnnotate
    <2>2. \A j \in NamesIn(list) \cup FilesIn(list) : j \in 1..n
      BY <1>1 DEF NamesIn, FilesIn
    <2>. QED
      BY <1>1, <2>1, <2>2, NextMark
  <1>3. PICK o : TablesHold(list, notes, o, place)
    BY DEF EndAnnotate, Annotating
  <1>4. notes' = Ended(At(n + 1)) /\ phase' = "done" /\ UNCHANGED <<list, last, space, place, nodes>>
    BY DEF EndAnnotate, poolVars
  <1>5. /\ PartsHold(list, notes', o, place)
        /\ o # <<>> => notes'[Len(o)].size = AtIn(list, n + 1) - notes'[Len(o)].code
    <2>1. \A k \in 1..Len(o) : o[k] < n + 1
      <3>1. o \in Seq(NamesIn(list) \cup FilesIn(list))
        BY <1>3 DEF TablesHold, Starts
      <3>2. \A k \in 1..Len(o) : o[k] \in 1..n
        BY <1>1, <3>1, ElementOfSeq DEF NamesIn, FilesIn
      <3>. QED
        BY <1>1, <3>2
    <2>2. n + 1 \in 1..n + 1
      BY <1>1
    <2>. QED
      BY <1>1, <1>3, <1>4, <2>1, <2>2, LastEnded
  <1>6. Completed(list, notes', o, place)
    BY <1>2, <1>3, <1>5 DEF Completed, TablesHold
  <1>7. TablesHold(list, notes', o, place)
    BY <1>6 DEF Completed
  <1>8. Listed'
    BY <1>4 DEF Listed, Sequence
  <1>9. last' \in ({NULL} \cup Kind({"note"}))' /\ space' \in Nat /\ place' \in 1..Len(list') + 1
    BY <1>1, <1>4 DEF Annotating, Kind
  <1>. QED
    BY <1>4, <1>6, <1>7, <1>8, <1>9 DEF Annotating

(***************************************************************************)
(* The other steps.                                                        *)
(***************************************************************************)
LEMMA BuildStep ==
  ASSUME PoolInv, Listed, Annotating, [PoolNext]_poolVars, Build
  PROVE  Listed' /\ Annotating'
  <1>1. DOMAIN nodes \subseteq DOMAIN nodes'
    BY NodesGrow
  <1>2. space \in Nat /\ last \in {NULL} \cup Kind({"note"})
    BY DEF Annotating
  <1>3. ASSUME NEW data \in {NULL} \cup DOMAIN nodes', phase = "build", AddName(data)
        PROVE  Listed' /\ Annotating'
    <2>. PICK n : n = NodeOf("name", data, 0)
      OBVIOUS
    <2>1. n.kind = "name" /\ n.data = data
      BY DEF NodeOf
    <2>2. list' = Append(list, n) /\ UNCHANGED <<phase, place, notes>> /\ last' = NULL /\ space' \in Nat
      BY <1>2, <1>3 DEF AddName, SizeofNote
    <2>. QED
      BY <1>1, <1>3, <2>1, <2>2, ListGrows
  <1>4. ASSUME NEW data \in {NULL} \cup DOMAIN nodes', NEW line, NEW bytes \in Nat, phase = "build",
               AddNote(data, line, bytes)
        PROVE  Listed' /\ Annotating'
    <2>. PICK n : n = NodeOf("note", data, line)
      OBVIOUS
    <2>1. n.kind = "note" /\ n.data = data
      BY DEF NodeOf
    <2>2. list' = Append(list, n) /\ UNCHANGED <<phase, place, notes>> /\ last' = Len(list) + 1 /\ space' \in Nat
      BY <1>2, <1>4 DEF AddNote, SizeofInt
    <2>. QED
      BY <1>1, <1>4, <2>1, <2>2, ListGrows
  <1>5. ASSUME NEW c \in Names, Name(c) PROVE Listed' /\ Annotating'
    <2>1. c \in Constants /\ 1 \in Alignments(c) /\ Data(c, 1) /\ phase = "build" /\ AddName(Node(c))
      BY <1>5, NotesAssumption DEF Name, Building, Alignments
    <2>2. Node(c) \in DOMAIN nodes'
      BY <2>1, NodeReturned
    <2>. QED
      BY <1>3, <2>1, <2>2
  <1>6. CASE NameOfNone
    BY <1>3, <1>6 DEF NameOfNone, Building
  <1>7. ASSUME NEW c \in Files, NEW line \in Lines, Note(c, line) PROVE Listed' /\ Annotating'
    <2>1. c \in Constants /\ 1 \in Alignments(c) /\ Data(c, 1) /\ phase = "build" /\ AddNote(Node(c), line, Reserved(c))
      BY <1>7, NotesAssumption DEF Note, Building, Alignments
    <2>2. Node(c) \in DOMAIN nodes'
      BY <2>1, NodeReturned
    <2>3. Reserved(c) \in Nat
      BY DEF Reserved, SizeofLine
    <2>. QED
      BY <1>4, <2>1, <2>2, <2>3
  <1>8. CASE NoteOfNoFile
    <2>1. SizeofLine \in Nat /\ phase = "build" /\ AddNote(NULL, 0, SizeofLine)
      BY <1>8 DEF SizeofLine, NoteOfNoFile, Building
    <2>. QED
      BY <1>4, <2>1
  <1>9. CASE NoteFails
    <2>1. /\ phase = "build" /\ phase' = "failed" /\ UNCHANGED <<list, last, space, place, notes, nodes>>
      BY <1>9 DEF NoteFails, Building, poolVars
    <2>2. Listed'
      BY <2>1 DEF Listed, Sequence
    <2>3. last' \in ({NULL} \cup Kind({"note"}))' /\ space' \in Nat /\ place' \in 1..Len(list') + 1 /\ notes' = <<>>
      BY <2>1 DEF Annotating, Kind
    <2>. QED
      BY <2>1, <2>2, <2>3 DEF Annotating
  <1>10. ASSUME NEW imm \in {{}} \cup {{p} : p \in Immediates}, Instruction(imm) PROVE Listed' /\ Annotating'
    <2>. PICK n : n = [NodeOf("code", NULL, 0) EXCEPT !.imm = imm]
      OBVIOUS
    <2>1. n.kind = "code" /\ n.data = NULL
      BY DEF NodeOf
    <2>2. list' = Append(list, n) /\ UNCHANGED <<phase, place, notes, last, space>> /\ phase = "build"
      BY <1>10 DEF Instruction, Building
    <2>. QED
      BY <1>1, <1>2, <2>1, <2>2, ListGrows
  <1>. QED
    BY <1>5, <1>6, <1>7, <1>8, <1>9, <1>10 DEF Build

LEMMA RealizeStep ==
  ASSUME PoolInv, Listed, Annotating, [PoolNext]_poolVars, Realize \/ RealizeNode \/ EndRealize
  PROVE  Listed' /\ Annotating'
  <1>1. Len(list) \in Nat /\ DOMAIN list = 1..Len(list)
    BY ListLong DEF Listed
  <1>2. DOMAIN nodes \subseteq DOMAIN nodes' /\ UNCHANGED <<list, last, space, notes>>
    BY NodesGrow DEF Realize, RealizeNode, EndRealize
  <1>3. Listed'
    BY <1>2 DEF Listed, Sequence
  <1>4. last' \in ({NULL} \cup Kind({"note"}))' /\ space' \in Nat
    BY <1>2 DEF Annotating, Kind
  <1>5. notes' = <<>>
    BY <1>2 DEF Realize, RealizeNode, EndRealize, Annotating
  <1>6. CASE Realize
    <2>1. phase' = "realize" /\ place' \in 1..Len(list') + 1
      BY <1>2, <1>6 DEF Realize, Annotating
    <2>. QED
      BY <1>3, <1>4, <1>5, <2>1 DEF Annotating
  <1>7. CASE RealizeNode
    <2>1. phase' = "realize" /\ place' \in 1..Len(list') + 1
      BY <1>1, <1>2, <1>7 DEF RealizeNode
    <2>. QED
      BY <1>3, <1>4, <1>5, <2>1 DEF Annotating
  <1>8. CASE EndRealize
    <2>1. phase' = "annotate" /\ place' = 1 /\ 1 \in 1..Len(list') + 1
      BY <1>1, <1>2, <1>8 DEF EndRealize
    <2>2. TablesHold(list', <<>>, <<>>, 1)
      <3>1. \A j \in NamesIn(list) \cup FilesIn(list) : ~(j < 1)
        BY <1>1 DEF NamesIn, FilesIn
      <3>2. <<>> \in Seq(NamesIn(list) \cup FilesIn(list)) /\ <<>> \in Seq(NoteSet(list)) /\ Len(<<>>) = 0
            /\ 1..0 = {} /\ 1..0 - 1 = {}
        OBVIOUS
      <3>3. Starts(list, <<>>, 1)
        BY <3>1, <3>2 DEF Starts
      <3>4. PartsHold(list, <<>>, <<>>, 1)
        BY <3>2 DEF PartsHold
      <3>. QED
        BY <1>2, <3>3, <3>4 DEF TablesHold
    <2>. QED
      BY <1>3, <1>4, <1>5, <2>1, <2>2 DEF Annotating
  <1>. QED
    BY <1>6, <1>7, <1>8

LEMMA NotesStep ==
  ASSUME NotesInv, [Next]_vars
  PROVE  NotesInv'
  <1>1. PoolInv /\ Listed /\ Held /\ Annotating /\ Sequence
    BY DEF NotesInv, Listed
  <1>2. [PoolNext]_poolVars
    BY <1>1, StepOfPool
  <1>3. PoolInv' /\ Held'
    BY <1>1, <1>2, PoolStep, HeldStep
  <1>4. CASE UNCHANGED vars
    <2>1. UNCHANGED <<nodes, list, last, space, phase, place, notes>>
      BY <1>4 DEF vars, noteVars, poolVars
    <2>2. Listed'
      BY <1>1, <2>1 DEF Listed, Sequence
    <2>3. last' \in ({NULL} \cup Kind({"note"}))'
      BY <1>1, <2>1 DEF Annotating, Kind
    <2>. QED
      BY <1>1, <1>3, <2>1, <2>2, <2>3 DEF NotesInv, Annotating
  <1>5. CASE Next
    <2>1. Listed' /\ Annotating'
      BY <1>1, <1>2, <1>5, BuildStep, RealizeStep, AnnotateNameStep, AnnotateNoteStep, EndAnnotateStep DEF Next
    <2>. QED
      BY <1>3, <2>1 DEF NotesInv
  <1>. QED
    BY <1>4, <1>5

THEOREM NotesInvariant == Spec => []NotesInv
  <1>1. Init => NotesInv
    <2>1. Init => PoolInit
      BY DEF Init
    <2>. QED
      BY <2>1, PoolStart, HeldStart, NotesStart DEF NotesInv
  <1>. QED
    BY <1>1, NotesStep, PTL DEF Spec

(***************************************************************************)
(* The type invariant: of the list while it is built, of the pool, and of  *)
(* the tables, where no note is of a negative length.                      *)
(***************************************************************************)
THEOREM NotesTyped == Spec => []TypeOK
  <1>. SUFFICES NotesInv => TypeOK
    BY NotesInvariant, PTL
  <1>. SUFFICES ASSUME NotesInv PROVE TypeOK
    OBVIOUS
  <1>1. Len(list) \in Nat /\ DOMAIN list = 1..Len(list)
    BY ListLong DEF NotesInv, Listed
  <1>2. /\ nodes \in Seq(NodeSet) /\ offset \in Nat /\ length \in Nat /\ size \in Nat \ {0}
        /\ table \in [0..size - 1 -> SUBSET (1..Len(nodes))] /\ DOMAIN nodes = 1..Len(nodes)
    BY DEF NotesInv, PoolInv, PoolTyped
  <1>3. \A i \in DOMAIN nodes : nodes[i].data \in Constants /\ nodes[i].at \in Nat
    <2>1. \A i \in DOMAIN nodes : nodes[i] \in NodeSet
      BY <1>2, ElementOfSeq
    <2>. QED
      BY <2>1 DEF NodeSet
  <1>4. DOMAIN table = 0..size - 1 /\ \A b \in DOMAIN table : table[b] \subseteq DOMAIN nodes
    BY <1>2
  <1>5. space \in Nat /\ last \in {NULL} \cup Kind({"note"}) /\ place \in 1..Len(list) + 1
        /\ phase \in {"build", "realize", "annotate", "done", "failed"}
    BY DEF NotesInv, Annotating
  <1>6. \A i \in Kind({"name", "note"}) : list[i].data \in {NULL} \cup DOMAIN nodes
    BY DEF NotesInv, Listed, Kind
  <1>7. \A k \in DOMAIN notes : notes[k].size \in Nat /\ notes[k].code \in Nat
    <2>1. CASE phase \in {"build", "realize", "failed"}
      <3>1. notes = <<>> /\ DOMAIN notes = {}
        BY <2>1 DEF NotesInv, Annotating
      <3>. QED
        BY <3>1
    <2>2. CASE phase \in {"annotate", "done"}
      <3>1. PICK o : TablesHold(list, notes, o, place)
        BY <2>2 DEF NotesInv, Annotating
      <3>2. notes \in Seq(NoteSet(list)) /\ DOMAIN notes = 1..Len(notes)
        BY <3>1 DEF TablesHold, PartsHold
      <3>3. \A k \in DOMAIN notes : notes[k] \in NoteSet(list)
        BY <3>2, ElementOfSeq
      <3>. QED
        BY <3>3 DEF NoteSet
    <2>. QED
      BY <1>5, <2>1, <2>2
  <1>8. {nodes[i].data : i \in DOMAIN nodes} \subseteq Constants
    BY <1>3
  <1>9. {offset, length, space} \cup {nodes[i].at : i \in DOMAIN nodes} \subseteq Nat
    BY <1>2, <1>3, <1>5
  <1>. QED
    BY <1>4, <1>5, <1>6, <1>7, <1>8, <1>9 DEF TypeOK

(***************************************************************************)
(* For each instruction of each program, jit_get_note finds the last name  *)
(* in front of it, and the last file and line said of it behind that name: *)
(* the tables of jit_annotate are in the order that the three binary       *)
(* searches rely on, though notes may be of no length, lines of the same   *)
(* file come back, and many entries have one offset.                       *)
(***************************************************************************)
THEOREM WhatWasSaidIsFound == Spec => []NotesFound
  <1>. SUFFICES NotesInv => NotesFound
    BY NotesInvariant, PTL
  <1>. SUFFICES ASSUME NotesInv, phase = "done", NEW i \in Kind({"code"})
                PROVE  GetNote(At(i)) = Expected(i)
    BY DEF NotesFound
  <1>. PICK n : n = Len(list)
    OBVIOUS
  <1>1. n \in Nat /\ DOMAIN list = 1..n
    BY ListLong DEF NotesInv, Listed
  <1>2. PICK o : Completed(list, notes, o, place)
    BY DEF NotesInv, Annotating
  <1>3. i \in CodeIn(list) /\ At(i) = AtIn(list, i)
    BY SetsOfNodes
  <1>. PICK T : T = {k \in 1..Len(o) : o[k] < i}
    OBVIOUS
  <1>4. CASE T = {}
    <2>1. \A k \in 1..Len(o) : ~(o[k] < i)
      BY <1>4
    <2>. QED
      BY <1>1, <1>2, <1>3, <2>1, NoNoteFound
  <1>5. CASE T # {}
    <2>1. Len(o) \in Nat /\ T \subseteq 1..Len(o)
      BY <1>2 DEF Completed, TablesHold, Starts
    <2>2. PICK c \in T : \A m \in T : m =< c
      BY <1>5, <2>1, Largest
    <2>3. c \in 1..Len(o) /\ o[c] < i /\ \A k \in 1..Len(o) : o[k] < i => k =< c
      BY <2>2
    <2>. QED
      BY <1>1, <1>2, <1>3, <2>3, NoteFound
  <1>. QED
    BY <1>4, <1>5


-----------------------------------------------------------------------------
(***************************************************************************)
(* Sums of sequences.                                                      *)
(***************************************************************************)
Sums(g, s) == g = [k \in 0..Len(s) |-> IF k = 0 THEN 0 ELSE s[k] + g[k - 1]]
Adds(g, s) == g[0] = 0 /\ \A i \in 1..Len(s) : g[i] = s[i] + g[i - 1]
Part(s, m) == [i \in 1..m |-> s[i]]

LEMMA PartIs ==
  ASSUME NEW s, NEW m \in Nat, NEW u \in Seq(Nat), Len(u) = m, \A i \in 1..m : u[i] = s[i]
  PROVE  Part(s, m) = u
  <1>1. u = [i \in 1..m |-> u[i]]
    OBVIOUS
  <1>. QED
    BY <1>1 DEF Part

LEMMA SumsExist ==
  ASSUME NEW s \in Seq(Nat)
  PROVE  \E g \in [0..Len(s) -> Nat] : Adds(g, s) /\ Sums(g, s)
  <1>. PICK n : n = Len(s)
    OBVIOUS
  <1>. DEFINE P(k) == \E g \in [0..k -> Nat] : g[0] = 0 /\ \A i \in 1..k : g[i] = s[i] + g[i - 1]
              S == {k \in Nat : k =< n => P(k)}
  <1>1. n \in Nat /\ \A i \in 1..n : s[i] \in Nat
    OBVIOUS
  <1>2. 0 \in S
    <2>1. [k \in 0..0 |-> 0] \in [0..0 -> Nat] /\ [k \in 0..0 |-> 0][0] = 0 /\ 1..0 = {}
      OBVIOUS
    <2>2. P(0)
      BY <2>1
    <2>. HIDE DEF P
    <2>. QED
      BY <2>2
  <1>3. ASSUME NEW k \in Nat, k \in S PROVE k + 1 \in S
    <2>1. SUFFICES ASSUME k + 1 =< n PROVE P(k + 1)
      <3>. HIDE DEF P
      <3>. QED
        BY <1>3
    <2>0. P(k)
      <3>1. k =< n
        BY <1>1, <2>1
      <3>. HIDE DEF P
      <3>. QED
        BY <1>3, <3>1
    <2>2. PICK g \in [0..k -> Nat] : g[0] = 0 /\ \A i \in 1..k : g[i] = s[i] + g[i - 1]
      BY <2>0
    <2>. DEFINE h == [i \in 0..k + 1 |-> IF i =< k THEN g[i] ELSE s[k + 1] + g[k]]
    <2>3. s[k + 1] \in Nat /\ g[k] \in Nat
      BY <1>1, <2>1
    <2>4. h \in [0..k + 1 -> Nat] /\ h[0] = 0
      BY <2>2, <2>3
    <2>5. ASSUME NEW i \in 1..k + 1 PROVE h[i] = s[i] + h[i - 1]
      <3>1. CASE i \in 1..k
        BY <2>2, <3>1
      <3>2. CASE i = k + 1
        BY <3>2
      <3>. QED
        BY <3>1, <3>2
    <2>. QED
      BY <2>4, <2>5
  <1>4. P(n)
    <2>. HIDE DEF P
    <2>1. Nat \subseteq S
      <3>. HIDE DEF S
      <3>. QED
        BY <1>2, <1>3, SetInduction
    <2>. QED
      BY <1>1, <2>1
  <1>5. PICK g \in [0..n -> Nat] : g[0] = 0 /\ \A i \in 1..n : g[i] = s[i] + g[i - 1]
    BY <1>4
  <1>6. \A k \in 0..n : g[k] = IF k = 0 THEN 0 ELSE s[k] + g[k - 1]
    BY <1>1, <1>5
  <1>. QED
    BY <1>5, <1>6 DEF Sums, Adds

LEMMA SumsTotal ==
  ASSUME NEW s \in Seq(Nat), NEW g \in [0..Len(s) -> Nat], Adds(g, s)
  PROVE  Total(s) = g[Len(s)]
  <1>. PICK n : n = Len(s)
    OBVIOUS
  <1>. PICK f : f = CHOOSE h : Sums(h, s)
    OBVIOUS
  <1>1. n \in Nat /\ g[0] = 0 /\ \A i \in 1..n : g[i] = s[i] + g[i - 1]
    BY DEF Adds
  <1>2. Total(s) = f[n]
    BY DEF Total, Sums
  <1>3. Sums(f, s)
    BY SumsExist
  <1>4. \A k \in 0..n : f[k] = IF k = 0 THEN 0 ELSE s[k] + f[k - 1]
    BY <1>3, Zenon DEF Sums
  <1>. DEFINE S == {k \in Nat : k =< n => f[k] = g[k]}
  <1>5. 0 \in S
    BY <1>1, <1>4
  <1>6. ASSUME NEW k \in Nat, k \in S PROVE k + 1 \in S
    <2>1. SUFFICES ASSUME k + 1 =< n PROVE f[k + 1] = g[k + 1]
      OBVIOUS
    <2>2. f[k] = g[k] /\ k + 1 \in 0..n /\ k + 1 # 0 /\ k + 1 - 1 = k /\ k + 1 \in 1..n
      BY <1>1, <1>6, <2>1
    <2>3. f[k + 1] = s[k + 1] + f[k]
      <3>. PICK j : j = k + 1
        OBVIOUS
      <3>1. j \in 0..n /\ j # 0 /\ j - 1 = k
        BY <2>2
      <3>2. f[j] = s[j] + f[j - 1]
        BY <1>4, <3>1, Zenon
      <3>. QED
        BY <3>1, <3>2
    <2>4. g[k + 1] = s[k + 1] + g[k]
      <3>. PICK j : j = k + 1
        OBVIOUS
      <3>1. j \in 1..n /\ j - 1 = k
        BY <2>2
      <3>2. g[j] = s[j] + g[j - 1]
        BY <1>1, <3>1
      <3>. QED
        BY <3>1, <3>2
    <2>. QED
      BY <2>2, <2>3, <2>4
  <1>7. n \in S
    <2>. HIDE DEF S
    <2>. QED
      BY <1>1, <1>5, <1>6, SetInduction
  <1>. QED
    BY <1>1, <1>2, <1>7

\* What one more number, and the first m of them, add up to.
Totals(s, m) ==
  /\ Part(s, m) \in Seq(Nat) /\ Len(Part(s, m)) = m /\ Total(Part(s, m)) \in Nat
  /\ m = 0 => Total(Part(s, m)) = 0
  /\ m < Len(s) => Total(Part(s, m + 1)) = Total(Part(s, m)) + s[m + 1]

LEMMA TotalStep ==
  ASSUME NEW s \in Seq(Nat), NEW m \in Nat, m =< Len(s)
  PROVE  Totals(s, m)
  <1>. PICK n : n = Len(s)
    OBVIOUS
  <1>1. n \in Nat /\ DOMAIN s = 1..n /\ \A i \in 1..n : s[i] \in Nat
    OBVIOUS
  <1>2. PICK g \in [0..n -> Nat] : Adds(g, s)
    BY SumsExist
  <1>3. g[0] = 0 /\ \A i \in 1..n : g[i] = s[i] + g[i - 1]
    BY <1>2 DEF Adds
  <1>4. ASSUME NEW k \in Nat, k =< n
        PROVE  Part(s, k) \in Seq(Nat) /\ Len(Part(s, k)) = k /\ Total(Part(s, k)) = g[k]
    <2>. PICK t : t = Part(s, k)
      OBVIOUS
    <2>. PICK h : h = [i \in 0..k |-> g[i]]
      OBVIOUS
    <2>1. t \in Seq(Nat) /\ Len(t) = k /\ \A i \in 1..k : t[i] = s[i]
      BY <1>1, <1>4 DEF Part
    <2>2. h \in [0..k -> Nat] /\ h[0] = 0 /\ \A i \in 0..k : h[i] = g[i]
      <3>1. 0 \in 0..k /\ \A i \in 0..k : g[i] \in Nat
        BY <1>1, <1>4
      <3>. QED
        BY <1>3, <3>1
    <2>3. ASSUME NEW i \in 1..k PROVE h[i] = t[i] + h[i - 1]
      <3>1. i \in 1..n /\ i \in 0..k /\ i - 1 \in 0..k
        BY <1>1, <1>4
      <3>. QED
        BY <1>3, <2>1, <2>2, <3>1
    <2>4. Total(t) = h[k]
      <3>1. Adds(h, t)
        BY <2>1, <2>2, <2>3 DEF Adds
      <3>2. h \in [0..Len(t) -> Nat]
        BY <2>1, <2>2
      <3>. QED
        BY <2>1, <3>1, <3>2, SumsTotal
    <2>. QED
      BY <2>1, <2>2, <2>4
  <1>5. m < n => Total(Part(s, m + 1)) = Total(Part(s, m)) + s[m + 1]
    <2>1. SUFFICES ASSUME m < n PROVE Total(Part(s, m + 1)) = Total(Part(s, m)) + s[m + 1]
      OBVIOUS
    <2>2. m + 1 \in Nat /\ m + 1 =< n /\ m + 1 \in 1..n /\ m + 1 - 1 = m
      BY <1>1, <2>1
    <2>3. Total(Part(s, m + 1)) = g[m + 1] /\ Total(Part(s, m)) = g[m]
      BY <1>4, <2>1, <2>2
    <2>4. g[m + 1] = s[m + 1] + g[m] /\ g[m] \in Nat /\ s[m + 1] \in Nat
      <3>. PICK p : p = m + 1
        OBVIOUS
      <3>1. p \in 1..n /\ p - 1 = m
        BY <2>2
      <3>2. g[p] = s[p] + g[p - 1] /\ s[p] \in Nat /\ g[m] \in Nat
        BY <1>1, <1>3, <2>1, <3>1
      <3>. QED
        BY <3>1, <3>2
    <2>. QED
      BY <2>3, <2>4
  <1>6. Part(s, m) \in Seq(Nat) /\ Len(Part(s, m)) = m /\ Total(Part(s, m)) = g[m] /\ g[m] \in Nat
    <2>1. m \in Nat /\ m =< n /\ m \in 0..n
      BY <1>1
    <2>. QED
      BY <1>4, <2>1
  <1>. QED
    BY <1>3, <1>5, <1>6 DEF Totals

LEMMA TotalGrows ==
  ASSUME NEW s \in Seq(Nat), NEW m \in Nat, NEW k \in Nat, m =< k, k =< Len(s)
  PROVE  Total(Part(s, m)) =< Total(Part(s, k))
  <1>. DEFINE S == {d \in Nat : m + d =< Len(s) => Total(Part(s, m)) =< Total(Part(s, m + d))}
  <1>0. Len(s) \in Nat
    OBVIOUS
  <1>1. 0 \in S
    BY <1>0, TotalStep DEF Totals
  <1>2. ASSUME NEW d \in Nat, d \in S PROVE d + 1 \in S
    <2>1. SUFFICES ASSUME m + (d + 1) =< Len(s) PROVE Total(Part(s, m)) =< Total(Part(s, m + (d + 1)))
      OBVIOUS
    <2>. PICK c : c = m + d
      OBVIOUS
    <2>2. c \in Nat /\ c < Len(s) /\ c + 1 = m + (d + 1) /\ c + 1 \in 1..Len(s) /\ m =< Len(s)
      BY <1>0, <2>1
    <2>3. Total(Part(s, c + 1)) = Total(Part(s, c)) + s[c + 1] /\ Total(Part(s, c)) \in Nat /\ Total(Part(s, m)) \in Nat
      <3>1. Totals(s, c) /\ Totals(s, m)
        BY <2>2, TotalStep
      <3>. QED
        BY <2>2, <3>1 DEF Totals
    <2>4. Total(Part(s, m)) =< Total(Part(s, c)) /\ s[c + 1] \in Nat
      BY <1>2, <2>2
    <2>. QED
      BY <2>2, <2>3, <2>4
  <1>3. k - m \in Nat /\ m + (k - m) = k
    OBVIOUS
  <1>4. k - m \in S
    <2>. HIDE DEF S
    <2>. QED
      BY <1>1, <1>2, <1>3, SetInduction
  <1>. QED
    BY <1>3, <1>4

LEMMA TotalAppended ==
  ASSUME NEW s \in Seq(Nat), NEW x \in Nat
  PROVE  /\ Total(Append(s, x)) = Total(s) + x /\ Total(s) \in Nat /\ Append(s, x) \in Seq(Nat)
         /\ s = <<>> => Total(s) = 0
  <1>. PICK n : n = Len(s)
    OBVIOUS
  <1>. PICK t : t = Append(s, x)
    OBVIOUS
  <1>1. n \in Nat /\ t \in Seq(Nat) /\ Len(t) = n + 1 /\ t[n + 1] = x /\ \A i \in 1..n : t[i] = s[i]
    OBVIOUS
  <1>2. Part(t, n) = s /\ Part(t, n + 1) = t /\ Part(s, n) = s
    <2>1. n + 1 \in Nat /\ \A i \in 1..n + 1 : t[i] = t[i]
      BY <1>1
    <2>. QED
      BY <1>1, <2>1, PartIs
  <1>3. Totals(t, n) /\ Totals(s, n)
    <2>1. n =< Len(t) /\ n =< Len(s)
      BY <1>1
    <2>. QED
      BY <1>1, <2>1, TotalStep
  <1>4. Total(t) = Total(s) + x /\ Total(s) \in Nat /\ (n = 0 => Total(s) = 0)
    <2>1. Total(Part(t, n + 1)) = Total(Part(t, n)) + t[n + 1]
      BY <1>1, <1>3 DEF Totals
    <2>2. Total(Part(s, n)) \in Nat /\ (n = 0 => Total(Part(s, n)) = 0)
      BY <1>3 DEF Totals
    <2>. QED
      BY <1>1, <1>2, <2>1, <2>2
  <1>. QED
    BY <1>1, <1>2, <1>3, <1>4

LEMMA TotalChanged ==
  ASSUME NEW s \in Seq(Nat), s # <<>>, NEW t \in Seq(Nat), Len(t) = Len(s), NEW d \in Nat,
         \A i \in 1..Len(s) - 1 : t[i] = s[i], t[Len(s)] =< s[Len(s)] + d
  PROVE  Total(t) =< Total(s) + d /\ Total(s) \in Nat /\ Total(t) \in Nat
  <1>. PICK m : m = Len(s) - 1
    OBVIOUS
  <1>1. m \in Nat /\ Len(s) = m + 1 /\ m < Len(s) /\ s[m + 1] \in Nat /\ t[m + 1] \in Nat
    OBVIOUS
  <1>2. Part(t, m) = Part(s, m) /\ Part(s, m + 1) = s /\ Part(t, m + 1) = t
    <2>1. Part(t, m) = Part(s, m)
      BY <1>1 DEF Part
    <2>2. m + 1 \in Nat
      BY <1>1
    <2>. QED
      BY <1>1, <2>1, <2>2, PartIs
  <1>3. Totals(s, m) /\ Totals(t, m)
    BY <1>1, TotalStep
  <1>4. /\ Total(s) = Total(Part(s, m)) + s[m + 1] /\ Total(Part(s, m)) \in Nat
        /\ Total(t) = Total(Part(s, m)) + t[m + 1]
    BY <1>1, <1>2, <1>3 DEF Totals
  <1>5. t[m + 1] =< s[m + 1] + d
    BY <1>1
  <1>x. PICK x : x = s[m + 1]
    OBVIOUS
  <1>y. PICK y : y = t[m + 1]
    OBVIOUS
  <1>z. PICK z : z = Total(Part(s, m))
    OBVIOUS
  <1>6. x \in Nat /\ y \in Nat /\ z \in Nat /\ y =< x + d
    BY <1>1, <1>4, <1>5, <1>x, <1>y, <1>z
  <1>7. Total(s) = z + x /\ Total(t) = z + y
    BY <1>4, <1>x, <1>y, <1>z, Zenon
  <1>8. z + x \in Nat /\ z + y \in Nat /\ z + y =< (z + x) + d
    BY <1>6
  <1>. QED
    BY <1>7, <1>8

-----------------------------------------------------------------------------
(***************************************************************************)
(* What was reserved for each node: a note for a name; a line and two      *)
(* numbers for a note, or the numbers only if the note in front of it, and *)
(* behind any name, has the same file.                                     *)
(***************************************************************************)
Repeats(l, i) == \E j \in FilesIn(l) :
  j < i /\ l[j].data = l[i].data /\ \A m \in j + 1..i - 1 : l[m].kind = "code"
Cost(l, i) == CASE l[i].kind = "name" -> 40
                [] l[i].kind = "note" -> IF Repeats(l, i) THEN 8 ELSE 40
                [] OTHER -> 0
Costs(l) == [i \in DOMAIN l |-> Cost(l, i)]

\* The note that was reserved at first is used for a file in front of all names.
Leading(l, p) == \E j \in FilesIn(l) : j < p /\ \A i \in NamesIn(l) : j < i
Unused(l, p) == IF Leading(l, p) THEN 0 ELSE 40

NoteBytes(all) == [k \in DOMAIN all |-> Bytes(all[k])]

Reserves ==
  /\ 40 + Total(Costs(list)) =< space
  /\ last # NULL => \A i \in last + 1..Len(list) : list[i].kind = "code"

Affords(l, all, p) == Total(NoteBytes(all)) + Unused(l, p) =< 40 + Total(Part(Costs(l), p - 1))
Within(all, bytes) == Total(NoteBytes(all)) =< bytes

Spends ==
  /\ phase = "annotate" => Affords(list, notes, place)
  /\ phase = "done" => Within(notes, space)

-----------------------------------------------------------------------------
(***************************************************************************)
(* The bytes of lines, and what one more entry needs.                      *)
(***************************************************************************)
LineBytes(lines) == [k \in DOMAIN lines |-> 32 + 8 * Len(lines[k].entries)]

LEMMA BytesOfNote ==
  ASSUME NEW l, NEW note \in NoteSet(l)
  PROVE  /\ LineBytes(note.lines) \in Seq(Nat) /\ Len(LineBytes(note.lines)) = Len(note.lines)
         /\ Bytes(note) = 40 + Total(LineBytes(note.lines)) /\ Bytes(note) \in Nat
  <1>. PICK lines : lines = note.lines
    OBVIOUS
  <1>. PICK s : s = LineBytes(lines)
    OBVIOUS
  <1>1. lines \in Seq(LineSet(l)) /\ DOMAIN lines = 1..Len(lines) /\ Len(lines) \in Nat
    BY DEF NoteSet
  <1>2. \A k \in 1..Len(lines) : Len(lines[k].entries) \in Nat
    <2>1. \A k \in 1..Len(lines) : lines[k] \in LineSet(l)
      BY <1>1, ElementOfSeq
    <2>2. \A k \in 1..Len(lines) : lines[k].entries \in Seq(EntrySet(l))
      BY <2>1 DEF LineSet
    <2>. QED
      BY <2>2
  <1>3. s = [k \in 1..Len(lines) |-> 32 + 8 * Len(lines[k].entries)]
    BY <1>1 DEF LineBytes
  <1>4. s \in Seq(Nat) /\ Len(s) = Len(lines)
    BY <1>1, <1>2, <1>3
  <1>5. Total(s) \in Nat
    BY <1>4, TotalAppended
  <1>6. Bytes(note) = 40 + Total(s)
    <2>1. s = [k \in DOMAIN note.lines |-> 32 + 2 * 4 * Len(note.lines[k].entries)]
      BY <1>1, <1>2 DEF LineBytes
    <2>. QED
      BY <2>1 DEF Bytes, SizeofNote, SizeofLine, SizeofInt
  <1>. QED
    BY <1>4, <1>5, <1>6

LEMMA EntryCosts ==
  ASSUME NEW l, NEW lines \in Seq(LineSet(l)), NEW more \in Seq(LineSet(l)), NEW file, Longer(lines, more, file),
         NEW s \in Seq(Nat), s = LineBytes(lines), Len(s) = Len(lines),
         NEW t \in Seq(Nat), t = LineBytes(more), Len(t) = Len(more)
  PROVE  Total(t) =< Total(s) + (IF Continues(lines, file) THEN 8 ELSE 40)
  <1>. PICK q : q = Len(lines)
    OBVIOUS
  <1>1. q \in Nat /\ DOMAIN lines = 1..q /\ DOMAIN more = 1..Len(more) /\ Len(more) \in Nat
    OBVIOUS
  <1>2. /\ \A k \in 1..q : s[k] = 32 + 8 * Len(lines[k].entries)
        /\ \A k \in 1..Len(more) : t[k] = 32 + 8 * Len(more[k].entries)
    BY <1>1 DEF LineBytes
  <1>3. CASE Continues(lines, file)
    <2>1. /\ Len(more) = q /\ \A k \in 1..q - 1 : more[k] = lines[k]
          /\ Len(more[q].entries) = Len(lines[q].entries) + 1 /\ q > 0
      BY <1>3 DEF Longer, Continues
    <2>2. q \in 1..q /\ \A k \in 1..q - 1 : k \in 1..q
      BY <1>1, <2>1
    <2>3. Len(lines[q].entries) \in Nat
      <3>1. lines[q] \in LineSet(l)
        BY <2>2, ElementOfSeq
      <3>2. lines[q].entries \in Seq(EntrySet(l))
        BY <3>1 DEF LineSet
      <3>. QED
        BY <3>2
    <2>4. \A k \in 1..q - 1 : t[k] = s[k]
      BY <1>2, <2>1, <2>2
    <2>5. t[q] =< s[q] + 8
      <3>1. s[q] = 32 + 8 * Len(lines[q].entries) /\ t[q] = 32 + 8 * Len(more[q].entries)
        BY <1>2, <2>1, <2>2
      <3>. QED
        BY <2>1, <2>3, <3>1
    <2>6. Len(s) = q /\ Len(t) = Len(s) /\ s # <<>> /\ 8 \in Nat
      BY <2>1
    <2>7. Total(t) =< Total(s) + 8
      BY <2>4, <2>5, <2>6, TotalChanged
    <2>. QED
      BY <1>3, <2>7
  <1>4. CASE ~Continues(lines, file)
    <2>1. /\ Len(more) = q + 1 /\ Len(more[q + 1].entries) = 1
          /\ \A k \in 1..q : more[k] = lines[k]
      BY <1>4 DEF Longer
    <2>2. q + 1 \in 1..q + 1 /\ \A k \in 1..q + 1 : k \in 1..q \/ k = q + 1
      BY <1>1
    <2>3. t[q + 1] = 40 /\ \A k \in 1..q : t[k] = s[k]
      <3>1. \A k \in 1..q : k \in 1..q + 1
        BY <1>1
      <3>2. \A k \in 1..q + 1 : t[k] = 32 + 8 * Len(more[k].entries)
        BY <1>2, <2>1
      <3>3. t[q + 1] = 32 + 8 * Len(more[q + 1].entries)
        BY <2>2, <3>2
      <3>4. ASSUME NEW k \in 1..q PROVE t[k] = s[k]
        BY <1>2, <2>1, <3>1, <3>2
      <3>. QED
        BY <2>1, <3>3, <3>4
    <2>4. t = Append(s, 40)
      <3>1. Len(t) = q + 1 /\ Len(s) = q
        BY <2>1
      <3>2. Append(s, 40) \in Seq(Nat) /\ Len(Append(s, 40)) = q + 1 /\ Append(s, 40)[q + 1] = 40
            /\ \A k \in 1..q : Append(s, 40)[k] = s[k]
        BY <3>1
      <3>. QED
        BY <2>2, <2>3, <3>1, <3>2
    <2>5. Total(Append(s, 40)) = Total(s) + 40 /\ Total(s) \in Nat
      <3>1. 40 \in Nat
        OBVIOUS
      <3>. QED
        BY <3>1, TotalAppended
    <2>. QED
      BY <1>4, <2>4, <2>5
  <1>. QED
    BY <1>3, <1>4

(***************************************************************************)
(* A file that was found to be that of the last note is that of the last   *)
(* line.                                                                   *)
(***************************************************************************)
LEMMA FileContinues ==
  ASSUME NEW l, NEW n \in Nat, DOMAIN l = 1..n, NEW o, NEW a \in 1..n, Starts(l, o, a + 1), o # <<>>,
         Repeats(l, a), o[Len(o)] < a,
         NEW lines, NEW ms, NEW code, LinesHold(l, lines, ms, code, Section(l, o, Len(o), a))
  PROVE  Continues(lines, l[a].data)
  <1>. PICK q : q = Len(o)
    OBVIOUS
  <1>. PICK r : r = Len(lines)
    OBVIOUS
  <1>1. PICK j \in FilesIn(l) : j < a /\ l[j].data = l[a].data /\ \A m \in j + 1..a - 1 : l[m].kind = "code"
    BY DEF Repeats
  <1>2. j \in 1..n /\ \A m \in NamesIn(l) \cup FilesIn(l) : m \in 1..n /\ l[m].kind # "code"
    BY DEF FilesIn, NamesIn
  <1>3. o \in Seq(NamesIn(l) \cup FilesIn(l)) /\ q \in 1..q /\ o[q] \in NamesIn(l) \cup FilesIn(l)
    <2>1. o \in Seq(NamesIn(l) \cup FilesIn(l))
      BY DEF Starts
    <2>. QED
      BY <2>1, ElementOfSeq
  <1>4. \A m \in NamesIn(l) \cup FilesIn(l) : m < a => m =< j
    <2>1. ASSUME NEW m \in NamesIn(l) \cup FilesIn(l), m < a, ~(m =< j) PROVE FALSE
      <3>1. m \in j + 1..a - 1
        BY <1>2, <2>1
      <3>. QED
        BY <1>1, <1>2, <3>1
    <2>. QED
      BY <2>1
  <1>5. j \in Section(l, o, q, a)
    BY <1>1, <1>3, <1>4 DEF Section, End
  <1>6. /\ ms \in Seq(Seq(FilesIn(l))) /\ Len(ms) = r /\ r \in Nat /\ DOMAIN ms = 1..r
        /\ \A k \in 1..r : LineHolds(l, lines[k], ms[k], code)
    <2>1. ms \in Seq(Seq(FilesIn(l))) /\ Len(ms) = r /\ \A k \in 1..Len(ms) : LineHolds(l, lines[k], ms[k], code)
      BY DEF LinesHold
    <2>. QED
      BY <2>1
  <1>7. PICK k \in 1..r : \E e \in 1..Len(ms[k]) : ms[k][e] = j
    BY <1>5, <1>6 DEF LinesHold
  <1>8. PICK e \in 1..Len(ms[k]) : ms[k][e] = j
    BY <1>7
  <1>9. r > 0 /\ r \in 1..r
    BY <1>6, <1>7
  <1>10. ASSUME k # r PROVE FALSE
    <2>1. k < r
      BY <1>6, <1>7, <1>10
    <2>2. ms[r] # <<>> /\ ms[r] \in Seq(FilesIn(l))
      BY <1>6, <1>9 DEF LineHolds
    <2>3. 1 \in 1..Len(ms[r])
      BY <2>2
    <2>4. ms[r][1] \in Section(l, o, q, a)
      BY <1>6, <1>9, <2>3 DEF LinesHold
    <2>5. ms[k][e] < ms[r][1]
      BY <1>6, <1>7, <1>8, <1>9, <2>1, <2>3 DEF LinesHold
    <2>6. ms[r][1] \in FilesIn(l) /\ ms[r][1] < a
      BY <2>4 DEF Section, End
    <2>7. ms[r][1] =< j /\ ms[r][1] \in 1..n
      BY <1>2, <1>4, <2>6
    <2>. QED
      BY <1>2, <1>8, <2>5, <2>7
  <1>11. lines[r].file = l[j].data
    <2>1. LineHolds(l, lines[r], ms[r], code) /\ e \in 1..Len(ms[r]) /\ ms[r][e] = j
      BY <1>6, <1>8, <1>9, <1>10
    <2>. QED
      BY <2>1 DEF LineHolds
  <1>. QED
    BY <1>1, <1>9, <1>11 DEF Continues

-----------------------------------------------------------------------------
(***************************************************************************)
(* The bytes of the tables, and what names and files add to them.          *)
(***************************************************************************)
LEMMA BytesOfNotes ==
  ASSUME NEW l, NEW all \in Seq(NoteSet(l))
  PROVE  /\ NoteBytes(all) \in Seq(Nat) /\ Len(NoteBytes(all)) = Len(all) /\ Total(NoteBytes(all)) \in Nat
         /\ \A k \in 1..Len(all) : NoteBytes(all)[k] = Bytes(all[k])
  <1>1. DOMAIN all = 1..Len(all) /\ Len(all) \in Nat
    OBVIOUS
  <1>2. \A k \in 1..Len(all) : Bytes(all[k]) \in Nat
    <2>1. \A k \in 1..Len(all) : all[k] \in NoteSet(l)
      BY ElementOfSeq
    <2>. QED
      BY <2>1, BytesOfNote
  <1>3. NoteBytes(all) = [k \in 1..Len(all) |-> Bytes(all[k])]
    BY <1>1 DEF NoteBytes
  <1>4. NoteBytes(all) \in Seq(Nat) /\ Len(NoteBytes(all)) = Len(all)
    BY <1>1, <1>2, <1>3
  <1>5. Total(NoteBytes(all)) \in Nat
    BY <1>4, TotalAppended
  <1>. QED
    BY <1>3, <1>4, <1>5

LEMMA EndedCosts ==
  ASSUME NEW l, notes \in Seq(NoteSet(l)), NEW code
  PROVE  NoteBytes(Ended(code)) = NoteBytes(notes) /\ DOMAIN Ended(code) = DOMAIN notes
  <1>1. ASSUME NEW k \in DOMAIN notes PROVE Bytes(Ended(code)[k]) = Bytes(notes[k])
    <2>1. notes[k] \in NoteSet(l)
      BY ElementOfSeq
    <2>2. Ended(code)[k].lines = notes[k].lines
      BY <2>1 DEF Ended, NoteSet
    <2>. QED
      BY <2>2 DEF Bytes
  <1>2. DOMAIN Ended(code) = DOMAIN notes
    BY DEF Ended
  <1>. QED
    BY <1>1, <1>2 DEF NoteBytes

LEMMA NewCosts ==
  ASSUME NEW l, notes \in Seq(NoteSet(l)), NEW code, NEW name, WithNote(code, name) \in Seq(NoteSet(l))
  PROVE  Total(NoteBytes(WithNote(code, name))) = Total(NoteBytes(notes)) + 40
  <1>. PICK q : q = Len(notes)
    OBVIOUS
  <1>. PICK new : new = [code |-> code, name |-> name, lines |-> <<>>, size |-> 0]
    OBVIOUS
  <1>. PICK more : more = WithNote(code, name)
    OBVIOUS
  <1>0. q \in Nat /\ DOMAIN notes = 1..q
    OBVIOUS
  <1>1. more = Append(Ended(code), new)
    BY DEF WithNote
  <1>2. DOMAIN Ended(code) = 1..q /\ NoteBytes(Ended(code)) = NoteBytes(notes)
    BY <1>0, EndedCosts
  <1>3. Len(Ended(code)) = q
    BY <1>0, <1>2
  <1>4. Len(more) = q + 1 /\ more[q + 1] = new /\ \A k \in 1..q : more[k] = Ended(code)[k]
    <2>1. Ended(code) \in Seq({Ended(code)[k] : k \in 1..q} \cup {new})
      <3>1. Ended(code) = [k \in 1..q |-> Ended(code)[k]]
        <4>1. Ended(code) = [k \in DOMAIN notes |->
                IF k = Len(notes) THEN [notes[k] EXCEPT !.size = code - notes[k].code] ELSE notes[k]]
          BY DEF Ended
        <4>. QED
          BY <1>0, <4>1
      <3>2. \A k \in 1..q : Ended(code)[k] \in {Ended(code)[i] : i \in 1..q} \cup {new}
        OBVIOUS
      <3>. QED
        BY <1>0, <3>1, <3>2
    <2>. QED
      BY <1>1, <1>3, <2>1, AppendProperties
  <1>5. more \in Seq(NoteSet(l))
    OBVIOUS
  <1>6. /\ NoteBytes(more) \in Seq(Nat) /\ Len(NoteBytes(more)) = q + 1
        /\ \A k \in 1..q + 1 : NoteBytes(more)[k] = Bytes(more[k])
    BY <1>4, <1>5, BytesOfNotes
  <1>7. /\ NoteBytes(notes) \in Seq(Nat) /\ Len(NoteBytes(notes)) = q
        /\ \A k \in 1..q : NoteBytes(notes)[k] = Bytes(notes[k])
    BY BytesOfNotes
  <1>8. Bytes(new) = 40
    <2>1. new.lines = <<>>
      OBVIOUS
    <2>2. q + 1 \in 1..Len(more)
      BY <1>0, <1>4
    <2>3. new \in NoteSet(l)
      BY <1>4, <1>5, <2>2, ElementOfSeq
    <2>4. Bytes(new) = 40 + Total(LineBytes(<<>>)) /\ LineBytes(<<>>) \in Seq(Nat) /\ Len(LineBytes(<<>>)) = 0
      BY <2>1, <2>3, BytesOfNote
    <2>5. LineBytes(<<>>) = <<>>
      BY <2>4
    <2>6. Total(LineBytes(<<>>)) = 0
      BY <2>4, <2>5, TotalAppended
    <2>. QED
      BY <2>4, <2>6
  <1>9. ASSUME NEW k \in 1..q PROVE NoteBytes(more)[k] = NoteBytes(notes)[k]
    <2>1. k \in 1..q + 1 /\ k \in DOMAIN notes
      BY <1>0
    <2>2. NoteBytes(more)[k] = Bytes(Ended(code)[k])
      BY <1>4, <1>6, <2>1
    <2>3. NoteBytes(Ended(code))[k] = Bytes(Ended(code)[k])
      BY <1>2, <2>1 DEF NoteBytes
    <2>. QED
      BY <1>2, <2>2, <2>3
  <1>10. NoteBytes(more)[q + 1] = 40
    <2>1. q + 1 \in 1..q + 1
      BY <1>0
    <2>. QED
      BY <1>4, <1>6, <1>8, <2>1
  <1>11. NoteBytes(more) = Append(NoteBytes(notes), 40)
    <2>. PICK s : s = NoteBytes(notes)
      OBVIOUS
    <2>. PICK t : t = NoteBytes(more)
      OBVIOUS
    <2>1. s \in Seq(Nat) /\ Len(s) = q /\ t \in Seq(Nat) /\ Len(t) = q + 1 /\ t[q + 1] = 40
      BY <1>6, <1>7, <1>10
    <2>2. \A k \in 1..q : t[k] = s[k]
      BY <1>9
    <2>3. Append(s, 40) \in Seq(Nat) /\ Len(Append(s, 40)) = q + 1 /\ Append(s, 40)[q + 1] = 40
      BY <2>1
    <2>4. \A k \in 1..q : Append(s, 40)[k] = s[k]
      BY <2>1
    <2>5. \A k \in 1..q + 1 : k \in 1..q \/ k = q + 1
      BY <1>0
    <2>. QED
      BY <2>1, <2>2, <2>3, <2>4, <2>5
  <1>12. 40 \in Nat
    OBVIOUS
  <1>. QED
    BY <1>7, <1>11, <1>12, TotalAppended

LEMMA FileCosts ==
  ASSUME NEW n \in Nat, DOMAIN list = 1..n, NEW all, NEW o, NEW a \in FilesIn(list), o # <<>>,
         Starts(list, o, a + 1), PartsHold(list, all, o, a), Repeats(list, a) => o[Len(o)] < a
  PROVE  /\ Total(NoteBytes(SetNote(all, a))) =< Total(NoteBytes(all)) + Cost(list, a)
         /\ Total(NoteBytes(SetNote(all, a))) \in Nat
  <1>. PICK q : q = Len(o)
    OBVIOUS
  <1>. PICK more : more = SetNote(all, a)
    OBVIOUS
  <1>. PICK lines : lines = all[q].lines
    OBVIOUS
  <1>. PICK lines2 : lines2 = WithLine(lines, list[a].data, EntryOf(list, a, all[q].code))
    OBVIOUS
  <1>. PICK note : note = [all[q] EXCEPT !.lines = lines2]
    OBVIOUS
  <1>1. q \in Nat /\ q \in 1..q /\ a \in 1..n
    <2>1. o \in Seq(NamesIn(list) \cup FilesIn(list))
      BY DEF Starts
    <2>. QED
      BY <2>1 DEF FilesIn
  <1>2. /\ all \in Seq(NoteSet(list)) /\ Len(all) = q
        /\ \A k \in 1..q : NoteHolds(list, all[k], o, k, a)
    BY DEF PartsHold
  <1>3. all[q] \in NoteSet(list)
    BY <1>1, <1>2, ElementOfSeq
  <1>4. more = [all EXCEPT ![q] = note]
    <2>1. more = [all EXCEPT ![q].lines = lines2]
      BY <1>2, SetsOfNodes DEF SetNote, EntryOf
    <2>. QED
      BY <2>1
  <1>5. more \in Seq(NoteSet(list)) /\ Len(more) = q
    <2>1. TablesHold(list, more, o, a + 1)
      BY FileNoted
    <2>. QED
      BY <2>1 DEF TablesHold, PartsHold
  <1>6. more[q] = note /\ \A k \in 1..q - 1 : more[k] = all[k]
    BY <1>1, <1>2, <1>4
  <1>7. PICK ms : LinesHold(list, lines, ms, all[q].code, Section(list, o, q, a))
    BY <1>1, <1>2 DEF NoteHolds
  <1>8. Longer(lines, lines2, list[a].data)
    <2>1. \A j \in Section(list, o, q, a) : j < a
      BY <1>1 DEF Section, End
    <2>2. all[q].code \in Int
      BY <1>3 DEF NoteSet
    <2>. QED
      BY <1>7, <2>1, <2>2, LineAdded
  <1>9. note \in NoteSet(list) /\ note.lines = lines2
    <2>1. q \in 1..Len(more)
      BY <1>1, <1>5
    <2>2. note \in NoteSet(list)
      BY <1>5, <1>6, <2>1, ElementOfSeq
    <2>. QED
      BY <1>3, <2>2 DEF NoteSet
  <1>10. lines \in Seq(LineSet(list)) /\ lines2 \in Seq(LineSet(list))
    BY <1>3, <1>9 DEF NoteSet
  <1>11. /\ LineBytes(lines) \in Seq(Nat) /\ Len(LineBytes(lines)) = Len(lines)
         /\ LineBytes(lines2) \in Seq(Nat) /\ Len(LineBytes(lines2)) = Len(lines2)
         /\ Bytes(all[q]) = 40 + Total(LineBytes(lines)) /\ Bytes(note) = 40 + Total(LineBytes(lines2))
    BY <1>3, <1>9, BytesOfNote
  <1>12. Total(LineBytes(lines)) \in Nat /\ Total(LineBytes(lines2)) \in Nat
    BY <1>11, TotalAppended
  <1>13. Total(LineBytes(lines2)) =< Total(LineBytes(lines)) + (IF Continues(lines, list[a].data) THEN 8 ELSE 40)
    BY <1>8, <1>10, <1>11, EntryCosts
  <1>14. Repeats(list, a) => Continues(lines, list[a].data)
    BY <1>1, <1>7, FileContinues
  <1>15. Cost(list, a) = IF Repeats(list, a) THEN 8 ELSE 40
    BY DEF Cost, FilesIn
  <1>16. Bytes(note) =< Bytes(all[q]) + Cost(list, a)
    <2>1. Total(LineBytes(lines2)) =< Total(LineBytes(lines)) + Cost(list, a)
      BY <1>12, <1>13, <1>14, <1>15
    <2>2. Cost(list, a) \in Nat
      BY <1>15
    <2>. QED
      BY <1>11, <1>12, <2>1, <2>2
  <1>17. /\ NoteBytes(all) \in Seq(Nat) /\ Len(NoteBytes(all)) = q
         /\ \A k \in 1..q : NoteBytes(all)[k] = Bytes(all[k])
    BY <1>2, BytesOfNotes
  <1>18. /\ NoteBytes(more) \in Seq(Nat) /\ Len(NoteBytes(more)) = q
         /\ \A k \in 1..q : NoteBytes(more)[k] = Bytes(more[k])
    BY <1>5, BytesOfNotes
  <1>19. \A k \in 1..q - 1 : NoteBytes(more)[k] = NoteBytes(all)[k]
    <2>1. \A k \in 1..q - 1 : k \in 1..q
      BY <1>1
    <2>. QED
      BY <1>6, <1>17, <1>18, <2>1
  <1>20. NoteBytes(more)[q] =< NoteBytes(all)[q] + Cost(list, a)
    BY <1>1, <1>6, <1>16, <1>17, <1>18
  <1>21. NoteBytes(all) # <<>> /\ Cost(list, a) \in Nat
    BY <1>1, <1>15, <1>17
  <1>. QED
    BY <1>17, <1>18, <1>19, <1>20, <1>21, TotalChanged

-----------------------------------------------------------------------------
(***************************************************************************)
(* What is reserved as the list grows.                                     *)
(***************************************************************************)
LEMMA CostsOf ==
  ASSUME NEW l, NEW n \in Nat, DOMAIN l = 1..n
  PROVE  /\ Costs(l) \in Seq(Nat) /\ Len(Costs(l)) = n /\ Total(Costs(l)) \in Nat
         /\ \A i \in 1..n : Costs(l)[i] = Cost(l, i) /\ Cost(l, i) \in Nat
  <1>1. \A i \in 1..n : Cost(l, i) \in Nat
    BY DEF Cost
  <1>2. Costs(l) = [i \in 1..n |-> Cost(l, i)]
    BY DEF Costs
  <1>3. Costs(l) \in Seq(Nat) /\ Len(Costs(l)) = n
    BY <1>1, <1>2
  <1>4. Total(Costs(l)) \in Nat
    BY <1>3, TotalAppended
  <1>. QED
    BY <1>1, <1>2, <1>3, <1>4

LEMMA CostAppended ==
  ASSUME Sequence, NEW n, list' = Append(list, n), NEW m \in Nat, m = Len(list)
  PROVE  /\ Total(Costs(list')) = Total(Costs(list)) + Cost(list', m + 1) /\ Cost(list', m + 1) \in Nat
         /\ Total(Costs(list)) \in Nat /\ DOMAIN list' = 1..m + 1 /\ DOMAIN list = 1..m
         /\ list'[m + 1] = n /\ Len(list') = m + 1 /\ \A i \in 1..m : list'[i] = list[i]
  <1>1. PICK S : list \in Seq(S)
    BY DEF Sequence
  <1>2. list \in Seq(S \cup {n}) /\ n \in S \cup {n}
    BY <1>1
  <1>3. /\ list' \in Seq(S \cup {n}) /\ Len(list') = m + 1 /\ list'[m + 1] = n
        /\ \A i \in 1..m : list'[i] = list[i]
    BY <1>2, AppendProperties
  <1>4. DOMAIN list = 1..m /\ DOMAIN list' = 1..m + 1
    BY <1>2, <1>3
  <1>5. ASSUME NEW i \in 1..m PROVE Cost(list', i) = Cost(list, i)
    <2>1. \A j \in Int : j < i => (j \in FilesIn(list') <=> j \in FilesIn(list))
      BY <1>3, <1>4 DEF FilesIn
    <2>2. ASSUME NEW j \in FilesIn(list), j < i
          PROVE  /\ list'[j] = list[j] /\ \A k \in j + 1..i - 1 : list'[k] = list[k]
      BY <1>3, <1>4, <2>2 DEF FilesIn
    <2>3. list'[i] = list[i] /\ FilesIn(list) \subseteq Int /\ FilesIn(list') \subseteq Int
      BY <1>3, <1>4 DEF FilesIn
    <2>4. Repeats(list', i) <=> Repeats(list, i)
      <3>1. ASSUME Repeats(list', i) PROVE Repeats(list, i)
        <4>1. PICK j \in FilesIn(list') : j < i /\ list'[j].data = list'[i].data
                  /\ \A k \in j + 1..i - 1 : list'[k].kind = "code"
          BY <3>1 DEF Repeats
        <4>2. j \in FilesIn(list)
          BY <2>1, <2>3, <4>1
        <4>3. list[j].data = list[i].data /\ \A k \in j + 1..i - 1 : list[k].kind = "code"
          BY <2>2, <2>3, <4>1, <4>2
        <4>. QED
          BY <4>1, <4>2, <4>3 DEF Repeats
      <3>2. ASSUME Repeats(list, i) PROVE Repeats(list', i)
        <4>1. PICK j \in FilesIn(list) : j < i /\ list[j].data = list[i].data
                  /\ \A k \in j + 1..i - 1 : list[k].kind = "code"
          BY <3>2 DEF Repeats
        <4>2. j \in FilesIn(list')
          BY <2>1, <2>3, <4>1
        <4>3. list'[j].data = list'[i].data /\ \A k \in j + 1..i - 1 : list'[k].kind = "code"
          BY <2>2, <2>3, <4>1
        <4>. QED
          BY <4>1, <4>2, <4>3 DEF Repeats
      <3>. QED
        BY <3>1, <3>2
    <2>. QED
      BY <2>3, <2>4 DEF Cost
  <1>. PICK s : s = Costs(list)
    OBVIOUS
  <1>. PICK t : t = Costs(list')
    OBVIOUS
  <1>. PICK x : x = Cost(list', m + 1)
    OBVIOUS
  <1>6. /\ s \in Seq(Nat) /\ Len(s) = m /\ Total(s) \in Nat /\ \A i \in 1..m : s[i] = Cost(list, i)
    BY <1>4, CostsOf
  <1>7. m + 1 \in Nat /\ m + 1 \in 1..m + 1 /\ \A i \in 1..m + 1 : i \in 1..m \/ i = m + 1
    OBVIOUS
  <1>8. /\ t \in Seq(Nat) /\ Len(t) = m + 1
        /\ \A i \in 1..m + 1 : t[i] = Cost(list', i) /\ Cost(list', i) \in Nat
    BY <1>4, <1>7, CostsOf
  <1>9. x \in Nat /\ t[m + 1] = x
    BY <1>7, <1>8
  <1>10. \A i \in 1..m : t[i] = s[i]
    BY <1>5, <1>6, <1>8
  <1>11. t = Append(s, x)
    <2>1. Append(s, x) \in Seq(Nat) /\ Len(Append(s, x)) = m + 1 /\ Append(s, x)[m + 1] = x
      BY <1>6, <1>9
    <2>2. \A i \in 1..m : Append(s, x)[i] = s[i]
      BY <1>6
    <2>. QED
      BY <1>7, <1>8, <1>9, <1>10, <2>1, <2>2
  <1>12. Total(t) = Total(s) + x
    BY <1>6, <1>9, <1>11, TotalAppended
  <1>. QED
    BY <1>3, <1>4, <1>6, <1>9, <1>12

\* A constant that has a node is found there.
LEMMA KnownNode ==
  ASSUME PoolInv, NEW i \in DOMAIN nodes
  PROVE  Node(nodes[i].data) = i
  <1>. PICK c : c = nodes[i].data
    OBVIOUS
  <1>1. i \in 1..Len(nodes)
    BY DEF PoolInv, PoolTyped
  <1>2. i \in Found(c)
    BY <1>1 DEF Found, PoolInv, InBuckets
  <1>3. Found(c) \subseteq 1..Len(nodes)
    <2>1. c \in Constants
      <3>1. nodes \in Seq(NodeSet)
        BY DEF PoolInv, PoolTyped
      <3>2. nodes[i] \in NodeSet
        BY <1>1, <3>1, ElementOfSeq
      <3>. QED
        BY <3>2 DEF NodeSet
    <2>2. Hash[c] \in Nat /\ size \in Nat \ {0} /\ table \in [0..size - 1 -> SUBSET (1..Len(nodes))]
      BY <2>1, PoolAssumption DEF PoolInv, PoolTyped
    <2>3. Bucket(c, size) \in 0..size - 1
      BY <2>2, InTable DEF Bucket
    <2>. QED
      BY <2>2, <2>3 DEF Found
  <1>4. \A k \in Found(c) : k = i
    BY <1>1, <1>2, <1>3 DEF Found, PoolInv, Distinct
  <1>. QED
    BY <1>2, <1>4 DEF Node

LEMMA ReservesAppended ==
  ASSUME Sequence, Reserves, NEW n, list' = Append(list, n), space \in Nat, NEW b \in Nat, space' = space + b,
         Cost(list', Len(list) + 1) =< b, last \in {NULL} \cup DOMAIN list,
         last' \in {NULL, Len(list) + 1} \/ (last' = last /\ n.kind = "code")
  PROVE  Reserves'
  <1>. PICK m : m = Len(list)
    OBVIOUS
  <1>1. m \in Nat
    BY ListLong
  <1>2. /\ Total(Costs(list')) = Total(Costs(list)) + Cost(list', m + 1) /\ Cost(list', m + 1) \in Nat
        /\ Total(Costs(list)) \in Nat /\ DOMAIN list' = 1..m + 1 /\ DOMAIN list = 1..m
        /\ list'[m + 1] = n /\ Len(list') = m + 1 /\ \A i \in 1..m : list'[i] = list[i]
    BY <1>1, CostAppended
  <1>3. 40 + Total(Costs(list')) =< space'
    BY <1>2 DEF Reserves
  <1>4. ASSUME last' # NULL, NEW i \in last' + 1..Len(list') PROVE list'[i].kind = "code"
    <2>1. CASE last' = m + 1
      BY <1>1, <1>2, <1>4, <2>1
    <2>2. CASE last' = last /\ n.kind = "code" /\ last # NULL
      <3>1. last \in 1..m
        BY <1>2, <2>2
      <3>2. i \in last + 1..m \/ i = m + 1
        BY <1>1, <1>2, <1>4, <2>2, <3>1
      <3>3. i \in last + 1..m => i \in 1..m /\ list[i].kind = "code"
        BY <1>1, <2>2, <3>1 DEF Reserves
      <3>. QED
        BY <1>2, <2>2, <3>2, <3>3
    <2>. QED
      BY <1>4, <2>1, <2>2 DEF NULL
  <1>5. last' # NULL => \A i \in last' + 1..Len(list') : list'[i].kind = "code"
    BY <1>4
  <1>. QED
    BY <1>3, <1>5 DEF Reserves

LEMMA ReservesStep ==
  ASSUME PoolInv, Listed, Annotating, Reserves, Next
  PROVE  Reserves'
  <1>. PICK m : m = Len(list)
    OBVIOUS
  <1>1. m \in Nat /\ Sequence /\ DOMAIN list = 1..m /\ space \in Nat
    BY ListLong DEF Listed, Annotating
  <1>2. last \in {NULL} \cup DOMAIN list
    BY DEF Annotating, Kind
  <1>3. ASSUME NEW data, AddName(data) PROVE Reserves'
    <2>. PICK n : n = NodeOf("name", data, 0)
      OBVIOUS
    <2>1. list' = Append(list, n) /\ last' = NULL /\ space' = space + 40 /\ n.kind = "name"
      BY <1>3 DEF AddName, SizeofNote, NodeOf
    <2>2. list'[m + 1] = n
      BY <1>1, <2>1, CostAppended
    <2>3. Cost(list', m + 1) =< 40 /\ 40 \in Nat
      BY <2>1, <2>2 DEF Cost
    <2>. QED
      BY <1>1, <1>2, <2>1, <2>3, ReservesAppended
  <1>4. ASSUME NEW data, NEW line, NEW bytes \in {0, 32}, AddNote(data, line, bytes),
               bytes = 0 => last # NULL /\ list[last].data = data /\ data # NULL
        PROVE  Reserves'
    <2>. PICK n : n = NodeOf("note", data, line)
      OBVIOUS
    <2>1. /\ list' = Append(list, n) /\ last' = m + 1 /\ space' = space + (bytes + 8)
          /\ n.kind = "note" /\ n.data = data
      BY <1>1, <1>4 DEF AddNote, SizeofInt, NodeOf
    <2>2. list'[m + 1] = n /\ DOMAIN list' = 1..m + 1 /\ \A i \in 1..m : list'[i] = list[i]
      BY <1>1, <2>1, CostAppended
    <2>3. ASSUME bytes = 0 PROVE Repeats(list', m + 1)
      <3>1. last \in 1..m /\ last \in Kind({"note"}) /\ list[last].data = data /\ data # NULL /\ last # NULL
        BY <1>1, <1>2, <1>4, <2>3 DEF Annotating
      <3>2. last \in FilesIn(list')
        BY <1>1, <2>2, <3>1 DEF FilesIn, Kind
      <3>3. last < m + 1 /\ list'[last].data = list'[m + 1].data
        BY <1>1, <2>1, <2>2, <3>1
      <3>4. ASSUME NEW k \in last + 1..(m + 1) - 1 PROVE list'[k].kind = "code"
        <4>1. k \in last + 1..m /\ k \in 1..m
          BY <1>1, <3>1
        <4>. QED
          BY <2>2, <3>1, <4>1 DEF Reserves
      <3>. QED
        BY <3>2, <3>3, <3>4 DEF Repeats
    <2>4. Cost(list', m + 1) =< bytes + 8 /\ bytes + 8 \in Nat
      <3>1. Cost(list', m + 1) = IF Repeats(list', m + 1) THEN 8 ELSE 40
        BY <2>1, <2>2 DEF Cost
      <3>2. bytes = 0 \/ bytes = 32
        OBVIOUS
      <3>. QED
        BY <2>3, <3>1, <3>2
    <2>. QED
      BY <1>1, <1>2, <2>1, <2>4, ReservesAppended
  <1>5. ASSUME NEW c \in Files, NEW line \in Lines, Note(c, line) PROVE Reserves'
    <2>1. ~Unnamed /\ AddNote(Node(c), line, Reserved(c))
      BY <1>5 DEF Note
    <2>2. Reserved(c) \in {0, 32}
      BY DEF Reserved, SizeofLine
    <2>3. ASSUME Reserved(c) = 0 PROVE last # NULL /\ list[last].data = Node(c) /\ Node(c) # NULL
      <3>1. last # NULL /\ nodes[list[last].data].data = c
        BY <2>3 DEF Reserved, SizeofLine
      <3>2. list[last].data # NULL
        BY <2>1, <3>1 DEF Unnamed
      <3>3. last \in DOMAIN list /\ list[last].kind = "note"
        BY <3>1 DEF Annotating, Kind
      <3>4. list[last].data \in DOMAIN nodes
        BY <3>2, <3>3 DEF Listed
      <3>5. Node(c) = list[last].data
        BY <3>1, <3>4, KnownNode
      <3>. QED
        BY <3>1, <3>2, <3>5
    <2>. QED
      BY <1>4, <2>1, <2>2, <2>3
  <1>6. CASE NoteOfNoFile
    <2>1. AddNote(NULL, 0, 32)
      BY <1>6 DEF NoteOfNoFile, SizeofLine
    <2>2. 32 \in {0, 32} /\ 32 # 0
      OBVIOUS
    <2>. QED
      BY <1>4, <2>1, <2>2
  <1>7. ASSUME NEW imm, Instruction(imm) PROVE Reserves'
    <2>. PICK n : n = [NodeOf("code", NULL, 0) EXCEPT !.imm = imm]
      OBVIOUS
    <2>1. list' = Append(list, n) /\ last' = last /\ space' = space + 0 /\ n.kind = "code"
      BY <1>1, <1>7 DEF Instruction, NodeOf
    <2>2. list'[m + 1] = n
      BY <1>1, <2>1, CostAppended
    <2>3. Cost(list', m + 1) =< 0 /\ 0 \in Nat
      BY <2>1, <2>2 DEF Cost
    <2>. QED
      BY <1>1, <1>2, <2>1, <2>3, ReservesAppended
  <1>8. ASSUME UNCHANGED <<list, space, last>> PROVE Reserves'
    BY <1>8 DEF Reserves
  <1>9. CASE Build
    <2>1. ASSUME NEW c \in Names, Name(c) PROVE Reserves'
      BY <1>3, <2>1 DEF Name
    <2>2. CASE NameOfNone
      BY <1>3, <2>2 DEF NameOfNone
    <2>3. CASE NoteFails
      BY <1>8, <2>3 DEF NoteFails
    <2>. QED
      BY <1>5, <1>6, <1>7, <1>9, <2>1, <2>2, <2>3 DEF Build
  <1>10. CASE Realize \/ RealizeNode \/ EndRealize \/ AnnotateName \/ AnnotateNote \/ EndAnnotate
    BY <1>8, <1>10 DEF Realize, RealizeNode, EndRealize, AnnotateName, AnnotateNote, EndAnnotate
  <1>. QED
    BY <1>9, <1>10 DEF Next

-----------------------------------------------------------------------------
(***************************************************************************)
(* What the tables need, node by node, is not more than what was reserved. *)
(***************************************************************************)
LEMMA UnusedShrinks ==
  ASSUME NEW l, NEW n \in Nat, DOMAIN l = 1..n, NEW p \in Int, NEW r \in Int, p =< r
  PROVE  Unused(l, r) =< Unused(l, p) /\ Unused(l, p) \in {0, 40} /\ Unused(l, r) \in {0, 40}
  <1>1. FilesIn(l) \subseteq Int
    BY DEF FilesIn
  <1>2. Leading(l, p) => Leading(l, r)
    BY <1>1 DEF Leading
  <1>. QED
    BY <1>2 DEF Unused

\* From one node to a later one, and behind a node.
LEMMA CostsAhead ==
  ASSUME NEW l, NEW n \in Nat, DOMAIN l = 1..n, NEW p \in 1..n + 1, NEW a \in 1..n, p =< a
  PROVE  /\ Total(Part(Costs(l), p - 1)) + Cost(l, a) =< Total(Part(Costs(l), (a + 1) - 1))
         /\ Total(Part(Costs(l), p - 1)) \in Nat /\ Cost(l, a) \in Nat
         /\ Total(Part(Costs(l), (a + 1) - 1)) \in Nat
  <1>. PICK s : s = Costs(l)
    OBVIOUS
  <1>. PICK x : x = p - 1
    OBVIOUS
  <1>. PICK y : y = a - 1
    OBVIOUS
  <1>1. s \in Seq(Nat) /\ Len(s) = n /\ s[a] = Cost(l, a) /\ Cost(l, a) \in Nat
    BY CostsOf
  <1>2. x \in Nat /\ y \in Nat /\ x =< y /\ y < Len(s) /\ x =< Len(s) /\ y + 1 = a /\ y =< Len(s)
    BY <1>1
  <1>3. Totals(s, x) /\ Totals(s, y)
    BY <1>1, <1>2, TotalStep
  <1>4. Total(Part(s, x)) \in Nat /\ Total(Part(s, y)) \in Nat
    BY <1>3 DEF Totals
  <1>5. Total(Part(s, a)) = Total(Part(s, y)) + Cost(l, a)
    BY <1>1, <1>2, <1>3 DEF Totals
  <1>6. Total(Part(s, x)) =< Total(Part(s, y))
    BY <1>1, <1>2, TotalGrows
  <1>7. (a + 1) - 1 = a
    OBVIOUS
  <1>. QED
    BY <1>1, <1>4, <1>5, <1>6, <1>7

LEMMA Balance ==
  ASSUME NEW t \in Nat, NEW t2 \in Nat, NEW u \in {0, 40}, NEW u2 \in {0, 40}, NEW c \in Nat,
         NEW p \in Nat, NEW p2 \in Nat, t + u =< 40 + p, t2 =< t + c, u2 =< u, p + c =< p2
  PROVE  t2 + u2 =< 40 + p2
  OBVIOUS

LEMMA NameSpends ==
  ASSUME Listed, Annotating, Spends, AnnotateName
  PROVE  Spends'
  <1>. PICK n : n = Len(list)
    OBVIOUS
  <1>. PICK a : a = Annotated
    OBVIOUS
  <1>. PICK name : name = list[a].data
    OBVIOUS
  <1>1. n \in Nat /\ DOMAIN list = 1..n
    BY ListLong DEF Listed
  <1>2. a \in NamesIn(list) /\ a \in 1..n /\ place \in 1..n + 1 /\ place =< a
    <2>1. a \in NamesIn(list)
      BY SetsOfNodes DEF AnnotateName
    <2>2. a \in 1..n
      BY <1>1, <2>1 DEF NamesIn
    <2>. QED
      BY <2>1, <2>2, NextMark DEF Annotating
  <1>3. notes' = WithNote(At(a), name) /\ place' = a + 1 /\ list' = list /\ phase = "annotate" /\ phase' = "annotate"
    BY DEF AnnotateName
  <1>4. notes \in Seq(NoteSet(list))
    BY DEF AnnotateName, Annotating, TablesHold, PartsHold
  <1>5. notes' \in Seq(NoteSet(list))
    BY <1>3, AnnotateNameStep DEF Annotating, TablesHold, PartsHold
  <1>6. Total(NoteBytes(notes')) = Total(NoteBytes(notes)) + 40 /\ Total(NoteBytes(notes)) \in Nat
    <2>1. Total(NoteBytes(notes)) \in Nat
      BY <1>4, BytesOfNotes
    <2>. QED
      BY <1>3, <1>4, <1>5, <2>1, NewCosts
  <1>7. Cost(list, a) = 40
    BY <1>2 DEF Cost, NamesIn
  <1>8. /\ Total(Part(Costs(list), place - 1)) + 40 =< Total(Part(Costs(list), (a + 1) - 1))
        /\ Total(Part(Costs(list), place - 1)) \in Nat /\ Total(Part(Costs(list), (a + 1) - 1)) \in Nat
    BY <1>1, <1>2, <1>7, CostsAhead
  <1>9. Unused(list, a + 1) =< Unused(list, place) /\ Unused(list, place) \in {0, 40} /\ Unused(list, a + 1) \in {0, 40}
    <2>1. place \in Int /\ a + 1 \in Int /\ place =< a + 1
      BY <1>2
    <2>. QED
      BY <1>1, <2>1, UnusedShrinks
  <1>10. Total(NoteBytes(notes)) + Unused(list, place) =< 40 + Total(Part(Costs(list), place - 1))
    BY <1>3 DEF Spends, Affords
  <1>11. Total(NoteBytes(notes')) + Unused(list, a + 1) =< 40 + Total(Part(Costs(list), (a + 1) - 1))
    BY <1>6, <1>8, <1>9, <1>10
  <1>12. Affords(list', notes', place')
    <2>1. Affords(list, notes', a + 1)
      BY <1>11 DEF Affords
    <2>. QED
      BY <1>3, <2>1
  <1>. QED
    BY <1>3, <1>12 DEF Spends

LEMMA NoteSpends ==
  ASSUME Listed, Annotating, Spends, AnnotateNote
  PROVE  Spends'
  <1>. PICK n : n = Len(list)
    OBVIOUS
  <1>. PICK a : a = Annotated
    OBVIOUS
  <1>1. n \in Nat /\ DOMAIN list = 1..n
    BY ListLong DEF Listed
  <1>2. a \in FilesIn(list) /\ a \notin NamesIn(list) /\ a \in 1..n /\ place \in 1..n + 1 /\ place =< a
        /\ \A j \in NamesIn(list) \cup FilesIn(list) : j < a => j < place
    <2>1. a \in Kind({"note"}) /\ a \in 1..n
      BY <1>1 DEF AnnotateNote, Kind
    <2>2. a \in NamesIn(list) \cup FilesIn(list)
      BY <1>1, <2>1, NextMark
    <2>3. a \notin NamesIn(list)
      BY <2>1 DEF Kind, NamesIn
    <2>. QED
      BY <2>1, <2>2, <2>3, NextMark DEF Annotating
  <1>3. PICK o : TablesHold(list, notes, o, place)
    BY DEF AnnotateNote, Annotating
  <1>4. TablesHold(list, notes, o, a)
    BY <1>1, <1>2, <1>3, Skipped
  <1>5. /\ notes' = SetNote(IF notes = <<>> THEN WithNote(At(a), NULL) ELSE notes, a)
        /\ place' = a + 1 /\ list' = list /\ phase = "annotate" /\ phase' = "annotate"
    BY DEF AnnotateNote
  <1>6. o \in Seq(NamesIn(list) \cup FilesIn(list)) /\ notes \in Seq(NoteSet(list)) /\ Len(notes) = Len(o)
    BY <1>4 DEF TablesHold, Starts, PartsHold
  <1>7. Total(NoteBytes(notes)) \in Nat
    BY <1>6, BytesOfNotes
  <1>8. /\ Total(Part(Costs(list), place - 1)) + Cost(list, a) =< Total(Part(Costs(list), (a + 1) - 1))
        /\ Total(Part(Costs(list), place - 1)) \in Nat /\ Total(Part(Costs(list), (a + 1) - 1)) \in Nat
        /\ Cost(list, a) \in Nat
    BY <1>1, <1>2, CostsAhead
  <1>9. Unused(list, a + 1) =< Unused(list, place) /\ Unused(list, place) \in {0, 40} /\ Unused(list, a + 1) \in {0, 40}
    <2>1. place \in Int /\ a + 1 \in Int /\ place =< a + 1
      BY <1>2
    <2>. QED
      BY <1>1, <2>1, UnusedShrinks
  <1>10. Total(NoteBytes(notes)) + Unused(list, place) =< 40 + Total(Part(Costs(list), place - 1))
    BY <1>5 DEF Spends, Affords
  <1>. DEFINE Fit == Total(NoteBytes(notes')) + Unused(list, a + 1) =< 40 + Total(Part(Costs(list), (a + 1) - 1))
  <1>11. ASSUME notes = <<>> PROVE Fit
    <2>. PICK all : all = WithNote(At(a), NULL)
      OBVIOUS
    <2>1. o = <<>>
      BY <1>6, <1>11
    <2>2. Starts(list, Append(o, a), a + 1) /\ PartsHold(list, all, Append(o, a), a)
      <3>1. TablesHold(list, notes, <<>>, a)
        BY <1>4, <2>1
      <3>. QED
        BY <1>1, <1>2, <2>1, <3>1, BegunByFile
    <2>3. Append(o, a) # <<>>
      <3>1. Append(o, a) = <<a>> /\ <<a>> # <<>>
        BY <2>1
      <3>. QED
        BY <3>1
    <2>4. \A j \in NamesIn(list) \cup FilesIn(list) : ~(j < a)
      BY <1>4, <2>1 DEF TablesHold, Starts
    <2>5. ~Repeats(list, a)
      BY <2>4 DEF Repeats
    <2>6. Total(NoteBytes(SetNote(all, a))) =< Total(NoteBytes(all)) + Cost(list, a)
          /\ Total(NoteBytes(SetNote(all, a))) \in Nat
      BY <1>1, <1>2, <2>2, <2>3, <2>5, FileCosts
    <2>7. Cost(list, a) = 40
      BY <1>2, <2>5 DEF Cost, FilesIn
    <2>8. Total(NoteBytes(all)) = Total(NoteBytes(notes)) + 40
      <3>1. all \in Seq(NoteSet(list))
        BY <2>2 DEF PartsHold
      <3>. QED
        BY <1>6, <3>1, NewCosts
    <2>9. Total(NoteBytes(notes)) = 0
      <3>1. NoteBytes(notes) \in Seq(Nat) /\ Len(NoteBytes(notes)) = 0
        BY <1>6, <1>11, BytesOfNotes
      <3>2. NoteBytes(notes) = <<>>
        BY <3>1
      <3>. QED
        BY <3>1, <3>2, TotalAppended
    <2>10. Unused(list, a + 1) = 0
      <3>1. a < a + 1 /\ \A i \in NamesIn(list) : a < i
        <4>1. \A i \in NamesIn(list) : i \in 1..n /\ i # a
          BY <1>1, <1>2 DEF NamesIn
        <4>. QED
          BY <1>2, <2>4, <4>1
      <3>. QED
        BY <1>2, <3>1 DEF Unused, Leading
    <2>11. notes' = SetNote(all, a)
      BY <1>5, <1>11
    <2>. QED
      BY <1>8, <2>6, <2>7, <2>8, <2>9, <2>10, <2>11
  <1>12. ASSUME notes # <<>> PROVE Fit
    <2>1. o # <<>>
      BY <1>6, <1>12
    <2>2. Starts(list, o, a + 1) /\ o[Len(o)] < a
      <3>1. /\ \A k, m \in 1..Len(o) : k < m => o[k] < o[m]
            /\ \A k \in 1..Len(o) : o[k] < a /\ (o[k] \in FilesIn(list) => k = 1)
            /\ \A j \in NamesIn(list) : j < a => \E k \in 1..Len(o) : o[k] = j
            /\ \A j \in FilesIn(list) : j < a => o # <<>> /\ o[1] =< j
        BY <1>4 DEF TablesHold, Starts
      <3>2. \A j \in NamesIn(list) \cup FilesIn(list) : j \in 1..n
        BY <1>1 DEF NamesIn, FilesIn
      <3>3. 1 \in 1..Len(o) /\ Len(o) \in 1..Len(o) /\ \A k \in 1..Len(o) : o[k] \in 1..n
        BY <1>6, <2>1, <3>2, ElementOfSeq
      <3>4. \A k \in 1..Len(o) : o[k] < a + 1
        BY <1>2, <3>1, <3>3
      <3>5. \A j \in NamesIn(list) : j < a + 1 => j < a
        BY <1>2, <3>2
      <3>6. \A j \in FilesIn(list) : j < a + 1 => o[1] =< j
        <4>1. ASSUME NEW j \in FilesIn(list), j < a + 1 PROVE o[1] =< j
          <5>1. j < a \/ j = a
            BY <1>2, <3>2, <4>1
          <5>2. o[1] =< a
            BY <1>2, <3>1, <3>3
          <5>. QED
            BY <3>1, <5>1, <5>2
        <4>. QED
          BY <4>1
      <3>. QED
        BY <1>6, <2>1, <3>1, <3>3, <3>4, <3>5, <3>6 DEF Starts
    <2>3. PartsHold(list, notes, o, a)
      BY <1>4 DEF TablesHold
    <2>4. Total(NoteBytes(SetNote(notes, a))) =< Total(NoteBytes(notes)) + Cost(list, a)
          /\ Total(NoteBytes(SetNote(notes, a))) \in Nat
      BY <1>1, <1>2, <2>1, <2>2, <2>3, FileCosts
    <2>5. notes' = SetNote(notes, a)
      BY <1>5, <1>12
    <2>. QED
      <3>1. Total(NoteBytes(SetNote(notes, a))) + Unused(list, a + 1) =< 40 + Total(Part(Costs(list), (a + 1) - 1))
        BY <1>7, <1>8, <1>9, <1>10, <2>4, Balance
      <3>. QED
        BY <2>5, <3>1
  <1>13. Fit
    BY <1>11, <1>12
  <1>14. Affords(list', notes', place')
    <2>1. Affords(list, notes', a + 1)
      BY <1>13 DEF Affords
    <2>. QED
      BY <1>5, <2>1
  <1>. QED
    BY <1>5, <1>14 DEF Spends

LEMMA EndSpends ==
  ASSUME Listed, Annotating, Reserves, Spends, space \in Nat, EndAnnotate
  PROVE  Spends'
  <1>. PICK n : n = Len(list)
    OBVIOUS
  <1>. PICK s : s = Costs(list)
    OBVIOUS
  <1>1. n \in Nat /\ DOMAIN list = 1..n /\ place \in 1..n + 1
    BY ListLong DEF Listed, Annotating
  <1>2. notes \in Seq(NoteSet(list))
    BY DEF EndAnnotate, Annotating, TablesHold, PartsHold
  <1>3. notes' = Ended(At(n + 1)) /\ phase = "annotate" /\ phase' = "done" /\ space' = space
    BY DEF EndAnnotate
  <1>4. NoteBytes(notes') = NoteBytes(notes) /\ Total(NoteBytes(notes)) \in Nat
    BY <1>2, <1>3, EndedCosts, BytesOfNotes
  <1>5. s \in Seq(Nat) /\ Len(s) = n /\ Total(s) \in Nat
    BY <1>1, CostsOf
  <1>6. Total(Part(s, place - 1)) =< Total(s) /\ Total(Part(s, place - 1)) \in Nat
    <2>1. place - 1 \in Nat /\ place - 1 =< n /\ n =< Len(s)
      BY <1>1, <1>5
    <2>2. Total(Part(s, place - 1)) =< Total(Part(s, n))
      BY <1>1, <1>5, <2>1, TotalGrows
    <2>3. Part(s, n) = s
      BY <1>1, <1>5, PartIs
    <2>4. Totals(s, place - 1)
      BY <1>5, <2>1, TotalStep
    <2>. QED
      BY <2>2, <2>3, <2>4 DEF Totals
  <1>7. Total(NoteBytes(notes)) + Unused(list, place) =< 40 + Total(Part(s, place - 1))
    BY <1>3 DEF Spends, Affords
  <1>8. Unused(list, place) \in {0, 40}
    BY DEF Unused
  <1>9. 40 + Total(s) =< space
    BY DEF Reserves
  <1>10. Total(NoteBytes(notes)) =< space
    BY <1>4, <1>5, <1>6, <1>7, <1>8, <1>9
  <1>11. Within(notes', space')
    BY <1>3, <1>4, <1>10 DEF Within
  <1>. QED
    BY <1>3, <1>11 DEF Spends

LEMMA SpendsStep ==
  ASSUME Listed, Annotating, Reserves, Spends, Next
  PROVE  Spends'
  <1>1. space \in Nat
    BY DEF Annotating
  <1>2. CASE Build
    <2>1. phase' \in {"build", "failed"}
      BY <1>2 DEF Build, Name, NameOfNone, Note, NoteOfNoFile, NoteFails, Instruction, Building, AddName, AddNote
    <2>. QED
      BY <2>1 DEF Spends
  <1>3. CASE Realize \/ RealizeNode
    <2>1. phase' = "realize"
      BY <1>3 DEF Realize, RealizeNode
    <2>. QED
      BY <2>1 DEF Spends
  <1>4. CASE EndRealize
    <2>1. phase' = "annotate" /\ place' = 1 /\ list' = list /\ notes' = <<>>
      BY <1>4 DEF EndRealize, Annotating
    <2>2. Total(NoteBytes(<<>>)) = 0
      <3>1. <<>> \in Seq(NoteSet(list)) /\ Len(<<>>) = 0
        OBVIOUS
      <3>2. NoteBytes(<<>>) \in Seq(Nat) /\ Len(NoteBytes(<<>>)) = 0
        BY <3>1, BytesOfNotes
      <3>3. NoteBytes(<<>>) = <<>>
        BY <3>2
      <3>. QED
        BY <3>2, <3>3, TotalAppended
    <2>3. Total(Part(Costs(list), 1 - 1)) = 0
      <3>. PICK s : s = Costs(list)
        OBVIOUS
      <3>1. Len(list) \in Nat /\ DOMAIN list = 1..Len(list)
        BY ListLong DEF Listed
      <3>2. s \in Seq(Nat) /\ Len(s) = Len(list)
        BY <3>1, CostsOf
      <3>3. 0 \in Nat /\ 0 =< Len(s) /\ 1 - 1 = 0
        BY <3>1, <3>2
      <3>4. Totals(s, 0)
        BY <3>2, <3>3, TotalStep
      <3>. QED
        BY <3>3, <3>4 DEF Totals
    <2>4. Unused(list, 1) \in {0, 40}
      BY DEF Unused
    <2>5. Affords(list, <<>>, 1)
      BY <2>2, <2>3, <2>4 DEF Affords
    <2>6. Affords(list', notes', place')
      BY <2>1, <2>5
    <2>. QED
      BY <2>1, <2>6 DEF Spends
  <1>. QED
    BY <1>1, <1>2, <1>3, <1>4, NameSpends, NoteSpends, EndSpends DEF Next

\* What has been annotated is paid for by what was reserved up to place.
Paid == NotesInv /\ Reserves /\ Spends

(***************************************************************************)
(* The tables that jit_annotate builds fit in the room that jit_name and   *)
(* jit_note reserved, node by node, for every program.                     *)
(***************************************************************************)
THEOREM SpaceSuffices == Spec => []SpaceReserved
  <1>1. Init => Paid
    <2>. SUFFICES ASSUME Init PROVE Paid
      OBVIOUS
    <2>1. NotesInv
      <3>1. PoolInit
        BY DEF Init
      <3>. QED
        BY <3>1, PoolStart, HeldStart, NotesStart DEF NotesInv
    <2>2. list = <<>> /\ last = NULL /\ space = 40 /\ phase = "build"
      BY DEF Init, SizeofNote
    <2>3. Total(Costs(list)) = 0
      <3>1. 0 \in Nat /\ DOMAIN list = 1..0
        BY <2>2
      <3>2. Costs(list) \in Seq(Nat) /\ Len(Costs(list)) = 0
        BY <3>1, CostsOf
      <3>3. Costs(list) = <<>>
        BY <3>2
      <3>. QED
        BY <3>2, <3>3, TotalAppended
    <2>4. Reserves /\ Spends
      BY <2>2, <2>3 DEF Reserves, Spends
    <2>. QED
      BY <2>1, <2>4 DEF Paid
  <1>2. Paid /\ [Next]_vars => Paid'
    <2>. SUFFICES ASSUME Paid, [Next]_vars PROVE Paid'
      OBVIOUS
    <2>1. NotesInv'
      BY NotesStep DEF Paid
    <2>2. CASE Next
      BY <2>1, <2>2, ReservesStep, SpendsStep DEF Paid, NotesInv
    <2>3. CASE UNCHANGED vars
      <3>1. UNCHANGED <<list, last, space, phase, place, notes>>
        BY <2>3 DEF vars, noteVars
      <3>2. Reserves' /\ Spends'
        BY <3>1 DEF Paid, Reserves, Spends
      <3>. QED
        BY <2>1, <3>2 DEF Paid
    <2>. QED
      BY <2>2, <2>3
  <1>3. Paid => SpaceReserved
    <2>. SUFFICES ASSUME Paid, phase \in {"annotate", "done"} PROVE Total(NoteBytes(notes)) =< space
      BY DEF SpaceReserved, NoteBytes
    <2>. PICK s : s = Costs(list)
      OBVIOUS
    <2>. PICK n : n = Len(list)
      OBVIOUS
    <2>0. Listed /\ Annotating /\ Reserves /\ Spends
      BY DEF Paid, NotesInv
    <2>1. n \in Nat /\ DOMAIN list = 1..n /\ place \in 1..n + 1 /\ space \in Nat
      BY <2>0, ListLong DEF Listed, Annotating
    <2>2. notes \in Seq(NoteSet(list))
      BY <2>0 DEF Annotating, TablesHold, PartsHold
    <2>3. Total(NoteBytes(notes)) \in Nat
      BY <2>2, BytesOfNotes
    <2>4. CASE phase = "done"
      BY <2>0, <2>4 DEF Spends, Within
    <2>5. CASE phase = "annotate"
      <3>1. s \in Seq(Nat) /\ Len(s) = n /\ Total(s) \in Nat
        BY <2>1, CostsOf
      <3>2. place - 1 \in Nat /\ place - 1 =< n /\ n =< Len(s)
        BY <2>1, <3>1
      <3>3. Total(Part(s, place - 1)) =< Total(Part(s, n))
        BY <2>1, <3>1, <3>2, TotalGrows
      <3>4. Part(s, n) = s
        BY <2>1, <3>1, PartIs
      <3>5. Totals(s, place - 1)
        BY <3>1, <3>2, TotalStep
      <3>6. Total(NoteBytes(notes)) + Unused(list, place) =< 40 + Total(Part(s, place - 1))
        BY <2>0, <2>5 DEF Spends, Affords
      <3>7. Unused(list, place) \in {0, 40}
        BY DEF Unused
      <3>8. 40 + Total(s) =< space
        BY <2>0 DEF Reserves
      <3>9. Total(Part(s, place - 1)) \in Nat
        BY <3>5 DEF Totals
      <3>. QED
        BY <2>1, <2>3, <3>1, <3>3, <3>4, <3>6, <3>7, <3>8, <3>9
    <2>. QED
      BY <2>4, <2>5
  <1>. QED
    BY <1>1, <1>2, <1>3, PTL DEF Spec
=============================================================================
