--------------------------- MODULE EmitCodeProofs ---------------------------
(***************************************************************************)
(* Proofs about EmitCode, for every program, encoding, buffer and growth.  *)
(***************************************************************************)
EXTENDS EmitCode, FiniteSetTheorems, TLAPS

(***************************************************************************)
(* Facts about the constants.                                              *)
(***************************************************************************)
LEMMA ProgramFacts ==
  ASSUME NEW p \in Programs
  PROVE  /\ p \in Seq(Node) /\ Len(p) \in Nat /\ Len(p) >= 1 /\ DOMAIN p = 1 .. Len(p)
         /\ WellFormed(p)
  <1>1. WellFormed(p)
    BY ProgramsAssumption
  <1>2. p \in Seq(Node) /\ p # <<>>
    BY <1>1 DEF WellFormed
  <1>3. Len(p) \in Nat /\ DOMAIN p = 1 .. Len(p) /\ Len(p) # 0
    BY <1>2
  <1>. QED
    BY <1>1, <1>2, <1>3

LEMMA FrameType ==
  ASSUME NEW h \in SUBSET Resources
  PROVE  FrameOf(h) \in Nat
  <1>1. IsFiniteSet(h \cap Saved)
    BY LayoutAssumption, FS_Subset
  <1>2. Cardinality(h \cap Saved) \in Nat
    BY <1>1, FS_CardinalityType
  <1>3. \A w \in Nat : w % 2 \in Nat
    OBVIOUS
  <1>. QED
    BY <1>2, <1>3 DEF FrameOf

LEMMA PaddingBound ==
  ASSUME pc \in Nat, NEW l
  PROVE  Padding(l) \in Nat /\ Padding(l) < Word
  <1>1. Word \in Nat \ {0}
    BY LayoutAssumption
  <1>2. \A n \in Int : n % Word \in 0 .. Word - 1
    BY <1>1
  <1>. QED
    BY <1>1, <1>2 DEF Padding

LEMMA AppendFacts ==
  ASSUME NEW S, NEW s \in Seq(S), NEW e \in S
  PROVE  /\ Append(s, e) \in Seq(S)
         /\ Len(Append(s, e)) = Len(s) + 1 /\ Len(s) \in Nat
         /\ \A k \in 1 .. Len(s) : Append(s, e)[k] = s[k]
         /\ Append(s, e)[Len(s) + 1] = e
  OBVIOUS

LEMMA PrefixFacts ==
  ASSUME NEW S, NEW s \in Seq(S), NEW n \in 0 .. Len(s)
  PROVE  /\ SubSeq(s, 1, n) \in Seq(S)
         /\ Len(SubSeq(s, 1, n)) = n
         /\ \A k \in 1 .. n : SubSeq(s, 1, n)[k] = s[k]
  OBVIOUS

-----------------------------------------------------------------------------

LEMMA NodeFacts ==
  ASSUME TypeOK
  PROVE  /\ Nodes = 1 .. Len(prog) /\ Len(prog) \in Nat /\ Len(prog) >= 1
         /\ Prologs \subseteq Nodes /\ Jumps \subseteq Nodes /\ Nodes \subseteq Nat
         /\ \A i \in Nodes : prog[i] \in Node
         /\ \A j \in Jumps : prog[j].to \in Nodes /\ prog[prog[j].to].op \in Targets
  <1>1. Nodes = 1 .. Len(prog) /\ prog \in Seq(Node) /\ Len(prog) \in Nat /\ WellFormed(prog)
        /\ Len(prog) >= 1
    BY ProgramFacts DEF TypeOK, Nodes
  <1>2. \A i \in Nodes : prog[i] \in Node
    BY <1>1
  <1>3. \A j \in Jumps : prog[j].to \in Nodes /\ prog[prog[j].to].op \in Targets
    BY <1>1 DEF WellFormed, Jumps
  <1>. QED
    BY <1>1, <1>2, <1>3 DEF Jumps, Prologs

(***************************************************************************)
(* Functions are intervals that begin with their prolog.                   *)
(***************************************************************************)
LEMMA FunctionFacts ==
  ASSUME TypeOK, NEW i \in Nodes
  PROVE  /\ prog[i].op = "prolog" => prog[i].fn = i
         /\ prog[i].op \in {"epilog", "arg"} => prog[i].fn # 0
         /\ prog[i].op \in Targets => prog[i].uses = {}
         /\ prog[i].uses # {} => prog[i].fn # 0
         /\ prog[i].op = "prolog" \/ prog[i].fn = 0 => Outside(prog, i)
         /\ prog[i].fn # 0 =>
              /\ prog[i].fn \in Prologs /\ prog[i].fn <= i
              /\ \A n \in prog[i].fn .. i - 1 : prog[n].fn = prog[i].fn /\ prog[n].op # "epilog"
  <1>1. WellFormed(prog) /\ i \in 1 .. Len(prog) /\ Len(prog) \in Nat /\ Nodes = 1 .. Len(prog)
    BY NodeFacts, ProgramFacts DEF TypeOK
  <1>2. prog[i].fn # 0 => prog[i].fn \in 1 .. i /\ prog[prog[i].fn].op = "prolog"
    BY <1>1 DEF WellFormed
  <1>. QED
    BY <1>1, <1>2 DEF WellFormed, Prologs

LEMMA LastNode ==
  ASSUME TypeOK
  PROVE  Outside(prog, Len(prog) + 1)
  <1>1. WellFormed(prog) /\ Len(prog) \in Nat
    BY NodeFacts, ProgramFacts DEF TypeOK
  <1>. QED
    BY <1>1 DEF WellFormed, Outside

(***************************************************************************)
(* The assertion of the epilog case: the current function is the node's.   *)
(***************************************************************************)
LEMMA CurrentFunction ==
  ASSUME TypeOK, Position, phase = "emitting", cursor \in Nodes
  PROVE  /\ prog[cursor].op = "prolog" => function = 0
         /\ prog[cursor].op # "prolog" => function = prog[cursor].fn
         /\ function # 0 =>
              /\ function \in Prologs /\ function \in Nodes /\ function < cursor
              /\ undo.node = function
              /\ \A n \in function .. cursor - 1 : prog[n].fn = function
  <1>1. function = IF Outside(prog, cursor) THEN 0 ELSE prog[cursor - 1].fn
    BY DEF Position, Live
  <1>2. cursor \in 1 .. Len(prog) /\ Nodes = 1 .. Len(prog) /\ Len(prog) \in Nat
    BY NodeFacts
  <1>3. prog[cursor].op = "prolog" => function = 0
    BY <1>1, FunctionFacts
  <1>4. ASSUME prog[cursor].op # "prolog", prog[cursor].fn # 0
        PROVE  function = prog[cursor].fn
    <2>1. prog[cursor].fn \in Prologs /\ prog[cursor].fn <= cursor
          /\ \A n \in prog[cursor].fn .. cursor - 1 :
               prog[n].fn = prog[cursor].fn /\ prog[n].op # "epilog"
      BY <1>4, FunctionFacts
    <2>2. prog[cursor].fn # cursor /\ prog[cursor].fn \in Nodes
      BY <1>4, <2>1 DEF Prologs
    <2>3. cursor - 1 \in prog[cursor].fn .. cursor - 1 /\ cursor # 1
      BY <1>2, <2>1, <2>2
    <2>. QED
      BY <1>1, <1>4, <2>1, <2>3 DEF Outside
  <1>5. prog[cursor].op # "prolog" => function = prog[cursor].fn
    BY <1>1, <1>4, FunctionFacts
  <1>6. ASSUME function # 0
        PROVE  /\ function \in Prologs /\ function \in Nodes /\ function < cursor
               /\ \A n \in function .. cursor - 1 : prog[n].fn = function
    <2>1. ~Outside(prog, cursor) /\ function = prog[cursor - 1].fn
      BY <1>1, <1>6
    <2>2. cursor - 1 \in Nodes
      BY <1>2, <2>1 DEF Outside
    <2>3. function \in Prologs /\ function <= cursor - 1
          /\ \A n \in function .. cursor - 1 - 1 : prog[n].fn = function
      BY <1>6, <2>1, <2>2, FunctionFacts
    <2>. QED
      BY <1>2, <2>1, <2>3 DEF Prologs
  <1>. QED
    BY <1>3, <1>5, <1>6 DEF Position, Live

-----------------------------------------------------------------------------
(***************************************************************************)
(* What the parts of the actions yield.                                    *)
(***************************************************************************)
LEMMA WriteFacts ==
  ASSUME TypeOK, NEW i \in Nodes, NEW a \in Nat, NEW t \in Nat \cup {Unlinked},
         NEW h \in SUBSET Resources, NEW d \in Int, Write(i, a, t, h, d)
  PROVE  /\ text' \in [Nodes -> Entry]
         /\ text'[i].at = a /\ text'[i].target = t
         /\ text'[i].have = h /\ text'[i].disp = d
         /\ \A n \in Nodes : n # i => text'[n] = text[n]
  <1>1. [at |-> a, target |-> t, have |-> h, disp |-> d] \in Entry
    BY DEF Entry
  <1>2. text \in [Nodes -> Entry]
    BY DEF TypeOK
  <1>3. text' = [text EXCEPT ![i] = [at |-> a, target |-> t, have |-> h, disp |-> d]]
    BY DEF Write
  <1>4. text'[i] = [at |-> a, target |-> t, have |-> h, disp |-> d]
    BY <1>2, <1>3
  <1>5. text' \in [Nodes -> Entry] /\ \A n \in Nodes : n # i => text'[n] = text[n]
    BY <1>1, <1>2, <1>3
  <1>. QED
    BY <1>4, <1>5

LEMMA AcquireFacts ==
  ASSUME TypeOK, NEW f, NEW uses \in SUBSET Resources, Acquire(f, uses)
  PROVE  /\ have' \in [Nodes -> SUBSET Resources]
         /\ \A n \in Nodes : have'[n] = IF n = f THEN have[n] \cup uses ELSE have[n]
  <1>1. have \in [Nodes -> SUBSET Resources] /\ DOMAIN have = Nodes
    BY DEF TypeOK
  <1>2. have' = [g \in Nodes |-> IF g = f THEN have[g] \cup uses ELSE have[g]]
    BY <1>1 DEF Acquire
  <1>3. \A n \in Nodes : have'[n] = IF n = f THEN have[n] \cup uses ELSE have[n]
    BY <1>2, Zenon
  <1>4. \A n \in Nodes : have[n] \in SUBSET Resources
    BY <1>1
  <1>5. \A n \in Nodes : have'[n] \in SUBSET Resources
    <2>1. TAKE n \in Nodes
    <2>2. CASE n = f
      BY <1>3, <1>4, <2>2, Zenon
    <2>3. CASE n # f
      BY <1>3, <1>4, <2>3, Zenon
    <2>. QED
      BY <2>2, <2>3
  <1>. QED
    BY <1>2, <1>3, <1>5, Zenon

LEMMA BytesFacts ==
  ASSUME TypeOK, NEW i \in Nodes, NEW h \in SUBSET Resources
  PROVE  Bytes(i, h) \in Nat /\ Bytes(i, h) >= 1 /\ Bytes(i, h) <= MaxInstr - Word + 1
  <1>1. prog \in Programs /\ i \in 1 .. Len(prog)
    BY NodeFacts DEF TypeOK
  <1>2. Known(i) \in BOOLEAN
    BY Zenon DEF Known
  <1>3. Bytes(i, h) \in 1 .. (MaxInstr - Word + 1)
    BY <1>1, <1>2, SizeAssumption, Zenon DEF Bytes
  <1>. QED
    BY <1>3, LayoutAssumption

LEMMA ShiftType ==
  ASSUME TypeOK, NEW f, NEW d \in Int
  PROVE  Shift(f, d) \in [Nodes -> Int]
  BY DEF Shift, TypeOK

LEMMA DiffType ==
  ASSUME NEW h \in SUBSET Resources
  PROVE  DiffOf(FrameOf(h)) \in Int
  BY FrameType, LayoutAssumption DEF DiffOf

LEMMA NodeUses ==
  ASSUME TypeOK, NEW i \in Nodes
  PROVE  prog[i].uses \in SUBSET Resources
  BY NodeFacts DEF Node

LEMMA RestartFacts ==
  ASSUME TypeOK, NEW f \in Prologs, NEW a \in Nat, NEW r \in Int, RestartFunction(f, a, r)
  PROVE  /\ f \in Nodes /\ cursor' = f + 1 /\ framesize' \in Nat /\ disp' \in [Nodes -> Int]
         /\ pc' \in Nat /\ pc' > a /\ pc' <= a + MaxInstr - Word + 1
         /\ text' \in [Nodes -> Entry]
         /\ text'[f].at = a /\ text'[f].have = have[f]
         /\ \A n \in Nodes : n # f => text'[n] = text[n]
         /\ have' \in [Nodes -> SUBSET Resources]
         /\ \A n \in Nodes : have'[n] = IF n = f THEN have[n] \cup prog[f].uses ELSE have[n]
         /\ again' = Lacks(prog[f].uses, have[f])
  <1>1. f \in Nodes /\ f \in Nat
    BY NodeFacts DEF Prologs
  <1>2. have[f] \in SUBSET Resources
    BY <1>1, Zenon DEF TypeOK
  <1>3. framesize' = FrameOf(have[f]) /\ FrameOf(have[f]) \in Nat
    BY <1>2, FrameType DEF RestartFunction
  <1>4. DiffOf(FrameOf(have[f])) - r \in Int
    BY <1>2, DiffType
  <1>5. disp' = Shift(f, DiffOf(FrameOf(have[f])) - r)
    BY DEF RestartFunction
  <1>6. disp' \in [Nodes -> Int]
    BY <1>4, <1>5, ShiftType
  <1>7. Write(f, a, Unlinked, have[f], 0)
    BY DEF RestartFunction
  <1>8. /\ text' \in [Nodes -> Entry]
        /\ text'[f].at = a /\ text'[f].have = have[f]
        /\ \A n \in Nodes : n # f => text'[n] = text[n]
    <2>1. 0 \in Int /\ Unlinked \in Nat \cup {Unlinked}
      OBVIOUS
    <2>2. PICK h \in SUBSET Resources : h = have[f]
      BY <1>2
    <2>3. Write(f, a, Unlinked, h, 0)
      BY <1>7, <2>2
    <2>4. /\ text' \in [Nodes -> Entry] /\ text'[f].at = a /\ text'[f].have = h
          /\ \A n \in Nodes : n # f => text'[n] = text[n]
      BY <1>1, <2>1, <2>3, WriteFacts
    <2>. QED
      BY <2>2, <2>4
  <1>9. pc' = a + Bytes(f, have[f])
    BY DEF RestartFunction
  <1>10. Bytes(f, have[f]) \in Nat /\ Bytes(f, have[f]) >= 1
         /\ Bytes(f, have[f]) <= MaxInstr - Word + 1
    BY <1>1, <1>2, BytesFacts
  <1>11. pc' \in Nat /\ pc' > a /\ pc' <= a + MaxInstr - Word + 1
    BY <1>9, <1>10, LayoutAssumption
  <1>12. Acquire(f, prog[f].uses) /\ again' = Lacks(prog[f].uses, have[f]) /\ cursor' = f + 1
    BY DEF RestartFunction
  <1>13. prog[f].uses \in SUBSET Resources
    BY <1>1, NodeUses
  <1>14. /\ have' \in [Nodes -> SUBSET Resources]
         /\ \A m \in Nodes : have'[m] = IF m = f THEN have[m] \cup prog[f].uses ELSE have[m]
    BY <1>12, <1>13, AcquireFacts
  <1>. QED
    BY <1>1, <1>3, <1>6, <1>8, <1>11, <1>12, <1>14

(***************************************************************************)
(* An action that generates the node at the cursor writes its entry at or  *)
(* above pc, and nothing else.                                             *)
(***************************************************************************)
Advance == EmitLabel \/ EmitInsn \/ EmitJump \/ EmitEpilog

LEMMA AdvanceFacts ==
  ASSUME TypeOK, Position, Advance
  PROVE  /\ phase = "emitting" /\ cursor \in Nodes /\ cursor' = cursor + 1 /\ pc < CodeEnd
         /\ UNCHANGED <<context, phase, undo, framesize, disp, offset, retried>>
         /\ text' \in [Nodes -> Entry]
         /\ \A n \in Nodes : n # cursor => text'[n] = text[n]
         /\ pc' \in Nat /\ pc <= text'[cursor].at /\ text'[cursor].at <= pc'
         /\ prog[cursor].op # "label" => text'[cursor].at < pc'
         /\ pc' <= pc + MaxInstr
  <1>. USE DEF At, Here
  <1>1. cursor \in Nat /\ pc \in Nat /\ \A h \in SUBSET Resources : {} \in SUBSET Resources
    BY DEF TypeOK
  <1>2. MaxInstr \in Nat /\ Word \in Nat \ {0} /\ MaxInstr >= Word
    BY LayoutAssumption
  <1>3. Padding(cursor) \in Nat /\ Padding(cursor) < Word
    BY <1>1, PaddingBound
  <1>4. CASE EmitLabel
    <2>1. Write(cursor, pc + Padding(cursor), Unlinked, {}, 0) /\ pc' = pc + Padding(cursor)
          /\ cursor \in Nodes
      BY <1>4 DEF EmitLabel
    <2>2. /\ text' \in [Nodes -> Entry] /\ text'[cursor].at = pc + Padding(cursor)
          /\ \A n \in Nodes : n # cursor => text'[n] = text[n]
      <3>1. pc + Padding(cursor) \in Nat /\ 0 \in Int /\ {} \in SUBSET Resources
            /\ Unlinked \in Nat \cup {Unlinked}
        BY <1>1, <1>3
      <3>. QED
        BY <2>1, <3>1, WriteFacts
    <2>. QED
      BY <1>1, <1>2, <1>3, <1>4, <2>1, <2>2 DEF EmitLabel
  <1>5. CASE EmitInsn
    <2>1. Write(cursor, pc, Unlinked, {}, disp[cursor]) /\ cursor \in Nodes
      BY <1>5 DEF EmitInsn
    <2>2. /\ text' \in [Nodes -> Entry] /\ text'[cursor].at = pc
          /\ \A n \in Nodes : n # cursor => text'[n] = text[n]
      <3>1. disp[cursor] \in Int
        BY <2>1 DEF TypeOK
      <3>2. {} \in SUBSET Resources /\ Unlinked \in Nat \cup {Unlinked}
        OBVIOUS
      <3>. QED
        BY <1>1, <2>1, <3>1, <3>2, WriteFacts
    <2>3. pc' = pc + Bytes(cursor, {})
      BY <1>5 DEF EmitInsn
    <2>. QED
      BY <1>1, <1>2, <1>5, <2>1, <2>2, <2>3, BytesFacts DEF EmitInsn
  <1>6. CASE EmitJump
    <2>1. cursor \in Nodes /\ cursor \in Jumps
      BY <1>6 DEF EmitJump, Jumps
    <2>2. PICK t \in Nat \cup {Unlinked} : Write(cursor, pc, t, {}, 0)
      <3>1. Write(cursor, pc, IF Known(cursor) THEN text[Here.to].at ELSE Unlinked, {}, 0)
        BY <1>6, Zenon DEF EmitJump
      <3>2. text[Here.to].at \in Nat
        BY <2>1, NodeFacts DEF TypeOK, Entry
      <3>. QED
        BY <3>1, <3>2
    <2>3. /\ text' \in [Nodes -> Entry] /\ text'[cursor].at = pc
          /\ \A n \in Nodes : n # cursor => text'[n] = text[n]
      <3>1. {} \in SUBSET Resources /\ 0 \in Int
        OBVIOUS
      <3>. QED
        BY <1>1, <2>1, <2>2, <3>1, WriteFacts
    <2>4. pc' = pc + Bytes(cursor, {})
      BY <1>6 DEF EmitJump
    <2>. QED
      BY <1>1, <1>2, <1>6, <2>1, <2>3, <2>4, BytesFacts DEF EmitJump
  <1>7. CASE EmitEpilog
    <2>1. cursor \in Nodes
      BY <1>7 DEF EmitEpilog
    <2>2. function \in Nodes
      BY <1>7, <2>1, FunctionFacts, CurrentFunction DEF EmitEpilog
    <2>3. PICK h \in SUBSET Resources : h = have[function]
      BY <2>2, Zenon DEF TypeOK
    <2>4. Write(cursor, pc + Padding(cursor), Unlinked, h, 0)
      BY <1>7, <2>3 DEF EmitEpilog
    <2>5. /\ text' \in [Nodes -> Entry] /\ text'[cursor].at = pc + Padding(cursor)
          /\ \A n \in Nodes : n # cursor => text'[n] = text[n]
      <3>1. pc + Padding(cursor) \in Nat /\ 0 \in Int /\ Unlinked \in Nat \cup {Unlinked}
        BY <1>1, <1>3
      <3>. QED
        BY <2>1, <2>4, <3>1, WriteFacts
    <2>6. pc' = pc + Padding(cursor) + Bytes(cursor, h)
      BY <1>7, <2>3 DEF EmitEpilog
    <2>. QED
      BY <1>1, <1>2, <1>3, <1>7, <2>1, <2>5, <2>6, BytesFacts DEF EmitEpilog
  <1>. QED
    BY <1>4, <1>5, <1>6, <1>7 DEF Advance

-----------------------------------------------------------------------------
(***************************************************************************)
(* Type correctness.  The node an `again` returns to is a prolog because   *)
(* `function` is the function the cursor is in, so Position goes with it.  *)
(***************************************************************************)
LEMMA ProgramFixed ==
  ASSUME [Next]_vars
  PROVE  /\ prog' = prog /\ Nodes' = Nodes /\ Jumps' = Jumps /\ Prologs' = Prologs
         /\ PatchEntry' = PatchEntry
  <1>1. prog' = prog
    BY DEF Next, Generate, SetCode, Emit, EmitLabel, EmitInsn, EmitJump, EmitProlog,
           EmitEpilog, Again, Fail, Grow, NoRoom, EndPass, Patch, Finish, context, vars
  <1>. QED
    BY <1>1 DEF Nodes, Jumps, Prologs, PatchEntry

LEMMA InitType == Init => TypeOK /\ Position
  <1>. SUFFICES ASSUME Init PROVE TypeOK /\ Position
    OBVIOUS
  <1>1. prog \in Programs /\ length \in Nat
    BY LayoutAssumption DEF Init
  <1>2. prog \in Seq(Node) /\ Len(prog) \in Nat /\ Len(prog) >= 1 /\ Nodes = 1 .. Len(prog)
    BY <1>1, ProgramFacts DEF Nodes
  <1>3. have \in [Nodes -> SUBSET Resources]
    <2>1. have = [i \in Nodes |-> prog[i].has]
      BY DEF Init
    <2>2. ASSUME NEW i \in Nodes PROVE prog[i].has \in SUBSET Resources
      <3>1. prog[i] \in Node
        BY <1>2
      <3>. QED
        BY <3>1 DEF Node
    <2>. QED
      BY <2>1, <2>2, Zenon
  <1>4. text \in [Nodes -> Entry]
    BY DEF Init, Blank, Entry
  <1>5. disp \in [Nodes -> Int] /\ patches \in Seq(PatchEntry) /\ Len(patches) = 0
    BY DEF Init
  <1>6. TypeOK
    <2>1. undo \in [node : Prologs \cup {0}, word : Nat, patches : Nat] /\ patched \subseteq Nodes
      BY DEF Init, NoUndo
    <2>2. user \in BOOLEAN /\ again \in BOOLEAN /\ retried \in BOOLEAN
      BY DEF Init
    <2>3. /\ base \in Nat /\ pc \in Nat /\ cursor \in 1 .. Len(prog) + 1 /\ framesize \in Nat
          /\ offset = 0 /\ function = 0 /\ phase = "ready"
      BY <1>2 DEF Init
    <2>. QED
      BY <1>1, <1>3, <1>4, <1>5, <2>1, <2>2, <2>3 DEF TypeOK
  <1>7. Position
    BY DEF Init, Position, Live
  <1>. QED
    BY <1>6, <1>7

LEMMA PatchesType ==
  ASSUME TypeOK, Position, Advance
  PROVE  /\ patches' \in Seq(PatchEntry) /\ Len(patches) \in Nat
         /\ patches' = patches \/ patches' = Append(patches, [inst |-> pc, node |-> cursor])
         /\ Len(patches') \in Nat /\ Len(patches') >= Len(patches)
  <1>1. patches \in Seq(PatchEntry) /\ Len(patches) \in Nat /\ pc \in Nat
    BY DEF TypeOK
  <1>2. CASE EmitJump
    <2>1. [inst |-> pc, node |-> cursor] \in PatchEntry
      BY <1>1, <1>2 DEF EmitJump, At, Here, PatchEntry, Jumps
    <2>2. patches' = patches \/ patches' = Append(patches, [inst |-> pc, node |-> cursor])
      BY <1>2, Zenon DEF EmitJump
    <2>. QED
      BY <1>1, <2>1, <2>2, AppendFacts
  <1>3. CASE ~EmitJump
    BY <1>1, <1>3 DEF Advance, EmitLabel, EmitInsn, EmitEpilog
  <1>. QED
    BY <1>2, <1>3

LEMMA StepType ==
  ASSUME TypeOK, Position, [Next]_vars
  PROVE  TypeOK'
  <1>. USE DEF context, pass, marks, vars
  <1>1. /\ Nodes' = Nodes /\ Jumps' = Jumps /\ Prologs' = Prologs /\ prog' = prog
        /\ PatchEntry' = PatchEntry
    BY ProgramFixed
  <1>2. /\ Growth \in Nat /\ Lengths \subseteq Nat /\ Bases \subseteq Nat
    BY LayoutAssumption
  <1>3. ASSUME NEW b \in Bases, NEW n \in Lengths, SetCode(b, n) PROVE TypeOK'
    BY <1>1, <1>2, <1>3 DEF SetCode, TypeOK
  <1>4. ASSUME NEW b \in Bases, Emit(b) PROVE TypeOK'
    <2>1. Len(prog) \in Nat /\ Len(prog) >= 1
      BY NodeFacts
    <2>. QED
      BY <1>1, <1>2, <1>4, <2>1 DEF Emit, StartPass, NoUndo, TypeOK
  <1>5. CASE Advance
    <2>1. /\ cursor \in Nodes /\ cursor' = cursor + 1 /\ phase = "emitting"
          /\ UNCHANGED <<context, phase, undo, framesize, disp, offset, retried>>
          /\ text' \in [Nodes -> Entry] /\ pc' \in Nat
      BY <1>5, AdvanceFacts
    <2>2. /\ patches' \in Seq(PatchEntry) /\ Len(patches) \in Nat
          /\ Len(patches') \in Nat /\ Len(patches') >= Len(patches)
      BY <1>5, PatchesType
    <2>3. have' \in [Nodes -> SUBSET Resources]
      <3>1. CASE EmitInsn \/ EmitJump
        <4>1. prog[cursor].uses \in SUBSET Resources
          BY <2>1, NodeUses
        <4>2. Acquire(function, prog[cursor].uses)
          BY <3>1 DEF EmitInsn, EmitJump, Here
        <4>. QED
          BY <4>1, <4>2, AcquireFacts
      <3>2. CASE EmitLabel \/ EmitEpilog
        <4>1. have' = have
          BY <3>2 DEF EmitLabel, EmitEpilog
        <4>. QED
          BY <4>1 DEF TypeOK
      <3>. QED
        BY <1>5, <3>1, <3>2 DEF Advance
    <2>4. again' \in BOOLEAN
      <3>1. CASE EmitInsn \/ EmitJump
        BY <3>1, Zenon DEF EmitInsn, EmitJump, Lacks
      <3>2. CASE EmitLabel \/ EmitEpilog
        <4>1. again' = again
          BY <3>2 DEF EmitLabel, EmitEpilog
        <4>. QED
          BY <4>1 DEF TypeOK
      <3>. QED
        BY <1>5, <3>1, <3>2 DEF Advance
    <2>5. patched' \subseteq Nodes /\ function' \in {function, 0}
      BY <1>5, <2>1 DEF Advance, EmitLabel, EmitInsn, EmitJump, EmitEpilog, TypeOK
    <2>6. cursor' \in 1 .. Len(prog) + 1
      BY <2>1, NodeFacts
    <2>. QED
      BY <1>1, <2>1, <2>2, <2>3, <2>4, <2>5, <2>6 DEF TypeOK
  <1>6. CASE EmitProlog
    <2>1. phase = "emitting" /\ cursor \in Prologs /\ pc \in Nat /\ 0 \in Int
          /\ RestartFunction(cursor, pc, 0)
      BY <1>6 DEF EmitProlog, At, Here, Prologs, TypeOK
    <2>2. /\ cursor \in Nodes /\ cursor' = cursor + 1 /\ framesize' \in Nat
          /\ disp' \in [Nodes -> Int] /\ pc' \in Nat /\ text' \in [Nodes -> Entry]
          /\ have' \in [Nodes -> SUBSET Resources]
          /\ again' = Lacks(prog[cursor].uses, have[cursor])
      BY <2>1, RestartFacts
    <2>3. again' \in BOOLEAN
      BY <2>2, Zenon DEF Lacks
    <2>4. cursor' \in 1 .. Len(prog) + 1
      BY <2>2, NodeFacts
    <2>5. Len(patches) \in Nat
      BY DEF TypeOK
    <2>6. /\ function' = cursor /\ undo' = UndoAt(cursor)
          /\ UNCHANGED <<context, phase, patched, patches, offset, retried>>
      BY <1>6 DEF EmitProlog
    <2>7. /\ undo' \in [node : Prologs \cup {0}, word : Nat, patches : Nat]
          /\ undo'.patches \in 0 .. Len(patches)
      BY <2>1, <2>5, <2>6 DEF UndoAt
    <2>. QED
      BY <1>1, <2>1, <2>2, <2>3, <2>4, <2>6, <2>7 DEF TypeOK
  <1>7. CASE Again
    <2>1. phase = "emitting" /\ cursor \in Nodes /\ prog[cursor].op = "epilog"
      BY <1>7 DEF Again, At, Here
    <2>2. function \in Prologs /\ function # 0 /\ undo.node = function
      BY <2>1, CurrentFunction, FunctionFacts, NodeFacts
    <2>3. undo.word \in Nat /\ undo.patches \in 0 .. Len(patches)
          /\ patches \in Seq(PatchEntry)
      BY <2>1, <2>2 DEF TypeOK
    <2>4. AgainShift \in Int
      BY LayoutAssumption DEF AgainShift, DiffOf, TypeOK
    <2>5. RestartFunction(function, undo.word, AgainShift)
      BY <1>7, <2>2 DEF Again
    <2>6. /\ function \in Nodes /\ cursor' = function + 1 /\ framesize' \in Nat
          /\ disp' \in [Nodes -> Int] /\ pc' \in Nat /\ text' \in [Nodes -> Entry]
          /\ have' \in [Nodes -> SUBSET Resources]
          /\ again' = Lacks(prog[function].uses, have[function])
      BY <2>2, <2>3, <2>4, <2>5, RestartFacts
    <2>7. again' \in BOOLEAN
      BY <2>6, Zenon DEF Lacks
    <2>8. cursor' \in 1 .. Len(prog) + 1
      BY <2>6, NodeFacts
    <2>9. patches' \in Seq(PatchEntry) /\ Len(patches') = undo.patches
      <3>1. patches' = SubSeq(patches, 1, undo.patches)
        BY <1>7 DEF Again, AgainPatches
      <3>. QED
        BY <2>3, <3>1, PrefixFacts
    <2>10. patched' \subseteq Nodes /\ UNCHANGED <<context, phase, function, undo, offset, retried>>
      BY <1>7 DEF Again, AgainFlags, TypeOK
    <2>11. offset' \in 0 .. Len(patches') /\ undo'.patches \in 0 .. Len(patches')
      <3>1. offset' = 0 /\ undo' = undo
        BY <2>1, <2>10 DEF Position
      <3>2. undo.patches \in Nat
        BY <2>3
      <3>. QED
        BY <2>9, <3>1, <3>2
    <2>. QED
      BY <1>1, <2>6, <2>7, <2>8, <2>9, <2>10, <2>11 DEF TypeOK
  <1>8. ASSUME NoRoom
        PROVE  /\ patches' \in Seq(PatchEntry) /\ Len(patches') = 0
               /\ patched' \subseteq Nodes /\ retried' \in BOOLEAN
               /\ offset' = 0 /\ UNCHANGED <<prog, user, have, disp, text>>
    <2>1. patches' = <<>> /\ UNCHANGED <<prog, user, have, disp, text, offset>>
          /\ phase = "emitting" /\ patched' = NoRoomFlags
      BY <1>8 DEF NoRoom
    <2>2. retried' \in BOOLEAN
      BY <1>8, Zenon DEF NoRoom
    <2>3. patches' \in Seq(PatchEntry) /\ Len(patches') = 0
      BY <2>1
    <2>4. patched' \subseteq Nodes
      BY <2>1 DEF NoRoomFlags, TypeOK
    <2>. QED
      BY <2>1, <2>2, <2>3, <2>4 DEF Position
  <1>9. CASE Fail
    <2>1. NoRoom
      BY <1>9 DEF Fail
    <2>. QED
      BY <1>1, <1>8, <1>9, <2>1 DEF Fail, TypeOK
  <1>10. ASSUME NEW b \in Bases, Grow(b) PROVE TypeOK'
    <2>1. NoRoom
      BY <1>10 DEF Grow
    <2>2. /\ base' \in Nat /\ length' \in Nat /\ pc' \in Nat /\ cursor' \in 1 .. Len(prog) + 1
          /\ function' = 0 /\ undo' = NoUndo /\ UNCHANGED <<again, framesize, phase>>
      BY <1>2, <1>10, NodeFacts DEF Grow, StartPass, TypeOK
    <2>. QED
      BY <1>1, <1>8, <2>1, <2>2 DEF NoUndo, TypeOK
  <1>11. CASE EndPass
    BY <1>1, <1>11 DEF EndPass, TypeOK
  <1>12. CASE Patch
    <2>1. offset + 1 \in 1 .. Len(patches) /\ patches \in Seq(PatchEntry)
          /\ text \in [Nodes -> Entry]
      <3>1. /\ offset \in 0 .. Len(patches) /\ patches \in Seq(PatchEntry)
            /\ text \in [Nodes -> Entry]
        BY DEF TypeOK
      <3>2. offset < Len(patches)
        BY <1>12 DEF Patch
      <3>3. Len(patches) \in Nat
        BY <3>1
      <3>. QED
        BY <3>1, <3>2, <3>3
    <2>2. patches[offset + 1].node \in Jumps
      <3>1. patches[offset + 1] \in PatchEntry
        BY <2>1
      <3>. QED
        BY <3>1 DEF PatchEntry
    <2>3. PICK t \in Nat : t = text[prog[patches[offset + 1].node].to].at
      BY <2>1, <2>2, NodeFacts DEF Entry
    <2>4. \A n \in Nodes : text[n] \in Entry /\ [text[n] EXCEPT !.target = t] \in Entry
      BY <2>1 DEF Entry
    <2>5. text' \in [Nodes -> Entry]
      BY <1>12, <2>3, <2>4 DEF Patch
    <2>6. offset' = offset + 1 /\ UNCHANGED <<context, phase, pass, marks, retried>>
      BY <1>12 DEF Patch
    <2>7. phase = "patching" /\ offset' \in 0 .. Len(patches)
      <3>1. phase = "patching" /\ offset' \in 1 .. Len(patches)
        BY <1>12, <2>1, <2>6 DEF Patch
      <3>. QED
        BY <3>1
    <2>. QED
      BY <1>1, <2>5, <2>6, <2>7 DEF TypeOK
  <1>13. CASE Finish
    BY <1>1, <1>13 DEF Finish, TypeOK
  <1>14. CASE UNCHANGED vars
    BY <1>1, <1>14 DEF TypeOK
  <1>. QED
    BY <1>3, <1>4, <1>5, <1>6, <1>7, <1>9, <1>10, <1>11, <1>12, <1>13, <1>14
       DEF Next, Generate, Advance

LEMMA StepPosition ==
  ASSUME TypeOK, Position, TypeOK', [Next]_vars
  PROVE  Position'
  <1>. USE DEF context, pass, marks, vars, Live
  <1>1. prog' = prog /\ Nodes' = Nodes /\ Nodes = 1 .. Len(prog) /\ Len(prog) \in Nat
    BY ProgramFixed, NodeFacts
  <1>2. ASSUME NEW b \in Bases, NEW n \in Lengths, SetCode(b, n) PROVE Position'
    BY <1>1, <1>2 DEF SetCode, Position
  <1>3. ASSUME NEW b \in Bases, Emit(b) PROVE Position'
    BY <1>1, <1>3 DEF Emit, StartPass, Position, Outside
  <1>4. CASE Advance
    <2>1. phase = "emitting" /\ cursor \in Nodes /\ cursor' = cursor + 1
          /\ UNCHANGED <<phase, undo, offset>>
      BY <1>4, AdvanceFacts
    <2>2. prog[cursor].op # "prolog"
      BY <1>4 DEF Advance, EmitLabel, EmitInsn, EmitJump, EmitEpilog, At, Here
    <2>3. function = prog[cursor].fn /\ (function # 0 => undo.node = function)
      BY <2>1, <2>2, CurrentFunction
    <2>4. prog'[cursor' - 1] = prog[cursor] /\ cursor' # 1
      BY <1>1, <2>1
    <2>5. function' = IF prog[cursor].op = "epilog" THEN 0 ELSE function
      BY <1>4 DEF Advance, EmitLabel, EmitInsn, EmitJump, EmitEpilog, At, Here
    <2>6. function' = IF Outside(prog, cursor') THEN 0 ELSE prog[cursor' - 1].fn
      BY <1>1, <2>3, <2>4, <2>5 DEF Outside
    <2>. QED
      BY <1>1, <2>1, <2>3, <2>5, <2>6 DEF Position
  <1>5. CASE EmitProlog
    <2>1. phase = "emitting" /\ cursor \in Prologs /\ cursor \in Nodes /\ cursor \in Nat
          /\ prog[cursor].op = "prolog"
      BY <1>1, <1>5 DEF EmitProlog, At, Here, Prologs
    <2>2. /\ cursor' = cursor + 1 /\ function' = cursor /\ undo' = UndoAt(cursor)
          /\ UNCHANGED <<phase, offset>>
      BY <1>5 DEF EmitProlog, RestartFunction
    <2>3. prog[cursor].fn = cursor
      BY <2>1, FunctionFacts
    <2>4. prog'[cursor' - 1] = prog[cursor] /\ cursor' # 1
      BY <1>1, <2>1, <2>2
    <2>. QED
      BY <1>1, <2>1, <2>2, <2>3, <2>4 DEF Position, Outside, UndoAt
  <1>6. CASE Again
    <2>1. phase = "emitting" /\ cursor \in Nodes /\ prog[cursor].op = "epilog"
      BY <1>6 DEF Again, At, Here
    <2>2. function \in Prologs /\ function # 0 /\ undo.node = function
      BY <2>1, CurrentFunction, FunctionFacts, NodeFacts
    <2>3. cursor' = function + 1 /\ UNCHANGED <<phase, function, undo, offset>>
      BY <1>6, <2>2 DEF Again, RestartFunction
    <2>4. function \in Nat /\ prog[function].op = "prolog" /\ prog[function].fn = function
      BY <1>1, <2>2, FunctionFacts DEF Prologs
    <2>5. prog'[cursor' - 1] = prog[function] /\ cursor' # 1
      <3>1. cursor' - 1 = function /\ cursor' # 1
        BY <2>2, <2>3, <2>4
      <3>. QED
        BY <1>1, <3>1
    <2>. QED
      BY <1>1, <2>1, <2>2, <2>3, <2>4, <2>5 DEF Position, Outside
  <1>7. CASE Fail
    BY <1>7 DEF Fail, NoRoom, Position
  <1>8. ASSUME NEW b \in Bases, Grow(b) PROVE Position'
    BY <1>8 DEF Grow, NoRoom, StartPass, Position, Outside
  <1>9. CASE EndPass
    <2>1. cursor = Len(prog) + 1 /\ Live
      BY <1>1, <1>9 DEF EndPass, TypeOK
    <2>. QED
      BY <1>1, <1>9, <2>1 DEF EndPass, Position
  <1>10. CASE Patch
    BY <1>1, <1>10 DEF Patch, Position
  <1>11. CASE Finish
    BY <1>1, <1>11 DEF Finish, Position
  <1>12. CASE UNCHANGED vars
    BY <1>1, <1>12 DEF Position
  <1>. QED
    BY <1>2, <1>3, <1>4, <1>5, <1>6, <1>7, <1>8, <1>9, <1>10, <1>11, <1>12
       DEF Next, Generate, Advance

(***************************************************************************)
(* In every reachable state each variable has its type, the patches an     *)
(* `again` keeps are among those recorded, and the function a node belongs *)
(* to is the current one when emit_code reaches it.                        *)
(***************************************************************************)
THEOREM TypeCorrect == Spec => [](TypeOK /\ Position)
  <1>1. Init => TypeOK /\ Position
    BY InitType
  <1>2. TypeOK /\ Position /\ [Next]_vars => (TypeOK /\ Position)'
    BY StepType, StepPosition
  <1>. QED
    BY <1>1, <1>2, PTL DEF Spec

-----------------------------------------------------------------------------
(***************************************************************************)
(* The buffer.  Room also says that there was room at the prolog of the    *)
(* current function: `again` writes that prolog, larger than before, with  *)
(* no check of its own.                                                    *)
(***************************************************************************)
LEMMA RestartRoom ==
  ASSUME TypeOK, NEW f \in Prologs, NEW a \in Nat, NEW r \in Int,
         RestartFunction(f, a, r), a < CodeEnd
  PROVE  pc' <= base + length
  <1>1. pc' \in Nat /\ pc' <= a + MaxInstr - Word + 1
    BY RestartFacts
  <1>. QED
    BY <1>1, LayoutAssumption DEF CodeEnd, TypeOK

LEMMA StepRoom ==
  ASSUME TypeOK, Position, Room, [Next]_vars
  PROVE  Room'
  <1>. USE DEF context, pass, marks, vars, Live, CodeEnd
  <1>1. MaxInstr \in Nat /\ Growth \in Nat /\ Lengths \subseteq Nat /\ Bases \subseteq Nat
    BY LayoutAssumption
  <1>2. base \in Nat /\ length \in Nat /\ pc \in Nat
    BY DEF TypeOK
  <1>3. ASSUME NEW b \in Bases, NEW n \in Lengths, SetCode(b, n) PROVE Room'
    BY <1>3 DEF SetCode, Room
  <1>4. ASSUME NEW b \in Bases, Emit(b) PROVE Room'
    BY <1>1, <1>2, <1>4 DEF Emit, StartPass, Room
  <1>5. CASE Advance
    <2>1. /\ phase = "emitting" /\ UNCHANGED <<context, phase, undo>>
          /\ pc' \in Nat /\ pc' <= pc + MaxInstr /\ pc < CodeEnd
      BY <1>5, AdvanceFacts
    <2>2. function' \in {function, 0}
      BY <1>5 DEF Advance, EmitLabel, EmitInsn, EmitJump, EmitEpilog
    <2>. QED
      BY <1>1, <1>2, <2>1, <2>2 DEF Room
  <1>6. CASE EmitProlog
    <2>1. cursor \in Prologs /\ pc < CodeEnd /\ RestartFunction(cursor, pc, 0)
          /\ undo' = UndoAt(cursor) /\ UNCHANGED context
      BY <1>6 DEF EmitProlog, At, Here, Prologs
    <2>2. 0 \in Int
      OBVIOUS
    <2>3. pc' <= base + length
      BY <1>2, <2>1, <2>2, RestartRoom DEF CodeEnd
    <2>. QED
      BY <2>1, <2>3 DEF Room, UndoAt
  <1>7. CASE Again
    <2>1. phase = "emitting" /\ cursor \in Nodes /\ prog[cursor].op = "epilog"
      BY <1>7 DEF Again, At, Here
    <2>2. function \in Prologs /\ function # 0 /\ undo.node = function
      BY <2>1, CurrentFunction, FunctionFacts, NodeFacts
    <2>3. undo.word \in Nat /\ undo.word < CodeEnd
      BY <2>1, <2>2 DEF Room, TypeOK
    <2>4. AgainShift \in Int
      BY LayoutAssumption DEF AgainShift, DiffOf, TypeOK
    <2>5. RestartFunction(function, undo.word, AgainShift)
      BY <1>7, <2>2 DEF Again
    <2>6. pc' <= base + length
      BY <2>2, <2>3, <2>4, <2>5, RestartRoom DEF CodeEnd
    <2>. QED
      BY <1>7, <2>3, <2>6 DEF Again, Room
  <1>8. CASE Fail
    BY <1>8 DEF Fail, Room
  <1>9. ASSUME NEW b \in Bases, Grow(b) PROVE Room'
    BY <1>1, <1>2, <1>9 DEF Grow, StartPass, Room
  <1>10. CASE EndPass
    BY <1>10 DEF EndPass, Room
  <1>11. CASE Patch
    BY <1>11 DEF Patch, Room
  <1>12. CASE Finish
    BY <1>12 DEF Finish, Room
  <1>13. CASE UNCHANGED vars
    BY <1>13 DEF Room
  <1>. QED
    BY <1>3, <1>4, <1>5, <1>6, <1>7, <1>8, <1>9, <1>10, <1>11, <1>12, <1>13
       DEF Next, Generate, Advance

(***************************************************************************)
(* No byte is written past the buffer, whatever the sizes of instructions  *)
(* and buffers, as long as jit_get_max_instr bounds what one node writes.  *)
(***************************************************************************)
THEOREM BufferSafe == Spec => []NoOverrun
  <1>1. Init => Room
    BY DEF Init, Room, Live
  <1>2. TypeOK /\ Position /\ Room /\ [Next]_vars => Room'
    BY StepRoom
  <1>3. Room => NoOverrun
    BY DEF Room, NoOverrun, Live
  <1>. QED
    BY <1>1, <1>2, <1>3, TypeCorrect, PTL DEF Spec

-----------------------------------------------------------------------------
(***************************************************************************)
(* Frames.                                                                 *)
(***************************************************************************)
LEMMA StillProvided ==
  ASSUME TypeOK, prog' = prog, NEW i \in Nodes, prog[i].fn \in Nodes, Provided(i),
         text'[i].have = text[i].have, text'[prog[i].fn].have = text[prog[i].fn].have
  PROVE  Provided(i)'
  BY DEF Provided

LEMMA RestartFrames ==
  ASSUME TypeOK, [Next]_vars, NEW f \in Prologs, NEW a \in Nat, NEW r \in Int,
         RestartFunction(f, a, r), function' = f,
         \A i \in 1 .. f - 1 : prog[i].fn # 0 => Provided(i)
  PROVE  Frames'
  <1>1. /\ f \in Nodes /\ cursor' = f + 1 /\ text'[f].have = have[f]
        /\ \A n \in Nodes : n # f => text'[n] = text[n]
        /\ have'[f] = have[f] \cup prog[f].uses
        /\ again' = Lacks(prog[f].uses, have[f])
    BY RestartFacts
  <1>2. prog' = prog /\ Nodes = 1 .. Len(prog) /\ Len(prog) \in Nat
    BY ProgramFixed, NodeFacts
  <1>3. again' = (text'[f].have # have'[f])
    BY <1>1, Zenon DEF Lacks
  <1>4. ASSUME NEW i \in 1 .. f, prog[i].fn # 0, prog[i].fn # f
        PROVE  Provided(i)'
    <2>1. i \in Nodes
      BY <1>1, <1>2, <1>4
    <2>2. prog[i].fn \in Prologs /\ prog[i].fn \in Nodes /\ prog[i].fn <= i
      BY <1>4, <2>1, FunctionFacts, NodeFacts
    <2>3. i # f
      BY <1>1, <1>4, FunctionFacts DEF Prologs
    <2>4. i \in 1 .. f - 1 /\ Provided(i)
      BY <1>1, <1>2, <1>4, <2>3
    <2>. QED
      BY <1>1, <1>2, <1>4, <2>1, <2>2, <2>3, <2>4, StillProvided
  <1>5. \A n \in f .. f : n = f
    BY <1>1, <1>2
  <1>. QED
    BY <1>1, <1>2, <1>3, <1>4, <1>5 DEF Frames, Live

LEMMA AdvanceFrames ==
  ASSUME TypeOK, Position, Frames, [Next]_vars, EmitLabel \/ EmitInsn \/ EmitJump
  PROVE  Frames'
  <1>1. /\ phase = "emitting" /\ cursor \in Nodes /\ cursor' = cursor + 1
        /\ \A n \in Nodes : n # cursor => text'[n] = text[n]
    BY AdvanceFacts DEF Advance
  <1>2. prog' = prog /\ Nodes = 1 .. Len(prog) /\ Len(prog) \in Nat
    BY ProgramFixed, NodeFacts
  <1>3. prog[cursor].op \notin {"prolog", "epilog"} /\ function' = function
    BY DEF EmitLabel, EmitInsn, EmitJump, At, Here
  <1>4. /\ function = prog[cursor].fn
        /\ function # 0 => /\ function \in Prologs /\ function \in Nodes /\ function < cursor
                           /\ \A n \in function .. cursor - 1 : prog[n].fn = function
    BY <1>1, <1>3, CurrentFunction
  <1>5. prog[cursor].uses \in SUBSET Resources
    BY <1>1, NodeUses
  <1>6. /\ \A n \in Nodes :
             have'[n] = IF n = function THEN have[n] \cup prog[cursor].uses ELSE have[n]
        /\ again' = (again \/ Lacks(prog[cursor].uses, have[function]))
    <2>1. CASE EmitInsn \/ EmitJump
      <3>1. Acquire(function, prog[cursor].uses)
            /\ again' = (again \/ Lacks(prog[cursor].uses, have[function]))
        BY <2>1, Zenon DEF EmitInsn, EmitJump, Here
      <3>. QED
        BY <1>5, <3>1, AcquireFacts
    <2>2. CASE EmitLabel
      <3>1. prog[cursor].uses = {} /\ have' = have /\ again' = again
        BY <1>1, <2>2, FunctionFacts DEF EmitLabel, At, Here, Targets
      <3>2. again \in BOOLEAN
        BY DEF TypeOK
      <3>. QED
        BY <3>1, <3>2, Zenon DEF Lacks
    <2>. QED
      BY <2>1, <2>2
  <1>7. ASSUME function # 0
        PROVE  /\ text'[function].have \subseteq have'[function]
               /\ again' = (text'[function].have # have'[function])
               /\ \A n \in function .. cursor : prog[n].uses \subseteq have'[function]
    <2>1. /\ text[function].have \subseteq have[function]
          /\ again = (text[function].have # have[function])
          /\ \A n \in function .. cursor - 1 : prog[n].uses \subseteq have[function]
      BY <1>1, <1>7 DEF Frames, Live
    <2>2. text'[function] = text[function]
          /\ have'[function] = have[function] \cup prog[cursor].uses
      <3>1. function # cursor /\ function \in Nodes
        BY <1>1, <1>2, <1>4, <1>7
      <3>. QED
        BY <1>1, <1>6, <3>1, Zenon
    <2>3. again' = (text'[function].have # have'[function])
      BY <1>6, <2>1, <2>2, Zenon DEF Lacks
    <2>4. \A n \in function .. cursor : n = cursor \/ n \in function .. cursor - 1
      BY <1>1, <1>2, <1>4, <1>7
    <2>. QED
      BY <2>1, <2>2, <2>3, <2>4, Zenon
  <1>8. ASSUME NEW i \in 1 .. cursor, prog[i].fn # 0, prog[i].fn # function
        PROVE  Provided(i)'
    <2>1. i \in Nodes /\ i # cursor /\ i \in 1 .. cursor - 1
      BY <1>1, <1>2, <1>4, <1>8
    <2>2. Provided(i)
      BY <1>1, <1>8, <2>1 DEF Frames, Live
    <2>3. prog[i].fn \in Nodes /\ prog[i].fn # cursor
      BY <1>3, <1>8, <2>1, FunctionFacts DEF Prologs
    <2>. QED
      BY <1>1, <1>2, <2>1, <2>2, <2>3, StillProvided
  <1>9. cursor' - 1 = cursor
    BY <1>1, <1>2
  <1>. QED
    BY <1>2, <1>3, <1>7, <1>8, <1>9 DEF Frames

LEMMA EpilogFrames ==
  ASSUME TypeOK, Position, Frames, [Next]_vars, EmitEpilog
  PROVE  Frames'
  <1>1. /\ phase = "emitting" /\ cursor \in Nodes /\ cursor' = cursor + 1
        /\ \A n \in Nodes : n # cursor => text'[n] = text[n]
    BY AdvanceFacts DEF Advance
  <1>2. prog' = prog /\ Nodes = 1 .. Len(prog) /\ Len(prog) \in Nat
    BY ProgramFixed, NodeFacts
  <1>3. prog[cursor].op = "epilog" /\ function' = 0 /\ ~again
    BY DEF EmitEpilog, At, Here
  <1>4. /\ function = prog[cursor].fn /\ function # 0
        /\ function \in Prologs /\ function \in Nodes /\ function < cursor
        /\ prog[cursor].uses = {}
        /\ \A n \in function .. cursor - 1 : prog[n].fn = function /\ prog[n].op # "epilog"
    BY <1>1, <1>3, CurrentFunction, FunctionFacts DEF Targets
  <1>5. /\ text[function].have = have[function]
        /\ \A n \in function .. cursor - 1 : prog[n].uses \subseteq have[function]
    BY <1>1, <1>3, <1>4 DEF Frames, Live
  <1>9. text'[function] = text[function]
    <2>1. function # cursor
      BY <1>1, <1>2, <1>4
    <2>. QED
      BY <1>1, <1>4, <2>1, Zenon
  <1>6. text'[cursor].have = have[function]
    <2>1. text' = [text EXCEPT ![cursor] = [at |-> pc + Padding(cursor), target |-> Unlinked,
                                            have |-> have[function], disp |-> 0]]
      BY DEF EmitEpilog, Write
    <2>. QED
      BY <1>1, <2>1 DEF TypeOK
  <1>7. ASSUME NEW i \in 1 .. cursor, prog[i].fn # 0
        PROVE  Provided(i)'
    <2>1. i \in Nodes /\ (i # cursor => i \in 1 .. cursor - 1)
      BY <1>1, <1>2
    <2>2. prog[i].fn \in Nodes /\ prog[i].fn <= i /\ prog[i].fn # cursor
      BY <1>3, <1>7, <2>1, FunctionFacts DEF Prologs
    <2>3. CASE prog[i].fn # function
      <3>1. i \in 1 .. cursor - 1 /\ Provided(i)
        BY <1>1, <1>4, <1>7, <2>1, <2>3 DEF Frames, Live
      <3>. QED
        BY <1>1, <1>2, <2>1, <2>2, <3>1, StillProvided
    <2>4. CASE prog[i].fn = function /\ i # cursor
      <3>1. i \in function .. cursor - 1
        BY <1>2, <1>4, <2>1, <2>2, <2>4
      <3>2. prog[i].uses \subseteq text'[function].have /\ prog[i].op # "epilog"
        BY <1>9, <1>4, <1>5, <3>1, Zenon
      <3>. QED
        BY <1>2, <2>4, <3>2 DEF Provided
    <2>5. CASE i = cursor
      <3>1. text'[function].have = have[function] /\ prog[i].fn = function
        BY <1>9, <1>4, <1>5, <2>5, Zenon
      <3>. QED
        BY <1>2, <1>4, <1>6, <2>5, <3>1 DEF Provided
    <2>. QED
      BY <2>3, <2>4, <2>5
  <1>8. cursor' - 1 = cursor
    BY <1>1, <1>2
  <1>. QED
    BY <1>2, <1>3, <1>7, <1>8 DEF Frames

LEMMA StepFrames ==
  ASSUME TypeOK, Position, Frames, [Next]_vars
  PROVE  Frames'
  <1>. USE DEF context, pass, marks, vars, Live
  <1>1. prog' = prog /\ Nodes = 1 .. Len(prog) /\ Nodes' = Nodes /\ Len(prog) \in Nat
    BY ProgramFixed, NodeFacts
  <1>2. ASSUME NEW b \in Bases, NEW n \in Lengths, SetCode(b, n) PROVE Frames'
    BY <1>2 DEF SetCode, Frames
  <1>3. ASSUME NEW b \in Bases, Emit(b) PROVE Frames'
    BY <1>3 DEF Emit, StartPass, Frames
  <1>4. CASE EmitLabel \/ EmitInsn \/ EmitJump
    BY <1>4, AdvanceFrames
  <1>5. CASE EmitEpilog
    BY <1>5, EpilogFrames
  <1>6. CASE EmitProlog
    <2>1. phase = "emitting" /\ cursor \in Prologs /\ pc \in Nat /\ 0 \in Int
          /\ RestartFunction(cursor, pc, 0) /\ function' = cursor
      BY <1>6 DEF EmitProlog, At, Here, Prologs, TypeOK
    <2>2. cursor \in Nodes /\ function = 0
      BY <2>1, CurrentFunction DEF Prologs
    <2>3. \A i \in 1 .. cursor - 1 : prog[i].fn # 0 => Provided(i)
      BY <2>1, <2>2 DEF Frames
    <2>. QED
      BY <2>1, <2>3, RestartFrames
  <1>7. CASE Again
    <2>1. phase = "emitting" /\ cursor \in Nodes /\ prog[cursor].op = "epilog"
      BY <1>7 DEF Again, At, Here
    <2>2. function \in Prologs /\ function # 0 /\ undo.node = function /\ function < cursor
          /\ function \in Nodes
      BY <2>1, CurrentFunction, FunctionFacts, NodeFacts
    <2>3. undo.word \in Nat
      BY DEF TypeOK
    <2>4. AgainShift \in Int
      BY LayoutAssumption DEF AgainShift, DiffOf, TypeOK
    <2>5. RestartFunction(function, undo.word, AgainShift) /\ function' = function
      BY <1>7, <2>2 DEF Again
    <2>6. ASSUME NEW i \in 1 .. function - 1, prog[i].fn # 0
          PROVE  Provided(i)
      <3>1. i \in Nodes /\ i \in 1 .. cursor - 1 /\ i < function
        BY <1>1, <2>1, <2>2
      <3>2. prog[i].fn <= i /\ prog[i].fn \in Nodes
        BY <2>6, <3>1, FunctionFacts, NodeFacts
      <3>3. prog[i].fn # function
        BY <1>1, <2>2, <3>1, <3>2
      <3>. QED
        BY <2>1, <2>6, <3>1, <3>3 DEF Frames
    <2>. QED
      BY <2>2, <2>3, <2>4, <2>5, <2>6, RestartFrames
  <1>8. CASE Fail
    BY <1>8 DEF Fail, Frames
  <1>9. ASSUME NEW b \in Bases, Grow(b) PROVE Frames'
    BY <1>9 DEF Grow, StartPass, Frames
  <1>10. ASSUME UNCHANGED <<prog, cursor, function, again, have>>, Live,
                \A n \in Nodes : text'[n].have = text[n].have
         PROVE  Frames'
    <2>1. function # 0 => function \in Nodes
      BY DEF TypeOK, Prologs
    <2>2. ASSUME NEW i \in 1 .. cursor - 1, prog[i].fn # 0, prog[i].fn # function
          PROVE  Provided(i)'
      <3>1. i \in Nodes /\ Provided(i)
        BY <1>1, <1>10, <2>2 DEF Frames, TypeOK
      <3>2. prog[i].fn \in Nodes
        BY <2>2, <3>1, FunctionFacts DEF Prologs
      <3>. QED
        BY <1>1, <1>10, <3>1, <3>2, StillProvided
    <2>. QED
      BY <1>1, <1>10, <2>1, <2>2 DEF Frames
  <1>11. CASE EndPass
    BY <1>10, <1>11 DEF EndPass
  <1>12. CASE Patch
    <2>1. \A n \in Nodes : text'[n].have = text[n].have
      <3>1. text \in [Nodes -> Entry]
        BY DEF TypeOK
      <3>. QED
        BY <1>12, <3>1 DEF Patch, Entry
    <2>. QED
      BY <1>10, <1>12, <2>1 DEF Patch
  <1>13. CASE Finish
    BY <1>10, <1>13 DEF Finish
  <1>14. CASE UNCHANGED vars
    BY <1>1, <1>14 DEF Frames, Provided
  <1>. QED
    BY <1>2, <1>3, <1>4, <1>5, <1>6, <1>7, <1>8, <1>9, <1>11, <1>12, <1>13, <1>14
       DEF Next, Generate

(***************************************************************************)
(* In the code jit_emit returns, each epilog undoes what its prolog did,   *)
(* and the prolog provided for all that the function's instructions use.   *)
(***************************************************************************)
THEOREM FramesCorrect == Spec => []FramesAgree
  <1>1. Init => Frames
    BY DEF Init, Frames, Live
  <1>2. TypeOK /\ Position /\ Frames /\ [Next]_vars => Frames'
    BY StepFrames
  <1>3. ASSUME TypeOK, Position, Frames PROVE FramesAgree
    <2>1. SUFFICES ASSUME phase = "done", NEW i \in Nodes, prog[i].fn # 0 PROVE Provided(i)
      BY DEF FramesAgree
    <2>2. cursor = Len(prog) + 1 /\ Nodes = 1 .. Len(prog) /\ Len(prog) \in Nat
      BY <1>3, <2>1, NodeFacts DEF Position
    <2>3. function = 0
      BY <1>3, <2>1, <2>2, LastNode DEF Position, Live
    <2>. QED
      BY <1>3, <2>1, <2>2, <2>3 DEF Frames, Live
  <1>. QED
    BY <1>1, <1>2, <1>3, TypeCorrect, PTL DEF Spec

(***************************************************************************)
(* A function is generated again only when its prolog lacks something it   *)
(* has acquired since, so each return to the prolog gains a resource.      *)
(***************************************************************************)
THEOREM AgainGains == Spec => AgainOnlyIfStale
  <1>1. Init => Frames
    BY DEF Init, Frames, Live
  <1>2. TypeOK /\ Position /\ Frames /\ [Next]_vars => Frames'
    BY StepFrames
  <1>3. TypeOK /\ Position /\ Frames /\ [Next]_vars
          => [Again => have[undo.node] # text[undo.node].have]_vars
    <2>1. SUFFICES ASSUME TypeOK, Position, Frames, Again
                   PROVE  have[undo.node] # text[undo.node].have
      OBVIOUS
    <2>2. phase = "emitting" /\ cursor \in Nodes /\ prog[cursor].op = "epilog" /\ again
      BY <2>1 DEF Again, At, Here
    <2>3. function # 0 /\ undo.node = function
      BY <2>1, <2>2, CurrentFunction, FunctionFacts
    <2>. QED
      BY <2>1, <2>2, <2>3 DEF Frames, Live
  <1>. QED
    BY <1>1, <1>2, <1>3, TypeCorrect, PTL DEF Spec, AgainOnlyIfStale

-----------------------------------------------------------------------------
(***************************************************************************)
(* Stack arguments.                                                        *)
(***************************************************************************)
LEMMA ArgumentFacts ==
  ASSUME TypeOK, NEW a \in Nodes, prog[a].op = "arg"
  PROVE  /\ prog[a].fn \in Prologs /\ prog[a].fn \in Nodes /\ prog[a].fn < a
         /\ \A f : a \in Arguments(f) <=> prog[a].fn = f
  <1>1. prog[a].fn \in Prologs /\ prog[a].fn <= a /\ Prologs \subseteq Nodes /\ Nodes \subseteq Nat
    BY FunctionFacts, NodeFacts
  <1>2. prog[a].fn # a
    BY <1>1 DEF Prologs
  <1>3. prog[a].fn \in Nat /\ a \in Nat /\ prog[a].fn \in Nodes
    BY <1>1
  <1>4. \A f : a \in Arguments(f) <=> prog[a].fn = f
    BY DEF Arguments
  <1>. QED
    BY <1>1, <1>2, <1>3, <1>4

LEMMA RestartDisplaced ==
  ASSUME TypeOK, [Next]_vars, NEW f \in Prologs, NEW a \in Nat, NEW r \in Int,
         RestartFunction(f, a, r), function' = f, retried' = retried,
         ~retried => \A b \in Nodes : prog[b].op = "arg" =>
           /\ prog[b].fn = f => disp[b] = -r
           /\ prog[b].fn < f => /\ disp[b] = -DiffOf(FrameOf(text[prog[b].fn].have))
                                /\ b < f => text[b].disp = disp[b]
           /\ prog[b].fn > f => disp[b] = 0,
         phase' = "emitting", \A b \in Nodes : b < f => prog[b].fn # f
  PROVE  Displaced'
  <1>1. /\ f \in Nodes /\ cursor' = f + 1 /\ text'[f].have = have[f]
        /\ \A n \in Nodes : n # f => text'[n] = text[n]
    BY RestartFacts
  <1>2. prog' = prog /\ Nodes' = Nodes /\ Nodes \subseteq Nat
    BY ProgramFixed, NodeFacts
  <1>3. framesize' = FrameOf(text'[f].have) /\ framesize' = FrameOf(have[f])
    BY <1>1 DEF RestartFunction
  <1>. PICK d : d = DiffOf(FrameOf(have[f]))
    OBVIOUS
  <1>4. have[f] \in SUBSET Resources /\ d \in Int
    BY <1>1, DiffType DEF TypeOK
  <1>5. \A b \in Nodes : disp'[b] = IF b \in Arguments(f) THEN disp[b] - (d - r) ELSE disp[b]
    BY DEF RestartFunction, Shift
  <1>6. ASSUME ~retried, NEW b \in Nodes, prog[b].op = "arg"
        PROVE  IF prog[b].fn < f + 1
               THEN /\ disp'[b] = -DiffOf(FrameOf(text'[prog[b].fn].have))
                    /\ b < f + 1 => text'[b].disp = disp'[b]
               ELSE disp'[b] = 0
    <2>1. /\ prog[b].fn \in Nodes /\ prog[b].fn < b /\ b \in Nat /\ prog[b].fn \in Nat /\ f \in Nat
          /\ b \in Arguments(f) <=> prog[b].fn = f
      BY <1>1, <1>2, <1>6, ArgumentFacts
    <2>2. b # f
      BY <1>6 DEF Prologs
    <2>3. CASE prog[b].fn = f
      <3>1. disp'[b] = -d
        BY <1>4, <1>5, <1>6, <2>1, <2>3
      <3>2. DiffOf(FrameOf(text'[prog[b].fn].have)) = d
        BY <1>1, <2>3
      <3>. QED
        BY <2>1, <2>3, <3>1, <3>2
    <2>4. CASE prog[b].fn < f
      <3>1. disp'[b] = disp[b] /\ text'[prog[b].fn] = text[prog[b].fn] /\ text'[b] = text[b]
        BY <1>1, <1>5, <2>1, <2>2, <2>4
      <3>. QED
        BY <1>6, <2>1, <2>2, <2>4, <3>1
    <2>5. CASE prog[b].fn > f
      BY <1>5, <1>6, <2>1, <2>5
    <2>. QED
      BY <2>1, <2>3, <2>4, <2>5
  <1>. QED
    BY <1>1, <1>2, <1>3, <1>6 DEF Displaced, Live

LEMMA AdvanceDisplaced ==
  ASSUME TypeOK, Position, Displaced, [Next]_vars, Advance
  PROVE  Displaced'
  <1>1. /\ phase = "emitting" /\ cursor \in Nodes /\ cursor' = cursor + 1
        /\ UNCHANGED <<framesize, disp, retried>>
        /\ \A n \in Nodes : n # cursor => text'[n] = text[n]
    BY AdvanceFacts
  <1>2. prog' = prog /\ Nodes' = Nodes /\ Nodes \subseteq Nat
    BY ProgramFixed, NodeFacts
  <1>3. phase' = "emitting" /\ function' \in {0, function} /\ prog[cursor].op # "prolog"
    BY <1>1 DEF Advance, EmitLabel, EmitInsn, EmitJump, EmitEpilog, At, Here
  <1>4. ASSUME prog[cursor].op = "arg" PROVE text'[cursor].disp = disp[cursor]
    <2>1. Write(cursor, pc, Unlinked, {}, disp[cursor])
      BY <1>4 DEF Advance, EmitLabel, EmitInsn, EmitJump, EmitEpilog, At, Here
    <2>. QED
      BY <1>1, <2>1 DEF Write, TypeOK
  <1>5. function' # 0 => framesize' = FrameOf(text'[function'].have)
    <2>1. function # 0 => function \in Nodes /\ function # cursor
      BY <1>1, <1>2, CurrentFunction
    <2>. QED
      BY <1>1, <1>3, <2>1 DEF Displaced, Live
  <1>6. ASSUME ~retried, NEW b \in Nodes, prog[b].op = "arg"
        PROVE  IF prog[b].fn < cursor + 1
               THEN /\ disp[b] = -DiffOf(FrameOf(text'[prog[b].fn].have))
                    /\ b < cursor + 1 => text'[b].disp = disp[b]
               ELSE disp[b] = 0
    <2>1. prog[b].fn \in Nodes /\ prog[b].fn < b /\ b \in Nat /\ prog[b].fn \in Nat /\ cursor \in Nat
      BY <1>1, <1>2, <1>6, ArgumentFacts
    <2>2. prog[b].fn # cursor
      BY <1>3, <1>6, ArgumentFacts DEF Prologs
    <2>3. IF prog[b].fn < cursor
          THEN /\ disp[b] = -DiffOf(FrameOf(text[prog[b].fn].have))
               /\ b < cursor => text[b].disp = disp[b]
          ELSE disp[b] = 0
      BY <1>1, <1>6 DEF Displaced, Live
    <2>4. text'[prog[b].fn] = text[prog[b].fn] /\ (b # cursor => text'[b] = text[b])
      BY <1>1, <2>1, <2>2
    <2>. QED
      BY <1>4, <1>6, <2>1, <2>2, <2>3, <2>4
  <1>. QED
    BY <1>1, <1>2, <1>3, <1>5, <1>6 DEF Displaced, Live

LEMMA StepDisplaced ==
  ASSUME TypeOK, Position, Displaced, [Next]_vars
  PROVE  Displaced'
  <1>. USE DEF context, pass, marks, vars
  <1>1. prog' = prog /\ Nodes' = Nodes /\ Nodes \subseteq Nat /\ Prologs \subseteq Nodes
    BY ProgramFixed, NodeFacts
  <1>2. ASSUME NEW b \in Bases, NEW n \in Lengths, SetCode(b, n) PROVE Displaced'
    <2>1. ~Live /\ ~Live' /\ UNCHANGED <<retried, disp>>
      BY <1>2 DEF SetCode, Live
    <2>. QED
      BY <1>1, <2>1 DEF Displaced
  <1>3. ASSUME NEW b \in Bases, Emit(b) PROVE Displaced'
    <2>1. ~Live /\ cursor' = 1 /\ function' = 0 /\ UNCHANGED <<retried, disp>>
      BY <1>3 DEF Emit, StartPass, Live
    <2>2. \A a \in Nodes : prog[a].op = "arg" => ~(prog[a].fn < 1)
      BY <1>1, NodeFacts, ArgumentFacts
    <2>. QED
      BY <1>1, <2>1, <2>2 DEF Displaced
  <1>4. CASE Advance
    BY <1>4, AdvanceDisplaced
  <1>5. CASE EmitProlog
    <2>1. phase = "emitting" /\ cursor \in Prologs /\ pc \in Nat /\ 0 \in Int
          /\ RestartFunction(cursor, pc, 0) /\ function' = cursor
          /\ phase' = "emitting" /\ retried' = retried
      BY <1>5 DEF EmitProlog, At, Here, Prologs, TypeOK
    <2>2. \A b \in Nodes : b < cursor => prog[b].fn # cursor
      <3>1. ASSUME NEW b \in Nodes, b < cursor, prog[b].fn = cursor PROVE FALSE
        <4>1. prog[b].fn # 0 /\ b \in Nat /\ cursor \in Nat
          BY <1>1, <2>1, <3>1, NodeFacts
        <4>2. prog[b].fn =< b
          BY <4>1, FunctionFacts
        <4>. QED
          BY <3>1, <4>1, <4>2
      <3>. QED
        BY <3>1
    <2>3. ASSUME ~retried, NEW b \in Nodes, prog[b].op = "arg"
          PROVE  /\ prog[b].fn = cursor => disp[b] = -0
                 /\ prog[b].fn < cursor => /\ disp[b] = -DiffOf(FrameOf(text[prog[b].fn].have))
                                           /\ b < cursor => text[b].disp = disp[b]
                 /\ prog[b].fn > cursor => disp[b] = 0
      <3>1. prog[b].fn \in Nat /\ cursor \in Nat
        BY <1>1, <2>1, <2>3, ArgumentFacts
      <3>2. IF prog[b].fn < cursor
            THEN /\ disp[b] = -DiffOf(FrameOf(text[prog[b].fn].have))
                 /\ b < cursor => text[b].disp = disp[b]
            ELSE disp[b] = 0
        BY <2>1, <2>3 DEF Displaced, Live
      <3>. QED
        BY <3>1, <3>2
    <2>. QED
      BY <2>1, <2>2, <2>3, RestartDisplaced
  <1>6. CASE Again
    <2>1. phase = "emitting" /\ cursor \in Nodes /\ prog[cursor].op = "epilog"
      BY <1>6 DEF Again, At, Here
    <2>2. function \in Prologs /\ function # 0 /\ undo.node = function /\ function < cursor
          /\ function \in Nodes /\ \A n \in function .. cursor - 1 : prog[n].fn = function
      BY <2>1, CurrentFunction, FunctionFacts, NodeFacts
    <2>3. undo.word \in Nat
      BY DEF TypeOK
    <2>4. AgainShift \in Int
      BY LayoutAssumption DEF AgainShift, DiffOf, TypeOK
    <2>5. /\ RestartFunction(function, undo.word, AgainShift) /\ function' = function
          /\ phase' = "emitting" /\ retried' = retried
      BY <1>6, <2>1, <2>2 DEF Again
    <2>6. AgainShift = DiffOf(FrameOf(text[function].have))
      BY <2>1, <2>2 DEF AgainShift, Displaced, Live
    <2>7. \A b \in Nodes : b < function => prog[b].fn # function
      <3>1. ASSUME NEW b \in Nodes, b < function, prog[b].fn = function PROVE FALSE
        <4>1. prog[b].fn # 0 /\ b \in Nat /\ function \in Nat
          BY <1>1, <2>2, <3>1
        <4>2. prog[b].fn =< b
          BY <4>1, FunctionFacts
        <4>. QED
          BY <3>1, <4>1, <4>2
      <3>. QED
        BY <3>1
    <2>8. ASSUME ~retried, NEW b \in Nodes, prog[b].op = "arg"
          PROVE  /\ prog[b].fn = function => disp[b] = -AgainShift
                 /\ prog[b].fn < function => /\ disp[b] = -DiffOf(FrameOf(text[prog[b].fn].have))
                                             /\ b < function => text[b].disp = disp[b]
                 /\ prog[b].fn > function => disp[b] = 0
      <3>. PICK f : f = prog[b].fn
        OBVIOUS
      <3>1. f \in Nat /\ f \in Prologs /\ cursor \in Nat /\ function \in Nat /\ b \in Nat
        BY <1>1, <2>1, <2>2, <2>8, ArgumentFacts
      <3>2. IF f < cursor
            THEN /\ disp[b] = -DiffOf(FrameOf(text[f].have))
                 /\ b < cursor => text[b].disp = disp[b]
            ELSE disp[b] = 0
        BY <2>1, <2>8 DEF Displaced, Live
      <3>3. f > function => ~(f < cursor)
        <4>1. ASSUME f > function, f < cursor PROVE FALSE
          <5>1. prog[f].fn = function
            BY <2>2, <3>1, <4>1
          <5>2. prog[f].fn = f
            BY <1>1, <3>1, FunctionFacts DEF Prologs
          <5>. QED
            BY <3>1, <4>1, <5>1, <5>2
        <4>. QED
          BY <4>1
      <3>. QED
        BY <2>2, <2>6, <3>1, <3>2, <3>3
    <2>. QED
      BY <2>2, <2>3, <2>4, <2>5, <2>7, <2>8, RestartDisplaced
  <1>7. ASSUME NoRoom
        PROVE  ~retried' => \A a \in Nodes' : prog'[a].op = "arg" => disp'[a] = 0
    <2>1. SUFFICES ASSUME ~retried', NEW a \in Nodes, prog[a].op = "arg" PROVE disp[a] = 0
      BY <1>1, <1>7 DEF NoRoom
    <2>2. ~retried /\ phase = "emitting" /\ \A f \in Prologs : ~(f < cursor)
      BY <1>7, <2>1 DEF NoRoom
    <2>3. prog[a].fn \in Prologs
      BY <2>1, ArgumentFacts
    <2>4. IF Live /\ prog[a].fn < cursor THEN TRUE ELSE disp[a] = 0
      BY <2>1, <2>2, Zenon DEF Displaced
    <2>. QED
      BY <2>2, <2>3, <2>4
  <1>8. CASE Fail
    <2>1. NoRoom /\ ~Live'
      BY <1>8 DEF Fail, Live
    <2>2. ~retried' => \A a \in Nodes' : prog'[a].op = "arg" => disp'[a] = 0
      BY <1>7, <2>1
    <2>. QED
      BY <2>1, <2>2 DEF Displaced
  <1>9. ASSUME NEW b \in Bases, Grow(b) PROVE Displaced'
    <2>1. NoRoom /\ cursor' = 1 /\ function' = 0
      BY <1>9 DEF Grow, StartPass
    <2>2. \A a \in Nodes' : prog'[a].op = "arg" => ~(prog'[a].fn < 1)
      <3>1. \A a \in Nodes : prog[a].op = "arg" => ~(prog[a].fn < 1)
        BY <1>1, NodeFacts, ArgumentFacts
      <3>. QED
        BY <1>1, <3>1
    <2>3. ~retried' => \A a \in Nodes' : prog'[a].op = "arg" => disp'[a] = 0
      BY <1>7, <2>1
    <2>. QED
      BY <2>1, <2>2, <2>3 DEF Displaced
  <1>10. ASSUME UNCHANGED <<prog, cursor, function, framesize, disp, retried>>, Live, Live',
                \A n \in Nodes : text'[n].have = text[n].have /\ text'[n].disp = text[n].disp
         PROVE  Displaced'
    <2>1. function # 0 => function \in Nodes
      BY DEF TypeOK, Prologs
    <2>2. \A a \in Nodes : prog[a].op = "arg" => prog[a].fn \in Nodes
      BY <1>1, ArgumentFacts
    <2>3. function' # 0 => framesize' = FrameOf(text'[function'].have)
      <3>1. function # 0 => framesize = FrameOf(text[function].have)
        BY <1>10, Zenon DEF Displaced
      <3>. QED
        BY <1>10, <2>1, <3>1
    <2>4. ASSUME ~retried, NEW a \in Nodes, prog[a].op = "arg"
          PROVE  IF prog[a].fn < cursor
                 THEN /\ disp[a] = -DiffOf(FrameOf(text'[prog[a].fn].have))
                      /\ a < cursor => text'[a].disp = disp[a]
                 ELSE disp[a] = 0
      <3>1. IF prog[a].fn < cursor
            THEN /\ disp[a] = -DiffOf(FrameOf(text[prog[a].fn].have))
                 /\ a < cursor => text[a].disp = disp[a]
            ELSE disp[a] = 0
        BY <1>10, <2>4, Zenon DEF Displaced
      <3>2. text'[prog[a].fn].have = text[prog[a].fn].have /\ text'[a].disp = text[a].disp
        BY <1>10, <2>2, <2>4
      <3>. QED
        BY <3>1, <3>2
    <2>. QED
      BY <1>1, <1>10, <2>3, <2>4 DEF Displaced
  <1>11. CASE EndPass
    BY <1>10, <1>11 DEF EndPass, Live
  <1>12. CASE Patch
    <2>1. text \in [Nodes -> Entry]
      BY DEF TypeOK
    <2>2. \A n \in Nodes : text'[n].have = text[n].have /\ text'[n].disp = text[n].disp
      BY <1>12, <2>1 DEF Patch, Entry
    <2>. QED
      BY <1>10, <1>12, <2>2 DEF Patch, Live
  <1>13. CASE Finish
    BY <1>10, <1>13 DEF Finish, Live
  <1>14. CASE UNCHANGED vars
    BY <1>1, <1>14 DEF Displaced, Live
  <1>. QED
    BY <1>2, <1>3, <1>4, <1>5, <1>6, <1>8, <1>9, <1>11, <1>12, <1>13, <1>14
       DEF Next, Generate, Advance

(***************************************************************************)
(* In the code jit_emit returns, each load of a stack argument is          *)
(* displaced for the frame its function has, if no pass ran out of room    *)
(* behind a prolog.                                                        *)
(***************************************************************************)
THEOREM ArgumentsDisplaced == Spec => []ArgumentsInFrameIfFits
  <1>1. Init => Displaced
    BY DEF Init, Displaced, Live
  <1>2. TypeOK /\ Position /\ Displaced /\ [Next]_vars => Displaced'
    BY StepDisplaced
  <1>3. ASSUME TypeOK, Position, Displaced PROVE ArgumentsInFrameIfFits
    <2>1. SUFFICES ASSUME ~retried, phase = "done", NEW f \in Prologs, NEW a \in Arguments(f)
                   PROVE  text[a].disp = -DiffOf(FrameOf(text[f].have))
      BY DEF ArgumentsInFrameIfFits, ArgumentsInFrame
    <2>2. a \in Nodes /\ prog[a].op = "arg" /\ prog[a].fn = f
      BY DEF Arguments
    <2>3. cursor = Len(prog) + 1 /\ Nodes = 1 .. Len(prog) /\ Len(prog) \in Nat /\ f \in Nodes
      BY <1>3, <2>1, NodeFacts DEF Position
    <2>4. f < cursor /\ a < cursor
      BY <2>2, <2>3
    <2>. QED
      BY <1>3, <2>1, <2>2, <2>4 DEF Displaced, Live
  <1>. QED
    BY <1>1, <1>2, <1>3, TypeCorrect, PTL DEF Spec

-----------------------------------------------------------------------------
(***************************************************************************)
(* Sites.                                                                  *)
(***************************************************************************)
LEMMA SiteTypes ==
  ASSUME TypeOK, TypeOK', prog' = prog
  PROVE  \A n \in Nodes : text[n].at \in Nat /\ text'[n].at \in Nat
  <1>1. \A e \in Entry : e.at \in Nat
    BY DEF Entry
  <1>2. Nodes' = Nodes /\ Entry' = Entry
    BY DEF Nodes, Entry
  <1>3. text \in [Nodes -> Entry] /\ text' \in [Nodes -> Entry]
    BY <1>2 DEF TypeOK
  <1>. QED
    BY <1>1, <1>3

LEMMA ExtendLayout ==
  ASSUME TypeOK, TypeOK', NEW c \in Nodes, cursor' = c + 1, prog' = prog,
         \A n \in 1 .. c - 1 : text'[n] = text[n],
         \A m \in 1 .. c - 1 : prog[m].op # "label" =>
            /\ text[m].at < text'[c].at
            /\ \A n \in m + 1 .. c - 1 : text[m].at < text[n].at,
         text'[c].at <= pc', prog[c].op # "label" => text'[c].at < pc',
         function' # 0 => text'[function'].at = undo'.word
  PROVE  Layout'
  <1>1. Nodes = 1 .. Len(prog) /\ Len(prog) \in Nat /\ c \in Nat
    BY NodeFacts
  <1>2. \A n \in 1 .. c : text'[n].at \in Nat
    BY <1>1, SiteTypes
  <1>3. pc' \in Nat
    BY DEF TypeOK
  <1>4. ASSUME NEW m \in 1 .. c, prog[m].op # "label"
        PROVE  /\ text'[m].at < pc'
               /\ \A n \in m + 1 .. c : text'[m].at < text'[n].at
    <2>1. CASE m = c
      BY <1>1, <1>4, <2>1
    <2>2. CASE m # c
      <3>1. m \in 1 .. c - 1 /\ text'[m] = text[m] /\ text[m].at < text'[c].at
            /\ \A n \in m + 1 .. c - 1 : text[m].at < text[n].at
        BY <1>1, <1>4, <2>2
      <3>2. text'[m].at < pc'
        BY <1>1, <1>2, <1>3, <3>1
      <3>3. \A n \in m + 1 .. c : n = c \/ (n \in 1 .. c - 1 /\ n \in m + 1 .. c - 1)
        <4>1. m \in Nat /\ c \in Nat /\ m >= 1
          BY <1>1
        <4>. QED
          BY <4>1
      <3>. QED
        BY <3>1, <3>2, <3>3
    <2>. QED
      BY <2>1, <2>2
  <1>5. cursor' - 1 = c
    BY <1>1
  <1>. QED
    BY <1>4, <1>5 DEF Layout

LEMMA StepLayout ==
  ASSUME TypeOK, TypeOK', Position, Layout, [Next]_vars
  PROVE  Layout'
  <1>. USE DEF context, pass, marks, vars, Live
  <1>1. prog' = prog /\ Nodes = 1 .. Len(prog) /\ Nodes' = Nodes /\ Len(prog) \in Nat
    BY ProgramFixed, NodeFacts
  <1>2. /\ \A n \in Nodes : text[n].at \in Nat
        /\ \A n \in Nodes : text'[n].at \in Nat
        /\ pc \in Nat /\ cursor \in Nat
    <2>1. pc \in Nat /\ cursor \in Nat
      BY DEF TypeOK
    <2>. QED
      BY <1>1, <2>1, SiteTypes
  <1>3. ASSUME NEW b \in Bases, NEW n \in Lengths, SetCode(b, n) PROVE Layout'
    BY <1>3 DEF SetCode, Layout
  <1>4. ASSUME NEW b \in Bases, Emit(b) PROVE Layout'
    BY <1>4 DEF Emit, StartPass, Layout
  <1>5. CASE Advance
    <2>1. /\ phase = "emitting" /\ cursor \in Nodes /\ cursor' = cursor + 1
          /\ UNCHANGED undo
          /\ \A n \in Nodes : n # cursor => text'[n] = text[n]
          /\ pc <= text'[cursor].at /\ text'[cursor].at <= pc'
          /\ prog[cursor].op # "label" => text'[cursor].at < pc'
      BY <1>5, AdvanceFacts
    <2>2. function' \in {function, 0}
      BY <1>5 DEF Advance, EmitLabel, EmitInsn, EmitJump, EmitEpilog
    <2>3. function # 0 => function \in Nodes /\ function # cursor
      BY <1>1, <2>1, CurrentFunction
    <2>4. function' # 0 => text'[function'].at = undo'.word
      BY <2>1, <2>2, <2>3 DEF Layout
    <2>5. \A n \in 1 .. cursor - 1 : text'[n] = text[n]
      BY <1>1, <2>1
    <2>6. \A m \in 1 .. cursor - 1 : m \in Nodes /\ (prog[m].op # "label" => text[m].at < pc)
      BY <1>1, <2>1 DEF Layout
    <2>7. \A m \in 1 .. cursor - 1 : prog[m].op # "label" =>
            /\ text[m].at < text'[cursor].at
            /\ \A n \in m + 1 .. cursor - 1 : text[m].at < text[n].at
      BY <1>2, <2>1, <2>6 DEF Layout
    <2>. QED
      BY <1>1, <2>1, <2>4, <2>5, <2>7, ExtendLayout
  <1>6. CASE EmitProlog
    <2>1. phase = "emitting" /\ cursor \in Prologs /\ cursor \in Nodes /\ 0 \in Int
          /\ RestartFunction(cursor, pc, 0) /\ function' = cursor /\ undo' = UndoAt(cursor)
      BY <1>6 DEF EmitProlog, At, Here, Prologs
    <2>2. /\ cursor' = cursor + 1 /\ pc' \in Nat /\ pc' > pc /\ text'[cursor].at = pc
          /\ \A n \in Nodes : n # cursor => text'[n] = text[n]
      BY <1>2, <2>1, RestartFacts
    <2>3. \A n \in 1 .. cursor - 1 : text'[n] = text[n]
      BY <1>1, <2>1, <2>2
    <2>4. \A m \in 1 .. cursor - 1 : prog[m].op # "label" =>
            /\ text[m].at < text'[cursor].at
            /\ \A n \in m + 1 .. cursor - 1 : text[m].at < text[n].at
      BY <2>1, <2>2 DEF Layout
    <2>5. text'[cursor].at <= pc' /\ text'[cursor].at < pc'
      BY <1>2, <2>2
    <2>6. function' # 0 => text'[function'].at = undo'.word
      BY <2>1, <2>2 DEF UndoAt
    <2>. QED
      BY <1>1, <2>1, <2>2, <2>3, <2>4, <2>5, <2>6, ExtendLayout
  <1>7. CASE Again
    <2>1. phase = "emitting" /\ cursor \in Nodes /\ prog[cursor].op = "epilog"
      BY <1>7 DEF Again, At, Here
    <2>2. function \in Prologs /\ function # 0 /\ undo.node = function /\ function < cursor
          /\ function \in Nodes /\ prog[function].op = "prolog"
      BY <2>1, CurrentFunction, FunctionFacts, NodeFacts DEF Prologs
    <2>3. undo.word \in Nat /\ text[function].at = undo.word
      BY <2>1, <2>2 DEF Layout, TypeOK
    <2>4. AgainShift \in Int
      BY LayoutAssumption DEF AgainShift, DiffOf, TypeOK
    <2>5. RestartFunction(function, undo.word, AgainShift) /\ UNCHANGED <<function, undo>>
      BY <1>7, <2>2 DEF Again
    <2>6. /\ cursor' = function + 1 /\ pc' \in Nat /\ pc' > undo.word
          /\ text'[function].at = undo.word
          /\ \A n \in Nodes : n # function => text'[n] = text[n]
      BY <2>2, <2>3, <2>4, <2>5, RestartFacts
    <2>7. \A n \in 1 .. function - 1 : n # function /\ n \in Nodes
      BY <1>1, <2>2
    <2>8. ASSUME NEW m \in 1 .. function - 1, prog[m].op # "label"
          PROVE  /\ text[m].at < text'[function].at
                 /\ \A n \in m + 1 .. function - 1 : text[m].at < text[n].at
      <3>1. m \in 1 .. cursor - 1 /\ function \in m + 1 .. cursor - 1
            /\ \A n \in m + 1 .. function - 1 : n \in m + 1 .. cursor - 1
        BY <1>1, <2>1, <2>2
      <3>. QED
        BY <2>1, <2>3, <2>6, <2>8, <3>1 DEF Layout
    <2>9. text'[function].at <= pc' /\ text'[function].at < pc'
      BY <2>3, <2>6
    <2>. QED
      BY <1>1, <2>2, <2>5, <2>6, <2>7, <2>8, <2>9, ExtendLayout
  <1>8. CASE Fail
    BY <1>8 DEF Fail, Layout
  <1>9. ASSUME NEW b \in Bases, Grow(b) PROVE Layout'
    BY <1>9 DEF Grow, StartPass, Layout
  <1>10. ASSUME UNCHANGED <<prog, cursor, pc, function, undo>>, Live,
                \A n \in Nodes : text'[n].at = text[n].at
         PROVE  Layout'
    <2>1. \A n \in 1 .. cursor - 1 : n \in Nodes
      BY <1>1 DEF TypeOK
    <2>2. function # 0 => function \in Nodes
      BY DEF TypeOK, Prologs
    <2>3. ASSUME NEW m \in 1 .. cursor - 1, prog[m].op # "label"
          PROVE  /\ text'[m].at < pc
                 /\ \A n \in m + 1 .. cursor - 1 : text'[m].at < text'[n].at
      <3>1. /\ text[m].at < pc
            /\ \A n \in m + 1 .. cursor - 1 : text[m].at < text[n].at
        BY <1>10, <2>3 DEF Layout
      <3>2. \A n \in m + 1 .. cursor - 1 : n \in 1 .. cursor - 1
        BY <1>2
      <3>. QED
        BY <1>10, <2>1, <3>1, <3>2
    <2>. QED
      BY <1>1, <1>10, <2>2, <2>3 DEF Layout
  <1>11. CASE EndPass
    BY <1>10, <1>11 DEF EndPass
  <1>12. CASE Patch
    <2>1. \A n \in Nodes : text'[n].at = text[n].at
      <3>1. text \in [Nodes -> Entry]
        BY DEF TypeOK
      <3>. QED
        BY <1>12, <3>1 DEF Patch, Entry
    <2>. QED
      BY <1>10, <1>12, <2>1 DEF Patch
  <1>13. CASE Finish
    BY <1>10, <1>13 DEF Finish
  <1>14. CASE UNCHANGED vars
    BY <1>1, <1>14 DEF Layout
  <1>. QED
    BY <1>3, <1>4, <1>5, <1>6, <1>7, <1>8, <1>9, <1>11, <1>12, <1>13, <1>14
       DEF Next, Generate, Advance

-----------------------------------------------------------------------------
(***************************************************************************)
(* Links.                                                                  *)
(***************************************************************************)
LEMMA PatchTypes ==
  ASSUME TypeOK
  PROVE  /\ Len(patches) \in Nat
         /\ \A k \in 1 .. Len(patches) : patches[k].node \in Jumps /\ patches[k].inst \in Nat
  <1>1. patches \in Seq(PatchEntry)
    BY DEF TypeOK
  <1>2. \A e \in PatchEntry : e.node \in Jumps /\ e.inst \in Nat
    BY DEF PatchEntry
  <1>. QED
    BY <1>1, <1>2

(***************************************************************************)
(* The effect of a node that is not a jump on what Links says of jumps.    *)
(***************************************************************************)
LEMMA AdvanceLinks ==
  ASSUME TypeOK, Position, Links, [Next]_vars, Advance, ~EmitJump
  PROVE  Links'
  <1>1. /\ phase = "emitting" /\ cursor \in Nodes /\ cursor' = cursor + 1
        /\ UNCHANGED <<context, phase, undo, framesize, disp, offset, retried>>
        /\ \A n \in Nodes : n # cursor => text'[n] = text[n]
    BY AdvanceFacts
  <1>2. /\ prog' = prog /\ Nodes = 1 .. Len(prog) /\ Len(prog) \in Nat
        /\ Jumps' = Jumps /\ Jumps \subseteq Nodes
        /\ \A j \in Jumps : prog[j].to \in Nodes
    BY ProgramFixed, NodeFacts
  <1>3. patches' = patches /\ patched' \subseteq patched \cup {cursor}
        /\ function' \in {function, 0} /\ cursor \notin Jumps
    BY DEF Advance, EmitLabel, EmitInsn, EmitEpilog, At, Here, Jumps
  <1>4. \A l : Linked(l)' = Linked(l)
    BY <1>2 DEF Linked
  <1>5. \A l \in patched' : Linked(l)' => Live' /\ l < cursor'
    <2>1. patched \subseteq Nodes
      BY DEF TypeOK
    <2>2. Live /\ Live'
      BY <1>1 DEF Live
    <2>3. \A l \in patched : Linked(l) => l < cursor
      BY DEF Links
    <2>. QED
      BY <1>1, <1>2, <1>3, <1>4, <2>1, <2>2, <2>3
  <1>6. \A k \in 1 .. Len(patches) :
           patches[k].node < cursor /\ text[patches[k].node].at = patches[k].inst
           /\ patches[k].node \in Nodes
    BY <1>1, <1>2, PatchTypes DEF Links, Live
  <1>7. \A k \in 1 .. Len(patches') :
           patches'[k].node < cursor' /\ text'[patches'[k].node].at = patches'[k].inst
    BY <1>1, <1>2, <1>3, <1>6
  <1>8. ASSUME NEW j \in Jumps, j < cursor'
        PROVE  \/ /\ text'[j].target = text'[prog[j].to].at
                  /\ prog[j].to < j \/ phase # "emitting"
               \/ \E k \in offset + 1 .. Len(patches) : patches[k].node = j
    <2>1. j \in Nodes /\ j < cursor /\ prog[j].to \in Nodes
      BY <1>1, <1>2, <1>3, <1>8
    <2>2. text'[j] = text[j] /\ (prog[j].to < j => text'[prog[j].to] = text[prog[j].to])
      BY <1>1, <1>2, <2>1
    <2>. QED
      BY <1>1, <2>1, <2>2 DEF Links, Live
  <1>9. function' # 0 => \A k \in 1 .. Len(patches') :
                            k <= undo'.patches <=> patches'[k].node < function'
    BY <1>1, <1>3 DEF Links, Live
  <1>. QED
    BY <1>1, <1>2, <1>3, <1>5, <1>7, <1>8, <1>9 DEF Links, Live

LEMMA JumpLinks ==
  ASSUME TypeOK, Position, Links, [Next]_vars, EmitJump
  PROVE  Links'
  <1>1. /\ phase = "emitting" /\ cursor \in Nodes /\ cursor' = cursor + 1
        /\ UNCHANGED <<context, phase, undo, framesize, disp, offset, retried>>
        /\ \A n \in Nodes : n # cursor => text'[n] = text[n]
    BY AdvanceFacts DEF Advance
  <1>2. /\ prog' = prog /\ Nodes = 1 .. Len(prog) /\ Len(prog) \in Nat
        /\ Jumps' = Jumps /\ Jumps \subseteq Nodes
        /\ \A j \in Jumps : prog[j].to \in Nodes
    BY ProgramFixed, NodeFacts
  <1>3. /\ patched' = patched /\ function' = function /\ cursor \in Jumps /\ pc \in Nat
        /\ prog[cursor].op = "jump"
    BY DEF EmitJump, At, Here, Jumps, TypeOK
  <1>4. \A l : Linked(l)' = Linked(l)
    BY <1>2 DEF Linked
  <1>5. \A l \in patched' : Linked(l)' => Live' /\ l < cursor'
    <2>1. patched \subseteq Nodes
      BY DEF TypeOK
    <2>2. Live /\ Live'
      BY <1>1 DEF Live
    <2>3. \A l \in patched : Linked(l) => l < cursor
      BY DEF Links
    <2>. QED
      BY <1>1, <1>2, <1>3, <1>4, <2>1, <2>2, <2>3
  <1>6. \A k \in 1 .. Len(patches) :
           patches[k].node < cursor /\ text[patches[k].node].at = patches[k].inst
           /\ patches[k].node \in Nodes
    BY <1>1, <1>2, PatchTypes DEF Links, Live
  <1>7. offset = 0 /\ offset' = 0
    BY <1>1 DEF Position
  <1>8. function # 0 => function < cursor /\ undo.patches \in 0 .. Len(patches)
    BY <1>1, CurrentFunction DEF TypeOK
  <1>9. Len(patches) \in Nat /\ patches \in Seq(PatchEntry)
    BY DEF TypeOK
  <1>10. text'[cursor].at = pc
         /\ text'[cursor].target = IF Known(cursor) THEN text[prog[cursor].to].at ELSE Unlinked
    <2>1. text' = [text EXCEPT ![cursor] =
                     [at |-> pc,
                      target |-> IF Known(cursor) THEN text[prog[cursor].to].at ELSE Unlinked,
                      have |-> {}, disp |-> 0]]
      BY Zenon DEF EmitJump, Write, Here
    <2>. QED
      BY <1>1, <2>1 DEF TypeOK
  <1>11. ASSUME NEW j \in Jumps, j < cursor
         PROVE  \/ text'[j].target = text'[prog[j].to].at /\ prog[j].to < j
                \/ \E k \in 1 .. Len(patches) : patches[k].node = j
    <2>1. j \in Nodes /\ j < cursor /\ prog[j].to \in Nodes
      BY <1>1, <1>2, <1>11
    <2>2. text'[j] = text[j] /\ (prog[j].to < j => text'[prog[j].to] = text[prog[j].to])
      BY <1>1, <1>2, <2>1
    <2>. QED
      BY <1>1, <1>7, <2>1, <2>2 DEF Links, Live
  <1>12. \A j \in Jumps : j < cursor' => j = cursor \/ j < cursor
    BY <1>1, <1>2
  <1>13. CASE Known(cursor)
    <2>1. patches' = patches
      BY <1>13, Zenon DEF EmitJump
    <2>2. prog[cursor].to < cursor
      BY <1>1, <1>3, <1>13 DEF Known, Links, Linked
    <2>3. text'[cursor].target = text'[prog[cursor].to].at
      BY <1>1, <1>2, <1>3, <1>10, <1>13, <2>2
    <2>4. \A k \in 1 .. Len(patches') :
             patches'[k].node < cursor' /\ text'[patches'[k].node].at = patches'[k].inst
      BY <1>1, <1>2, <1>6, <2>1
    <2>5. function' # 0 => \A k \in 1 .. Len(patches') :
                              k <= undo'.patches <=> patches'[k].node < function'
      BY <1>1, <1>3, <2>1 DEF Links, Live
    <2>6. \A j \in Jumps' : j < cursor' =>
             \/ text'[j].target = text'[prog'[j].to].at /\ prog'[j].to < j
             \/ \E k \in offset' + 1 .. Len(patches') : patches'[k].node = j
      BY <1>2, <1>7, <1>11, <1>12, <2>1, <2>2, <2>3
    <2>. QED
      BY <1>1, <1>5, <2>4, <2>5, <2>6 DEF Links, Live
  <1>14. CASE ~Known(cursor)
    <2>1. patches' = Append(patches, [inst |-> pc, node |-> cursor])
      BY <1>14, Zenon DEF EmitJump
    <2>2. [inst |-> pc, node |-> cursor] \in PatchEntry
      BY <1>3 DEF PatchEntry
    <2>3. /\ Len(patches') = Len(patches) + 1
          /\ \A k \in 1 .. Len(patches) : patches'[k] = patches[k]
          /\ patches'[Len(patches) + 1].node = cursor /\ patches'[Len(patches) + 1].inst = pc
      BY <1>9, <2>1, <2>2, AppendFacts
    <2>4. \A k \in 1 .. Len(patches') : k \in 1 .. Len(patches) \/ k = Len(patches) + 1
      BY <1>9, <2>3
    <2>5. \A k \in 1 .. Len(patches') :
             patches'[k].node < cursor' /\ text'[patches'[k].node].at = patches'[k].inst
      BY <1>1, <1>2, <1>6, <1>10, <2>3, <2>4
    <2>6. ASSUME function' # 0, NEW k \in 1 .. Len(patches')
          PROVE  k <= undo'.patches <=> patches'[k].node < function'
      <3>1. CASE k \in 1 .. Len(patches)
        BY <1>1, <1>3, <2>3, <2>6, <3>1 DEF Links, Live
      <3>2. CASE k = Len(patches) + 1
        <4>1. function < cursor /\ undo'.patches <= Len(patches) /\ undo'.patches \in Nat
              /\ patches'[k].node = cursor
          BY <1>1, <1>3, <1>8, <1>9, <2>3, <2>6, <3>2
        <4>2. function \in Nat /\ cursor \in Nat
          BY <1>1, <1>2 DEF TypeOK, Prologs
        <4>. QED
          BY <1>3, <1>9, <3>2, <4>1, <4>2
      <3>. QED
        BY <2>4, <2>6, <3>1, <3>2
    <2>7. \A j \in Jumps' : j < cursor' =>
             \/ text'[j].target = text'[prog'[j].to].at /\ prog'[j].to < j
             \/ \E k \in offset' + 1 .. Len(patches') : patches'[k].node = j
      <3>1. /\ \A k \in 1 .. Len(patches) : k \in 1 .. Len(patches')
            /\ Len(patches) + 1 \in 1 .. Len(patches')
        BY <1>9, <2>3
      <3>. QED
        BY <1>2, <1>7, <1>11, <1>12, <2>3, <3>1
    <2>. QED
      BY <1>1, <1>5, <2>5, <2>6, <2>7 DEF Links, Live
  <1>. QED
    BY <1>13, <1>14

(***************************************************************************)
(* A prolog is written, or written again: the jumps before it stay as they *)
(* are, and so do the patches that wait for them.                          *)
(***************************************************************************)
LEMMA RestartLinks ==
  ASSUME TypeOK, [Next]_vars, NEW f \in Prologs, NEW a \in Nat, NEW r \in Int,
         RestartFunction(f, a, r), function' = f, phase = "emitting", phase' = phase,
         offset' = 0,
         patched' \subseteq Nodes, \A l \in patched' : Linked(l) => l <= f,
         \A k \in 1 .. Len(patches') :
            /\ patches'[k].node < f /\ patches'[k].node \in Nodes
            /\ text[patches'[k].node].at = patches'[k].inst
            /\ k <= undo'.patches,
         \A j \in Jumps : j < f =>
            \/ text[j].target = text[prog[j].to].at /\ prog[j].to < j
            \/ \E k \in 1 .. Len(patches') : patches'[k].node = j
  PROVE  Links'
  <1>1. /\ f \in Nodes /\ cursor' = f + 1
        /\ \A n \in Nodes : n # f => text'[n] = text[n]
    BY RestartFacts
  <1>2. /\ prog' = prog /\ Nodes = 1 .. Len(prog) /\ Len(prog) \in Nat
        /\ Nodes' = Nodes /\ Jumps' = Jumps /\ Jumps \subseteq Nodes
        /\ \A j \in Jumps : prog[j].to \in Nodes
    BY ProgramFixed, NodeFacts
  <1>3. \A l : Linked(l)' = Linked(l)
    BY <1>2 DEF Linked
  <1>4. Live' /\ phase' = "emitting"
    BY DEF Live
  <1>5. \A l \in patched' : Linked(l)' => l < cursor'
    BY <1>1, <1>2, <1>3
  <1>6. \A k \in 1 .. Len(patches') :
           patches'[k].node < cursor' /\ text'[patches'[k].node].at = patches'[k].inst
    BY <1>1, <1>2
  <1>7. ASSUME NEW j \in Jumps, j < cursor'
        PROVE  \/ text'[j].target = text'[prog[j].to].at /\ prog[j].to < j
               \/ \E k \in 1 .. Len(patches') : patches'[k].node = j
    <2>1. j # f
      BY DEF Jumps, Prologs
    <2>2. j \in Nodes /\ j < f /\ prog[j].to \in Nodes
      BY <1>1, <1>2, <1>7, <2>1
    <2>3. text'[j] = text[j] /\ (prog[j].to < j => text'[prog[j].to] = text[prog[j].to])
      BY <1>1, <1>2, <2>2
    <2>. QED
      BY <2>2, <2>3
  <1>. QED
    BY <1>1, <1>2, <1>4, <1>5, <1>6, <1>7 DEF Links

LEMMA PrologLinks ==
  ASSUME TypeOK, Position, Links, [Next]_vars, EmitProlog
  PROVE  Links'
  <1>1. phase = "emitting" /\ cursor \in Prologs /\ cursor \in Nodes /\ pc \in Nat /\ 0 \in Int
        /\ RestartFunction(cursor, pc, 0) /\ function' = cursor
        /\ undo'.patches = Len(patches) /\ UNCHANGED <<phase, patched, patches, offset>>
    BY DEF EmitProlog, At, Here, Prologs, TypeOK, UndoAt
  <1>2. offset' = 0 /\ cursor \in Nat
    BY <1>1 DEF Position, TypeOK
  <1>3. patched' \subseteq Nodes /\ Nodes \subseteq Nat
    BY <1>1, NodeFacts DEF TypeOK
  <1>4. \A l \in patched' : Linked(l) => l <= cursor
    <2>1. \A l \in patched : Linked(l) => l < cursor
      BY DEF Links
    <2>. QED
      BY <1>1, <1>2, <1>3, <2>1
  <1>5. \A k \in 1 .. Len(patches') :
          /\ patches'[k].node < cursor /\ patches'[k].node \in Nodes
          /\ text[patches'[k].node].at = patches'[k].inst
          /\ k <= undo'.patches
    BY <1>1, NodeFacts, PatchTypes DEF Links, Live
  <1>6. \A j \in Jumps : j < cursor =>
          \/ text[j].target = text[prog[j].to].at /\ prog[j].to < j
          \/ \E k \in 1 .. Len(patches') : patches'[k].node = j
    <2>1. offset = 0
      BY <1>1, <1>2
    <2>. QED
      BY <1>1, <2>1 DEF Links, Live
  <1>. QED
    BY <1>1, <1>2, <1>3, <1>4, <1>5, <1>6, RestartLinks

LEMMA AgainLinks ==
  ASSUME TypeOK, Position, Links, [Next]_vars, Again
  PROVE  Links'
  <1>1. phase = "emitting" /\ cursor \in Nodes /\ prog[cursor].op = "epilog"
        /\ UNCHANGED <<phase, function, undo, offset>>
    BY DEF Again, At, Here
  <1>2. function \in Prologs /\ function # 0 /\ undo.node = function /\ function < cursor
        /\ function \in Nodes /\ Nodes \subseteq Nat
    BY <1>1, CurrentFunction, FunctionFacts, NodeFacts
  <1>3. undo.word \in Nat /\ undo.patches \in 0 .. Len(patches) /\ patches \in Seq(PatchEntry)
    BY <1>1, <1>2 DEF TypeOK
  <1>4. AgainShift \in Int
    BY LayoutAssumption DEF AgainShift, DiffOf, TypeOK
  <1>5. RestartFunction(function, undo.word, AgainShift)
    BY <1>2 DEF Again
  <1>6. offset = 0 /\ offset' = 0
    BY <1>1 DEF Position
  <1>7. patched' = patched \ (function + 1 .. cursor) /\ patched \subseteq Nodes
    BY <1>2 DEF Again, AgainFlags, TypeOK
  <1>8. \A l \in patched' : Linked(l) => l <= function
    BY <1>1, <1>2, <1>7 DEF Links
  <1>9. /\ Len(patches') = undo.patches /\ Len(patches) \in Nat
        /\ \A k \in 1 .. undo.patches : patches'[k] = patches[k] /\ k \in 1 .. Len(patches)
    <2>1. patches' = SubSeq(patches, 1, undo.patches)
      BY DEF Again, AgainPatches
    <2>. QED
      BY <1>3, <2>1, PrefixFacts
  <1>10. \A k \in 1 .. Len(patches) :
           /\ patches[k].node \in Nodes /\ text[patches[k].node].at = patches[k].inst
           /\ k <= undo.patches <=> patches[k].node < function
    BY <1>1, <1>2, NodeFacts, PatchTypes DEF Links, Live
  <1>11. ASSUME NEW k \in 1 .. Len(patches')
         PROVE  /\ patches'[k].node < function /\ patches'[k].node \in Nodes
                /\ text[patches'[k].node].at = patches'[k].inst
                /\ k <= undo'.patches
    <2>1. k \in 1 .. undo.patches /\ k <= undo.patches
      BY <1>3, <1>9, <1>11
    <2>. QED
      BY <1>1, <1>9, <1>10, <2>1
  <1>12. ASSUME NEW j \in Jumps, j < function
         PROVE  \/ text[j].target = text[prog[j].to].at /\ prog[j].to < j
                \/ \E k \in 1 .. Len(patches') : patches'[k].node = j
    <2>1. j < cursor
      BY <1>1, <1>2, <1>12, NodeFacts
    <2>2. \/ text[j].target = text[prog[j].to].at /\ prog[j].to < j
          \/ \E k \in 1 .. Len(patches) : patches[k].node = j
      BY <1>1, <1>6, <2>1 DEF Links, Live
    <2>3. ASSUME NEW k \in 1 .. Len(patches), patches[k].node = j
          PROVE  k \in 1 .. Len(patches') /\ patches'[k].node = j
      <3>1. k <= undo.patches
        BY <1>10, <1>12, <2>3
      <3>. QED
        BY <1>3, <1>9, <2>3, <3>1
    <2>. QED
      BY <2>2, <2>3
  <1>. QED
    BY <1>1, <1>2, <1>3, <1>4, <1>5, <1>6, <1>7, <1>8, <1>11, <1>12, RestartLinks

(***************************************************************************)
(* Every recorded patch is the site of its jump and of nothing else.       *)
(***************************************************************************)
LEMMA SitesAreOwn == TypeOK /\ Layout /\ Links => PatchSites
  <1>. SUFFICES ASSUME TypeOK, Layout, Links, NEW k \in 1 .. Len(patches)
                PROVE  /\ patches[k].node < cursor
                       /\ text[patches[k].node].at = patches[k].inst
                       /\ \A n \in 1 .. cursor - 1 :
                            prog[n].op # "label" /\ text[n].at = patches[k].inst
                              => n = patches[k].node
    BY DEF PatchSites
  <1>1. Live
    <2>1. patches # <<>>
      BY PatchTypes
    <2>. QED
      BY <2>1 DEF Links
  <1>2. /\ patches[k].node < cursor /\ text[patches[k].node].at = patches[k].inst
        /\ patches[k].node \in Jumps /\ prog[patches[k].node].op # "label"
    BY <1>1, PatchTypes DEF Links, Jumps
  <1>3. /\ Nodes = 1 .. Len(prog) /\ Len(prog) \in Nat /\ cursor \in 1 .. Len(prog) + 1
        /\ patches[k].node \in 1 .. cursor - 1
    BY <1>2, NodeFacts DEF TypeOK
  <1>4. \A n \in Nodes : text[n].at \in Nat
    <2>1. \A e \in Entry : e.at \in Nat
      BY DEF Entry
    <2>. QED
      BY <2>1 DEF TypeOK
  <1>5. ASSUME NEW n \in 1 .. cursor - 1, prog[n].op # "label", text[n].at = patches[k].inst
        PROVE  n = patches[k].node
    <2>1. CASE n < patches[k].node
      <3>1. patches[k].node \in n + 1 .. cursor - 1
        BY <1>3, <2>1
      <3>2. text[n].at < text[patches[k].node].at
        BY <1>1, <1>5, <3>1 DEF Layout
      <3>. QED
        BY <1>2, <1>3, <1>4, <1>5, <3>2
    <2>2. CASE patches[k].node < n
      <3>1. n \in patches[k].node + 1 .. cursor - 1
        BY <1>3, <2>2
      <3>2. text[patches[k].node].at < text[n].at
        BY <1>1, <1>2, <1>3, <3>1 DEF Layout
      <3>. QED
        BY <1>2, <1>3, <1>4, <1>5, <3>2
    <2>. QED
      BY <1>3, <2>1, <2>2
  <1>. QED
    BY <1>2, <1>5

LEMMA PatchLinks ==
  ASSUME TypeOK, Position, Layout, Links, [Next]_vars, Patch
  PROVE  Links'
  <1>1. /\ phase = "patching" /\ phase' = phase /\ offset < Len(patches) /\ offset' = offset + 1
        /\ UNCHANGED <<cursor, function, undo, patched, patches>>
    BY DEF Patch, context, pass, marks
  <1>2. /\ prog' = prog /\ Nodes = 1 .. Len(prog) /\ Len(prog) \in Nat
        /\ Nodes' = Nodes /\ Jumps' = Jumps /\ Jumps \subseteq Nodes
        /\ \A j \in Jumps : prog[j].to \in Nodes
    BY ProgramFixed, NodeFacts
  <1>3. cursor = Len(prog) + 1
    BY <1>1 DEF Position
  <1>4. offset \in Nat /\ Len(patches) \in Nat /\ offset + 1 \in 1 .. Len(patches)
    BY <1>1, PatchTypes DEF TypeOK
  <1>5. PICK p : p = patches[offset + 1]
    OBVIOUS
  <1>6. /\ p.node \in Jumps /\ p.node \in Nodes /\ text[p.node].at = p.inst
        /\ prog[p.node].op # "label"
        /\ \A n \in Nodes : prog[n].op # "label" /\ text[n].at = p.inst => n = p.node
    <2>1. p.node \in Jumps
      BY <1>4, <1>5, PatchTypes
    <2>. QED
      BY <1>2, <1>3, <1>4, <1>5, <2>1, SitesAreOwn DEF PatchSites, Jumps
  <1>7. /\ text'[p.node].target = text[prog[p.node].to].at
        /\ \A n \in Nodes : text'[n].at = text[n].at /\ (n # p.node => text'[n] = text[n])
    <2>1. \A n \in Nodes :
             text'[n] = IF prog[n].op # "label" /\ text[n].at = p.inst
                        THEN [text[n] EXCEPT !.target = text[prog[p.node].to].at] ELSE text[n]
      BY <1>5 DEF Patch
    <2>2. \A n \in Nodes : text[n] \in Entry
      BY DEF TypeOK
    <2>3. text'[p.node].target = text[prog[p.node].to].at
      BY <1>6, <2>1, <2>2 DEF Entry
    <2>4. \A n \in Nodes : n # p.node => text'[n] = text[n]
      BY <1>6, <2>1
    <2>5. text'[p.node].at = text[p.node].at
      BY <1>6, <2>1, <2>2 DEF Entry
    <2>. QED
      BY <2>3, <2>4, <2>5
  <1>8. ASSUME NEW j \in Jumps, j < cursor
        PROVE  \/ text'[j].target = text'[prog[j].to].at
               \/ \E k \in offset' + 1 .. Len(patches) : patches[k].node = j
    <2>1. j \in Nodes /\ prog[j].to \in Nodes /\ text'[prog[j].to].at = text[prog[j].to].at
      BY <1>2, <1>7, <1>8
    <2>2. CASE j = p.node
      BY <1>7, <2>1, <2>2
    <2>3. CASE j # p.node
      <3>1. text'[j] = text[j]
        BY <1>7, <2>1, <2>3
      <3>2. \/ text[j].target = text[prog[j].to].at
            \/ \E k \in offset + 1 .. Len(patches) : patches[k].node = j
        BY <1>1, <1>8 DEF Links, Live
      <3>3. \A k \in offset + 1 .. Len(patches) :
               patches[k].node = j => k \in offset' + 1 .. Len(patches)
        BY <1>1, <1>4, <1>5, <2>3
      <3>. QED
        BY <2>1, <3>1, <3>2, <3>3
    <2>. QED
      BY <2>2, <2>3
  <1>9. \A k \in 1 .. Len(patches) :
           patches[k].node < cursor /\ text'[patches[k].node].at = patches[k].inst
    BY <1>1, <1>2, <1>7, PatchTypes DEF Links, Live
  <1>10. \A l \in patched : Linked(l)' => l < cursor
    <2>1. \A l : Linked(l)' = Linked(l)
      BY <1>2 DEF Linked
    <2>. QED
      BY <2>1 DEF Links
  <1>11. function # 0 => \A k \in 1 .. Len(patches) :
                            k <= undo.patches <=> patches[k].node < function
    BY <1>1 DEF Links, Live
  <1>. QED
    BY <1>1, <1>2, <1>8, <1>9, <1>10, <1>11 DEF Links, Live

LEMMA StepLinks ==
  ASSUME TypeOK, Position, Layout, Links, [Next]_vars
  PROVE  Links'
  <1>. USE DEF context, pass, marks, vars
  <1>1. prog' = prog /\ Nodes' = Nodes /\ Jumps' = Jumps /\ \A l : Linked(l)' = Linked(l)
    BY ProgramFixed DEF Linked
  <1>2. ASSUME NEW b \in Bases, NEW n \in Lengths, SetCode(b, n) PROVE Links'
    BY <1>1, <1>2 DEF SetCode, Links, Live
  <1>3. ASSUME NEW b \in Bases, Emit(b) PROVE Links'
    <2>1. phase = "ready" /\ phase' = "emitting" /\ UNCHANGED <<patched, patches>>
          /\ cursor' = 1 /\ function' = 0
      BY <1>3 DEF Emit, StartPass
    <2>2. patches = <<>> /\ \A l \in patched : ~Linked(l)
      BY <2>1 DEF Links, Live
    <2>3. \A j \in Jumps : ~(j < 1)
      BY NodeFacts
    <2>4. Len(patches') = 0
      BY <2>1, <2>2
    <2>. QED
      BY <1>1, <2>1, <2>2, <2>3, <2>4 DEF Links, Live
  <1>4. CASE Advance
    BY <1>4, AdvanceLinks, JumpLinks
  <1>5. CASE EmitProlog
    BY <1>5, PrologLinks
  <1>6. CASE Again
    BY <1>6, AgainLinks
  <1>7. ASSUME NoRoom
        PROVE  patches' = <<>> /\ Len(patches') = 0 /\ \A l \in patched' : ~Linked(l)
    BY <1>7 DEF NoRoom, NoRoomFlags
  <1>8. CASE Fail
    <2>1. NoRoom /\ phase' = "failed"
      BY <1>8 DEF Fail
    <2>. QED
      BY <1>1, <1>7, <2>1 DEF Links, Live
  <1>9. ASSUME NEW b \in Bases, Grow(b) PROVE Links'
    <2>1. NoRoom /\ phase = "emitting" /\ phase' = "emitting" /\ cursor' = 1 /\ function' = 0
      BY <1>9 DEF Grow, NoRoom, StartPass
    <2>2. \A j \in Jumps : ~(j < 1)
      BY NodeFacts
    <2>. QED
      BY <1>1, <1>7, <2>1, <2>2 DEF Links, Live
  <1>10. CASE EndPass
    <2>1. phase = "emitting" /\ phase' = "patching" /\ offset' = 0
          /\ UNCHANGED <<cursor, function, undo, patched, patches, text>>
      BY <1>10 DEF EndPass
    <2>2. offset = 0
      BY <2>1 DEF Position
    <2>. QED
      BY <1>1, <2>1, <2>2 DEF Links, Live
  <1>11. CASE Patch
    BY <1>11, PatchLinks
  <1>12. CASE Finish
    <2>1. phase = "patching" /\ phase' = "done"
          /\ UNCHANGED <<cursor, function, undo, patched, patches, text, offset>>
      BY <1>12 DEF Finish
    <2>. QED
      BY <1>1, <2>1 DEF Links, Live
  <1>13. CASE UNCHANGED vars
    BY <1>1, <1>13 DEF Links, Live
  <1>. QED
    BY <1>2, <1>3, <1>4, <1>5, <1>6, <1>8, <1>9, <1>10, <1>11, <1>12, <1>13
       DEF Next, Generate, Advance

-----------------------------------------------------------------------------
(***************************************************************************)
(* The invariant of jit_emit, for every program, encoding, buffer and      *)
(* growth.                                                                 *)
(***************************************************************************)
THEOREM Inductive == Spec => []IInv
  <1>1. Init => IInv
    <2>1. ASSUME Init PROVE patched = {} /\ patches = <<>> /\ ~Live
      BY <2>1 DEF Init, Live
    <2>2. Init => Room /\ Frames /\ Layout /\ Links /\ Displaced
      BY <2>1 DEF Room, Frames, Layout, Links, Displaced, Init
    <2>. QED
      BY <2>2, InitType DEF IInv
  <1>2. IInv /\ [Next]_vars => IInv'
    <2>. SUFFICES ASSUME IInv, [Next]_vars PROVE IInv'
      OBVIOUS
    <2>1. TypeOK /\ Position /\ Room /\ Frames /\ Layout /\ Links /\ Displaced
      BY DEF IInv
    <2>2. TypeOK' /\ Position'
      BY <2>1, StepType, StepPosition
    <2>3. Room' /\ Frames' /\ Layout' /\ Links' /\ Displaced'
      BY <2>1, <2>2, StepRoom, StepFrames, StepLayout, StepLinks, StepDisplaced
    <2>. QED
      BY <2>2, <2>3 DEF IInv
  <1>. QED
    BY <1>1, <1>2, PTL DEF Spec

(***************************************************************************)
(* No patch recorded by jit_patch_at survives the code it was recorded     *)
(* for, so none rewrites another instruction.                              *)
(***************************************************************************)
THEOREM PatchesCorrect == Spec => []PatchSites
  <1>1. IInv => PatchSites
    BY SitesAreOwn DEF IInv
  <1>. QED
    BY <1>1, Inductive, PTL

LEMMA DoneLinked == IInv => JumpsLinked
  <1>. SUFFICES ASSUME IInv, phase = "done", NEW j \in Jumps
                PROVE  text[j].target = text[prog[j].to].at
    BY DEF JumpsLinked
  <1>1. TypeOK /\ Position /\ Links /\ Live
    BY DEF IInv, Live
  <1>2. j < cursor
    BY <1>1, NodeFacts DEF Position
  <1>3. offset = Len(patches) /\ Len(patches) \in Nat
    BY <1>1, PatchTypes DEF Position
  <1>. QED
    BY <1>1, <1>2, <1>3 DEF Links

(***************************************************************************)
(* Every jump of the code jit_emit returns goes to its label, however many *)
(* passes and restarts preceded that code.                                 *)
(***************************************************************************)
THEOREM JumpsCorrect == Spec => []JumpsLinked
  BY DoneLinked, Inductive, PTL

-----------------------------------------------------------------------------
(***************************************************************************)
(* jit_emit keeps the safety part of its promise (module Emission): its    *)
(* steps are steps of the promise or change nothing the caller sees.  That *)
(* it returns at all is checked, not proved.                               *)
(***************************************************************************)
LEMMA PromiseStep == JumpsLinked' /\ [Next]_vars => [Promise!Next]_(Promise!emission)
  <1>. SUFFICES ASSUME JumpsLinked', [Next]_vars
                PROVE  [Promise!Next]_(Promise!emission)
    OBVIOUS
  <1>. DEFINE status == IF phase \in {"emitting", "patching"} THEN "busy" ELSE phase
              linked == IF phase = "done"
                        THEN {j \in Jumps : text[j].target = text[prog[j].to].at} ELSE {}
  <1>. USE DEF context, pass, marks, vars, Promise!Next, Promise!emission, Promise!SetCode,
               Promise!Call, Promise!ReturnNull, Promise!ReturnCode
  <1>1. prog' = prog /\ Jumps' = Jumps
    BY ProgramFixed
  <1>2. phase # "done" /\ phase' # "done" => linked = {} /\ linked' = {}
    OBVIOUS
  <1>3. ASSUME NEW b \in Bases, NEW n \in Lengths, SetCode(b, n)
        PROVE  Promise!SetCode
    BY <1>1, <1>2, <1>3 DEF SetCode
  <1>4. ASSUME NEW b \in Bases, Emit(b) PROVE Promise!Call
    BY <1>1, <1>2, <1>4 DEF Emit
  <1>5. ASSUME phase \in {"emitting", "patching"}, phase' \in {"emitting", "patching"},
               UNCHANGED user
        PROVE  UNCHANGED Promise!emission
    BY <1>1, <1>2, <1>5
  <1>6. CASE Advance
    BY <1>5, <1>6 DEF Advance, EmitLabel, EmitInsn, EmitJump, EmitEpilog, At
  <1>7. CASE EmitProlog \/ Again
    BY <1>5, <1>7 DEF EmitProlog, Again, At
  <1>8. CASE Fail
    BY <1>1, <1>2, <1>8 DEF Fail, NoRoom
  <1>9. ASSUME NEW b \in Bases, Grow(b) PROVE UNCHANGED Promise!emission
    BY <1>5, <1>9 DEF Grow, NoRoom
  <1>10. CASE EndPass \/ Patch
    BY <1>5, <1>10 DEF EndPass, Patch
  <1>11. CASE Finish
    <2>1. phase = "patching" /\ phase' = "done" /\ UNCHANGED <<user, text>>
      BY <1>11 DEF Finish
    <2>2. linked' = Jumps
      BY <1>1, <2>1 DEF JumpsLinked
    <2>. QED
      BY <1>1, <2>1, <2>2
  <1>12. CASE UNCHANGED vars
    BY <1>1, <1>12
  <1>. QED
    BY <1>3, <1>4, <1>6, <1>7, <1>8, <1>9, <1>10, <1>11, <1>12 DEF Next, Generate, Advance

THEOREM PromiseKept == Spec => Promise!Safety
  <1>1. Init => Promise!Init
    <2>. SUFFICES ASSUME Init PROVE Promise!Init
      OBVIOUS
    <2>1. Jumps \subseteq Nat
      BY InitType, NodeFacts
    <2>. QED
      BY <2>1 DEF Init, Promise!Init
  <1>2. JumpsLinked' /\ [Next]_vars => [Promise!Next]_(Promise!emission)
    BY PromiseStep
  <1>. QED
    BY <1>1, <1>2, JumpsCorrect, PTL DEF Spec, Promise!Safety
=============================================================================
