------------------------------ MODULE EmitCode ------------------------------
(***************************************************************************)
(* Code generation: jit_emit of lightning.c and the loop of emit_code of   *)
(* jit_x86.c that it calls until the code fits its buffer.                 *)
(*                                                                         *)
(* One pass walks the list of nodes and writes one instruction per node.   *)
(* Three things send it back.  A function whose epilog is reached with the *)
(* flag `again` up needed a frame, a callee save register or a spill slot  *)
(* its prolog had not provided for: the pass returns to that prolog.  A    *)
(* node reached without room left ends the pass: the library's own buffer  *)
(* grows and the pass starts over, a caller's buffer makes jit_emit return *)
(* NULL, and the caller may offer another one.  Only the last visit to     *)
(* each node counts, and what earlier visits left in the nodes, in the     *)
(* patch vector and in the functions has to be forgotten or kept with care.*)
(*                                                                         *)
(* Addresses are in bytes, frame sizes in machine words.                   *)
(***************************************************************************)
EXTENDS Integers, Sequences, FiniteSets

CONSTANTS
  Programs,      \* the node lists jit_realize leaves, sequences of records
  Resources,     \* what an instruction may need of its function
  Saved,         \* the resources that are callee save registers
  Bases,         \* addresses a code buffer may be placed at
  Lengths,       \* lengths a code buffer may have
  Growth,        \* bytes added to the library's own buffer (4096)
  MaxInstr,      \* jit_get_max_instr
  Word,          \* sizeof(jit_word_t), the alignment of jump targets
  StackFrame,    \* stack_framesize, in words
  Size(_, _, _), \* bytes of a node, given what its function has and whether
                 \* its target is known
  Unlinked       \* the placeholder target of a jump to an unknown address

Targets == {"label", "epilog"}

Node == [op : {"prolog", "epilog", "label", "jump", "arg", "insn"},
         fn : Nat, to : Nat, has : SUBSET Resources, uses : SUBSET Resources]

(***************************************************************************)
(* The node before i closes a function, or i is the first node.            *)
(***************************************************************************)
Outside(p, i) == i = 1 \/ p[i - 1].op = "epilog" \/ p[i - 1].fn = 0

(***************************************************************************)
(* A node list as jit_prolog, jit_epilog, jit_patch_at and jit_realize     *)
(* build it.  fn is the index of the prolog of the enclosing function, 0   *)
(* outside functions; to is the target of a jump; has is what jit_arg, the *)
(* optimizer and the call instructions have already asked of the function; *)
(* uses is what the generation of the node itself asks.                    *)
(***************************************************************************)
WellFormed(p) ==
  /\ p \in Seq(Node) /\ p # <<>>
  /\ \A i \in 1 .. Len(p) :
       /\ p[i].op = "jump" => p[i].to \in 1 .. Len(p) /\ p[p[i].to].op \in Targets
       /\ p[i].op = "prolog" => p[i].fn = i
       /\ p[i].op \in {"epilog", "arg"} => p[i].fn # 0
       /\ p[i].op \in Targets => p[i].uses = {}
       /\ p[i].uses # {} => p[i].fn # 0
       /\ p[i].op = "prolog" \/ p[i].fn = 0 => Outside(p, i)
       /\ p[i].fn # 0 =>
            /\ p[i].fn \in 1 .. i /\ p[p[i].fn].op = "prolog"
            /\ \A n \in p[i].fn .. i - 1 : p[n].fn = p[i].fn /\ p[n].op # "epilog"
  /\ p[Len(p)].op = "epilog" \/ p[Len(p)].fn = 0

ASSUME ProgramsAssumption == \A p \in Programs : WellFormed(p)

ASSUME LayoutAssumption ==
  /\ Growth \in Nat \ {0} /\ Word \in Nat \ {0} /\ MaxInstr \in Nat /\ MaxInstr >= Word
  /\ Lengths \subseteq Nat /\ Bases \subseteq Nat
  /\ StackFrame \in Nat /\ Saved \subseteq Resources /\ IsFiniteSet(Resources)
  /\ Unlinked \notin Nat

(***************************************************************************)
(* jit_get_max_instr bounds what one node may write, padding included.     *)
(***************************************************************************)
ASSUME SizeAssumption ==
  \A p \in Programs : \A i \in 1 .. Len(p) : \A h \in SUBSET Resources : \A k \in BOOLEAN :
     Size(p[i], h, k) \in 1 .. (MaxInstr - Word + 1)

-----------------------------------------------------------------------------

VARIABLES
  prog,      \* the node list
  phase,     \* where jit_emit is: "ready", "emitting", "patching", "failed", "done"
  user,      \* _jit->user_code: the buffer belongs to the caller
  base,      \* _jit->code.ptr
  length,    \* _jit->code.length
  cursor,    \* index of the node the pass has reached
  pc,        \* _jit->pc
  function,  \* _jitc->function, as the index of its prolog, 0 for NULL
  again,     \* _jitc->again
  undo,      \* the undo record of emit_code
  framesize, \* _jitc->framesize
  have,      \* need_frame, regset and regoff of each function
  disp,      \* the displacements patch_alist adjusts, in the argument nodes
  patched,   \* the nodes with jit_flag_patch
  patches,   \* the vector _jitc->patches
  offset,    \* how many patches have been applied
  text,      \* the last instruction written for each node
  retried    \* history: a pass that had met a prolog ran out of room

context == <<prog, user, base, length>>
pass    == <<cursor, pc, function, again, undo, framesize>>
marks   == <<have, disp, patched, patches>>
vars    == <<context, phase, pass, marks, offset, text, retried>>

Nodes     == DOMAIN prog
Jumps     == {j \in Nodes : prog[j].op = "jump"}
Prologs   == {i \in Nodes : prog[i].op = "prolog"}
Linked(l) == \E j \in Jumps : prog[j].to = l
Arguments(f) == {a \in Nodes : prog[a].op = "arg" /\ prog[a].fn = f}

\* What `text` keeps of an instruction: its address, the address it goes to, and
\* of its function what the prolog or epilog saved and the displacement used.
Entry      == [at : Nat, target : Nat \cup {Unlinked}, have : SUBSET Resources, disp : Int]
PatchEntry == [inst : Nat, node : Jumps]

NoUndo == [node |-> 0, word |-> 0, patches |-> 0]
Blank  == [at |-> 0, target |-> Unlinked, have |-> {}, disp |-> 0]

(***************************************************************************)
(* compute_framesize: the return slot and the saved registers, rounded to  *)
(* an even number of words, and one word to keep the stack aligned.        *)
(***************************************************************************)
FrameOf(h) == LET w == 1 + Cardinality(h \cap Saved) IN w + (w % 2) + 1

(***************************************************************************)
(* jit_diffsize: how far a frame is from the largest one, which the        *)
(* displacements of the stack arguments assume.                            *)
(***************************************************************************)
DiffOf(fs) == StackFrame - fs

Shift(f, d) == [a \in Nodes |-> IF a \in Arguments(f) THEN disp[a] - d ELSE disp[a]]

(***************************************************************************)
(* The bytes of nop that align a label something jumps to.                 *)
(***************************************************************************)
Padding(l) == IF Linked(l) THEN (Word - (pc % Word)) % Word ELSE 0

(***************************************************************************)
(* A jump whose target has been met is shorter than one to be patched.     *)
(***************************************************************************)
Known(i)    == prog[i].op = "jump" /\ prog[i].to \in patched
Bytes(i, h) == Size(prog[i], h, Known(i))

(***************************************************************************)
(* _jitc->code.end: a node may begin below it.  (The definitions named     *)
(* Bug... are mistakes the properties below detect; nothing uses them.)    *)
(***************************************************************************)
BugNoMargin == base + length
CodeEnd     == base + length - MaxInstr
Here   == prog[cursor]
At(op) == phase = "emitting" /\ cursor \in Nodes /\ pc < CodeEnd /\ Here.op = op

(***************************************************************************)
(* jit_check_frame, jit_get_reg and CHECK_CVT_OFFSET: what the function    *)
(* lacks is added to it and raises `again`.                                *)
(***************************************************************************)
BugOnlySaved(uses, h) == \E r \in uses \cap Saved : r \notin h
BugAlways(uses, h)    == uses # {}
Lacks(uses, h)        == \E r \in uses : r \notin h

Acquire(f, uses) ==
  have' = [g \in DOMAIN have |-> IF g = f THEN have[g] \cup uses ELSE have[g]]

Write(i, at, target, h, d) ==
  text' = [text EXCEPT ![i] = [at |-> at, target |-> target, have |-> h, disp |-> d]]

-----------------------------------------------------------------------------

Init ==
  /\ prog \in Programs
  /\ phase = "ready" /\ user = FALSE
  /\ base = 0 /\ length \in Lengths
  /\ cursor = 1 /\ pc = 0 /\ function = 0 /\ again = FALSE
  /\ undo = NoUndo /\ framesize = 0
  /\ have = [i \in Nodes |-> prog[i].has]
  /\ disp = [i \in Nodes |-> 0]
  /\ patched = {} /\ patches = <<>> /\ offset = 0
  /\ text = [i \in Nodes |-> Blank]
  /\ retried = FALSE

(***************************************************************************)
(* A pass over the list starts at the buffer's first byte, outside any     *)
(* function.                                                               *)
(***************************************************************************)
StartPass(b) ==
  /\ cursor' = 1 /\ pc' = b /\ function' = 0 /\ undo' = NoUndo
  /\ UNCHANGED <<again, framesize>>

(***************************************************************************)
(* jit_set_code, before jit_emit or after it returned NULL: each time with a *)
(* longer buffer, as the documented loop does (which bounds the retries).  *)
(***************************************************************************)
SetCode(b, n) ==
  /\ phase \in {"ready", "failed"}
  /\ user => n > length
  /\ phase' = "ready"
  /\ user' = TRUE /\ base' = b /\ length' = n
  /\ UNCHANGED <<prog, pass, marks, offset, text, retried>>

(***************************************************************************)
(* jit_emit is called: without a caller's buffer the library maps one.     *)
(***************************************************************************)
Emit(b) ==
  /\ phase = "ready"
  /\ user => b = base
  /\ phase' = "emitting" /\ base' = b
  /\ StartPass(b)
  /\ UNCHANGED <<prog, user, length, marks, offset, text, retried>>

(***************************************************************************)
(* A label is aligned if it is linked, and its address is known from here. *)
(***************************************************************************)
EmitLabel ==
  /\ At("label")
  /\ LET at == pc + Padding(cursor) IN
       /\ Write(cursor, at, Unlinked, {}, 0)
       /\ pc' = at
  /\ patched' = patched \cup {cursor}
  /\ cursor' = cursor + 1
  /\ UNCHANGED <<context, phase, function, again, undo, framesize, have, disp,
                 patches, offset, retried>>

(***************************************************************************)
(* An instruction that is neither a jump to a label nor the load of a      *)
(* stack argument, and the load or store of a stack argument, which uses   *)
(* the displacement its node has now.                                      *)
(***************************************************************************)
EmitInsn ==
  /\ At("insn") \/ At("arg")
  /\ Write(cursor, pc, Unlinked, {}, disp[cursor])
  /\ pc' = pc + Bytes(cursor, {})
  /\ Acquire(function, Here.uses)
  /\ again' = (again \/ Lacks(Here.uses, have[function]))
  /\ cursor' = cursor + 1
  /\ UNCHANGED <<context, phase, function, undo, framesize, disp, patched, patches,
                 offset, retried>>

(***************************************************************************)
(* A branch, jmpi, calli or movi of a label: written with its target when  *)
(* the label has been met, with a placeholder and a patch when not.        *)
(***************************************************************************)
EmitJump ==
  /\ At("jump")
  /\ LET known == Known(cursor) IN
       /\ Write(cursor, pc, IF known THEN text[Here.to].at ELSE Unlinked, {}, 0)
       /\ patches' = IF known THEN patches
                     ELSE Append(patches, [inst |-> pc, node |-> cursor])
       /\ pc' = pc + Bytes(cursor, {})
  /\ Acquire(function, Here.uses)
  /\ again' = (again \/ Lacks(Here.uses, have[function]))
  /\ cursor' = cursor + 1
  /\ UNCHANGED <<context, phase, function, undo, framesize, disp, patched, offset, retried>>

(***************************************************************************)
(* What the prolog records, and what `again` and a pass without room make  *)
(* of it: the labels whose address is unknown again, the patches kept, the *)
(* displacement reverted.                                                  *)
(***************************************************************************)
BugUndoAtNext(i) == [node |-> i, word |-> pc, patches |-> Len(patches) + 1]
UndoAt(i)        == [node |-> i, word |-> pc, patches |-> Len(patches)]

BugKeepFlags == patched
AgainFlags   == patched \ (undo.node + 1 .. cursor)

BugKeepPatches == patches
AgainPatches   == SubSeq(patches, 1, undo.patches)

BugKeepShift == 0
AgainShift   == DiffOf(framesize)

BugKeepLinked == patched
NoRoomFlags   == {l \in patched : ~Linked(l)}

(***************************************************************************)
(* The label restart_function of the prolog case: frame size, stack        *)
(* arguments, `again` and the prolog itself, written at address a.         *)
(***************************************************************************)
RestartFunction(f, a, revert) ==
  /\ framesize' = FrameOf(have[f])
  /\ disp' = Shift(f, DiffOf(FrameOf(have[f])) - revert)
  /\ Write(f, a, Unlinked, have[f], 0)
  /\ pc' = a + Bytes(f, have[f])
  /\ Acquire(f, prog[f].uses)
  /\ again' = Lacks(prog[f].uses, have[f])
  /\ cursor' = f + 1

EmitProlog ==
  /\ At("prolog")
  /\ function' = cursor
  /\ undo' = UndoAt(cursor)
  /\ RestartFunction(cursor, pc, 0)
  /\ UNCHANGED <<context, phase, patched, patches, offset, retried>>

(***************************************************************************)
(* The epilog of a function that asked for nothing new.                    *)
(***************************************************************************)
EmitEpilog ==
  /\ At("epilog") /\ ~again
  /\ LET at == pc + Padding(cursor) IN
       /\ Write(cursor, at, Unlinked, have[function], 0)
       /\ pc' = at + Bytes(cursor, have[function])
  /\ patched' = patched \cup {cursor}
  /\ function' = 0 /\ cursor' = cursor + 1
  /\ UNCHANGED <<context, phase, again, undo, framesize, have, disp, patches, offset,
                 retried>>

(***************************************************************************)
(* The epilog of a function to generate again: its labels become unknown,  *)
(* its patches and its code are dropped, the displacements of its stack    *)
(* arguments are reverted, and the pass continues after its prolog.        *)
(***************************************************************************)
Again ==
  /\ At("epilog") /\ again
  /\ patched' = AgainFlags
  /\ patches' = AgainPatches
  /\ RestartFunction(undo.node, undo.word, AgainShift)
  /\ UNCHANGED <<context, phase, function, undo, offset, retried>>

(***************************************************************************)
(* A node without room: emit_code returns NULL and jit_emit forgets the    *)
(* patches and the addresses of the labels it linked something to.  The    *)
(* caller is told if the buffer is the caller's, or the buffer grows, may  *)
(* move, and another pass begins.                                          *)
(***************************************************************************)
NoRoom ==
  /\ phase = "emitting" /\ cursor \in Nodes /\ pc >= CodeEnd
  /\ patches' = <<>>
  /\ patched' = NoRoomFlags
  /\ retried' = (retried \/ \E f \in Prologs : f < cursor)
  /\ UNCHANGED <<prog, user, have, disp, offset, text>>

Fail ==
  /\ NoRoom /\ user
  /\ phase' = "failed"
  /\ UNCHANGED <<base, length, pass>>

Grow(b) ==
  /\ NoRoom /\ ~user
  /\ base' = b /\ length' = length + Growth
  /\ StartPass(b)
  /\ UNCHANGED phase

(***************************************************************************)
(* The list is finished: the patches are applied, oldest first.  A patch   *)
(* rewrites whatever instruction is at its address.                        *)
(***************************************************************************)
EndPass ==
  /\ phase = "emitting" /\ cursor \notin Nodes
  /\ phase' = "patching" /\ offset' = 0
  /\ UNCHANGED <<context, pass, marks, text, retried>>

Patch ==
  /\ phase = "patching" /\ offset < Len(patches)
  /\ LET p == patches[offset + 1] IN
       text' = [n \in Nodes |->
                  IF prog[n].op # "label" /\ text[n].at = p.inst
                  THEN [text[n] EXCEPT !.target = text[prog[p.node].to].at]
                  ELSE text[n]]
  /\ offset' = offset + 1
  /\ UNCHANGED <<context, phase, pass, marks, retried>>

Finish ==
  /\ phase = "patching" /\ offset = Len(patches)
  /\ phase' = "done"
  /\ UNCHANGED <<context, pass, marks, offset, text, retried>>

Generate ==
  \/ EmitLabel \/ EmitInsn \/ EmitJump \/ EmitProlog \/ EmitEpilog \/ Again
  \/ Fail \/ (\E b \in Bases : Grow(b))
  \/ EndPass \/ Patch \/ Finish

Next ==
  \/ \E b \in Bases, n \in Lengths : SetCode(b, n)
  \/ \E b \in Bases : Emit(b)
  \/ Generate

Spec == Init /\ [][Next]_vars

(***************************************************************************)
(* jit_emit is a sequential function: once called it runs to its return.   *)
(* The caller owes nothing.                                                *)
(***************************************************************************)
FairSpec == Spec /\ WF_vars(Generate)
-----------------------------------------------------------------------------

(***************************************************************************)
(* The type invariant.  The patches an `again` would keep are a prefix of  *)
(* the vector.                                                             *)
(***************************************************************************)
TypeOK ==
  /\ prog \in Programs
  /\ phase \in {"ready", "emitting", "patching", "failed", "done"}
  /\ user \in BOOLEAN /\ again \in BOOLEAN /\ retried \in BOOLEAN
  /\ base \in Nat /\ length \in Nat /\ pc \in Nat
  /\ cursor \in 1 .. Len(prog) + 1
  /\ function \in Prologs \cup {0}
  /\ undo \in [node : Prologs \cup {0}, word : Nat, patches : Nat]
  /\ framesize \in Nat
  /\ have \in [Nodes -> SUBSET Resources]
  /\ disp \in [Nodes -> Int]
  /\ patched \subseteq Nodes
  /\ patches \in Seq(PatchEntry)
  /\ phase = "emitting" /\ function # 0 => undo.patches \in 0 .. Len(patches)
  /\ offset \in 0 .. Len(patches)
  /\ text \in [Nodes -> Entry]

(***************************************************************************)
(* No byte is written past the buffer: the check made before each node     *)
(* covers the node, and it covers the prolog that a function generated     *)
(* again starts with, for which no check is made.                          *)
(***************************************************************************)
NoOverrun == phase \in {"emitting", "patching", "done"} => pc <= base + length

(***************************************************************************)
(* Every recorded patch is the address of the jump it was recorded for, as *)
(* written by this pass, and of no other instruction: a patch left from    *)
(* code that was dropped would rewrite what took its place.                *)
(***************************************************************************)
PatchSites ==
  \A k \in 1 .. Len(patches) : LET p == patches[k] IN
     /\ p.node < cursor /\ text[p.node].at = p.inst
     /\ \A n \in 1 .. cursor - 1 :
          prog[n].op # "label" /\ text[n].at = p.inst => n = p.node

(***************************************************************************)
(* The code jit_emit returns has every jump going to the address its label *)
(* has in that code, however many passes and restarts preceded it.         *)
(***************************************************************************)
JumpsLinked ==
  phase = "done" => \A j \in Jumps : text[j].target = text[prog[j].to].at

(***************************************************************************)
(* In the code jit_emit returns, each epilog undoes exactly what the       *)
(* prolog of its function did, and the prolog provided for everything the  *)
(* instructions of the function rely on.                                   *)
(***************************************************************************)
Provided(i) ==
  /\ prog[i].uses \subseteq text[prog[i].fn].have
  /\ prog[i].op = "epilog" => text[i].have = text[prog[i].fn].have

FramesAgree == phase = "done" => \A i \in Nodes : prog[i].fn # 0 => Provided(i)

(***************************************************************************)
(* A load of a stack argument is displaced for the frame its function      *)
(* finally has.                                                            *)
(***************************************************************************)
ArgumentsInFrame ==
  phase = "done" =>
    \A f \in Prologs : \A a \in Arguments(f) :
      text[a].disp = -DiffOf(FrameOf(text[f].have))

(***************************************************************************)
(* The same when no pass has run out of room after a prolog: patch_alist   *)
(* is reverted by `again` but not by a pass that fails.                    *)
(***************************************************************************)
ArgumentsInFrameIfFits == ~retried => ArgumentsInFrame

(***************************************************************************)
(* A function is generated again only if it has gained something since its *)
(* prolog was last written, so it is not generated again for ever.         *)
(***************************************************************************)
AgainOnlyIfStale == [][Again => have[undo.node] # text[undo.node].have]_vars

Promise == INSTANCE Emission WITH
  Jump   <- Nat,
  jumps  <- Jumps,
  status <- IF phase \in {"emitting", "patching"} THEN "busy" ELSE phase,
  linked <- IF phase = "done"
            THEN {j \in Jumps : text[j].target = text[prog[j].to].at} ELSE {}

(***************************************************************************)
(* jit_emit keeps the promise of module Emission: it returns, it returns   *)
(* NULL only for a caller's buffer, and its code is linked.                *)
(***************************************************************************)
KeepsPromise == Promise!Spec

-----------------------------------------------------------------------------
(***************************************************************************)
(* The inductive invariant the proofs rest on.  It speaks of the nodes the *)
(* current pass has generated: those before the cursor.                    *)
(***************************************************************************)
Live == phase \in {"emitting", "patching", "done"}

(***************************************************************************)
(* _jitc->function is the function the cursor is in, and undo is its.      *)
(***************************************************************************)
Position ==
  /\ phase \notin {"patching", "done"} => offset = 0
  /\ phase = "done" => offset = Len(patches)
  /\ phase \in {"patching", "done"} => cursor = Len(prog) + 1
  /\ Live => function = IF Outside(prog, cursor) THEN 0 ELSE prog[cursor - 1].fn
  /\ Live /\ function # 0 => undo.node = function

(***************************************************************************)
(* There was room for the prolog `again` returns to.                       *)
(***************************************************************************)
Room ==
  Live => /\ pc <= base + length
          /\ function # 0 => undo.word < CodeEnd

(***************************************************************************)
(* `again` tells whether the current function has more than its prolog     *)
(* provided for; every finished function has exactly that.                 *)
(***************************************************************************)
Frames ==
  Live =>
    /\ function # 0 =>
         /\ text[function].have \subseteq have[function]
         /\ again = (text[function].have # have[function])
         /\ \A n \in function .. cursor - 1 : prog[n].uses \subseteq have[function]
    /\ \A i \in 1 .. cursor - 1 :
         prog[i].fn # 0 /\ prog[i].fn # function => Provided(i)

(***************************************************************************)
(* Instructions follow each other in the buffer, so no two share a site.   *)
(***************************************************************************)
Layout ==
  Live =>
    /\ \A m \in 1 .. cursor - 1 : prog[m].op # "label" =>
         /\ text[m].at < pc
         /\ \A n \in m + 1 .. cursor - 1 : text[m].at < text[n].at
    /\ function # 0 => text[function].at = undo.word

(***************************************************************************)
(* Only labels this pass has met are known; every jump it has generated    *)
(* goes back to such a label or waits for a patch; the patches `again`     *)
(* would drop are those of the current function.                           *)
(***************************************************************************)
Links ==
  /\ \A l \in patched : Linked(l) => Live /\ l < cursor
  /\ ~Live => patches = <<>>
  /\ Live =>
       /\ \A k \in 1 .. Len(patches) :
            patches[k].node < cursor /\ text[patches[k].node].at = patches[k].inst
       /\ \A j \in Jumps : j < cursor =>
            \/ /\ text[j].target = text[prog[j].to].at
               /\ prog[j].to < j \/ phase # "emitting"
            \/ \E k \in offset + 1 .. Len(patches) : patches[k].node = j
       /\ function # 0 => \A k \in 1 .. Len(patches) :
            k <= undo.patches <=> patches[k].node < function

(***************************************************************************)
(* Until a pass fails behind a prolog, the displacement of an argument is  *)
(* that of the frame its prolog has written, and 0 in front of it.         *)
(***************************************************************************)
Displaced ==
  /\ Live /\ function # 0 => framesize = FrameOf(text[function].have)
  /\ ~retried => \A a \in Nodes : prog[a].op = "arg" =>
       IF Live /\ prog[a].fn < cursor
       THEN /\ disp[a] = -DiffOf(FrameOf(text[prog[a].fn].have))
            /\ a < cursor => text[a].disp = disp[a]
       ELSE disp[a] = 0

IInv == TypeOK /\ Position /\ Room /\ Frames /\ Layout /\ Links /\ Displaced
=============================================================================
