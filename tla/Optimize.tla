------------------------------ MODULE Optimize ------------------------------
(***************************************************************************)
(* jit_optimize behind its passes over jumps (see Jumps): live registers,  *)
(* then redundant instructions, then live registers again if there were    *)
(* any; and, while code is generated, the registers lent to each node.     *)
(***************************************************************************)
EXTENDS Simplify, Lending

CONSTANTS
  Programs, \* node lists, as the passes over jumps leave them
  Fuel      \* bound: instructions executed by the reference

VARIABLES
  phase,    \* where jit_optimize or emit_code is
  node,     \* the node of the loop, or the block of do_follow
  always,   \* the parameter of do_follow
  todo,     \* jit_optimize: instructions were removed; check_block_again: so far
  block,    \* check_block_again: the block of the node
  stage,    \* emit_code: about to begin a node, within it, or behind it
  asked,    \* requests of the node that were served
  needed    \* pairs of a node and a register needed there (history)

passVars == <<phase, node, always, todo, block, stage, asked, needed>>
vars == <<code, source, liveVars, valueVars, lendVars, passVars>>

(***************************************************************************)
(* A node list as split_branches leaves it: the operands of an instruction *)
(* are registers; a jump or a call is the last node of its block, a jump   *)
(* to a label leads to the head of a block, and no code falls into a       *)
(* prolog.  What an instruction asks for by name (allocr: %rax, %rcx,      *)
(* %rdx) is caller-save; %rbx is only asked for when nothing can be lent.  *)
(* Only instructions of a function ask: outside of one jit_get_reg may not *)
(* save a register or lend a callee-save one (_jitc->function is NULL), and*)
(* no block notes what is live there.  A node that is gone stands for one  *)
(* that the passes leave alone, such as a note.                            *)
(***************************************************************************)
Operations == Heads \cup Jumps \cup {"gone", "movi", "movr", "movnr", "ldxi", "ldxai", "stxi",
                                     "str", "addr", "casr"}
Requests == [named : (Reg \ Saved) \cup {None}, nospill : BOOLEAN]
Instruction == [op : Operations, u : Reg \cup {None}, v : Reg \cup {None}, w : Reg \cup {None},
                x : Reg \cup {None}, k : Word, to : Nat, ask : Seq(Requests)]

WellFormed(p) ==
  /\ p \in Seq(Instruction)
  /\ \A i \in 1 .. Len(p) :
       /\ Operands(p[i]) \subseteq Reg
       /\ p[i].op \in Jumps => i < Len(p) /\ p[i + 1].op \in Heads
       /\ p[i].op \in ToLabel \/ p[i].to # None =>
            p[i].to \in 1 .. Len(p) /\ p[p[i].to].op \in Heads
       /\ p[i].op = "prolog" => i = 1 \/ p[i - 1].op \in {"jmpi", "jmpr", "epilog"}
       /\ p[i].ask # <<>> => \E b \in 1 .. i - 1 : /\ p[b].op \in Heads \ {"epilog"}
                                                   /\ \A h \in b + 1 .. i : p[h].op \notin Heads
       /\ p[i].ask # <<>> => \E b \in 1 .. i - 1 : /\ p[b].op = "prolog"
                                                   /\ \A h \in b + 1 .. i : p[h].op # "epilog"

ASSUME ProgramsAssumption == Fuel \in Nat /\ \A p \in Programs : WellFormed(p)

Init ==
  /\ code \in Programs /\ source = code
  /\ reglive = [b \in Blocks |-> {}] /\ regmask = [b \in Blocks |-> {}]
  /\ again = {} /\ falls = {}
  /\ values = NoValues /\ gen = NoGen
  /\ live = {} /\ mask = {} /\ arg = {} /\ sav = {} /\ lent = <<>>
  /\ slot = [r \in Reg |-> "none"] /\ holds = [r \in Reg |-> "own"] /\ regset = [b \in Blocks |-> {}]
  /\ phase = "setup" /\ node = 1 /\ always = TRUE /\ todo = FALSE /\ block = None
  /\ stage = "begin" /\ asked = 0 /\ needed = {}

-----------------------------------------------------------------------------
(***************************************************************************)
(* Loops over the list, or over the blocks, by what they act on: the first *)
(* node of a set from a place on, or the end of the list.                  *)
(***************************************************************************)
End == Len(code) + 1
From(i, S) == Min({j \in S : j >= i} \cup {End})

Branches == {i \in Nodes : code[i].op = "beqi"}
Ends     == Blocks \cup {i \in Nodes : code[i].op \in ToLabel}
Followed == {b \in Blocks : ~AtEpilog(b)}

(***************************************************************************)
(* do_setup; do_follow over the blocks in their order; and, the first time,*)
(* the pass that flags labels.                                             *)
(***************************************************************************)
SetupBlocks ==
  /\ phase = "setup" /\ Setup
  /\ phase' = "follow" /\ node' = From(1, Followed)
  /\ UNCHANGED <<code, source, valueVars, lendVars, always, todo, block, stage, asked, needed>>

FollowBlock ==
  /\ phase = "follow" /\ node # End
  /\ IF always \/ node \in again THEN Follow(node) ELSE UNCHANGED liveVars
  /\ node' = From(node + 1, Followed)
  /\ UNCHANGED <<code, source, valueVars, lendVars, phase, always, todo, block, stage, asked, needed>>

Heading ==
  /\ phase = "follow" /\ node = End /\ always
  /\ MarkHeads
  /\ phase' = "simplify" /\ node' = 1
  /\ UNCHANGED <<code, source, valueVars, lendVars, always, todo, block, stage, asked, needed>>

(***************************************************************************)
(* simplify, then redundant_store at each beqi; a second setup if they     *)
(* removed anything.                                                       *)
(***************************************************************************)
SimplifyNode ==
  /\ phase = "simplify" /\ node # End
  /\ \/ Removal(node) /\ todo' = TRUE
     \/ Keeping(node) /\ UNCHANGED todo
  /\ node' = node + 1
  /\ UNCHANGED <<source, liveVars, lendVars, phase, always, block, stage, asked, needed>>

StartStores ==
  /\ phase = "simplify" /\ node = End
  /\ phase' = "stores" /\ node' = From(1, Branches)
  /\ UNCHANGED <<code, source, liveVars, valueVars, lendVars, always, todo, block, stage, asked, needed>>

DropStores ==
  /\ phase = "stores" /\ node # End
  /\ RedundantStore(node, falls)
  /\ again' = again \cup {code[node].to} /\ todo' = TRUE
  /\ node' = From(node + 1, Branches)
  /\ UNCHANGED <<source, reglive, regmask, falls, valueVars, lendVars, phase, always, block,
                 stage, asked, needed>>

KeepStores ==
  /\ phase = "stores" /\ node # End
  /\ ~SingleSource(node, falls) \/ Redundant(node) = {}
  /\ node' = From(node + 1, Branches)
  /\ UNCHANGED <<code, source, liveVars, valueVars, lendVars, phase, always, todo, block,
                 stage, asked, needed>>

EndStores ==
  /\ phase = "stores" /\ node = End
  /\ IF todo THEN phase' = "setup" /\ node' = 1 ELSE phase' = "check" /\ node' = From(1, Ends)
  /\ always' = FALSE /\ todo' = FALSE /\ block' = None
  /\ UNCHANGED <<code, source, liveVars, valueVars, lendVars, stage, asked, needed>>

EndFollow ==
  /\ phase = "follow" /\ node = End /\ ~always
  /\ phase' = "check" /\ node' = From(1, Ends) /\ block' = None
  /\ UNCHANGED <<code, source, liveVars, valueVars, lendVars, always, todo, stage, asked, needed>>

(***************************************************************************)
(* check_block_again: while a block changed, and a block that leads to it  *)
(* gains from that, look again at all of them.                             *)
(***************************************************************************)
Leading == IF node \in Blocks /\ node \notin falls THEN None ELSE block
Target  == IF node \in Blocks THEN node ELSE code[node].to
Updates == Leading # None /\ Target # None /\ Target \in again /\ Grows(Leading, Target)

Visit ==
  /\ phase = "check" /\ node # End /\ again # {}
  /\ block' = IF node \in Blocks THEN node ELSE block
  /\ node' = From(node + 1, Ends)
  /\ UNCHANGED <<code, source, valueVars, lendVars, phase, always, stage, asked, needed>>

VisitUpdates == Visit /\ Updates /\ UpdateBlock(Leading, Target) /\ todo' = TRUE
VisitKeeps   == Visit /\ ~Updates /\ UNCHANGED <<liveVars, todo>>

CheckAgain ==
  /\ phase = "check" /\ node = End /\ todo
  /\ node' = From(1, Ends) /\ block' = None /\ todo' = FALSE
  /\ UNCHANGED <<code, source, liveVars, valueVars, lendVars, phase, always, stage, asked, needed>>

(***************************************************************************)
(* The end of jit_optimize: the callee-save registers that a function      *)
(* changes are to be saved by its prolog.                                  *)
(***************************************************************************)
EndOptimize ==
  /\ phase = "check" /\ (again = {} \/ (node = End /\ ~todo))
  /\ regset' = [p \in Blocks |-> UNION {Changed(code[i]) : i \in {n \in Nodes : p \in Function(n)}}]
  /\ needed' = Needed
  /\ phase' = "emit" /\ node' = 1
  /\ UNCHANGED <<code, source, liveVars, valueVars, live, mask, arg, sav, lent, slot, holds,
                 always, todo, block, stage, asked>>

-----------------------------------------------------------------------------
(***************************************************************************)
(* emit_code, for the registers of each node.                              *)
(***************************************************************************)
Emitting(s) == phase = "emit" /\ node # End /\ stage = s
Request     == code[node].ask[asked + 1]
Served      == asked = Len(code[node].ask)

KeepAll == UNCHANGED <<code, source, liveVars, valueVars, always, todo, block, needed>>

EmitBegin ==
  /\ Emitting("begin") /\ Begin(code[node])
  /\ stage' = "within" /\ asked' = 0
  /\ UNCHANGED <<phase, node>> /\ KeepAll

EmitGet ==
  /\ Emitting("within") /\ ~Served /\ Get(Request, Function(node))
  /\ asked' = asked + 1
  /\ UNCHANGED <<phase, node, stage>> /\ KeepAll

EmitRefused ==
  /\ Emitting("within") /\ ~Served /\ Refused(Request)
  /\ phase' = "failed"
  /\ UNCHANGED <<lendVars, node, stage, asked>> /\ KeepAll

EmitAct ==
  /\ Emitting("within") /\ Served /\ Act(code[node])
  /\ stage' = "behind"
  /\ UNCHANGED <<phase, node, asked>> /\ KeepAll

EmitUnget ==
  /\ Emitting("behind") /\ Unget
  /\ UNCHANGED <<phase, node, stage, asked>> /\ KeepAll

EmitFinish ==
  /\ Emitting("behind") /\ Finish(node)
  /\ stage' = "begin" /\ node' = node + 1
  /\ UNCHANGED <<phase, asked>> /\ KeepAll

Done ==
  /\ phase = "emit" /\ node = End /\ phase' = "done"
  /\ UNCHANGED <<lendVars, node, stage, asked>> /\ KeepAll

Passes == \/ SetupBlocks \/ FollowBlock \/ Heading
          \/ SimplifyNode \/ StartStores \/ DropStores \/ KeepStores \/ EndStores
          \/ EndFollow \/ VisitUpdates \/ VisitKeeps \/ CheckAgain \/ EndOptimize
Emit   == EmitBegin \/ EmitGet \/ EmitRefused \/ EmitAct \/ EmitUnget \/ EmitFinish \/ Done
Next   == Passes \/ Emit
Spec   == Init /\ [][Next]_vars /\ WF_vars(Next)

-----------------------------------------------------------------------------
(***************************************************************************)
(* The type invariant.                                                     *)
(***************************************************************************)
RegSets == [Blocks -> SUBSET Reg]

TypeOK ==
  /\ Split
  /\ reglive \in RegSets /\ regmask \in RegSets
  /\ again \subseteq Blocks /\ falls \subseteq Blocks
  /\ \A r \in Reg : values[r].kind \in {"none", "word", "register", "code"} /\ gen[r] \in Nat
  /\ live \subseteq Reg /\ mask \subseteq Reg /\ arg \subseteq Reg /\ sav \subseteq Reg
  /\ regset \in RegSets /\ \A i \in DOMAIN lent : lent[i] \in Reg
  /\ slot \in [Reg -> {"none", "own", "junk"}] /\ holds \in [Reg -> {"own", "junk"}]
  /\ phase \in {"setup", "follow", "simplify", "stores", "check", "emit", "done", "failed"}
  /\ node \in 1..End /\ {always, todo} \subseteq BOOLEAN
  /\ block \in Blocks \cup {None} /\ stage \in {"begin", "within", "behind"} /\ asked \in Nat

-----------------------------------------------------------------------------
(***************************************************************************)
(* The reference for values: a machine that executes a node list.  A       *)
(* conditional move acts if w is not zero; an address is a word; sums wrap *)
(* round.                                                                  *)
(***************************************************************************)
Machines == [reg : [Reg -> Word], mem : [Word -> Word]]

Put(m, r, x) == [m EXCEPT !.reg[r] = x]
Store(m, a, x) == [m EXCEPT !.mem[a] = x]

Sum(x, y) == (x + y) % Cardinality(Word)
Overflows(n, m) == m.reg[n.v] + n.k >= Cardinality(Word)

Effect(n, m) == LET R(r) == m.reg[r] IN
  CASE n.op = "movi"  -> Put(m, n.u, n.k)
    [] n.op = "movr"  -> Put(m, n.u, R(n.v))
    [] n.op = "movnr" -> IF R(n.w) # 0 THEN Put(m, n.u, R(n.v)) ELSE m
    [] n.op = "ldxi"  -> Put(m, n.u, m.mem[R(n.v)])
    [] n.op = "addr"  -> Put(m, n.u, Sum(R(n.v), R(n.w)))
    [] n.op = "boaddi" -> Put(m, n.v, Sum(R(n.v), n.k))
    [] n.op = "ldxai" -> Put(Put(m, n.u, m.mem[R(n.v)]), n.v, Sum(R(n.v), n.k))
    [] n.op = "stxi"  -> Store(m, R(n.v), R(n.w))
    [] n.op = "str"   -> Store(m, R(n.u), R(n.v))
    [] n.op \in Calls -> [m EXCEPT !.reg = [r \in Reg |-> IF r \in Saved THEN @[r] ELSE 0]]
    [] OTHER -> m

NextPlace(i, m) == LET n == source[i] IN
  IF \/ n.op = "jmpi"
     \/ n.op = "beqi" /\ m.reg[n.v] = n.k
     \/ n.op = "boaddi" /\ Overflows(n, m)
  THEN n.to
  ELSE IF n.op \in {"jmpr", "epilog"} \/ i = Len(source) THEN None ELSE i + 1

(***************************************************************************)
(* Executing a function of source from its prolog: the nodes met, as long  *)
(* as code does the same as source there; Fuel bounds the loops.           *)
(***************************************************************************)
Execute(e) ==
  IF e.at = None \/ ~e.alike THEN e
  ELSE LET m == Effect(source[e.at], e.m) IN
       [at |-> NextPlace(e.at, e.m), m |-> m, alike |-> m = Effect(code[e.at], e.m)]

Executed(prolog, start) ==
  LET after[k \in 0..Fuel] == IF k = 0 THEN [at |-> prolog, m |-> start, alike |-> TRUE]
                              ELSE Execute(after[k - 1])
  IN after[Fuel]

Prologs == {i \in Nodes : source[i].op = "prolog"}
Alike == \A i \in Prologs : \A m \in Machines : Executed(i, m).alike

(***************************************************************************)
(* The labels that code runs into from the node in front of it are flagged *)
(* as such.  A second label behind a jump is not, if there are only labels *)
(* and notes between it and the jump, though the first one runs into it.   *)
(***************************************************************************)
RunsInto(p, i) == i > 1 /\ p[i].op = "label" /\ p[i - 1].op \notin Leaves
HeadsKnown == \A i \in DOMAIN source : RunsInto(source, i) => FallsInto(source, i)

(***************************************************************************)
(* Removing and replacing instructions does not change what a program      *)
(* does: each removed one found its register set already, however it was   *)
(* reached.  Not so after a store that is no stxi of a whole word, a       *)
(* conditional move, or a load that adds to its base: simplify keeps what  *)
(* it remembers across them.                                               *)
(***************************************************************************)
Uses(ops) == \E i \in Nodes : source[i].op \in ops
RemovalsAlike ==
  phase \in {"check", "setup"} /\ code # source /\ ~Uses({"str", "casr", "movnr", "ldxai"}) => Alike

(***************************************************************************)
(* What the code does: so it is if each label that is run into is flagged. *)
(* Otherwise a branch may be taken for the only way to its label.          *)
(***************************************************************************)
SimplifiedAlike == RemovalsAlike \/ ~HeadsKnown

(***************************************************************************)
(* When code is generated, each block knows the registers that are needed  *)
(* where it starts, though the list is walked forward and changes travel   *)
(* backward over jumps, and removing instructions starts it all again; if  *)
(* each label that is run into is flagged.  What is found out later of one *)
(* that is not does not reach the block that runs into it.                 *)
(***************************************************************************)
Generating   == phase \in {"emit", "done", "failed"}
NeededIn(i)  == {r \in Reg : <<i, r>> \in needed}

LiveKept == Generating /\ HeadsKnown => \A b \in Blocks : NeededIn(b) \subseteq reglive[b]

(***************************************************************************)
(* A register that is needed behind a node has its value there, whatever   *)
(* registers were lent to the nodes so far: what is lent is dead, or saved *)
(* and reloaded, in the right order.  So has an argument of a call that    *)
(* its block sets.  The result of a call to an address out of reach, which *)
(* asks for a register, is another matter, and so is a label that is run   *)
(* into and not flagged.                                                   *)
(***************************************************************************)
SetInBlock(i, r) ==
  \E j \in Nodes : j < i /\ r \in Sets(code[j]) /\ \A h \in Blocks : h < i => h < j

NeededBehind(i) == UNION {NeededIn(j) : j \in NextNodes(i)}
Result(i, r) == r \in Clobbered(code[i]) /\ code[i].ask # <<>>

Undisturbed ==
  phase = "emit" /\ stage = "begin" /\ HeadsKnown =>
    /\ node > 1 => \A r \in NeededBehind(node - 1) : Result(node - 1, r) \/ holds[r] = "own"
    /\ node # End => \A r \in Arguments(code[node]) : SetInBlock(node, r) => holds[r] = "own"

(***************************************************************************)
(* The same for the result of such a call, behind it, for the register     *)
(* that boaddi adds to, where it is read, and for the halves of a pair that*)
(* its block sets.  A call to an address out of reach may save the register*)
(* of the result, to be lent, and reload it over the result; and jit_setup *)
(* and jit_update take a register that an instruction changes, or reads as *)
(* half of a pair, for dead before it.                                     *)
(***************************************************************************)
ValuesKept ==
  phase = "emit" /\ stage = "begin" =>
    /\ node > 1 => \A r \in NeededBehind(node - 1) : holds[r] = "own"
    /\ node # End /\ code[node].op = "boaddi" => holds[code[node].v] = "own"
    /\ node # End => \A r \in Paired(code[node]) : SetInBlock(node, r) => holds[r] = "own"

(***************************************************************************)
(* Within a node, no operand and no register twice is lent; the registers  *)
(* not to be lent are just the operands and those lent; and what was saved *)
(* is lent, so that it will be reloaded.                                   *)
(***************************************************************************)
Lent == {lent[i] : i \in DOMAIN lent}
LentApart ==
  phase = "emit" /\ stage # "begin" =>
    /\ Cardinality(Lent) = Len(lent) /\ Lent \cap Operands(code[node]) = {}
    /\ arg = Lent \cup Operands(code[node])
    /\ sav \subseteq Lent

(***************************************************************************)
(* The prolog of each function saves each callee-save register that the    *)
(* function changes, be it by an instruction of class chg or by lending it,*)
(* whatever other functions change.  (The base that ldxai adds to is of    *)
(* class dep: it is saved only if another instruction changes it.)         *)
(***************************************************************************)
ChangedIn(p) == UNION {Changed(code[i]) : i \in {n \in Nodes : p \in Function(n)}}
LostIn(p)    == IF node # End /\ p \in Function(node) \ {node}
                THEN Lent \cup {r \in Reg : holds[r] = "junk"} ELSE {}

SavedIfChanged ==
  Generating => \A p \in Prologs : Saved \cap (ChangedIn(p) \cup LostIn(p)) \subseteq regset[p]

(***************************************************************************)
(* jit_optimize ends: updating blocks until nothing changes stops.         *)
(***************************************************************************)
OptimizeEnds == <>[](phase \in {"done", "failed"})
=============================================================================
