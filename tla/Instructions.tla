---------------------------- MODULE Instructions ----------------------------
(***************************************************************************)
(* The node list of lightning as jit_optimize sees it when the passes over *)
(* jumps and labels are over: what a node does to registers, where it goes,*)
(* and the blocks of the list.  A node is named by its place in the list;  *)
(* del_node leaves a node that does nothing in its place, so that places   *)
(* stay what they are.                                                     *)
(*                                                                         *)
(* An instruction keeps the fields of its node: u, v, w are its operands   *)
(* (registers), x the second register of a pair, k a constant, to the node *)
(* its u.n or v.n points to, ask the scratch registers its code asks for.  *)
(***************************************************************************)
EXTENDS Integers, Sequences, FiniteSets, FiniteSetsExt

CONSTANTS
  Reg,    \* registers, numbered in the order of _rvs
  Saved,  \* the ones of class jit_class_sav
  Ret,    \* JIT_RET and JIT_FRET
  Word    \* machine words: constants, contents of registers, addresses

ASSUME RegAssumption ==
  /\ Reg \subseteq Nat \ {0} /\ IsFiniteSet(Reg)
  /\ Saved \subseteq Reg /\ Ret \subseteq Reg \ Saved

ASSUME WordAssumption == IsFiniteSet(Word) /\ Word # {} /\ Word = 0 .. Cardinality(Word) - 1

VARIABLES
  code,   \* the list
  source  \* the list before jit_optimize changes it (history)

None == 0
Heads == {"label", "prolog", "epilog"}
Calls == {"calli", "callr"}
Conditional == {"beqi", "boaddi"}
ToLabel == {"jmpi"} \cup Conditional
Jumps == {"jmpr"} \cup ToLabel \cup Calls

(***************************************************************************)
(* jit_classify: the operands that an instruction reads and changes.  A    *)
(* conditional move reads all three (jit_cc_a0_cnd is no jit_cc_a0_chg); a *)
(* pair (jit_cc_a2_rlh) is a class of its own; boaddi, which adds to v and *)
(* branches on overflow, changes v and does not read it; ldxai, which adds *)
(* to its base, reads it (jit_cc_a1_dep is no jit_cc_a1_chg).              *)
(***************************************************************************)
ChangesU == {"movi", "movr", "ldxi", "ldxai", "addr", "casr"}
ChangesV == {"boaddi"}
ReadsU   == {"movnr", "str", "jmpr", "callr"}
ReadsV   == {"movr", "movnr", "ldxi", "ldxai", "stxi", "str", "addr", "casr", "beqi"}
ReadsW   == {"movnr", "stxi", "addr"}

Changed(n) == (IF n.op \in ChangesU THEN {n.u} ELSE {})
                \cup (IF n.op \in ChangesV THEN {n.v} ELSE {})
Used(n) == (IF n.op \in ReadsU THEN {n.u} ELSE {})
             \cup (IF n.op \in ReadsV THEN {n.v} ELSE {})
             \cup (IF n.op \in ReadsW THEN {n.w} ELSE {})
Paired(n) == IF n.op = "casr" THEN {n.w, n.x} ELSE {}
Operands(n) == Changed(n) \cup Used(n) \cup Paired(n)

\* Bug... are mistakes that the properties of Optimize detect; nothing uses them.
BugArguments(n) == IF n.op \in Calls THEN {n.v} ELSE {}

\* A call leaves only the callee-save registers alone; v is an argument register
\* that its signature passes, if any.
Clobbered(n) == IF n.op \in Calls THEN Reg \ Saved ELSE {}
Arguments(n) == IF n.op \in Calls THEN {n.v} \ {None} ELSE {}

Deleted == [op |-> "gone", u |-> None, v |-> None, w |-> None, x |-> None,
            k |-> None, to |-> None, ask |-> <<>>]

-----------------------------------------------------------------------------
(***************************************************************************)
(* Blocks.  A block is named by the node that opens it.  After             *)
(* split_branches a jump or a call is the last node of its block.          *)
(***************************************************************************)
Nodes  == DOMAIN code
Blocks == {i \in Nodes : code[i].op \in Heads}

\* The nodes between a head and the next one; the next head.
Body(b) == {i \in Nodes : i > b /\ \A h \in Blocks : b < h => i < h}
After(b) == {h \in Blocks : b < h /\ \A g \in Blocks : b < g => h =< g}

\* The users of a label: the list at its link.
LinkedTo(l) == {i \in Nodes : code[i].to = l}

\* No jumps but the last node of a block, and a jump leads to a block.
Split ==
  /\ \A i \in Nodes : code[i].op \in Jumps => i + 1 \in Blocks
  /\ \A i \in Nodes : code[i].to # None => code[i].to \in Blocks

Ops(b) == {code[i].op : i \in Body(b)}
Targets(b) == {code[i].to : i \in {j \in Body(b) : code[j].op \in ToLabel}}
NextLabel(b) == {h \in After(b) : code[h].op = "label"}

-----------------------------------------------------------------------------
(***************************************************************************)
(* The reference for liveness: a register is needed at a node if it is     *)
(* read there, or needed at a node that execution can reach next and not   *)
(* set by this one.  Code that falls into an epilog returns no value.      *)
(*                                                                         *)
(* Only reads that jit_setup takes note of count: not the halves of a      *)
(* pair, behind which a need is not seen either, the arguments of a call,  *)
(* what boaddi adds to, and what code at an unknown place may read.        *)
(***************************************************************************)
Reads(n) == Used(n) \ Paired(n)
Sets(n)  == Changed(n) \cup Clobbered(n) \cup (IF n.op = "ldxai" THEN {n.v} ELSE {})
Hides(n) == Changed(n) \cup Clobbered(n) \cup Paired(n)

AtEpilog(i) == code[i].op = "epilog"
NextNodes(i) == LET n == code[i] IN
  (IF n.op \in ToLabel THEN {n.to} ELSE {})
    \cup (IF n.op \in {"jmpi", "jmpr", "epilog"} \/ i + 1 \notin Nodes \/ AtEpilog(i + 1)
          THEN {} ELSE {i + 1})

NeededAt(i, r, need) ==
  IF AtEpilog(i) THEN r \in Ret
  ELSE \/ r \in Reads(code[i])
       \/ r \notin Hides(code[i]) /\ \E j \in NextNodes(i) : <<j, r>> \in need

\* The least solution: a register is read at most Len(code) nodes ahead.
Earlier(need) == {p \in Nodes \X Reg : NeededAt(p[1], p[2], need)}
Needed == LET within[k \in 0..Len(code)] == IF k = 0 THEN {} ELSE Earlier(within[k - 1])
          IN within[Len(code)]
=============================================================================
