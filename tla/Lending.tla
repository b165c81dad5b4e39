------------------------------ MODULE Lending ------------------------------
(***************************************************************************)
(* Scratch registers.  While the code of a node is generated, the library  *)
(* lends registers to it (jit_get_reg) and takes them back                 *)
(* (jit_unget_reg).  A register that may be live is saved in the frame and *)
(* reloaded; which registers are live is read off the blocks, and kept up  *)
(* to date from node to node (jit_reglive).                                *)
(*                                                                         *)
(* A request is a record: named is the register asked for, or None;        *)
(* nospill forbids to save (jit_class_nospill).                            *)
(***************************************************************************)
EXTENDS Liveness

VARIABLES
  live,    \* _jitc->reglive
  mask,    \* _jitc->regmask
  arg,     \* _jitc->regarg: operands of the node, and registers lent
  sav,     \* _jitc->regsav: registers saved around the node
  lent,    \* registers lent, the last one first
  slot,    \* function->regoff and what is there: of no use, its own or junk
  holds,   \* what a register holds: its own value, or junk of some node
  regset   \* function->regset, by prolog: the callee-save registers that it saves

lendVars == <<live, mask, arg, sav, lent, slot, holds, regset>>

Lowest(rs) == CHOOSE r \in rs : \A q \in rs : r =< q

\* _jitc->function at a node, by its prolog: a set of one, or none outside functions.
Function(i) == {p \in Blocks : /\ code[p].op = "prolog" /\ p =< i
                               /\ \A h \in Blocks : p < h /\ h =< i => code[h].op = "label"}

-----------------------------------------------------------------------------
(***************************************************************************)
(* jit_regarg_set: operands are not to be lent.  At a jump to a label what *)
(* counts is what is live there, as the code behind the jump is not        *)
(* reached.                                                                *)
(***************************************************************************)
Begin(n) ==
  /\ arg' = arg \cup Operands(n)
  /\ IF n.op = "jmpi" /\ n.to # None
     THEN live' = reglive[n.to] /\ mask' = regmask[n.to]
     ELSE UNCHANGED <<live, mask>>
  /\ UNCHANGED <<sav, lent, slot, holds, regset>>

(***************************************************************************)
(* jit_get_reg.  A register that is neither used by the node nor live is   *)
(* lent as it is, preferably one that is known to be dead; otherwise one   *)
(* that is not yet used or saved is saved first.  A register by name is    *)
(* lent if the node does not use it.  A callee-save register is added to   *)
(* those of the function f.                                                *)
(***************************************************************************)
BugIdle      == Reg \ arg
BugSpillable == Reg \ sav

Idle      == Reg \ (arg \cup live)
Choice    == IF Idle \subseteq mask \/ Lowest(Idle) \notin mask THEN Lowest(Idle)
             ELSE Lowest(Idle \ mask)
Spillable == Reg \ (sav \cup arg)

Lend(r) ==
  /\ arg' = arg \cup {r} /\ lent' = <<r>> \o lent
  /\ holds' = [holds EXCEPT ![r] = "junk"]
  /\ UNCHANGED <<live, mask>>

Spill(r) ==
  /\ slot' = [slot EXCEPT ![r] = holds[r]] /\ sav' = sav \cup {r}

BugKeepSaved(r, f) == regset' = regset
KeepSaved(r, f) == regset' = [p \in Blocks |-> IF p \in f THEN regset[p] \cup ({r} \cap Saved) ELSE regset[p]]

GetFree(request, f) ==
  /\ request.named = None /\ Idle # {}
  /\ Lend(Choice) /\ KeepSaved(Choice, f) /\ UNCHANGED <<sav, slot>>

GetSpilled(request, f) ==
  /\ request.named = None /\ Idle = {} /\ ~request.nospill /\ Spillable # {}
  /\ LET r == Lowest(Spillable) IN Spill(r) /\ Lend(r) /\ KeepSaved(r, f)

Available(request) == LET r == request.named IN
  r # None /\ r \notin sav /\ r \notin arg

GetNamed(request) == LET r == request.named IN
  /\ Available(request) /\ r \notin live
  /\ Lend(r) /\ UNCHANGED <<sav, slot, regset>>

GetNamedSpilled(request, f) == LET r == request.named IN
  /\ Available(request) /\ r \in live /\ ~request.nospill
  /\ Spill(r) /\ Lend(r) /\ KeepSaved(r, f)

Get(request, f) == \/ GetFree(request, f) \/ GetSpilled(request, f)
                   \/ GetNamed(request) \/ GetNamedSpilled(request, f)

\* Out of hardware registers: JIT_NOREG, or an assertion without jit_class_chk.
Refused(request) ==
  IF request.named = None THEN Idle = {} /\ (request.nospill \/ Spillable = {})
  ELSE ~Available(request) \/ (request.named \in live /\ request.nospill)

(***************************************************************************)
(* The instruction itself.  What it sets, and what a call destroys or      *)
(* returns, holds its own value; what was saved of it is of the past.  What*)
(* a half of a pair holds when it is read counts as its own behind it: no  *)
(* need before it is seen (see ValuesKept).                                *)
(***************************************************************************)
Act(n) ==
  /\ holds' = [r \in Reg |-> IF r \in Sets(n) \cup Paired(n) THEN "own" ELSE holds[r]]
  /\ slot' = [r \in Reg |-> IF r \in Sets(n) /\ r \in sav THEN "junk" ELSE slot[r]]
  /\ UNCHANGED <<live, mask, arg, sav, lent, regset>>

(***************************************************************************)
(* jit_unget_reg                                                           *)
(***************************************************************************)
Unget == LET r == Head(lent) IN
  /\ lent # <<>>
  /\ IF r \in sav THEN holds' = [holds EXCEPT ![r] = slot[r]] ELSE UNCHANGED holds
  /\ sav' = sav \ {r} /\ arg' = arg \ {r} /\ lent' = Tail(lent)
  /\ UNCHANGED <<live, mask, slot, regset>>

-----------------------------------------------------------------------------
(***************************************************************************)
(* jit_update: which registers of unknown are live behind node i, walking  *)
(* to the end of its block.  Those the walk does not meet count as live,   *)
(* in jit_reglive, unless the function ends there.                         *)
(***************************************************************************)
Rest(i)      == {j \in Nodes : j > i /\ \A h \in Blocks : i < h => j < h}
Meets(n)     == Operands(n) \cup Clobbered(n)
MetTo(i, j)  == UNION {Meets(code[k]) : k \in {k \in Rest(i) : k < j}}
NextHead(i)  == {h \in Blocks : i < h /\ \A g \in Blocks : i < g => h =< g}

ReadFirst(i) == UNION {((Used(code[j]) \cup Arguments(code[j])) \ Paired(code[j])) \ MetTo(i, j) :
                         j \in Rest(i)}
LiveAtTarget(i) == UNION {reglive[code[j].to] \ MetTo(i, j + 1) :
                            j \in {j \in Rest(i) : code[j].op \in ToLabel}}
JumpAway(i)  == {j \in Rest(i) : code[j].op = "jmpr"}
LiveBehind(i, unknown) ==
  IF JumpAway(i) # {}
  THEN IF \E j \in JumpAway(i) : ~(unknown \subseteq MetTo(i, j)) THEN Saved ELSE {}
  ELSE IF \E h \in NextHead(i) : code[h].op = "label" THEN unknown \ MetTo(i, Len(code) + 1) ELSE {}

UpdateLive(i, unknown) ==
  (unknown \cap (ReadFirst(i) \cup LiveAtTarget(i))) \cup LiveBehind(i, unknown)

(***************************************************************************)
(* jit_regarg_clr and jit_reglive, at the end of a node.  Where a block    *)
(* starts everything holds its own value again: what is needed there did   *)
(* at the end of each block that leads to it (Undisturbed), and the rest   *)
(* is not read.                                                            *)
(***************************************************************************)
LiveAfter(i) == LET n == code[i]
                    reads == Used(n) \cup Paired(n) IN
  CASE n.op \in Heads -> reglive[i]
    [] n.op \in Calls -> ((live \cup reads) \ Clobbered(n)) \cup Arguments(n)
    [] OTHER -> (live \ Changed(n)) \cup reads \cup UpdateLive(i, mask \cup Changed(n))

Finish(i) == LET n == code[i] IN
  /\ lent = <<>>
  /\ arg' = arg \ Operands(n)
  /\ live' = LiveAfter(i)
  /\ mask' = IF n.op \in Heads \cup Calls THEN mask ELSE {}
  /\ holds' = [r \in Reg |-> IF n.op \in Heads THEN "own" ELSE holds[r]]
  /\ UNCHANGED <<sav, lent, slot, regset>>
=============================================================================
