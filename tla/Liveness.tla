------------------------------ MODULE Liveness ------------------------------
(***************************************************************************)
(* The search for live registers: what jit_optimize notes at each block.   *)
(* A register is in reglive if it is known to be live where the block      *)
(* starts, in regmask if the block does not refer to it, so that only the  *)
(* blocks behind it can tell, and in neither if it is dead.                *)
(***************************************************************************)
EXTENDS Instructions

VARIABLES
  reglive, \* block->reglive, by block
  regmask, \* block->regmask
  again,   \* the blocks with block->again
  falls    \* the labels with jit_flag_head

liveVars == <<reglive, regmask, again, falls>>

-----------------------------------------------------------------------------
(***************************************************************************)
(* jit_setup: the registers that a block reads before it sets them.  The   *)
(* second and third operand of an instruction are looked at before the     *)
(* first; a register that is met as half of a pair leaves regmask, and is  *)
(* not noted as live.                                                      *)
(***************************************************************************)
Referred(b) == UNION {Operands(code[i]) : i \in Body(b)}

Exposed(b) == {r \in Reg : \E i \in Body(b) :
  /\ r \in Used(code[i]) \ Paired(code[i])
  /\ \A j \in Body(b) : j < i => r \notin Operands(code[j])}

(***************************************************************************)
(* do_setup.  What a first setup found live stays so in a second one; an   *)
(* epilog keeps the result and knows the rest to be unreferenced.          *)
(***************************************************************************)
Setup ==
  /\ reglive' = [b \in Blocks |->
       reglive[b] \cup (IF AtEpilog(b) THEN Ret ELSE Exposed(b))]
  /\ regmask' = [b \in Blocks |->
       Reg \ (IF AtEpilog(b) THEN reglive[b] \cup Ret ELSE Referred(b))]
  /\ UNCHANGED <<again, falls>>

(***************************************************************************)
(* jit_follow: a block takes over what is live at a label it jumps to or   *)
(* falls into, if it does not refer to it and no call at its end destroys  *)
(* it.  A jump to an unknown place makes the callee-save registers live,   *)
(* and leaves regmask and again as they are.                               *)
(***************************************************************************)
Through(b) == regmask[b] \ UNION {Clobbered(code[i]) : i \in Body(b)}
Ahead(b)   == UNION {reglive[s] : s \in Targets(b) \cup NextLabel(b)}
Gained(b)  == IF "jmpr" \in Ops(b) THEN {} ELSE Through(b) \cap Ahead(b)

BugFollow(b) ==
  /\ reglive' = [reglive EXCEPT ![b] = @ \cup Gained(b)]
  /\ regmask' = [regmask EXCEPT ![b] = @ \ Gained(b)]
  /\ UNCHANGED <<again, falls>>

Follow(b) ==
  /\ reglive' = [reglive EXCEPT ![b] =
       @ \cup Gained(b) \cup (IF "jmpr" \in Ops(b) THEN Saved ELSE {})]
  /\ regmask' = [regmask EXCEPT ![b] = @ \ Gained(b)]
  /\ again' = IF Gained(b) # {} THEN again \cup {b} ELSE again \ {b}
  /\ UNCHANGED falls

(***************************************************************************)
(* jit_optimize, "labels that are only reached with a jump": in fact it    *)
(* flags the labels that are fallen into, as it sees them: whatever labels *)
(* and notes are between, the last other node in front must be one that    *)
(* goes on.  Those without a user are taken for reachable by an indirect   *)
(* jump, which needs all callee-save registers.                            *)
(***************************************************************************)
Passed == {"label", "gone"}
Leaves == {"jmpi", "jmpr", "epilog"}

FallsInto(p, i) ==
  /\ p[i].op = "label"
  /\ \E j \in 1 .. i - 1 : /\ p[j].op \notin Passed \cup Leaves
                           /\ \A h \in j + 1 .. i - 1 : p[h].op \in Passed

Orphans == {b \in Blocks : FallsInto(code, b) /\ LinkedTo(b) = {}}

MarkHeads ==
  /\ falls' = {b \in Blocks : FallsInto(code, b)}
  /\ reglive' = [b \in Blocks |-> reglive[b] \cup (IF b \in Orphans THEN Saved ELSE {})]
  /\ regmask' = [b \in Blocks |-> regmask[b] \ (IF b \in Orphans THEN reglive'[b] ELSE {})]
  /\ again' = again \cup {b \in Orphans : reglive'[b] \cap regmask[b] # {}}

-----------------------------------------------------------------------------
(***************************************************************************)
(* check_block_again, when it finds that target, which block leads to, has *)
(* changed: block_update_set(block, target), and if that changed block,    *)
(* propagate_backward(block), which updates the blocks before it in the    *)
(* list, up to the first that gains nothing or is not fallen into.         *)
(***************************************************************************)
Missing(b, target) == (reglive[b] \cup reglive[target]) \cap regmask[b]
Grows(b, target)   == Missing(b, target) # {}

BugUpdateBlock(b, target) ==
  /\ Grows(b, target)
  /\ reglive' = [reglive EXCEPT ![b] = @ \cup Missing(b, target)]
  /\ again' = again \cup {b}
  /\ UNCHANGED <<regmask, falls>>

UpdateBlock(b, target) ==
  LET live == [reglive EXCEPT ![b] = @ \cup Missing(b, target)]
      mask == [regmask EXCEPT ![b] = @ \ Missing(b, target)]
      more(p) == (live[p] \cup live[b]) \cap mask[p]
      back == {p \in Blocks : /\ p < b
                              /\ \A q \in Blocks : p < q /\ q < b => more(q) # {} /\ q \in falls}
  IN /\ Grows(b, target)
     /\ reglive' = [p \in Blocks |-> IF p \in back THEN live[p] \cup more(p) ELSE live[p]]
     /\ regmask' = [p \in Blocks |-> IF p \in back THEN mask[p] \ more(p) ELSE mask[p]]
     /\ again' = again \cup {b} \cup {p \in back : more(p) # {}}
     /\ UNCHANGED falls
=============================================================================
