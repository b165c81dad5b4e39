------------------------------ MODULE Simplify ------------------------------
(***************************************************************************)
(* simplify() and redundant_store(): what the library remembers of the     *)
(* values of registers, and the instructions it removes or replaces since  *)
(* they set a register to what it holds already.                           *)
(*                                                                         *)
(* A remembered value has a kind: a constant ("word"), a copy of another   *)
(* register, or what was loaded from ("code") or stored to memory.  The    *)
(* last two name the register they depend on with its generation, which    *)
(* grows whenever that register changes.                                   *)
(***************************************************************************)
EXTENDS Instructions

VARIABLES
  values, \* _jitc->values
  gen     \* _jitc->gen

valueVars == <<values, gen>>

Unknown == [kind |-> "none", base |-> None, gen |-> 0, k |-> None]
Constant(k) == [kind |-> "word", base |-> None, gen |-> 0, k |-> k]
BugCopy(r)  == [kind |-> "register", base |-> r, gen |-> 0, k |-> None]
Copy(r)     == [kind |-> "register", base |-> r, gen |-> gen[r], k |-> None]

NoValues == [r \in Reg |-> Unknown]
NoGen    == [r \in Reg |-> 0]

Delete(i) == code' = [code EXCEPT ![i] = Deleted]

Remember(r, value) ==
  /\ values' = [values EXCEPT ![r] = value]
  /\ gen' = [gen EXCEPT ![r] = @ + 1]

-----------------------------------------------------------------------------
(***************************************************************************)
(* Labels, prologs, calls, and every other jump: nothing is known.         *)
(***************************************************************************)
Resets(n) == n.op \in {"label", "prolog"} \cup Jumps

Reset(i) ==
  /\ Resets(code[i])
  /\ values' = NoValues /\ gen' = NoGen /\ UNCHANGED code

(***************************************************************************)
(* simplify_movr: removed if u is a copy of v, or both hold the same       *)
(* constant.                                                               *)
(***************************************************************************)
HoldsCopy(i) == LET n == code[i] IN
  \/ values[n.u] = Copy(n.v)
  \/ values[n.u].kind = "word" /\ values[n.v] = values[n.u]

DropMovr(i) ==
  /\ code[i].op = "movr" /\ HoldsCopy(i)
  /\ Delete(i) /\ UNCHANGED valueVars

Movr(i) == LET n == code[i] IN
  /\ n.op = "movr" /\ ~HoldsCopy(i)
  /\ Remember(n.u, IF values[n.v].kind = "word" THEN values[n.v] ELSE Copy(n.v))
  /\ UNCHANGED code

(***************************************************************************)
(* simplify_movi: removed if u holds the constant; if u holds another one  *)
(* and some register this one, it becomes a move from the first such       *)
(* register.  A movi that will be patched is not looked at.                *)
(***************************************************************************)
Patched(n) == n.to # None
HoldsConstant(i) == values[code[i].u] = Constant(code[i].k)
Holders(i) == IF values[code[i].u].kind = "word"
              THEN {r \in Reg : values[r] = Constant(code[i].k)} ELSE {}

DropMovi(i) ==
  /\ code[i].op = "movi" /\ ~Patched(code[i]) /\ HoldsConstant(i)
  /\ Delete(i) /\ UNCHANGED valueVars

MoviToMovr(i) == LET n == code[i] IN
  /\ n.op = "movi" /\ ~Patched(n) /\ ~HoldsConstant(i) /\ Holders(i) # {}
  /\ code' = [code EXCEPT ![i].op = "movr", ![i].v = Min(Holders(i)), ![i].k = None]
  /\ Remember(n.u, Constant(n.k))

Movi(i) == LET n == code[i] IN
  /\ n.op = "movi" /\ (~Patched(n) => ~HoldsConstant(i) /\ Holders(i) = {})
  /\ Remember(n.u, IF Patched(n) THEN Unknown ELSE Constant(n.k))
  /\ UNCHANGED code

(***************************************************************************)
(* simplify_ldxi: removed if u was loaded from, or stored to, the same     *)
(* place, and the base did not change.                                     *)
(***************************************************************************)
Loaded(r) == [kind |-> "code", base |-> r, gen |-> gen[r], k |-> None]
HoldsLoad(i) == code[i].u # code[i].v /\ values[code[i].u] = Loaded(code[i].v)

DropLdxi(i) ==
  /\ code[i].op = "ldxi" /\ HoldsLoad(i)
  /\ Delete(i) /\ UNCHANGED valueVars

Ldxi(i) ==
  /\ code[i].op = "ldxi" /\ ~HoldsLoad(i)
  /\ Remember(code[i].u, Loaded(code[i].v)) /\ UNCHANGED code

(***************************************************************************)
(* simplify_stxi, for a store of a whole word: what was loaded may have    *)
(* changed, and the register stored, unless it is known otherwise, holds   *)
(* what a load from there would give.  (The removal of a store after a     *)
(* load is never reached: it compares the code of a load with a store's.)  *)
(***************************************************************************)
FromMemory == {r \in Reg : values[r].kind = "code"}

Stxi(i) == LET n == code[i] IN
  /\ n.op = "stxi"
  /\ gen' = [r \in Reg |-> IF r \in FromMemory THEN gen[r] + 1 ELSE gen[r]]
  /\ values' = [r \in Reg |->
       IF r = n.w /\ values[r].kind \in {"none", "code"}
       THEN [kind |-> "code", base |-> n.v, gen |-> gen'[n.v], k |-> None]
       ELSE IF r \in FromMemory THEN Unknown ELSE values[r]]
  /\ UNCHANGED code

(***************************************************************************)
(* Every other instruction: the registers of class chg are not known.      *)
(* That is all: other stores, and casr, leave what was loaded as it is,    *)
(* and a conditional move is not of class chg.                             *)
(***************************************************************************)
Other(i) == LET n == code[i] IN
  /\ ~Resets(n) /\ n.op \notin {"movr", "movi", "ldxi", "stxi"}
  /\ values' = [r \in Reg |-> IF r \in Changed(n) THEN Unknown ELSE values[r]]
  /\ gen' = [r \in Reg |-> IF r \in Changed(n) THEN gen[r] + 1 ELSE gen[r]]
  /\ UNCHANGED code

Removal(i) == DropMovr(i) \/ DropMovi(i) \/ DropLdxi(i)
Keeping(i) == Reset(i) \/ Movr(i) \/ Movi(i) \/ MoviToMovr(i) \/ Ldxi(i) \/ Stxi(i) \/ Other(i)

-----------------------------------------------------------------------------
(***************************************************************************)
(* redundant_store(node, 1) for a beqi whose label nobody else uses, and   *)
(* that is not fallen into: where it leads, v is k, so a movi of k to v is *)
(* removed, up to one of another constant, a change of v, or the end of    *)
(* the block.  (For a bnei it looks behind the branch, where, after        *)
(* split_branches, there is a label at which it stops at once.)            *)
(***************************************************************************)
SingleSource(i, falls) == LET l == code[i].to IN
  code[l].op = "label" /\ l \notin falls /\ LinkedTo(l) = {i}

SetsTo(n, r, k) == n.op = "movi" /\ n.u = r /\ ~Patched(n) /\ n.k = k
StopsAt(n, r, k) == n.op \in Jumps \/ (r \in Changed(n) /\ ~SetsTo(n, r, k))

Redundant(i) == LET n == code[i] IN
  {j \in Body(n.to) : /\ SetsTo(code[j], n.v, n.k)
                      /\ \A m \in Body(n.to) : m < j => ~StopsAt(code[m], n.v, n.k)}

RedundantStore(i, falls) ==
  /\ code[i].op = "beqi" /\ SingleSource(i, falls) /\ Redundant(i) # {}
  /\ code' = [j \in Nodes |-> IF j \in Redundant(i) THEN Deleted ELSE code[j]]

=============================================================================
