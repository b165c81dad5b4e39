--------------------------- MODULE OptimizeProofs ---------------------------
(***************************************************************************)
(* jit_optimize and the registers lent while code is generated, for every  *)
(* list of instructions and every set of registers.                        *)
(***************************************************************************)
EXTENDS Optimize, Induction, FiniteSetTheorems, TLAPS

-----------------------------------------------------------------------------
(***************************************************************************)
(* Types.                                                                  *)
(***************************************************************************)
Kind == {"none", "word", "register", "code"}
Value == [kind : Kind, base : Reg \cup {None}, gen : Nat, k : Nat]

Typed ==
  /\ WellFormed(code)
  /\ reglive \in RegSets /\ regmask \in RegSets
  /\ again \subseteq Blocks /\ falls \subseteq Blocks
  /\ values \in [Reg -> Value] /\ gen \in [Reg -> Nat]
  /\ live \subseteq Reg /\ mask \subseteq Reg /\ arg \subseteq Reg /\ sav \subseteq Reg
  /\ regset \in RegSets /\ lent \in Seq(Reg)
  /\ slot \in [Reg -> {"none", "own", "junk"}] /\ holds \in [Reg -> {"own", "junk"}]
  /\ \A r \in sav : slot[r] # "none"
  /\ phase \in {"setup", "follow", "simplify", "stores", "check", "emit", "done", "failed"}
  /\ node \in 1 .. End /\ always \in BOOLEAN /\ todo \in BOOLEAN
  /\ block \in Blocks \cup {None} /\ stage \in {"begin", "within", "behind"} /\ asked \in Nat

\* What the node of each loop is.
Looping ==
  /\ phase = "follow" /\ node # End => node \in Followed
  /\ phase = "stores" /\ node # End => node \in Branches
  /\ phase = "check" /\ node # End => node \in Ends
  /\ ~Generating => stage = "begin"
  /\ phase = "emit" /\ stage # "begin" => node # End /\ asked =< Len(code[node].ask)

-----------------------------------------------------------------------------
(***************************************************************************)
(* Registers that were lent.                                               *)
(***************************************************************************)
LendInv ==
  /\ IF phase \in {"emit", "failed"} /\ stage # "begin"
     THEN /\ node # End
          /\ arg = Lent \cup Operands(code[node]) /\ Lent \cap Operands(code[node]) = {}
          /\ \A i, j \in DOMAIN lent : lent[i] = lent[j] => i = j
     ELSE arg = {} /\ lent = <<>>
  /\ sav \subseteq Lent

SaveInv ==
  IF Generating THEN \A p \in Blocks : Saved \cap (ChangedIn(p) \cup LostIn(p)) \subseteq regset[p]
                ELSE \A r \in Reg : holds[r] = "own"

-----------------------------------------------------------------------------
(***************************************************************************)
(* Live registers.                                                         *)
(***************************************************************************)
Entry(s)   == IF AtEpilog(s) THEN Ret ELSE Exposed(s)
Settled(s) == IF AtEpilog(s) THEN Ret
              ELSE Exposed(s) \cup (reglive[s] \ (regmask[s] \cup Referred(s)))
Kept(b)    == Referred(b) \cup UNION {Clobbered(code[i]) : i \in Body(b)}
Leads(b)   == Targets(b) \cup {h \in NextLabel(b) : RunsInto(code, h)}
Agree(b, s) == Settled(s) \subseteq Settled(b) \cup Kept(b)
Quiet(b)   == \A s \in Leads(b) : Entry(s) \subseteq Kept(b)

\* What a setup finds in a block; what do_follow and check_block_again keep of that.
Noted ==
  \A b \in Blocks :
    IF AtEpilog(b) THEN Ret \subseteq reglive[b]
    ELSE /\ Exposed(b) \subseteq reglive[b]
         /\ Reg \subseteq regmask[b] \cup Referred(b) \cup reglive[b]
         /\ regmask[b] \cap Referred(b) = {}

\* Blocks behind node were not looked at yet; a block that the first setup left alone stays quiet.
Following ==
  /\ \A s \in Followed : s >= node => regmask[s] = Reg \ Referred(s)
  /\ \A s \in Followed : s < node => s \in again \/ Settled(s) = Exposed(s)
  /\ \A b \in Followed : \A s \in Leads(b) : b < node => Agree(b, s) \/ (s \in again /\ s < node)
  /\ \A b \in Followed : b < node \/ ~always => b \in again \/ Quiet(b)

\* A block agrees with those it leads to, but for those that check_block_again has to look at.
Waiting == \A b \in Followed : \A s \in Leads(b) : Agree(b, s) \/ s \in again
Calm    == \A b \in Followed : b \in again \/ Quiet(b)
Flagged == falls = {h \in Blocks : RunsInto(code, h)}

\* What simplify remembers is of registers met since the last label.
Behind(p, i) == p < i /\ \A h \in Blocks : p < h /\ h < i => AtEpilog(h)
MetBefore(i) == UNION {Operands(code[p]) : p \in {q \in Nodes : Behind(q, i)}}
Knowing == \A r \in Reg :
  /\ values[r].kind # "none" => r \in MetBefore(node)
  /\ values[r].kind \in {"register", "code"} => values[r].base \in MetBefore(node)
Blank == \A r \in Reg : values[r].kind = "none"

\* The edges that the pass of check_block_again has met.
Seen(b, s) == \/ \E i \in Body(b) : code[i].op \in ToLabel /\ code[i].to = s /\ i < node
              \/ s \in NextLabel(b) /\ RunsInto(code, s) /\ s < node
Checking ==
  /\ IF block = None THEN \A h \in Blocks : h >= node
     ELSE block < node /\ \A h \in Blocks : h < node => h =< block
  /\ ~todo => \A b \in Followed : \A s \in Leads(b) : Seen(b, s) => Agree(b, s)

(***************************************************************************)
(* A register needed at a node of a block is read further on in the block, *)
(* or passes through the rest of it to a block that it leads to.           *)
(***************************************************************************)
Within(b, i) == i = b \/ i \in Body(b)
ReadFrom(b, i, r) ==
  \E j \in Body(b) : /\ j >= i /\ r \in Reads(code[j])
                     /\ \A m \in Body(b) : i =< m /\ m < j => r \notin Hides(code[m])
PassedOn(b, i, r) ==
  /\ \A m \in Body(b) : m >= i => r \notin Hides(code[m])
  /\ \E s \in Leads(b) : r \in Settled(s)

Accounted(need) ==
  \A b \in Followed : \A i \in Nodes : \A r \in Reg :
    Within(b, i) /\ <<i, r>> \in need => ReadFrom(b, i, r) \/ PassedOn(b, i, r)

\* If each label that is run into is flagged.
AllLive == \A b \in Blocks : NeededIn(b) \subseteq reglive[b]
LiveInv ==
  /\ phase = "setup" => IF always THEN again = {} /\ Blank /\ code = source ELSE Calm /\ Flagged
  /\ phase = "follow" => Noted /\ Following /\ IF always THEN Blank /\ code = source ELSE Flagged
  /\ phase = "simplify" => Noted /\ Waiting /\ Calm /\ Flagged /\ Knowing
  /\ phase = "stores" => (todo \/ (Noted /\ Waiting)) /\ Calm /\ Flagged
  /\ phase = "check" => Noted /\ Waiting /\ Flagged /\ Checking
  /\ Generating => needed = Needed /\ AllLive /\ Noted /\ Accounted(needed)

-----------------------------------------------------------------------------
(***************************************************************************)
(* What registers hold while code is generated.  At a node of a function   *)
(* the registers that have to keep their value, because they are needed    *)
(* there or are an argument that the block has set for the call at its     *)
(* end, are live, and their value is in the register or was saved.         *)
(***************************************************************************)
InFunction(i) == \E b \in Followed : i \in Body(b)

ArgumentDue(i, r) ==
  /\ SetInBlock(i, r)
  /\ \E c \in Nodes : /\ c >= i /\ r \in Arguments(code[c])
                      /\ \A h \in Blocks : i =< h => c < h
                      /\ \A m \in Nodes : i =< m /\ m < c => r \notin Changed(code[m]) \cup Paired(code[m])
Due(i) == NeededIn(i) \cup {r \in Reg : ArgumentDue(i, r)}

Intact(r) == IF r \in sav THEN slot[r] = "own" ELSE holds[r] = "own"

Arrived == node > 1 => \A r \in NeededBehind(node - 1) : Result(node - 1, r) \/ holds[r] = "own"
AtNode(i) ==
  IF InFunction(i)
  THEN /\ Due(i) \subseteq live
       /\ \A r \in Due(i) : Intact(r) \/ (stage = "behind" /\ Result(i, r))
       /\ stage = "behind" => \A r \in Sets(code[i]) \cup Paired(code[i]) : Intact(r) \/ Result(i, r)
  ELSE \A r \in Reg : holds[r] = "own"

LoanInv ==
  phase = "emit" =>
    /\ stage = "begin" => Arrived
    /\ node # End /\ node \notin Blocks => AtNode(node)
    /\ stage # "begin" /\ code[node].ask = <<>> => lent = <<>>

-----------------------------------------------------------------------------
(***************************************************************************)
(* The list.                                                               *)
(***************************************************************************)
LEMMA Shape ==
  ASSUME WellFormed(code)
  PROVE  /\ Len(code) \in Nat /\ End = Len(code) + 1 /\ Nodes = 1 .. Len(code)
         /\ Nodes \subseteq Nat \ {0} /\ Blocks \subseteq Nodes
         /\ \A i \in Nodes : code[i] \in Instruction /\ Operands(code[i]) \subseteq Reg
         /\ Split
         /\ \A i \in Nodes : code[i].op \in ToLabel => code[i].to \in Blocks
         /\ \A i \in Nodes : code[i].op = "prolog" =>
              i = 1 \/ code[i - 1].op \in {"jmpi", "jmpr", "epilog"}
  <1>1. code \in Seq(Instruction)
    BY DEF WellFormed
  <1>2. Len(code) \in Nat /\ Nodes = 1 .. Len(code)
    BY <1>1 DEF Nodes
  <1>3. \A i \in Nodes : code[i] \in Instruction
    BY <1>1 DEF Nodes
  <1>. HIDE DEF Nodes
  <1>4. Split
    BY <1>2 DEF WellFormed, Split, Blocks
  <1>. QED
    BY <1>2, <1>3, <1>4 DEF WellFormed, Blocks, End

LEMMA SameCode ==
  ASSUME UNCHANGED code
  PROVE  /\ Nodes' = Nodes /\ Blocks' = Blocks /\ End' = End /\ RegSets' = RegSets
         /\ Followed' = Followed /\ Branches' = Branches /\ Ends' = Ends
         /\ \A b : Exposed(b)' = Exposed(b) /\ Referred(b)' = Referred(b) /\ Kept(b)' = Kept(b)
         /\ \A b : Leads(b)' = Leads(b) /\ RunsInto(code, b)' = RunsInto(code, b) /\ AtEpilog(b)' = AtEpilog(b)
  BY DEF Nodes, Blocks, End, RegSets, Followed, Branches, Ends, Exposed, Referred, Kept, Leads, RunsInto, Leaves, AtEpilog,
    Body, After, Ops, Targets, NextLabel

(***************************************************************************)
(* The first node of a set from a place on.                                *)
(***************************************************************************)
LEMMA FirstFrom ==
  ASSUME NEW S, S \subseteq 1 .. Len(code), Len(code) \in Nat, NEW i \in Nat
  PROVE  /\ (From(i, S) \in S /\ From(i, S) >= i) \/ From(i, S) = End
         /\ \A j \in S : j >= i => From(i, S) =< j
         /\ i >= 1 => From(i, S) \in 1 .. End
  <1>. DEFINE T == {j \in S : j >= i} \cup {End}
  <1>1. T \subseteq Nat /\ T # {}
    <2>1. End \in Nat /\ End >= 1 /\ \A j \in S : j \in Nat /\ j =< Len(code)
      BY DEF End
    <2>. QED
      BY <2>1
  <1>2. \E n \in T : \A m \in T : n =< m
    BY <1>1, Smallest
  <1>3. From(i, S) \in T /\ \A m \in T : From(i, S) =< m
    BY <1>2 DEF From, Min
  <1>4. End \in Nat /\ End >= 1 /\ \A j \in S : j \in 1 .. End
    BY DEF End
  <1>. HIDE DEF T
  <1>5. T = {j \in S : j >= i} \cup {End}
    BY DEF T
  <1>6. (From(i, S) \in S /\ From(i, S) >= i) \/ From(i, S) = End
    BY <1>3, <1>5
  <1>7. \A j \in S : j >= i => From(i, S) =< j
    BY <1>3, <1>5
  <1>8. From(i, S) \in 1 .. End
    <2>1. End \in 1 .. End
      BY <1>4
    <2>. QED
      BY <2>1, <1>4, <1>6
  <1>. QED
    BY <1>6, <1>7, <1>8

(***************************************************************************)
(* The optimizer removes moves and loads, and makes one move of another:   *)
(* blocks, jumps, and where they lead stay what they are.                  *)
(***************************************************************************)
Plain == {"movi", "movr", "ldxi", "gone"}
Rewritten ==
  /\ code' \in Seq(Instruction) /\ Len(code') = Len(code)
  /\ \A i \in Nodes :
       \/ code'[i] = code[i]
       \/ /\ code[i].op \in Plain /\ code'[i].op \in Plain
          /\ Operands(code'[i]) \subseteq Reg
          /\ code'[i].to \in {None, code[i].to}
          /\ code'[i].ask \in {<<>>, code[i].ask}

LEMMA RewrittenPlaces ==
  ASSUME WellFormed(code), Rewritten
  PROVE  /\ Nodes' = Nodes /\ Blocks' = Blocks /\ End' = End /\ RegSets' = RegSets
         /\ \A i \in Nodes : code[i].op \in Heads \cup Jumps \/ code'[i].op \in Heads \cup Jumps =>
              code'[i] = code[i]
         /\ \A b : Body(b)' = Body(b) /\ After(b)' = After(b)
  <1>1. Nodes' = Nodes
    BY Shape DEF Rewritten, Nodes
  <1>2. \A i \in Nodes : code[i].op \in Heads \cup Jumps \/ code'[i].op \in Heads \cup Jumps =>
              code'[i] = code[i]
    BY DEF Rewritten, Plain, Heads, Jumps, ToLabel, Conditional, Calls
  <1>3. Blocks' = Blocks
    BY <1>1, <1>2 DEF Blocks
  <1>. QED
    BY <1>1, <1>2, <1>3 DEF Rewritten, End, RegSets, Body, After

LEMMA RewrittenForm ==
  ASSUME WellFormed(code), Rewritten
  PROVE  WellFormed(code)'
  <1>1. code' \in Seq(Instruction) /\ Len(code') = Len(code)
    BY DEF Rewritten
  <1>2. /\ Nodes = 1 .. Len(code) /\ Nodes' = Nodes
        /\ \A i \in Nodes : code[i].op \in Heads \cup Jumps \/ code'[i].op \in Heads \cup Jumps =>
              code'[i] = code[i]
    BY Shape, RewrittenPlaces
  <1>. SUFFICES ASSUME NEW i \in Nodes
       PROVE  /\ Operands(code'[i]) \subseteq Reg
              /\ code'[i].op \in Jumps => i < Len(code) /\ code'[i + 1].op \in Heads
              /\ code'[i].op \in ToLabel \/ code'[i].to # None =>
                   code'[i].to \in 1 .. Len(code) /\ code'[code'[i].to].op \in Heads
              /\ code'[i].op = "prolog" => i = 1 \/ code'[i - 1].op \in {"jmpi", "jmpr", "epilog"}
              /\ code'[i].ask # <<>> => \E b \in 1 .. i - 1 : /\ code'[b].op \in Heads \ {"epilog"}
                                                              /\ \A h \in b + 1 .. i : code'[h].op \notin Heads
              /\ code'[i].ask # <<>> => \E b \in 1 .. i - 1 : /\ code'[b].op = "prolog"
                                                              /\ \A h \in b + 1 .. i : code'[h].op # "epilog"
    BY <1>1, <1>2 DEF WellFormed
  <1>3. /\ Operands(code[i]) \subseteq Reg
        /\ code[i].op \in Jumps => i < Len(code) /\ code[i + 1].op \in Heads
        /\ code[i].op \in ToLabel \/ code[i].to # None =>
             code[i].to \in 1 .. Len(code) /\ code[code[i].to].op \in Heads
        /\ code[i].op = "prolog" => i = 1 \/ code[i - 1].op \in {"jmpi", "jmpr", "epilog"}
        /\ code[i].ask # <<>> => \E b \in 1 .. i - 1 : /\ code[b].op \in Heads \ {"epilog"}
                                                       /\ \A h \in b + 1 .. i : code[h].op \notin Heads
        /\ code[i].ask # <<>> => \E b \in 1 .. i - 1 : /\ code[b].op = "prolog"
                                                       /\ \A h \in b + 1 .. i : code[h].op # "epilog"
    BY <1>2 DEF WellFormed
  <1>4. Operands(code'[i]) \subseteq Reg
    BY <1>3 DEF Rewritten
  <1>5. code'[i].op \in Jumps => i < Len(code) /\ code'[i + 1].op \in Heads
    <2>1. code'[i].op \in Jumps => code[i].op \in Jumps
      BY <1>2
    <2>. QED
      BY <2>1, <1>2, <1>3, Shape
  <1>6. ASSUME code'[i].op \in ToLabel \/ code'[i].to # None
        PROVE  code'[i].to \in 1 .. Len(code) /\ code'[code'[i].to].op \in Heads
    <2>1. code'[i].to = code[i].to /\ (code[i].op \in ToLabel \/ code[i].to # None)
      BY <1>6, <1>2 DEF Rewritten, Jumps, ToLabel, Plain, Conditional
    <2>. QED
      BY <2>1, <1>2, <1>3
  <1>7. ASSUME code'[i].op = "prolog", i # 1
        PROVE  code'[i - 1].op \in {"jmpi", "jmpr", "epilog"}
    <2>1. code[i].op = "prolog"
      BY <1>7, <1>2 DEF Heads
    <2>2. i - 1 \in Nodes /\ code[i - 1].op \in {"jmpi", "jmpr", "epilog"}
      BY <2>1, <1>3, <1>7, Shape
    <2>. QED
      BY <2>2, <1>2 DEF Heads, Jumps, ToLabel
  <1>8. ASSUME code'[i].ask # <<>>
        PROVE  \E b \in 1 .. i - 1 : /\ code'[b].op \in Heads \ {"epilog"}
                                     /\ \A h \in b + 1 .. i : code'[h].op \notin Heads
    <2>1. code[i].ask # <<>>
      BY <1>8 DEF Rewritten
    <2>2. PICK b \in 1 .. i - 1 : /\ code[b].op \in Heads \ {"epilog"}
                                 /\ \A h \in b + 1 .. i : code[h].op \notin Heads
      BY <2>1, <1>3
    <2>3. i \in 1 .. Len(code) /\ Len(code) \in Nat
      BY Shape
    <2>4. b \in Nodes /\ \A h \in b + 1 .. i : h \in Nodes
      BY <2>2, <2>3, <1>2
    <2>5. code'[b].op = code[b].op
      BY <2>2, <2>4, <1>2
    <2>6. \A h \in b + 1 .. i : code'[h].op \notin Heads
      BY <2>2, <2>4, <1>2
    <2>. QED
      BY <2>2, <2>5, <2>6
  <1>9. ASSUME code'[i].ask # <<>>
        PROVE  \E b \in 1 .. i - 1 : /\ code'[b].op = "prolog"
                                     /\ \A h \in b + 1 .. i : code'[h].op # "epilog"
    <2>1. code[i].ask # <<>>
      BY <1>9 DEF Rewritten
    <2>2. PICK b \in 1 .. i - 1 : /\ code[b].op = "prolog"
                                 /\ \A h \in b + 1 .. i : code[h].op # "epilog"
      BY <2>1, <1>3
    <2>3. i \in 1 .. Len(code) /\ Len(code) \in Nat
      BY Shape
    <2>4. b \in Nodes /\ \A h \in b + 1 .. i : h \in Nodes
      BY <2>2, <2>3, <1>2
    <2>5. code'[b].op = "prolog"
      BY <2>2, <2>4, <1>2 DEF Heads
    <2>6. \A h \in b + 1 .. i : code'[h].op # "epilog"
      BY <2>2, <2>4, <1>2 DEF Heads
    <2>. QED
      BY <2>2, <2>5, <2>6
  <1>. QED
    BY <1>4, <1>5, <1>6, <1>7, <1>8, <1>9

LEMMA RewrittenFlow ==
  ASSUME WellFormed(code), Rewritten
  PROVE  /\ Followed' = Followed /\ Branches' = Branches /\ Ends' = Ends
         /\ \A b \in Blocks : AtEpilog(b)' = AtEpilog(b) /\ RunsInto(code, b)' = RunsInto(code, b)
         /\ \A b \in Blocks : Leads(b)' = Leads(b)
         /\ \A i \in Nodes : code'[i].op \in Jumps <=> code[i].op \in Jumps
  <1>1. /\ Nodes' = Nodes /\ Blocks' = Blocks
        /\ \A i \in Nodes : code[i].op \in Heads \cup Jumps \/ code'[i].op \in Heads \cup Jumps =>
              code'[i] = code[i]
        /\ \A b : Body(b)' = Body(b) /\ After(b)' = After(b)
    BY RewrittenPlaces
  <1>2. Blocks \subseteq Nodes /\ Nodes = 1 .. Len(code) /\ Len(code) \in Nat
    BY Shape
  <1>3. \A b \in Blocks : code'[b] = code[b]
    BY <1>1, <1>2 DEF Blocks
  <1>4. \A b \in Blocks : AtEpilog(b)' = AtEpilog(b)
    BY <1>3 DEF AtEpilog
  <1>5. \A i \in Nodes : code'[i].op \in Jumps <=> code[i].op \in Jumps
    BY <1>1
  <1>6. \A i \in Nodes : code'[i].op \in ToLabel <=> code[i].op \in ToLabel
    BY <1>1 DEF Jumps
  <1>7. Followed' = Followed
    BY <1>1, <1>4 DEF Followed
  <1>8. Branches' = Branches
    BY <1>1 DEF Branches, Jumps, ToLabel, Conditional
  <1>9. Ends' = Ends
    BY <1>1, <1>6 DEF Ends
  <1>10. ASSUME NEW b \in Blocks PROVE RunsInto(code, b)' = RunsInto(code, b)
    <2>1. ASSUME b > 1 PROVE (code'[b - 1].op \notin {"jmpi", "jmpr", "epilog"}) =
                             (code[b - 1].op \notin {"jmpi", "jmpr", "epilog"})
      BY <1>1, <1>2, <2>1 DEF Heads, Jumps, ToLabel
    <2>. QED
      BY <1>3, <2>1 DEF RunsInto, Leaves
  <1>11. ASSUME NEW b \in Blocks PROVE Leads(b)' = Leads(b)
    <2>1. Targets(b)' = Targets(b)
      <3>1. Body(b) \subseteq Nodes
        BY DEF Body
      <3>2. \A j \in Body(b) : code[j].op \in ToLabel => code'[j] = code[j]
        BY <3>1, <1>1 DEF Jumps
      <3>. QED
        BY <1>1, <1>6, <3>1, <3>2 DEF Targets
    <2>2. NextLabel(b)' = NextLabel(b) /\ NextLabel(b) \subseteq Blocks
      BY <1>1, <1>3 DEF NextLabel, After
    <2>. QED
      BY <2>1, <2>2, <1>10 DEF Leads
  <1>. QED
    BY <1>4, <1>5, <1>7, <1>8, <1>9, <1>10, <1>11

(***************************************************************************)
(* What the simplifier does to a node, and to what it remembers.           *)
(***************************************************************************)
LEMMA MinOf ==
  ASSUME NEW S, S \subseteq Nat, S # {}
  PROVE  Min(S) \in S /\ \A m \in S : Min(S) =< m
  BY Smallest DEF Min

LEMMA OperandsOf ==
  ASSUME NEW n
  PROVE  /\ n.op = "movi" => Operands(n) = {n.u} /\ Used(n) = {}
         /\ n.op \in {"movr", "ldxi"} => Operands(n) = {n.u, n.v} /\ Used(n) = {n.v}
         /\ n.op = "stxi" => Operands(n) = {n.v, n.w}
         /\ n.op \in {"gone"} \cup Heads => Operands(n) = {}
         /\ n.op \in Plain => Paired(n) = {} /\ Clobbered(n) = {}
  BY DEF Operands, Changed, Used, Paired, Clobbered, ChangesU, ChangesV, ReadsU, ReadsV, ReadsW, Heads, Calls, Plain

LEMMA WordIs ==
  /\ Cardinality(Word) \in Nat \ {0} /\ Word = 0 .. Cardinality(Word) - 1
  /\ Word \subseteq Nat /\ None \in Word
  <1>1. Cardinality(Word) \in Nat /\ Word = 0 .. Cardinality(Word) - 1 /\ Word # {}
    BY WordAssumption, FS_CardinalityType
  <1>. QED
    BY <1>1 DEF None

LEMMA DeletedIs ==
  /\ Deleted \in Instruction /\ Deleted.op = "gone" /\ Deleted.to = None /\ Deleted.ask = <<>>
  /\ Operands(Deleted) = {}
  BY OperandsOf, WordIs DEF Deleted, Instruction, Operations, None

\* A move of a constant that becomes a move of a register.
Moved(i, v) == [code[i] EXCEPT !.op = "movr", !.v = v, !.k = None]

LEMMA MovedIs ==
  ASSUME NEW i, code[i] \in Instruction, Operands(code[i]) \subseteq Reg, code[i].op = "movi", NEW v \in Reg
  PROVE  /\ Moved(i, v) \in Instruction /\ Moved(i, v).op = "movr"
         /\ Moved(i, v).u = code[i].u /\ Moved(i, v).v = v /\ Moved(i, v).to = code[i].to
         /\ Moved(i, v).ask = code[i].ask
         /\ Operands(Moved(i, v)) = {code[i].u, v}
  <1>. DEFINE m == Moved(i, v)
  <1>1. m \in Instruction
    BY WordIs DEF Moved, Instruction, Operations, None
  <1>2. m.op = "movr" /\ m.u = code[i].u /\ m.v = v /\ m.to = code[i].to /\ m.ask = code[i].ask
    BY DEF Moved, Instruction
  <1>. QED
    BY <1>1, <1>2, OperandsOf

LEMMA Renewed ==
  ASSUME NEW i \in Nodes, code \in Seq(Instruction), NEW d \in Instruction, code' = [code EXCEPT ![i] = d]
  PROVE  /\ code' \in Seq(Instruction) /\ Len(code') = Len(code)
         /\ code'[i] = d /\ \A j \in Nodes : j # i => code'[j] = code[j]
  BY DEF Nodes

LEMMA SimplifyRewrites ==
  ASSUME Typed, NEW i \in Nodes, Removal(i) \/ Keeping(i)
  PROVE  /\ Rewritten
         /\ \/ code' = code
            \/ /\ code[i].op \in {"movr", "movi", "ldxi"} /\ code'[i] = Deleted /\ Removal(i)
               /\ \A j \in Nodes : j # i => code'[j] = code[j]
            \/ /\ code[i].op = "movi" /\ MoviToMovr(i) /\ Holders(i) # {} /\ Min(Holders(i)) \in Holders(i)
               /\ code'[i] = Moved(i, Min(Holders(i)))
               /\ \A j \in Nodes : j # i => code'[j] = code[j]
  <1>1. code \in Seq(Instruction) /\ code[i] \in Instruction /\ Operands(code[i]) \subseteq Reg
    BY Shape DEF Typed, WellFormed
  <1>2. ASSUME code' = code PROVE Rewritten
    BY <1>2, <1>1 DEF Rewritten
  <1>3. ASSUME Removal(i)
        PROVE  /\ Rewritten
               /\ code[i].op \in {"movr", "movi", "ldxi"} /\ code'[i] = Deleted /\ Removal(i)
               /\ \A j \in Nodes : j # i => code'[j] = code[j]
    <2>1. code[i].op \in {"movr", "movi", "ldxi"} /\ code' = [code EXCEPT ![i] = Deleted]
      BY <1>3 DEF Removal, DropMovr, DropMovi, DropLdxi, Delete
    <2>2. /\ code' \in Seq(Instruction) /\ Len(code') = Len(code)
          /\ code'[i] = Deleted /\ \A j \in Nodes : j # i => code'[j] = code[j]
      BY <2>1, <1>1, Renewed, DeletedIs
    <2>3. Rewritten
      BY <2>1, <2>2, DeletedIs DEF Rewritten, Plain
    <2>. QED
      BY <1>3, <2>1, <2>2, <2>3
  <1>4. ASSUME MoviToMovr(i)
        PROVE  /\ Rewritten
               /\ code[i].op = "movi" /\ Holders(i) # {} /\ Min(Holders(i)) \in Holders(i)
               /\ code'[i] = Moved(i, Min(Holders(i)))
               /\ \A j \in Nodes : j # i => code'[j] = code[j]
    <2>. DEFINE v == Min(Holders(i))
    <2>1. code[i].op = "movi" /\ Holders(i) # {} /\ Holders(i) \subseteq Reg
      BY <1>4 DEF MoviToMovr, Holders
    <2>2. v \in Holders(i)
      BY <2>1, MinOf, RegAssumption
    <2>3. code' = [code EXCEPT ![i].op = "movr", ![i].v = v, ![i].k = None]
      BY <1>4 DEF MoviToMovr
    <2>. HIDE DEF v
    <2>4. code' = [code EXCEPT ![i] = Moved(i, v)]
      BY <2>3, <1>1 DEF Moved, Nodes
    <2>5. /\ code' \in Seq(Instruction) /\ Len(code') = Len(code)
          /\ code'[i] = Moved(i, v) /\ \A j \in Nodes : j # i => code'[j] = code[j]
      BY <2>1, <2>2, <2>4, <1>1, Renewed, MovedIs
    <2>6. Rewritten
      <3>1. /\ Moved(i, v).op = "movr" /\ Operands(Moved(i, v)) \subseteq Reg /\ Moved(i, v).to = code[i].to
            /\ Moved(i, v).ask = code[i].ask
        BY <2>1, <2>2, <1>1, MovedIs, OperandsOf
      <3>. QED
        BY <2>1, <2>5, <3>1 DEF Rewritten, Plain
    <2>. QED
      BY <2>1, <2>2, <2>5, <2>6 DEF v
  <1>5. Keeping(i) => MoviToMovr(i) \/ code' = code
    BY DEF Keeping, Reset, Movr, Movi, Ldxi, Stxi, Other
  <1>. QED
    BY <1>2, <1>3, <1>4, <1>5

LEMMA SimplifyValues ==
  ASSUME Typed, NEW i \in Nodes, Removal(i) \/ Keeping(i)
  PROVE  values' \in [Reg -> Value] /\ gen' \in [Reg -> Nat]
  <1>1. values \in [Reg -> Value] /\ gen \in [Reg -> Nat]
    BY DEF Typed
  <1>2. /\ code[i].u \in Reg \cup {None} /\ code[i].v \in Reg \cup {None} /\ code[i].k \in Nat
        /\ Operands(code[i]) \subseteq Reg
    BY Shape, WordIs DEF Typed, Instruction
  <1>3. /\ Unknown \in Value /\ \A k \in Nat : Constant(k) \in Value
        /\ \A r \in Reg : Copy(r) \in Value /\ Loaded(r) \in Value
    BY <1>1 DEF Unknown, Constant, Copy, Loaded, Value, Kind, None
  <1>4. ASSUME NEW r \in Reg, NEW value \in Value, Remember(r, value)
        PROVE  values' \in [Reg -> Value] /\ gen' \in [Reg -> Nat]
    BY <1>1, <1>4 DEF Remember
  <1>5. CASE UNCHANGED valueVars
    BY <1>1, <1>5 DEF valueVars
  <1>6. CASE Reset(i)
    BY <1>3, <1>6 DEF Reset, NoValues, NoGen
  <1>7. CASE Movr(i)
    <2>1. code[i].u \in Reg /\ code[i].v \in Reg
      BY <1>2, <1>7, OperandsOf DEF Movr
    <2>. QED
      BY <2>1, <1>1, <1>3, <1>4, <1>7 DEF Movr
  <1>8. CASE Movi(i)
    <2>1. code[i].u \in Reg
      BY <1>2, <1>8, OperandsOf DEF Movi
    <2>. QED
      BY <2>1, <1>2, <1>3, <1>4, <1>8 DEF Movi
  <1>9. CASE MoviToMovr(i)
    <2>1. code[i].u \in Reg
      BY <1>2, <1>9, OperandsOf DEF MoviToMovr
    <2>. QED
      BY <2>1, <1>2, <1>3, <1>4, <1>9 DEF MoviToMovr
  <1>10. CASE Ldxi(i)
    <2>1. code[i].u \in Reg /\ code[i].v \in Reg
      BY <1>2, <1>10, OperandsOf DEF Ldxi
    <2>. QED
      BY <2>1, <1>1, <1>3, <1>4, <1>10 DEF Ldxi
  <1>11. CASE Stxi(i)
    <2>1. code[i].w \in Reg /\ code[i].v \in Reg
      BY <1>2, <1>11, OperandsOf DEF Stxi
    <2>2. gen' \in [Reg -> Nat]
      BY <1>1, <1>11 DEF Stxi
    <2>3. [kind |-> "code", base |-> code[i].v, gen |-> gen'[code[i].v], k |-> None] \in Value
      BY <2>1, <2>2 DEF Value, Kind, None
    <2>. QED
      BY <2>2, <2>3, <1>1, <1>3, <1>11 DEF Stxi
  <1>12. CASE Other(i)
    BY <1>1, <1>3, <1>12 DEF Other
  <1>. QED
    BY <1>5, <1>6, <1>7, <1>8, <1>9, <1>10, <1>11, <1>12 DEF Removal, Keeping, DropMovr, DropMovi, DropLdxi

LEMMA StoresRewrite ==
  ASSUME Typed, NEW i \in Nodes, NEW f, RedundantStore(i, f)
  PROVE  /\ Rewritten
         /\ \A j \in Nodes : IF j \in Redundant(i) THEN code'[j] = Deleted ELSE code'[j] = code[j]
         /\ code[i].op = "beqi" /\ code[i].to \in Blocks
         /\ \A j \in Redundant(i) : j \in Body(code[i].to) /\ SetsTo(code[j], code[i].v, code[i].k)
  <1>1. code \in Seq(Instruction) /\ Nodes = 1 .. Len(code) /\ Len(code) \in Nat
    BY Shape DEF Typed, WellFormed
  <1>2. code' = [j \in Nodes |-> IF j \in Redundant(i) THEN Deleted ELSE code[j]]
    BY DEF RedundantStore
  <1>3. \A j \in Nodes : (IF j \in Redundant(i) THEN Deleted ELSE code[j]) \in Instruction
    BY <1>1, DeletedIs
  <1>4. code' \in Seq(Instruction) /\ Len(code') = Len(code)
    BY <1>1, <1>2, <1>3
  <1>5. \A j \in Nodes : IF j \in Redundant(i) THEN code'[j] = Deleted ELSE code'[j] = code[j]
    BY <1>2
  <1>6. \A j \in Redundant(i) : j \in Body(code[i].to) /\ SetsTo(code[j], code[i].v, code[i].k)
    BY DEF Redundant
  <1>7. \A j \in Redundant(i) : code[j].op = "movi"
    BY <1>6 DEF SetsTo
  <1>8. Rewritten
    BY <1>4, <1>5, <1>7, DeletedIs DEF Rewritten, Plain
  <1>9. code[i].op = "beqi" /\ code[i].to \in Blocks
    BY Shape DEF RedundantStore, Typed, ToLabel, Conditional
  <1>. QED
    BY <1>5, <1>6, <1>8, <1>9

-----------------------------------------------------------------------------
(***************************************************************************)
(* Types are kept.                                                         *)
(***************************************************************************)
LEMMA ProgramShape == ASSUME code \in Programs PROVE WellFormed(code)
  BY ProgramsAssumption DEF WellFormed

LEMMA TypedStart == Init => Typed /\ Looping
  <1>. SUFFICES ASSUME Init PROVE Typed /\ Looping
    OBVIOUS
  <1>1. WellFormed(code)
    BY ProgramShape DEF Init
  <1>2. Unknown \in Value
    BY DEF Unknown, Value, Kind, None
  <1>3. values \in [Reg -> Value] /\ gen \in [Reg -> Nat]
    BY <1>2 DEF Init, NoValues, NoGen
  <1>4. node \in 1 .. End
    BY <1>1, Shape DEF Init
  <1>5. reglive \in RegSets /\ regmask \in RegSets
    BY DEF Init, RegSets
  <1>6. /\ again \subseteq Blocks /\ falls \subseteq Blocks
        /\ live \subseteq Reg /\ mask \subseteq Reg /\ arg \subseteq Reg /\ sav \subseteq Reg
        /\ regset \in RegSets /\ lent \in Seq(Reg)
    BY DEF Init, RegSets
  <1>7. /\ slot \in [Reg -> {"none", "own", "junk"}] /\ holds \in [Reg -> {"own", "junk"}]
        /\ \A r \in sav : slot[r] # "none"
    BY DEF Init
  <1>8. /\ phase = "setup" /\ always \in BOOLEAN /\ todo \in BOOLEAN
        /\ block \in Blocks \cup {None} /\ stage = "begin" /\ asked \in Nat
    BY DEF Init
  <1>9. Looping
    BY <1>8 DEF Looping
  <1>. QED
    BY <1>1, <1>3, <1>4, <1>5, <1>6, <1>7, <1>8, <1>9 DEF Typed

\* What a node is, where a loop goes on from it.
LEMMA Onward ==
  ASSUME Typed, NEW S, S \subseteq Nodes, NEW i \in Nat, i >= 1
  PROVE  /\ From(i, S) \in 1 .. End /\ (From(i, S) # End => From(i, S) \in S)
         /\ \A j \in S : j >= i => From(i, S) =< j
         /\ From(i, S) >= i \/ From(i, S) = End
  BY Shape, FirstFrom DEF Typed

LEMMA NodeIs ==
  ASSUME Typed
  PROVE  /\ node \in Nat /\ node >= 1 /\ (node # End => node \in Nodes /\ node + 1 \in 1 .. End)
         /\ Followed \subseteq Nodes /\ Branches \subseteq Nodes /\ Ends \subseteq Nodes /\ Blocks \subseteq Nodes
  BY Shape DEF Typed, Followed, Branches, Ends

LEMMA SetsInReg ==
  ASSUME Typed
  PROVE  \A b : Referred(b) \subseteq Reg /\ Exposed(b) \subseteq Reg
  BY Shape DEF Typed, Referred, Exposed, Body

LEMMA TypedLive ==
  ASSUME Typed, Setup \/ MarkHeads \/ (\E b \in Followed : Follow(b))
         \/ (\E b \in Blocks : \E t \in Blocks : UpdateBlock(b, t))
  PROVE  reglive' \in RegSets /\ regmask' \in RegSets /\ again' \subseteq Blocks /\ falls' \subseteq Blocks
  <1>1. reglive \in [Blocks -> SUBSET Reg] /\ regmask \in [Blocks -> SUBSET Reg] /\ again \subseteq Blocks
        /\ falls \subseteq Blocks
    BY DEF Typed, RegSets
  <1>2. Ret \subseteq Reg /\ Saved \subseteq Reg
    BY RegAssumption
  <1>3. CASE Setup
    BY <1>1, <1>2, <1>3, SetsInReg DEF Setup, RegSets
  <1>4. CASE MarkHeads
    <2>1. Orphans \subseteq Blocks
      BY DEF Orphans
    <2>2. reglive' \in [Blocks -> SUBSET Reg]
      BY <1>1, <1>2, <1>4 DEF MarkHeads
    <2>3. regmask' \in [Blocks -> SUBSET Reg]
      BY <1>1, <1>4 DEF MarkHeads
    <2>. QED
      BY <2>1, <2>2, <2>3, <1>1, <1>4 DEF MarkHeads, RegSets
  <1>5. ASSUME NEW b \in Followed, Follow(b)
        PROVE  reglive' \in RegSets /\ regmask' \in RegSets /\ again' \subseteq Blocks /\ falls' \subseteq Blocks
    <2>1. b \in Blocks
      BY DEF Followed
    <2>2. Gained(b) \subseteq Reg
      BY <1>1, <2>1 DEF Gained, Through
    <2>3. reglive' \in RegSets
      BY <1>1, <1>2, <1>5, <2>1, <2>2 DEF Follow, RegSets
    <2>4. regmask' \in RegSets
      BY <1>1, <1>5, <2>1 DEF Follow, RegSets
    <2>. QED
      BY <1>1, <1>5, <2>1, <2>3, <2>4 DEF Follow
  <1>6. ASSUME NEW b \in Blocks, NEW t \in Blocks, UpdateBlock(b, t)
        PROVE  reglive' \in RegSets /\ regmask' \in RegSets /\ again' \subseteq Blocks /\ falls' \subseteq Blocks
    <2>. DEFINE l == [reglive EXCEPT ![b] = @ \cup Missing(b, t)]
                m == [regmask EXCEPT ![b] = @ \ Missing(b, t)]
                more(p) == (l[p] \cup l[b]) \cap m[p]
                back == {p \in Blocks : /\ p < b
                           /\ \A q \in Blocks : p < q /\ q < b => more(q) # {} /\ q \in falls}
    <2>1. Missing(b, t) \subseteq Reg
      BY <1>1 DEF Missing
    <2>2. l \in [Blocks -> SUBSET Reg] /\ m \in [Blocks -> SUBSET Reg]
      BY <1>1, <2>1
    <2>3. /\ reglive' = [p \in Blocks |-> IF p \in back THEN l[p] \cup more(p) ELSE l[p]]
          /\ regmask' = [p \in Blocks |-> IF p \in back THEN m[p] \ more(p) ELSE m[p]]
          /\ again' = again \cup {b} \cup {p \in back : more(p) # {}}
          /\ falls' = falls
      BY <1>6 DEF UpdateBlock
    <2>. HIDE DEF l, m
    <2>4. reglive' \in [Blocks -> SUBSET Reg] /\ regmask' \in [Blocks -> SUBSET Reg]
      BY <2>2, <2>3
    <2>. QED
      BY <2>3, <2>4, <1>1 DEF RegSets
  <1>. QED
    BY <1>3, <1>4, <1>5, <1>6

LEMMA TypedPasses ==
  ASSUME Typed, Looping, Passes
  PROVE  Typed' /\ Looping'
  <1>1. /\ node \in Nat /\ node >= 1 /\ (node # End => node \in Nodes /\ node + 1 \in 1 .. End)
        /\ Followed \subseteq Nodes /\ Branches \subseteq Nodes /\ Ends \subseteq Nodes /\ Blocks \subseteq Nodes
        /\ 1 \in 1 .. End
    BY NodeIs, Shape DEF Typed
  <1>2. ASSUME NEW S \in SUBSET Nodes, NEW i \in {1, node + 1}
        PROVE  From(i, S) \in 1 .. End /\ (From(i, S) # End => From(i, S) \in S)
    BY <1>1, Onward
  <1>3. ASSUME UNCHANGED code
        PROVE  /\ Nodes' = Nodes /\ Blocks' = Blocks /\ End' = End /\ RegSets' = RegSets
               /\ Followed' = Followed /\ Branches' = Branches /\ Ends' = Ends /\ WellFormed(code)'
    BY <1>3, SameCode DEF Typed
  <1>. DEFINE LiveTyped == reglive \in RegSets /\ regmask \in RegSets /\ again \subseteq Blocks /\ falls \subseteq Blocks
              Others == /\ values \in [Reg -> Value] /\ gen \in [Reg -> Nat]
                        /\ live \subseteq Reg /\ mask \subseteq Reg /\ arg \subseteq Reg /\ sav \subseteq Reg
                        /\ lent \in Seq(Reg)
                        /\ slot \in [Reg -> {"none", "own", "junk"}] /\ holds \in [Reg -> {"own", "junk"}]
                        /\ \A r \in sav : slot[r] # "none"
              Control == /\ phase \in {"setup", "follow", "simplify", "stores", "check", "emit", "done", "failed"}
                         /\ node \in 1 .. End /\ always \in BOOLEAN /\ todo \in BOOLEAN
                         /\ block \in Blocks \cup {None} /\ stage \in {"begin", "within", "behind"} /\ asked \in Nat
  <1>4. LiveTyped /\ Others /\ Control /\ regset \in RegSets /\ WellFormed(code)
    BY DEF Typed
  <1>5. ASSUME WellFormed(code)', LiveTyped', Others', Control', regset' \in RegSets', Looping'
        PROVE  Typed' /\ Looping'
    BY <1>5 DEF Typed
  <1>. HIDE DEF LiveTyped, Others, Control
  <1>6. ASSUME UNCHANGED <<code, liveVars>> PROVE LiveTyped'
    BY <1>3, <1>4, <1>6 DEF LiveTyped, liveVars
  <1>7. ASSUME UNCHANGED <<valueVars, lendVars>>, RegSets' = RegSets PROVE Others' /\ regset' \in RegSets'
    BY <1>4, <1>7 DEF Others, valueVars, lendVars
  <1>8. CASE SetupBlocks
    <2>1. UNCHANGED <<code, valueVars, lendVars>> /\ Setup
      BY <1>8 DEF SetupBlocks
    <2>2. LiveTyped'
      BY <2>1, <1>3, TypedLive DEF LiveTyped
    <2>3. Control'
      BY <1>2, <1>3, <1>4, <1>8, <2>1, <1>1 DEF SetupBlocks, Control
    <2>4. Looping'
      BY <1>2, <1>3, <1>8, <2>1, <1>1 DEF SetupBlocks, Looping, Generating
    <2>. QED
      BY <1>3, <1>5, <1>7, <2>1, <2>2, <2>3, <2>4
  <1>9. CASE FollowBlock
    <2>1. UNCHANGED <<code, valueVars, lendVars>> /\ (Follow(node) \/ UNCHANGED liveVars) /\ node \in Followed
      BY <1>9 DEF FollowBlock, Looping, Generating
    <2>2. LiveTyped'
      BY <2>1, <1>3, <1>6, TypedLive DEF LiveTyped
    <2>3. Control'
      BY <1>2, <1>3, <1>4, <1>9, <2>1, <1>1 DEF FollowBlock, Control
    <2>4. Looping'
      BY <1>2, <1>3, <1>9, <2>1, <1>1 DEF FollowBlock, Looping, Generating
    <2>. QED
      BY <1>3, <1>5, <1>7, <2>1, <2>2, <2>3, <2>4
  <1>10. CASE Heading
    <2>1. UNCHANGED <<code, valueVars, lendVars>> /\ MarkHeads
      BY <1>10 DEF Heading
    <2>2. LiveTyped'
      BY <2>1, <1>3, TypedLive DEF LiveTyped
    <2>3. Control'
      BY <1>3, <1>4, <1>10, <2>1, <1>1 DEF Heading, Control
    <2>4. Looping'
      BY <1>10, <2>1 DEF Heading, Looping, Generating
    <2>. QED
      BY <1>3, <1>5, <1>7, <2>1, <2>2, <2>3, <2>4
  <1>11. ASSUME Rewritten, UNCHANGED <<lendVars, always, block, stage, asked>>,
                UNCHANGED <<reglive, regmask, falls>>, again' \subseteq Blocks,
                values' \in [Reg -> Value], gen' \in [Reg -> Nat], node' \in 1 .. End, todo' \in BOOLEAN,
                phase' \in {"simplify", "stores"}, Looping'
         PROVE  Typed' /\ Looping'
    <2>1. WellFormed(code)' /\ Blocks' = Blocks /\ End' = End /\ RegSets' = RegSets
      BY <1>4, <1>11, RewrittenForm, RewrittenPlaces
    <2>2. LiveTyped'
      BY <1>4, <1>11, <2>1 DEF LiveTyped
    <2>3. Others' /\ regset' \in RegSets'
      BY <1>4, <1>11, <2>1 DEF Others, lendVars
    <2>4. Control'
      BY <1>4, <1>11, <2>1 DEF Control
    <2>. QED
      BY <1>5, <1>11, <2>1, <2>2, <2>3, <2>4
  <1>12. CASE SimplifyNode
    <2>1. node \in Nodes /\ (Removal(node) \/ Keeping(node)) /\ UNCHANGED <<liveVars, lendVars, phase, always, block, stage, asked>>
      BY <1>1, <1>12 DEF SimplifyNode
    <2>2. Rewritten /\ values' \in [Reg -> Value] /\ gen' \in [Reg -> Nat]
      BY <2>1, SimplifyRewrites, SimplifyValues
    <2>3. node' \in 1 .. End /\ todo' \in BOOLEAN /\ phase' = "simplify"
      BY <1>1, <1>4, <1>12 DEF SimplifyNode, Control
    <2>4. Looping'
      BY <2>1, <2>3 DEF Looping, Generating
    <2>5. UNCHANGED <<reglive, regmask, falls>> /\ again' \subseteq Blocks
      BY <1>4, <2>1 DEF liveVars, LiveTyped
    <2>. QED
      BY <1>11, <2>1, <2>2, <2>3, <2>4, <2>5
  <1>13. CASE DropStores
    <2>1. node \in Nodes /\ RedundantStore(node, falls) /\ UNCHANGED <<reglive, regmask, falls, valueVars, lendVars, phase, always, block, stage, asked>>
          /\ again' = again \cup {code[node].to} /\ todo' = TRUE /\ phase = "stores" /\ node' = From(node + 1, Branches)
      BY <1>1, <1>13 DEF DropStores
    <2>2. Rewritten /\ code[node].to \in Blocks
      BY <2>1, StoresRewrite
    <2>3. node' \in 1 .. End /\ (node' # End => node' \in Branches)
      BY <1>1, <1>2, <2>1
    <2>4. Looping'
      <3>1. End' = End /\ Branches' = Branches
        BY <2>2, <1>4, RewrittenPlaces, RewrittenFlow
      <3>. QED
        BY <3>1, <2>1, <2>3 DEF Looping, Generating
    <2>5. again' \subseteq Blocks
      BY <1>4, <2>1, <2>2 DEF LiveTyped
    <2>6. values' \in [Reg -> Value] /\ gen' \in [Reg -> Nat]
      BY <1>4, <2>1 DEF Others, valueVars
    <2>. QED
      BY <1>11, <2>1, <2>2, <2>3, <2>4, <2>5, <2>6
  <1>14. ASSUME UNCHANGED <<code, valueVars, lendVars>>, LiveTyped', Control', Looping'
         PROVE  Typed' /\ Looping'
    BY <1>3, <1>5, <1>7, <1>14
  <1>15. CASE StartStores \/ KeepStores \/ EndStores \/ EndFollow \/ VisitKeeps \/ CheckAgain
    <2>1. UNCHANGED <<code, liveVars, valueVars, lendVars>>
      BY <1>15 DEF StartStores, KeepStores, EndStores, EndFollow, VisitKeeps, Visit, CheckAgain
    <2>2. Control'
      BY <1>1, <1>2, <1>3, <1>4, <1>15, <2>1 DEF StartStores, KeepStores, EndStores, EndFollow, VisitKeeps, Visit, CheckAgain, Control
    <2>3. Looping'
      BY <1>1, <1>2, <1>3, <1>15, <2>1 DEF StartStores, KeepStores, EndStores, EndFollow, VisitKeeps, Visit, CheckAgain, Looping, Generating
    <2>. QED
      BY <1>6, <1>14, <2>1, <2>2, <2>3
  <1>16. CASE VisitUpdates
    <2>1. /\ UNCHANGED <<code, valueVars, lendVars>> /\ Visit /\ Updates /\ UpdateBlock(Leading, Target) /\ todo' = TRUE
          /\ node \in Ends
      BY <1>16 DEF VisitUpdates, Visit, Looping, Generating
    <2>2. Leading \in Blocks /\ Target \in Blocks
      BY <1>4, <2>1 DEF Updates, Leading, Control, LiveTyped
    <2>3. LiveTyped'
      BY <2>1, <2>2, <1>3, TypedLive DEF LiveTyped
    <2>4. Control'
      BY <1>1, <1>2, <1>3, <1>4, <2>1 DEF Visit, Control
    <2>5. Looping'
      BY <1>1, <1>2, <1>3, <2>1 DEF Visit, Looping, Generating
    <2>. QED
      BY <1>14, <2>1, <2>3, <2>4, <2>5
  <1>17. CASE EndOptimize
    <2>1. UNCHANGED <<code, liveVars, valueVars, live, mask, arg, sav, lent, slot, holds, always, todo, block, stage, asked>>
      BY <1>17 DEF EndOptimize
    <2>2. Others'
      BY <2>1, <1>4 DEF Others, valueVars
    <2>3. regset' \in RegSets'
      <3>1. \A i \in Nodes : Changed(code[i]) \subseteq Reg
        BY <1>4, Shape DEF Operands
      <3>. QED
        BY <3>1, <1>3, <1>17, <2>1 DEF EndOptimize, RegSets
    <2>4. Control'
      BY <1>1, <1>3, <1>4, <1>17, <2>1 DEF EndOptimize, Control
    <2>5. Looping'
      BY <1>17, <2>1 DEF EndOptimize, Looping, Generating
    <2>. QED
      BY <1>3, <1>5, <1>6, <2>1, <2>2, <2>3, <2>4, <2>5
  <1>. QED
    BY <1>8, <1>9, <1>10, <1>12, <1>13, <1>15, <1>16, <1>17 DEF Passes

-----------------------------------------------------------------------------
(***************************************************************************)
(* Registers lent: types, and what the sets of registers say of them.      *)
(***************************************************************************)
LEMMA LowestOf ==
  ASSUME NEW S, S \subseteq Reg, S # {}
  PROVE  Lowest(S) \in S
  <1>1. S \subseteq Nat
    BY RegAssumption
  <1>. QED
    BY <1>1, Smallest DEF Lowest

LEMMA ChoiceOf == ASSUME Idle # {} PROVE Choice \in Idle
  <1>1. Idle \subseteq Reg /\ (Lowest(Idle) \in mask /\ ~(Idle \subseteq mask) => Idle \ mask # {})
    BY DEF Idle
  <1>2. Lowest(Idle) \in Idle
    BY <1>1, LowestOf
  <1>3. Idle \ mask # {} => Lowest(Idle \ mask) \in Idle \ mask
    BY <1>1, LowestOf
  <1>. QED
    BY <1>1, <1>2, <1>3 DEF Choice

LEMMA GetIs ==
  ASSUME NEW q \in Requests, NEW f, Get(q, f), regset \in RegSets
  PROVE  \E r \in Reg :
           /\ r \notin arg /\ Lend(r) /\ KeepSaved(r, f)
           /\ \/ r \notin live /\ UNCHANGED <<sav, slot>>
              \/ r \notin sav /\ Spill(r)
  <1>1. CASE GetFree(q, f)
    <2>1. Choice \in Idle
      BY <1>1, ChoiceOf DEF GetFree
    <2>2. Choice \in Reg /\ Choice \notin arg /\ Choice \notin live
      BY <2>1 DEF Idle
    <2>. QED
      BY <1>1, <2>2 DEF GetFree
  <1>2. CASE GetSpilled(q, f)
    <2>1. Lowest(Spillable) \in Spillable
      BY <1>2, LowestOf DEF GetSpilled, Spillable
    <2>2. Lowest(Spillable) \in Reg /\ Lowest(Spillable) \notin arg /\ Lowest(Spillable) \notin sav
      BY <2>1 DEF Spillable
    <2>. QED
      BY <1>2, <2>2 DEF GetSpilled
  <1>3. CASE GetNamed(q)
    <2>1. q.named \in Reg \ Saved /\ q.named \notin arg /\ q.named \notin live
      BY <1>3 DEF GetNamed, Available, Requests
    <2>2. KeepSaved(q.named, f)
      <3>1. regset \in [Blocks -> SUBSET Reg] /\ {q.named} \cap Saved = {} /\ regset' = regset
        BY <1>3, <2>1 DEF RegSets, GetNamed
      <3>. QED
        BY <3>1 DEF KeepSaved
    <2>. QED
      BY <1>3, <2>1, <2>2 DEF GetNamed
  <1>4. CASE GetNamedSpilled(q, f)
    <2>1. q.named \in Reg /\ q.named \notin arg /\ q.named \notin sav
      BY <1>4 DEF GetNamedSpilled, Available, Requests
    <2>. QED
      BY <1>4, <2>1 DEF GetNamedSpilled
  <1>. QED
    BY <1>1, <1>2, <1>3, <1>4 DEF Get

LEMMA Consed ==
  ASSUME NEW S, NEW s \in Seq(S), NEW r \in S
  PROVE  /\ <<r>> \o s \in Seq(S) /\ DOMAIN (<<r>> \o s) = 1 .. Len(s) + 1
         /\ (<<r>> \o s)[1] = r /\ \A i \in DOMAIN s : (<<r>> \o s)[i + 1] = s[i]
         /\ \A i \in DOMAIN (<<r>> \o s) : i # 1 => i - 1 \in DOMAIN s /\ (<<r>> \o s)[i] = s[i - 1]
  OBVIOUS

LEMMA Tailed ==
  ASSUME NEW S, NEW s \in Seq(S), s # <<>>
  PROVE  /\ Tail(s) \in Seq(S) /\ 1 \in DOMAIN s /\ Head(s) = s[1]
         /\ \A i \in DOMAIN Tail(s) : i + 1 \in DOMAIN s /\ i \in Nat /\ Tail(s)[i] = s[i + 1]
         /\ \A i \in DOMAIN s : i # 1 => i - 1 \in DOMAIN Tail(s) /\ Tail(s)[i - 1] = s[i]
  OBVIOUS

LEMMA LentIn == ASSUME Typed PROVE Lent \subseteq Reg
  BY DEF Typed, Lent

LEMMA LendIs ==
  ASSUME Typed, NEW r \in Reg, Lend(r)
  PROVE  /\ lent' \in Seq(Reg) /\ arg' = arg \cup {r} /\ holds' = [holds EXCEPT ![r] = "junk"]
         /\ Lent' = Lent \cup {r} /\ UNCHANGED <<live, mask>>
         /\ (\A i, j \in DOMAIN lent : lent[i] = lent[j] => i = j) /\ r \notin Lent =>
               \A i, j \in DOMAIN lent' : lent'[i] = lent'[j] => i = j
  <1>1. lent \in Seq(Reg) /\ lent' = <<r>> \o lent
    BY DEF Typed, Lend
  <1>2. /\ lent' \in Seq(Reg) /\ DOMAIN lent' = 1 .. Len(lent) + 1 /\ lent'[1] = r
        /\ \A i \in DOMAIN lent : lent'[i + 1] = lent[i]
        /\ \A i \in DOMAIN lent' : i # 1 => i - 1 \in DOMAIN lent /\ lent'[i] = lent[i - 1]
    BY <1>1, Consed
  <1>3. DOMAIN lent = 1 .. Len(lent) /\ Len(lent) \in Nat
    BY <1>1
  <1>4. Lent' = Lent \cup {r}
    <2>1. Lent' \subseteq Lent \cup {r}
      BY <1>2 DEF Lent
    <2>2. r \in Lent'
      BY <1>2, <1>3 DEF Lent
    <2>3. ASSUME NEW i \in DOMAIN lent PROVE lent[i] \in Lent'
      <3>1. i + 1 \in DOMAIN lent' /\ lent'[i + 1] = lent[i]
        BY <1>2, <1>3
      <3>. QED
        BY <3>1 DEF Lent
    <2>4. Lent \subseteq Lent'
      BY <2>3 DEF Lent
    <2>. QED
      BY <2>1, <2>2, <2>4
  <1>5. ASSUME \A i, j \in DOMAIN lent : lent[i] = lent[j] => i = j, r \notin Lent,
               NEW i \in DOMAIN lent', NEW j \in DOMAIN lent', lent'[i] = lent'[j]
        PROVE  i = j
    <2>1. \A k \in DOMAIN lent : lent[k] # r
      BY <1>5 DEF Lent
    <2>2. CASE i = 1 \/ j = 1
      BY <1>2, <1>5, <2>1, <2>2
    <2>3. CASE i # 1 /\ j # 1
      <3>1. i - 1 = j - 1
        BY <1>2, <1>5, <2>3
      <3>. QED
        BY <3>1, <1>2
    <2>. QED
      BY <2>2, <2>3
  <1>. QED
    BY <1>2, <1>4, <1>5 DEF Lend

LEMMA UngetIs ==
  ASSUME Typed, Unget
  PROVE  /\ Head(lent) \in Reg /\ Head(lent) \in Lent /\ lent' \in Seq(Reg)
         /\ (\A i, j \in DOMAIN lent : lent[i] = lent[j] => i = j) =>
              /\ Lent' = Lent \ {Head(lent)}
              /\ \A i, j \in DOMAIN lent' : lent'[i] = lent'[j] => i = j
  <1>1. lent \in Seq(Reg) /\ lent # <<>> /\ lent' = Tail(lent)
    BY DEF Typed, Unget
  <1>2. /\ lent' \in Seq(Reg) /\ 1 \in DOMAIN lent /\ Head(lent) = lent[1]
        /\ \A i \in DOMAIN lent' : i + 1 \in DOMAIN lent /\ i \in Nat /\ lent'[i] = lent[i + 1]
        /\ \A i \in DOMAIN lent : i # 1 => i - 1 \in DOMAIN lent' /\ lent'[i - 1] = lent[i]
    BY <1>1, Tailed
  <1>3. Head(lent) \in Reg /\ Head(lent) \in Lent
    BY <1>1, <1>2 DEF Lent
  <1>4. ASSUME \A i, j \in DOMAIN lent : lent[i] = lent[j] => i = j
        PROVE  /\ Lent' = Lent \ {Head(lent)}
               /\ \A i, j \in DOMAIN lent' : lent'[i] = lent'[j] => i = j
    <2>1. \A i \in DOMAIN lent' : lent'[i] # Head(lent) /\ lent'[i] \in Lent
      <3>1. \A i \in DOMAIN lent' : i + 1 # 1
        BY <1>2
      <3>. QED
        BY <1>2, <1>4, <3>1 DEF Lent
    <2>2. \A i \in DOMAIN lent : lent[i] # Head(lent) => lent[i] \in Lent'
      BY <1>2 DEF Lent
    <2>3. Lent' \subseteq Lent \ {Head(lent)}
      BY <2>1 DEF Lent
    <2>4. Lent \ {Head(lent)} \subseteq Lent'
      BY <2>2 DEF Lent
    <2>5. ASSUME NEW i \in DOMAIN lent', NEW j \in DOMAIN lent', lent'[i] = lent'[j]
          PROVE  i = j
      <3>1. i + 1 = j + 1
        BY <1>2, <1>4, <2>5
      <3>. QED
        BY <3>1, <1>2
    <2>. QED
      BY <2>3, <2>4, <2>5
  <1>. QED
    BY <1>2, <1>3, <1>4

LEMMA EmitFacts ==
  ASSUME Typed, NEW s, Emitting(s)
  PROVE  /\ node \in Nodes /\ code[node] \in Instruction /\ Operands(code[node]) \subseteq Reg
         /\ node + 1 \in 1 .. End
         /\ code[node].ask \in Seq(Requests)
         /\ asked < Len(code[node].ask) => Request \in Requests
  <1>1. node \in Nodes /\ node + 1 \in 1 .. End
    BY NodeIs DEF Emitting
  <1>2. code[node] \in Instruction /\ Operands(code[node]) \subseteq Reg
    BY <1>1, Shape DEF Typed
  <1>3. code[node].ask \in Seq(Requests)
    BY <1>2 DEF Instruction
  <1>. QED
    BY <1>1, <1>2, <1>3 DEF Request, Typed

LEMMA TypedEmit ==
  ASSUME Typed, Looping, Emit
  PROVE  Typed' /\ Looping'
  <1>1. UNCHANGED <<code, source, liveVars, valueVars, always, todo, block, needed>>
    BY DEF Emit, EmitBegin, EmitGet, EmitRefused, EmitAct, EmitUnget, EmitFinish, Done, KeepAll
  <1>2. /\ Nodes' = Nodes /\ Blocks' = Blocks /\ End' = End /\ RegSets' = RegSets
        /\ Followed' = Followed /\ Branches' = Branches /\ Ends' = Ends
    BY <1>1, SameCode
  <1>. DEFINE Lends == /\ live \subseteq Reg /\ mask \subseteq Reg /\ arg \subseteq Reg /\ sav \subseteq Reg
                       /\ regset \in RegSets /\ lent \in Seq(Reg)
                       /\ slot \in [Reg -> {"none", "own", "junk"}] /\ holds \in [Reg -> {"own", "junk"}]
                       /\ \A r \in sav : slot[r] # "none"
              Control == /\ phase \in {"emit", "done", "failed"}
                         /\ node \in 1 .. End /\ stage \in {"begin", "within", "behind"} /\ asked \in Nat
  <1>3. Lends /\ Control
    BY DEF Typed, Emit, EmitBegin, EmitGet, EmitRefused, EmitAct, EmitUnget, EmitFinish, Done, Emitting
  <1>4. ASSUME Lends', Control', Looping' PROVE Typed' /\ Looping'
    <2>1. WellFormed(code)'
      BY <1>1 DEF Typed
    <2>2. /\ reglive' \in RegSets' /\ regmask' \in RegSets' /\ again' \subseteq Blocks' /\ falls' \subseteq Blocks'
          /\ values' \in [Reg -> Value] /\ gen' \in [Reg -> Nat]
          /\ always' \in BOOLEAN /\ todo' \in BOOLEAN /\ block' \in Blocks' \cup {None}
      BY <1>1, <1>2 DEF Typed, liveVars, valueVars
    <2>. QED
      BY <1>4, <2>1, <2>2 DEF Typed
  <1>5. reglive \in [Blocks -> SUBSET Reg] /\ regmask \in [Blocks -> SUBSET Reg] /\ Saved \subseteq Reg
    BY RegAssumption DEF Typed, RegSets
  <1>6. CASE EmitBegin
    <2>1. /\ node \in Nodes /\ Operands(code[node]) \subseteq Reg /\ Begin(code[node]) /\ phase = "emit"
          /\ stage' = "within" /\ asked' = 0 /\ UNCHANGED <<phase, node>> /\ code[node].ask \in Seq(Requests)
          /\ node # End
      BY <1>6, EmitFacts DEF EmitBegin, Emitting
    <2>2. code[node].op = "jmpi" => code[node].to \in Blocks
      BY <2>1, Shape DEF Typed, ToLabel
    <2>3. live' \subseteq Reg /\ mask' \subseteq Reg
      BY <1>3, <1>5, <2>1, <2>2 DEF Begin
    <2>4. Lends'
      BY <1>2, <1>3, <2>1, <2>3 DEF Begin
    <2>5. Control' /\ Looping'
      BY <1>1, <1>2, <1>3, <2>1 DEF Looping, Generating
    <2>. QED
      BY <1>4, <2>4, <2>5
  <1>7. CASE EmitGet
    <2>1. /\ Request \in Requests /\ Get(Request, Function(node)) /\ asked' = asked + 1 /\ UNCHANGED <<phase, node, stage>>
          /\ asked < Len(code[node].ask) /\ code[node].ask \in Seq(Requests) /\ node # End
      BY <1>3, <1>7, EmitFacts DEF EmitGet, Emitting, Served, Looping
    <2>2. PICK r \in Reg :
            /\ r \notin arg /\ Lend(r) /\ KeepSaved(r, Function(node))
            /\ \/ r \notin live /\ UNCHANGED <<sav, slot>>
               \/ r \notin sav /\ Spill(r)
      BY <2>1, GetIs DEF Typed
    <2>3. lent' \in Seq(Reg) /\ arg' = arg \cup {r} /\ holds' = [holds EXCEPT ![r] = "junk"] /\ UNCHANGED <<live, mask>>
      BY <2>2, LendIs
    <2>4. slot' \in [Reg -> {"none", "own", "junk"}] /\ sav' \subseteq Reg /\ \A p \in sav' : slot'[p] # "none"
      BY <1>3, <2>2 DEF Spill
    <2>5. Lends'
      BY <1>2, <1>3, <1>5, <2>2, <2>3, <2>4 DEF KeepSaved, RegSets
    <2>6. Control' /\ Looping'
      BY <1>1, <1>2, <1>3, <2>1 DEF Looping, Generating
    <2>. QED
      BY <1>4, <2>5, <2>6
  <1>8. CASE EmitRefused \/ Done
    <2>1. Lends'
      BY <1>2, <1>3, <1>8 DEF EmitRefused, Done, lendVars
    <2>2. Control' /\ Looping'
      BY <1>2, <1>3, <1>8 DEF EmitRefused, Done, Looping, Generating, Emitting
    <2>. QED
      BY <1>4, <2>1, <2>2
  <1>9. CASE EmitAct
    <2>1. Lends'
      BY <1>2, <1>3, <1>9 DEF EmitAct, Act
    <2>2. Control' /\ Looping'
      BY <1>1, <1>2, <1>3, <1>9 DEF EmitAct, Looping, Generating, Emitting, Served
    <2>. QED
      BY <1>4, <2>1, <2>2
  <1>10. CASE EmitUnget
    <2>1. Head(lent) \in Reg /\ lent' \in Seq(Reg)
      BY <1>10, UngetIs DEF EmitUnget
    <2>2. Lends'
      BY <1>2, <1>3, <1>10, <2>1 DEF EmitUnget, Unget
    <2>3. Control' /\ Looping'
      BY <1>1, <1>2, <1>3, <1>10 DEF EmitUnget, Looping, Generating, Emitting
    <2>. QED
      BY <1>4, <2>2, <2>3
  <1>11. CASE EmitFinish
    <2>1. node \in Nodes /\ node + 1 \in 1 .. End /\ Operands(code[node]) \subseteq Reg
      BY <1>11, EmitFacts DEF EmitFinish
    <2>2. LiveAfter(node) \subseteq Reg
      <3>1. code[node].op \in Heads => reglive[node] \subseteq Reg
        BY <1>5, <2>1 DEF Blocks
      <3>2. Arguments(code[node]) \subseteq Reg
        BY <2>1, Shape DEF Arguments, Typed, Instruction
      <3>3. UpdateLive(node, mask \cup Changed(code[node])) \subseteq Reg
        BY <1>3, <1>5, <2>1 DEF UpdateLive, LiveBehind, Operands
      <3>4. Used(code[node]) \cup Paired(code[node]) \subseteq Reg
        BY <2>1 DEF Operands
      <3>. QED
        BY <1>3, <3>1, <3>2, <3>3, <3>4 DEF LiveAfter
    <2>3. Lends'
      BY <1>2, <1>3, <1>11, <2>2 DEF EmitFinish, Finish
    <2>4. Control' /\ Looping'
      BY <1>1, <1>2, <1>3, <1>11, <2>1 DEF EmitFinish, Looping, Generating, Emitting
    <2>. QED
      BY <1>4, <2>3, <2>4
  <1>. QED
    BY <1>6, <1>7, <1>8, <1>9, <1>10, <1>11 DEF Emit

LEMMA TypedStep == Typed /\ Looping /\ [Next]_vars => (Typed /\ Looping)'
  <1>. SUFFICES ASSUME Typed, Looping, [Next]_vars PROVE (Typed /\ Looping)'
    OBVIOUS
  <1>1. CASE Next
    BY <1>1, TypedPasses, TypedEmit DEF Next
  <1>2. CASE UNCHANGED vars
    BY <1>2, SameCode DEF Typed, Looping, Generating, vars, liveVars, valueVars, lendVars, passVars
  <1>. QED
    BY <1>1, <1>2

LEMMA AlwaysTyped == Spec => [](Typed /\ Looping)
  BY TypedStart, TypedStep, PTL DEF Spec

(***************************************************************************)
(* The list stays split into blocks, and everything that the optimizer and *)
(* the generator keep is about its blocks and its registers.               *)
(***************************************************************************)
THEOREM OptimizeTyped == Spec => []TypeOK
  <1>1. Typed => TypeOK
    <2>. SUFFICES ASSUME Typed PROVE TypeOK
      OBVIOUS
    <2>1. Split
      BY Shape DEF Typed
    <2>2. \A r \in Reg : values[r].kind \in {"none", "word", "register", "code"} /\ gen[r] \in Nat
      <3>1. \A x \in Value : x.kind \in Kind
        BY DEF Value
      <3>. QED
        BY <3>1 DEF Typed, Kind
    <2>3. \A i \in DOMAIN lent : lent[i] \in Reg
      BY DEF Typed
    <2>. QED
      BY <2>1, <2>2, <2>3 DEF Typed, TypeOK
  <1>. QED
    BY <1>1, AlwaysTyped, PTL

-----------------------------------------------------------------------------
(***************************************************************************)
(* Lending.                                                                *)
(***************************************************************************)
LEMMA PassesLend ==
  ASSUME Typed, Looping, LendInv, SaveInv, Passes
  PROVE  LendInv' /\ SaveInv'
  <1>1. ~Generating /\ stage = "begin" /\ UNCHANGED <<stage, arg, sav, lent, holds>>
        /\ (Generating' => EndOptimize)
    BY DEF Looping, Generating, Passes, SetupBlocks, FollowBlock, Heading, SimplifyNode, StartStores, DropStores, KeepStores,
       EndStores, EndFollow, VisitUpdates, VisitKeeps, Visit, CheckAgain, EndOptimize, lendVars
  <1>2. arg = {} /\ lent = <<>> /\ sav = {} /\ \A r \in Reg : holds[r] = "own"
    BY <1>1 DEF LendInv, SaveInv, Generating, Lent
  <1>3. LendInv'
    BY <1>1, <1>2 DEF LendInv, Lent
  <1>4. SaveInv'
    <2>1. CASE ~Generating'
      BY <1>1, <1>2, <2>1 DEF SaveInv
    <2>2. CASE EndOptimize
      <3>1. Blocks' = Blocks /\ UNCHANGED code
        BY <2>2, SameCode DEF EndOptimize
      <3>2. Lent' = {} /\ \A r \in Reg : holds'[r] # "junk"
        BY <1>1, <1>2 DEF Lent
      <3>3. \A p : LostIn(p)' = {}
        BY <3>2 DEF LostIn
      <3>4. \A p \in Blocks : ChangedIn(p)' = regset'[p]
        BY <2>2, <3>1 DEF EndOptimize, ChangedIn, Function, Blocks, Nodes
      <3>5. Generating'
        <4>1. phase' = "emit"
          BY <2>2 DEF EndOptimize
        <4>. QED
          BY <4>1 DEF Generating
      <3>. QED
        BY <3>1, <3>3, <3>4, <3>5 DEF SaveInv
    <2>. QED
      BY <1>1, <2>1, <2>2
  <1>. QED
    BY <1>3, <1>4

LEMMA EmitLends ==
  ASSUME Typed, Looping, LendInv, SaveInv, Emit
  PROVE  LendInv' /\ SaveInv'
  <1>1. UNCHANGED code /\ Nodes' = Nodes /\ End' = End /\ Generating /\ Generating'
    BY SameCode DEF Emit, EmitBegin, EmitGet, EmitRefused, EmitAct, EmitUnget, EmitFinish, Done, KeepAll, Emitting, Generating
  <1>2. /\ live \subseteq Reg /\ arg \subseteq Reg /\ sav \subseteq Reg /\ lent \in Seq(Reg) /\ Saved \subseteq Reg
        /\ holds \in [Reg -> {"own", "junk"}] /\ slot \in [Reg -> {"none", "own", "junk"}]
    BY RegAssumption DEF Typed
  <1>. DEFINE Safe(p) == /\ Saved \cap LostIn(p)' \subseteq regset'[p] \cup LostIn(p)
                         /\ regset[p] \subseteq regset'[p]
  <1>3. ASSUME \A p \in Blocks : Safe(p) PROVE SaveInv'
    <2>1. \A p \in Blocks : ChangedIn(p)' = ChangedIn(p)
      BY <1>1, SameCode DEF ChangedIn, Function
    <2>2. Blocks' = Blocks
      BY <1>1, SameCode
    <2>. QED
      BY <1>1, <1>3, <2>1, <2>2 DEF SaveInv
  <1>0. ASSUME UNCHANGED <<node, regset>>, Lent' \subseteq Lent,
               \A r \in Saved : holds'[r] = "junk" => r \in Lent \/ holds[r] = "junk"
        PROVE  SaveInv'
    <2>1. \A p : Function(node)' = Function(node)
      BY <1>0, <1>1, SameCode DEF Function
    <2>2. \A p \in Blocks : Saved \cap LostIn(p)' \subseteq LostIn(p)
      BY <1>0, <1>1, <1>2, <2>1 DEF LostIn
    <2>. QED
      BY <1>0, <1>3, <2>2
  <1>4. Lent = {} <=> lent = <<>>
    <2>1. lent = <<>> => Lent = {}
      BY DEF Lent
    <2>2. lent # <<>> => 1 \in DOMAIN lent
      BY <1>2
    <2>. QED
      BY <2>1, <2>2 DEF Lent
  <1>5. CASE EmitBegin
    <2>1. stage = "begin" /\ stage' = "within" /\ phase = "emit" /\ UNCHANGED <<phase, node, sav, lent, holds, regset>>
          /\ arg' = arg \cup Operands(code[node]) /\ node # End
      BY <1>5 DEF EmitBegin, Emitting, Begin
    <2>2. arg = {} /\ lent = <<>> /\ sav = {} /\ Lent = {} /\ Lent' = {}
      BY <1>4, <2>1 DEF LendInv, Lent
    <2>3. LendInv'
      BY <1>1, <2>1, <2>2 DEF LendInv
    <2>. QED
      BY <1>0, <2>1, <2>2, <2>3
  <1>6. CASE EmitGet
    <2>1. /\ stage = "within" /\ UNCHANGED <<phase, node, stage>> /\ phase = "emit" /\ node # End
          /\ Request \in Requests /\ Get(Request, Function(node))
      BY <1>6, EmitFacts DEF EmitGet, Emitting, Served, Looping, Typed
    <2>2. PICK r \in Reg :
            /\ r \notin arg /\ Lend(r) /\ KeepSaved(r, Function(node))
            /\ \/ r \notin live /\ UNCHANGED <<sav, slot>>
               \/ r \notin sav /\ Spill(r)
      BY <2>1, GetIs DEF Typed
    <2>3. /\ arg = Lent \cup Operands(code[node]) /\ Lent \cap Operands(code[node]) = {}
          /\ \A i, j \in DOMAIN lent : lent[i] = lent[j] => i = j
          /\ sav \subseteq Lent
      BY <2>1 DEF LendInv
    <2>4. /\ arg' = arg \cup {r} /\ holds' = [holds EXCEPT ![r] = "junk"] /\ Lent' = Lent \cup {r}
          /\ \A i, j \in DOMAIN lent' : lent'[i] = lent'[j] => i = j
      BY <2>2, <2>3, LendIs
    <2>5. sav' \subseteq Lent'
      BY <2>2, <2>3, <2>4 DEF Spill
    <2>6. LendInv'
      BY <1>1, <2>1, <2>2, <2>3, <2>4, <2>5 DEF LendInv
    <2>7. ASSUME NEW p \in Blocks PROVE Safe(p)
      <3>1. regset' = [h \in Blocks |-> IF h \in Function(node) THEN regset[h] \cup ({r} \cap Saved) ELSE regset[h]]
        BY <2>2 DEF KeepSaved
      <3>2. Function(node)' = Function(node)
        BY <1>1, <2>1, SameCode DEF Function
      <3>3. \A q \in Reg : holds'[q] = "junk" => q = r \/ holds[q] = "junk"
        BY <1>2, <2>4
      <3>4. p \in Function(node) => Saved \cap LostIn(p)' \subseteq LostIn(p) \cup ({r} \cap Saved)
        BY <1>1, <1>2, <2>1, <2>4, <3>2, <3>3 DEF LostIn
      <3>5. p \notin Function(node) => LostIn(p)' = {}
        BY <2>1, <3>2 DEF LostIn
      <3>. QED
        BY <3>1, <3>4, <3>5
    <2>. QED
      BY <1>3, <2>6, <2>7
  <1>7. CASE EmitRefused \/ Done
    <2>1. UNCHANGED <<live, mask, arg, sav, lent, slot, holds, regset, node, stage>> /\ phase = "emit"
      BY <1>7 DEF EmitRefused, Done, lendVars, Emitting
    <2>. (phase' = "failed" /\ node # End) \/ (phase' = "done" /\ node = End)
      BY <1>7 DEF EmitRefused, Done, Emitting
    <2>2. Lent' = Lent
      BY <2>1 DEF Lent
    <2>3. LendInv'
      BY <1>1, <2>1, <2>2 DEF LendInv
    <2>. QED
      BY <1>0, <2>1, <2>2, <2>3
  <1>8. CASE EmitAct
    <2>1. UNCHANGED <<arg, sav, lent, regset, node, phase>> /\ stage = "within" /\ stage' = "behind" /\ phase = "emit"
          /\ holds' = [r \in Reg |-> IF r \in Sets(code[node]) \cup Paired(code[node]) THEN "own" ELSE holds[r]]
      BY <1>8 DEF EmitAct, Act, Emitting
    <2>2. Lent' = Lent
      BY <2>1 DEF Lent
    <2>3. LendInv'
      BY <1>1, <2>1, <2>2 DEF LendInv
    <2>4. \A r \in Saved : holds'[r] = "junk" => holds[r] = "junk"
      BY <1>2, <2>1
    <2>. QED
      BY <1>0, <2>1, <2>2, <2>3, <2>4
  <1>9. CASE EmitUnget
    <2>1. /\ UNCHANGED <<regset, node, phase, stage>> /\ stage = "behind" /\ phase = "emit" /\ node # End /\ Unget
          /\ sav' = sav \ {Head(lent)} /\ arg' = arg \ {Head(lent)}
          /\ IF Head(lent) \in sav THEN holds' = [holds EXCEPT ![Head(lent)] = slot[Head(lent)]] ELSE UNCHANGED holds
      BY <1>9 DEF EmitUnget, Emitting, Unget
    <2>2. /\ arg = Lent \cup Operands(code[node]) /\ Lent \cap Operands(code[node]) = {}
          /\ \A i, j \in DOMAIN lent : lent[i] = lent[j] => i = j
          /\ sav \subseteq Lent
      BY <2>1 DEF LendInv
    <2>3. /\ Head(lent) \in Lent /\ Lent' = Lent \ {Head(lent)}
          /\ \A i, j \in DOMAIN lent' : lent'[i] = lent'[j] => i = j
      BY <2>1, <2>2, UngetIs
    <2>4. LendInv'
      BY <1>1, <2>1, <2>2, <2>3 DEF LendInv
    <2>5. \A r \in Saved : holds'[r] = "junk" => r \in Lent \/ holds[r] = "junk"
      BY <1>2, <2>1, <2>3
    <2>. QED
      BY <1>0, <2>1, <2>3, <2>4, <2>5
  <1>10. CASE EmitFinish
    <2>1. /\ UNCHANGED <<regset, phase, sav, lent>> /\ stage = "behind" /\ stage' = "begin" /\ phase = "emit" /\ node # End
          /\ lent = <<>> /\ arg' = arg \ Operands(code[node])
          /\ holds' = [r \in Reg |-> IF code[node].op \in Heads THEN "own" ELSE holds[r]]
      BY <1>10 DEF EmitFinish, Emitting, Finish
    <2>2. arg = Lent \cup Operands(code[node]) /\ Lent = {} /\ sav = {} /\ Lent' = {}
      BY <1>4, <2>1 DEF LendInv, Lent
    <2>3. LendInv'
      BY <1>1, <2>1, <2>2 DEF LendInv
    <2>4. node' = node + 1 /\ node \in Nat /\ Blocks \subseteq Nat
      BY <1>10, NodeIs, Shape DEF EmitFinish, Typed
    <2>5. ASSUME NEW p \in Blocks, p \in Function(node + 1), p # node + 1
          PROVE  p = node \/ p \in Function(node)
      BY <2>4, <2>5 DEF Function
    <2>6. Function(node)' = Function(node + 1)
      BY <1>1, <2>4, SameCode DEF Function
    <2>7. ASSUME NEW p \in Blocks PROVE Safe(p)
      <3>1. CASE p = node
        <4>1. code[node].op \in Heads
          BY <3>1 DEF Blocks
        <4>2. LostIn(p)' = {}
          BY <2>1, <2>2, <4>1 DEF LostIn
        <4>. QED
          BY <2>1, <4>2
      <3>2. CASE p # node /\ p \in Function(node)' /\ p # node'
        <4>1. p \in Function(node) \ {node}
          BY <2>4, <2>5, <2>6, <3>2
        <4>2. \A r \in Reg : holds'[r] = "junk" => holds[r] = "junk"
          BY <2>1
        <4>3. LostIn(p)' \subseteq LostIn(p)
          BY <2>1, <2>2, <4>1, <4>2 DEF LostIn
        <4>. QED
          BY <2>1, <4>3
      <3>3. CASE ~(p \in Function(node)' /\ p # node')
        <4>1. LostIn(p)' = {}
          BY <3>3 DEF LostIn
        <4>. QED
          BY <2>1, <4>1
      <3>. QED
        BY <3>1, <3>2, <3>3
    <2>. QED
      BY <1>3, <2>3, <2>7
  <1>. QED
    BY <1>5, <1>6, <1>7, <1>8, <1>9, <1>10 DEF Emit

LEMMA LendStart == Init => LendInv /\ SaveInv
  BY DEF Init, LendInv, SaveInv, Lent, Generating

LEMMA LendStep == Typed /\ Looping /\ LendInv /\ SaveInv /\ [Next]_vars => (LendInv /\ SaveInv)'
  <1>. SUFFICES ASSUME Typed, Looping, LendInv, SaveInv, [Next]_vars PROVE (LendInv /\ SaveInv)'
    OBVIOUS
  <1>1. CASE Next
    BY <1>1, PassesLend, EmitLends DEF Next
  <1>2. CASE UNCHANGED vars
    <2>1. Lent' = Lent /\ Nodes' = Nodes /\ End' = End /\ UNCHANGED <<code, phase, stage, node, arg, lent, sav, holds, regset>>
      BY <1>2, SameCode DEF vars, lendVars, passVars, Lent
    <2>2. Blocks' = Blocks /\ \A p : LostIn(p)' = LostIn(p) /\ ChangedIn(p)' = ChangedIn(p)
      BY <2>1, SameCode DEF LostIn, ChangedIn, Function
    <2>. QED
      BY <2>1, <2>2 DEF LendInv, SaveInv, Generating
  <1>. QED
    BY <1>1, <1>2

LEMMA AlwaysLend == Spec => [](LendInv /\ SaveInv)
  BY LendStart, LendStep, AlwaysTyped, PTL DEF Spec

(***************************************************************************)
(* jit_get_reg never lends an operand of the node, or a register twice;    *)
(* jit_unget_reg gives back just what was lent; what was saved is reloaded.*)
(***************************************************************************)
THEOREM LentOnce == Spec => []LentApart
  <1>1. Typed /\ Looping /\ LendInv => LentApart
    <2>. SUFFICES ASSUME Typed, LendInv, phase = "emit", stage # "begin" PROVE
            /\ Cardinality(Lent) = Len(lent) /\ Lent \cap Operands(code[node]) = {}
            /\ arg = Lent \cup Operands(code[node])
            /\ sav \subseteq Lent
      BY DEF LentApart
    <2>1. lent \in Seq(Reg) /\ \A i, j \in DOMAIN lent : lent[i] = lent[j] => i = j
      BY DEF Typed, LendInv
    <2>2. DOMAIN lent = 1 .. Len(lent) /\ Len(lent) \in Nat
      BY <2>1
    <2>3. lent \in Bijection(1 .. Len(lent), Lent)
      <3>1. lent \in [1 .. Len(lent) -> Lent]
        BY <2>1, <2>2 DEF Lent
      <3>2. \A r \in Lent : \E i \in 1 .. Len(lent) : lent[i] = r
        BY <2>2 DEF Lent
      <3>. QED
        BY <2>1, <2>2, <3>1, <3>2 DEF Bijection, Injection, Surjection, IsInjective
    <2>4. Cardinality(Lent) = Len(lent)
      BY <2>2, <2>3, FS_CountingElements DEF ExistsBijection
    <2>. QED
      BY <2>4 DEF LendInv
  <1>. QED
    BY <1>1, AlwaysTyped, AlwaysLend, PTL

(***************************************************************************)
(* Each callee-save register that an instruction changes, or that holds    *)
(* something else because it was lent, is one that the prolog saves.       *)
(***************************************************************************)
THEOREM PrologSaves == Spec => []SavedIfChanged
  <1>1. ASSUME SaveInv PROVE SavedIfChanged
    <2>1. ASSUME NEW p, p \notin Blocks PROVE ChangedIn(p) = {} /\ LostIn(p) = {}
      BY <2>1 DEF ChangedIn, LostIn, Function
    <2>. QED
      BY <1>1, <2>1 DEF SaveInv, SavedIfChanged
  <1>. QED
    BY <1>1, AlwaysLend, PTL

-----------------------------------------------------------------------------
(***************************************************************************)
(* What is needed where: the steps of the reference, one after another.    *)
(***************************************************************************)
Steps(within, n) == within = [k \in 0 .. n |-> IF k = 0 THEN {} ELSE Earlier(within[k - 1])]

LEMMA StepsExist == \A n \in Nat : \E within : Steps(within, n)
  <1>. DEFINE S == {n \in Nat : \E within : Steps(within, n)}
  <1>1. 0 \in S
    <2>. DEFINE w == [k \in 0 .. 0 |-> {}]
    <2>1. \A k \in 0 .. 0 : w[k] = IF k = 0 THEN {} ELSE Earlier(w[k - 1])
      OBVIOUS
    <2>2. w = [k \in 0 .. 0 |-> IF k = 0 THEN {} ELSE Earlier(w[k - 1])]
      BY <2>1
    <2>. QED
      BY <2>2 DEF Steps
  <1>2. ASSUME NEW n \in Nat, n \in S PROVE n + 1 \in S
    <2>1. PICK v : Steps(v, n)
      BY <1>2
    <2>. DEFINE w == [k \in 0 .. n + 1 |-> IF k = n + 1 THEN Earlier(v[n]) ELSE v[k]]
    <2>2. \A k \in 0 .. n : v[k] = IF k = 0 THEN {} ELSE Earlier(v[k - 1])
      BY <2>1 DEF Steps
    <2>3. ASSUME NEW k \in 0 .. n + 1 PROVE w[k] = IF k = 0 THEN {} ELSE Earlier(w[k - 1])
      <3>1. CASE k = n + 1
        <4>1. w[k] = Earlier(v[n]) /\ w[n] = v[n] /\ k # 0 /\ k - 1 = n
          BY <3>1
        <4>. QED
          BY <4>1
      <3>2. CASE k # n + 1 /\ k # 0
        <4>1. w[k] = v[k] /\ w[k - 1] = v[k - 1] /\ k \in 0 .. n
          BY <3>2
        <4>. QED
          BY <4>1, <3>2, <2>2
      <3>3. CASE k = 0
        BY <3>3, <2>2
      <3>. QED
        BY <3>1, <3>2, <3>3
    <2>. HIDE DEF w
    <2>4. w = [k \in 0 .. n + 1 |-> w[k]]
      BY DEF w
    <2>5. Steps(w, n + 1)
      BY <2>3, <2>4 DEF Steps
    <2>. QED
      BY <2>5
  <1>. QED
    BY <1>1, <1>2, SetInduction

LEMMA NeededSteps ==
  ASSUME Len(code) \in Nat
  PROVE  \E within : /\ Needed = within[Len(code)] /\ within[0] = {}
                     /\ \A k \in 1 .. Len(code) : within[k] = Earlier(within[k - 1])
  <1>. DEFINE within == CHOOSE w : Steps(w, Len(code))
  <1>1. Steps(within, Len(code))
    BY StepsExist
  <1>2. Needed = within[Len(code)]
    BY DEF Needed, Steps
  <1>. HIDE DEF within
  <1>3. \A k \in 0 .. Len(code) : within[k] = IF k = 0 THEN {} ELSE Earlier(within[k - 1])
    BY <1>1 DEF Steps
  <1>4. within[0] = {}
    BY <1>3
  <1>5. ASSUME NEW k \in 1 .. Len(code) PROVE within[k] = Earlier(within[k - 1])
    <2>1. k \in 0 .. Len(code) /\ k # 0
      OBVIOUS
    <2>. QED
      BY <2>1, <1>3
  <1>. QED
    BY <1>2, <1>4, <1>5


(***************************************************************************)
(* A register that a block reads before it is hidden is noted.             *)
(***************************************************************************)
LEMMA FirstMet ==
  ASSUME Typed, NEW b, NEW r \in Reg, NEW j \in Body(b), r \in Operands(code[j]),
         \A m \in Body(b) : m < j => r \notin Hides(code[m]),
         r \in Hides(code[j]) => r \in Reads(code[j])
  PROVE  r \in Exposed(b)
  <1>. DEFINE T == {m \in Body(b) : r \in Operands(code[m])}
  <1>1. T \subseteq Nat /\ T # {}
    BY Shape DEF Typed, Body
  <1>2. PICK m \in T : \A l \in T : m =< l
    BY <1>1, Smallest
  <1>3. m \in Body(b) /\ r \in Operands(code[m]) /\ \A l \in Body(b) : l < m => r \notin Operands(code[l])
    BY <1>1, <1>2 DEF Body, Nodes
  <1>4. m =< j
    BY <1>2
  <1>5. r \in Used(code[m]) \ Paired(code[m])
    <2>1. r \in Hides(code[m]) => r \in Reads(code[m])
      BY <1>1, <1>2, <1>3, <1>4 DEF Body
    <2>. QED
      BY <2>1, <1>3 DEF Operands, Hides, Reads
  <1>. QED
    BY <1>3, <1>5 DEF Exposed

LEMMA SettledThere ==
  ASSUME Typed, NEW b \in Followed, NEW r \in Reg, \A s \in Leads(b) : Agree(b, s),
         ReadFrom(b, b, r) \/ PassedOn(b, b, r)
  PROVE  r \in Settled(b)
  <1>1. ~AtEpilog(b) /\ \A m \in Body(b) : m \in Nat /\ m >= b
    BY Shape DEF Typed, Followed, Body
  <1>2. ASSUME ReadFrom(b, b, r) PROVE r \in Exposed(b)
    <2>1. PICK j \in Body(b) : r \in Reads(code[j]) /\ \A m \in Body(b) : m < j => r \notin Hides(code[m])
      BY <1>1, <1>2 DEF ReadFrom
    <2>2. r \in Operands(code[j])
      BY <2>1 DEF Reads, Operands
    <2>. QED
      BY <2>1, <2>2, FirstMet
  <1>3. ASSUME PassedOn(b, b, r) PROVE r \in Settled(b)
    <2>1. \A m \in Body(b) : r \notin Hides(code[m])
      BY <1>1, <1>3 DEF PassedOn
    <2>2. r \in Settled(b) \/ r \in Kept(b)
      BY <1>3 DEF PassedOn, Agree
    <2>3. ASSUME r \in Kept(b) PROVE r \in Exposed(b)
      <3>1. r \in Referred(b)
        <4>1. \A m \in Body(b) : r \notin Clobbered(code[m])
          BY <2>1 DEF Hides
        <4>2. r \notin UNION {Clobbered(code[m]) : m \in Body(b)}
          BY <4>1
        <4>. QED
          BY <4>2, <2>3 DEF Kept
      <3>2. PICK j \in Body(b) : r \in Operands(code[j])
        BY <3>1 DEF Referred
      <3>. QED
        BY <2>1, <3>2, FirstMet
    <2>. QED
      BY <1>1, <2>2, <2>3 DEF Settled
  <1>. QED
    BY <1>1, <1>2, <1>3 DEF Settled


LEMMA HeadsRead ==
  ASSUME Typed, NEW b \in Blocks
  PROVE  Reads(code[b]) = {} /\ Hides(code[b]) = {} /\ code[b].op \notin ToLabel
  <1>1. code[b].op \in Heads
    BY DEF Blocks
  <1>2. Operands(code[b]) = {} /\ Clobbered(code[b]) = {} /\ code[b].op \notin ToLabel
    BY <1>1, OperandsOf DEF Heads, Clobbered, Calls, ToLabel, Conditional
  <1>. QED
    BY <1>2 DEF Reads, Hides, Operands

LEMMA LeadTo ==
  ASSUME Typed, NEW b \in Followed, NEW i \in Nodes, Within(b, i), NEW j \in NextNodes(i), j \notin Body(b)
  PROVE  j \in Leads(b) /\ j \in Blocks /\ \A m \in Body(b) : m >= i => m = i
  <1>1. /\ Blocks \subseteq Nodes /\ Nodes \subseteq Nat \ {0} /\ Body(b) \subseteq Nodes
        /\ b \in Blocks /\ b \in Nat /\ i \in Nat /\ b =< i /\ ~AtEpilog(b)
    BY Shape DEF Typed, Within, Body, Followed
  <1>2. \A h \in Blocks : b < h => i < h
    BY <1>1 DEF Within, Body
  <1>3. ASSUME i + 1 \in Blocks PROVE \A m \in Body(b) : m >= i => m = i
    <2>1. \A m \in Body(b) : m \in Nat /\ m < i + 1
      BY <1>1, <1>3 DEF Body
    <2>. QED
      BY <2>1, <1>1
  <1>4. CASE code[i].op \in ToLabel /\ j = code[i].to
    <2>1. i \in Body(b) /\ i + 1 \in Blocks /\ j \in Blocks
      BY <1>1, <1>4, HeadsRead, Shape DEF Typed, Within, Split, Jumps
    <2>2. j \in Targets(b)
      BY <1>4, <2>1 DEF Targets
    <2>. QED
      BY <1>3, <2>1, <2>2 DEF Leads
  <1>5. CASE j = i + 1 /\ j \in Nodes /\ ~AtEpilog(j) /\ code[i].op \notin {"jmpi", "jmpr", "epilog"}
    <2>1. j \in Blocks
      <3>1. j > b /\ (j \notin Blocks => \A h \in Blocks : b < h => j < h)
        BY <1>1, <1>2, <1>5
      <3>. QED
        BY <3>1, <1>5 DEF Body
    <2>2. code[j].op = "label"
      <3>1. code[j].op # "prolog"
        BY <1>1, <1>5, Shape DEF Typed
      <3>. QED
        BY <3>1, <2>1, <1>5 DEF Blocks, Heads, AtEpilog
    <2>3. j \in NextLabel(b)
      <3>1. \A g \in Blocks : b < g => j =< g
        BY <1>1, <1>2, <1>5
      <3>. QED
        BY <3>1, <2>1, <2>2, <1>1, <1>5 DEF NextLabel, After
    <2>4. RunsInto(code, j)
      BY <1>1, <1>5, <2>2 DEF RunsInto, Leaves
    <2>. QED
      BY <1>3, <1>5, <2>1, <2>3, <2>4 DEF Leads
  <1>. QED
    BY <1>4, <1>5 DEF NextNodes, AtEpilog

LEMMA AccountedStep ==
  ASSUME Typed, NEW need, Accounted(need), \A b \in Followed : \A s \in Leads(b) : Agree(b, s),
         \A p \in need : AtEpilog(p[1]) => p[2] \in Ret
  PROVE  Accounted(Earlier(need)) /\ \A p \in Earlier(need) : AtEpilog(p[1]) => p[2] \in Ret
  <1>1. \A p \in Earlier(need) : AtEpilog(p[1]) => p[2] \in Ret
    BY DEF Earlier, NeededAt
  <1>2. ASSUME NEW b \in Followed, NEW i \in Nodes, NEW r \in Reg, Within(b, i), <<i, r>> \in Earlier(need)
        PROVE  ReadFrom(b, i, r) \/ PassedOn(b, i, r)
    <2>1. b \in Blocks /\ ~AtEpilog(b) /\ Body(b) \subseteq Nodes /\ Nodes \subseteq Nat \ {0} /\ Body(b) \cap Blocks = {}
      BY Shape DEF Typed, Followed, Body
    <2>2. ~AtEpilog(i)
      BY <1>2, <2>1 DEF Within, AtEpilog, Blocks, Heads
    <2>3. NeededAt(i, r, need)
      BY <1>2 DEF Earlier
    <2>4. CASE r \in Reads(code[i])
      <3>1. i \in Body(b)
        BY <1>2, <2>1, <2>4, HeadsRead DEF Within
      <3>. QED
        BY <2>1, <2>4, <3>1 DEF ReadFrom
    <2>5. ASSUME r \notin Hides(code[i]), NEW j \in NextNodes(i), <<j, r>> \in need
          PROVE  ReadFrom(b, i, r) \/ PassedOn(b, i, r)
      <3>1. CASE j \in Body(b)
        <4>1. j \in Nodes /\ j \notin Blocks /\ j = i + 1 /\ i \in Nat
          BY <1>2, <2>1, <3>1, <2>5, Shape DEF Typed, NextNodes
        <4>2. ReadFrom(b, j, r) \/ PassedOn(b, j, r)
          BY <3>1, <4>1, <2>5 DEF Accounted, Within
        <4>3. \A m \in Body(b) : m >= i => m = i \/ m >= j
          <5>1. \A m \in Body(b) : m \in Nat
            BY <2>1
          <5>. QED
            BY <4>1, <5>1
        <4>4. ASSUME ReadFrom(b, j, r) PROVE ReadFrom(b, i, r)
          <5>1. PICK l \in Body(b) : /\ l >= j /\ r \in Reads(code[l])
                                    /\ \A m \in Body(b) : j =< m /\ m < l => r \notin Hides(code[m])
            BY <4>4 DEF ReadFrom
          <5>2. l \in Nat /\ l >= i
            <6>1. l \in Nat
              BY <2>1, <5>1
            <6>. QED
              BY <4>1, <5>1, <6>1
          <5>3. \A m \in Body(b) : i =< m /\ m < l => r \notin Hides(code[m])
            <6>1. \A m \in Body(b) : m \in Nat
              BY <2>1
            <6>2. \A m \in Body(b) : i =< m => m = i \/ j =< m
              BY <4>1, <4>3, <6>1
            <6>. QED
              BY <2>5, <5>1, <6>2
          <5>. QED
            BY <5>1, <5>2, <5>3 DEF ReadFrom
        <4>5. ASSUME PassedOn(b, j, r) PROVE PassedOn(b, i, r)
          BY <2>5, <4>3, <4>5 DEF PassedOn
        <4>. QED
          BY <4>2, <4>4, <4>5
      <3>2. CASE j \notin Body(b)
        <4>1. j \in Leads(b) /\ j \in Blocks /\ \A m \in Body(b) : m >= i => m = i
          BY <1>2, <2>5, <3>2, LeadTo
        <4>2. r \in Settled(j)
          <5>1. CASE AtEpilog(j)
            BY <5>1, <2>5 DEF Settled
          <5>2. CASE ~AtEpilog(j)
            <6>1. j \in Followed /\ j \in Nodes
              BY <4>1, <5>2 DEF Followed, Blocks
            <6>2. ReadFrom(j, j, r) \/ PassedOn(j, j, r)
              BY <6>1, <2>5 DEF Accounted, Within
            <6>. QED
              BY <6>1, <6>2, SettledThere
          <5>. QED
            BY <5>1, <5>2
        <4>. QED
          BY <4>1, <4>2, <2>5 DEF PassedOn
      <3>. QED
        BY <3>1, <3>2
    <2>. QED
      BY <2>2, <2>3, <2>4, <2>5 DEF NeededAt
  <1>. QED
    BY <1>1, <1>2 DEF Accounted

(***************************************************************************)
(* When all blocks agree with the blocks they lead to, each knows what is  *)
(* needed where it starts.                                                 *)
(***************************************************************************)
LEMMA LiveFinally ==
  ASSUME Typed, Noted, \A b \in Followed : \A s \in Leads(b) : Agree(b, s)
  PROVE  /\ \A b \in Blocks : \A r \in Reg : <<b, r>> \in Needed => r \in reglive[b]
         /\ Accounted(Needed)
  <1>1. Len(code) \in Nat
    BY Shape DEF Typed
  <1>2. PICK within : /\ Needed = within[Len(code)] /\ within[0] = {}
                      /\ \A k \in 1 .. Len(code) : within[k] = Earlier(within[k - 1])
    BY <1>1, NeededSteps
  <1>. DEFINE Good(need) == Accounted(need) /\ \A p \in need : AtEpilog(p[1]) => p[2] \in Ret
              S == {k \in Nat : k =< Len(code) => Good(within[k])}
  <1>3. 0 \in S
    <2>1. Good({})
      BY DEF Accounted
    <2>. QED
      BY <2>1, <1>2
  <1>4. ASSUME NEW k \in Nat, k \in S PROVE k + 1 \in S
    <2>1. ASSUME k + 1 =< Len(code) PROVE Good(within[k + 1])
      <3>1. k + 1 \in 1 .. Len(code) /\ k + 1 - 1 = k /\ k =< Len(code)
        BY <1>1, <2>1
      <3>2. within[k + 1] = Earlier(within[k])
        BY <1>2, <3>1
      <3>3. Good(within[k])
        BY <1>4, <3>1
      <3>4. Good(Earlier(within[k]))
        BY <3>3, AccountedStep
      <3>. QED
        BY <3>2, <3>4
    <2>. QED
      BY <2>1
  <1>5. Len(code) \in S
    <2>. HIDE DEF S
    <2>. QED
      BY <1>1, <1>3, <1>4, SetInduction DEF S
  <1>6. Good(Needed)
    BY <1>2, <1>5
  <1>. HIDE DEF Good
  <1>7. ASSUME NEW b \in Blocks, NEW r \in Reg, <<b, r>> \in Needed PROVE r \in reglive[b]
    <2>1. CASE AtEpilog(b)
      BY <1>6, <1>7, <2>1 DEF Good, Noted
    <2>2. CASE ~AtEpilog(b)
      <3>1. b \in Followed /\ b \in Nodes
        BY <2>2 DEF Followed, Blocks
      <3>2. ReadFrom(b, b, r) \/ PassedOn(b, b, r)
        BY <3>1, <1>6, <1>7 DEF Good, Accounted, Within
      <3>3. r \in Settled(b)
        BY <3>1, <3>2, SettledThere
      <3>. QED
        BY <2>2, <3>3 DEF Settled, Noted
    <2>. QED
      BY <2>1, <2>2
  <1>. QED
    BY <1>6, <1>7 DEF Good


-----------------------------------------------------------------------------
(***************************************************************************)
(* Live registers found grow, and a block that learns of one is looked at  *)
(* again.                                                                  *)
(***************************************************************************)
(***************************************************************************)
(* Needs are complete: what is needed a node further on, and not hidden,   *)
(* is needed before it.  Each step of the reference adds nodes that need a *)
(* register, until one adds none.                                          *)
(***************************************************************************)
LEMMA EarlierGrows ==
  ASSUME NEW m, NEW n, m \subseteq n
  PROVE  Earlier(m) \subseteq Earlier(n)
  BY DEF Earlier, NeededAt

LEMMA NeededIsComplete ==
  ASSUME Typed
  PROVE  Earlier(Needed) = Needed
  <1>. DEFINE N == Len(code)
  <1>1. N \in Nat /\ Nodes = 1 .. N /\ \A i \in Nodes : NextNodes(i) \subseteq Nodes
    <2>1. \A i \in Nodes : code[i].op \in ToLabel => code[i].to \in Nodes
      BY Shape DEF Typed
    <2>2. \A i \in Nodes : NextNodes(i) \subseteq Nodes
      BY <2>1 DEF NextNodes
    <2>. QED
      BY <2>2, Shape DEF Typed
  <1>2. PICK within : /\ Needed = within[N] /\ within[0] = {}
                      /\ \A k \in 1 .. N : within[k] = Earlier(within[k - 1])
    BY <1>1, NeededSteps
  <1>. DEFINE w == [k \in 0 .. N + 1 |-> IF k = N + 1 THEN Earlier(within[N]) ELSE within[k]]
  <1>3. /\ w[0] = {} /\ w[N] = Needed /\ w[N + 1] = Earlier(Needed)
        /\ \A k \in 0 .. N : w[k + 1] = Earlier(w[k])
    <2>1. w[0] = {} /\ w[N] = Needed /\ w[N + 1] = Earlier(Needed)
      BY <1>1, <1>2
    <2>2. ASSUME NEW k \in 0 .. N PROVE w[k + 1] = Earlier(w[k])
      <3>1. CASE k = N
        BY <2>1, <3>1, <1>2
      <3>2. CASE k # N
        <4>1. k + 1 \in 1 .. N /\ k + 1 - 1 = k /\ k + 1 # N + 1 /\ k \in 0 .. N + 1 /\ k + 1 \in 0 .. N + 1 /\ k # N + 1
          BY <1>1, <3>2
        <4>2. w[k + 1] = within[k + 1] /\ w[k] = within[k]
          BY <4>1
        <4>. QED
          BY <4>1, <4>2, <1>2
      <3>. QED
        BY <3>1, <3>2
    <2>. QED
      BY <2>1, <2>2
  <1>. HIDE DEF w
  <1>4. \A k \in 0 .. N : w[k] \subseteq w[k + 1]
    <2>. DEFINE S == {k \in Nat : k =< N => w[k] \subseteq w[k + 1]}
    <2>1. 0 \in S
      BY <1>3
    <2>2. ASSUME NEW k \in Nat, k \in S PROVE k + 1 \in S
      <3>. SUFFICES ASSUME k + 1 =< N PROVE w[k + 1] \subseteq w[k + 1 + 1]
        OBVIOUS
      <3>1. k \in 0 .. N /\ k + 1 \in 0 .. N
        BY <1>1
      <3>2. w[k] \subseteq w[k + 1]
        BY <2>2, <3>1
      <3>3. w[k + 1] = Earlier(w[k]) /\ w[k + 1 + 1] = Earlier(w[k + 1])
        BY <3>1, <1>3
      <3>. QED
        BY <3>2, <3>3, EarlierGrows
    <2>3. Nat \subseteq S
      <3>. HIDE DEF S
      <3>. QED
        BY <2>1, <2>2, SetInduction
    <2>. QED
      BY <1>1, <2>3
  <1>5. ASSUME NEW i, NEW r, <<i, r>> \in Earlier(Needed) PROVE <<i, r>> \in Needed
    <2>1. i \in Nodes /\ r \in Reg
      BY <1>5 DEF Earlier
    <2>. DEFINE C == [k \in 0 .. N + 1 |-> {j \in Nodes : <<j, r>> \in w[k]}]
    <2>2. \A k \in 0 .. N + 1 : C[k] \subseteq 1 .. N
      BY <1>1
    <2>3. ASSUME NEW k \in 0 .. N PROVE C[k] \subseteq C[k + 1]
      <3>1. k \in 0 .. N + 1 /\ k + 1 \in 0 .. N + 1
        BY <1>1
      <3>. QED
        BY <3>1, <1>4
    <2>4. ASSUME NEW k \in 1 .. N, C[k - 1] = C[k] PROVE C[k] = C[k + 1]
      <3>1. k - 1 \in 0 .. N /\ k \in 0 .. N /\ k - 1 \in 0 .. N + 1 /\ k \in 0 .. N + 1 /\ k + 1 \in 0 .. N + 1
            /\ k - 1 + 1 = k
        BY <1>1
      <3>2. w[k] = Earlier(w[k - 1]) /\ w[k + 1] = Earlier(w[k])
        BY <3>1, <1>3
      <3>3. \A j \in Nodes : <<j, r>> \in w[k - 1] <=> <<j, r>> \in w[k]
        BY <2>4, <3>1
      <3>4. \A j \in Nodes : NeededAt(j, r, w[k - 1]) <=> NeededAt(j, r, w[k])
        BY <3>3, <1>1 DEF NeededAt
      <3>5. \A j \in Nodes : /\ <<j, r>> \in w[k] <=> NeededAt(j, r, w[k - 1])
                             /\ <<j, r>> \in w[k + 1] <=> NeededAt(j, r, w[k])
        BY <3>2, <2>1 DEF Earlier
      <3>. QED
        BY <3>1, <3>4, <3>5
    <2>. HIDE DEF C
    <2>5. C[N] = C[N + 1]
      BY <1>1, <2>2, <2>3, <2>4, ChainStops
    <2>6. i \in C[N + 1]
      BY <1>1, <1>3, <1>5, <2>1 DEF C
    <2>. QED
      BY <1>1, <1>3, <2>5, <2>6 DEF C
  <1>6. Needed \subseteq Earlier(Needed)
    BY <1>1, <1>3, <1>4
  <1>7. Earlier(Needed) \subseteq Needed
    BY <1>5 DEF Earlier
  <1>. QED
    BY <1>6, <1>7

\* What is noted of blocks, and accounted for, stays so while code is generated.
LEMMA SameAccounted ==
  ASSUME UNCHANGED <<code, reglive, regmask>>
  PROVE  /\ Noted' = Noted
         /\ \A need : Accounted(need)' = Accounted(need)
  <1>1. /\ Followed' = Followed /\ Blocks' = Blocks /\ Nodes' = Nodes /\ \A b : Leads(b)' = Leads(b) /\ Body(b)' = Body(b)
        /\ \A b : Referred(b)' = Referred(b) /\ Exposed(b)' = Exposed(b) /\ AtEpilog(b)' = AtEpilog(b)
    BY SameCode DEF Body
  <1>2. \A b : Settled(b)' = Settled(b)
    BY <1>1 DEF Settled
  <1>3. \A n : Reads(n)' = Reads(n) /\ Hides(n)' = Hides(n)
    BY DEF Reads, Hides, Used, Changed, Clobbered, Paired
  <1>4. ASSUME NEW need PROVE Accounted(need)' = Accounted(need)
    <2>1. \A b, i : Within(b, i)' = Within(b, i)
      BY <1>1 DEF Within
    <2>2. \A b, i, r : ReadFrom(b, i, r)' = ReadFrom(b, i, r)
      BY <1>1, <1>3 DEF ReadFrom
    <2>3. \A b, i, r : PassedOn(b, i, r)' = PassedOn(b, i, r)
      BY <1>1, <1>2, <1>3 DEF PassedOn
    <2>. QED
      BY <1>1, <2>1, <2>2, <2>3 DEF Accounted
  <1>. QED
    BY <1>1, <1>4 DEF Noted

LEMMA LiveTypes ==
  ASSUME Typed, NEW b \in Blocks
  PROVE  /\ reglive[b] \subseteq Reg /\ regmask[b] \subseteq Reg
         /\ Referred(b) \subseteq Reg /\ Exposed(b) \subseteq Reg
         /\ Followed \subseteq Blocks /\ (b \notin Followed => AtEpilog(b))
         /\ Leads(b) \subseteq Blocks
  <1>1. reglive[b] \subseteq Reg /\ regmask[b] \subseteq Reg
    BY DEF Typed, RegSets
  <1>2. Leads(b) \subseteq Blocks
    <2>1. Targets(b) \subseteq Blocks
      BY Shape DEF Typed, Targets, Body
    <2>. QED
      BY <2>1 DEF Leads, NextLabel, After
  <1>. QED
    BY <1>1, <1>2, SetsInReg DEF Followed

\* Only registers that were to be found leave regmask, and enter reglive.
Grown ==
  /\ \A b \in Blocks : /\ reglive[b] \subseteq reglive'[b] /\ reglive'[b] \subseteq Reg
                       /\ regmask'[b] \subseteq regmask[b]
  /\ \A b \in Blocks : regmask[b] \ regmask'[b] \subseteq reglive'[b]
  /\ again \subseteq again'
  /\ \A b \in Blocks : b \in again' \/ regmask'[b] = regmask[b]

LEMMA GrownSettled ==
  ASSUME Typed, Noted, UNCHANGED code, Grown, NEW b \in Blocks
  PROVE  /\ Settled(b) \subseteq Settled(b)'
         /\ b \in again' \/ Settled(b)' \subseteq Settled(b)
  <1>1. AtEpilog(b)' = AtEpilog(b) /\ Exposed(b)' = Exposed(b) /\ Referred(b)' = Referred(b)
    BY SameCode
  <1>2. Settled(b) \subseteq Settled(b)'
    BY <1>1 DEF Settled, Grown
  <1>3. ASSUME b \notin again', NEW r \in Settled(b)', ~AtEpilog(b), r \notin Exposed(b) PROVE r \in Settled(b)
    <2>1. r \in reglive'[b] /\ r \notin regmask'[b] /\ r \notin Referred(b)
      BY <1>1, <1>3 DEF Settled
    <2>2. r \notin regmask[b] /\ r \in Reg
      BY <1>3, <2>1 DEF Grown
    <2>. QED
      BY <1>3, <2>1, <2>2 DEF Settled, Noted
  <1>. QED
    BY <1>1, <1>2, <1>3 DEF Settled

LEMMA GrownKeeps ==
  ASSUME Typed, Noted, UNCHANGED code, Grown
  PROVE  /\ Noted'
         /\ Waiting => Waiting'
  <1>1. /\ Blocks' = Blocks /\ Followed' = Followed
        /\ \A b : Exposed(b)' = Exposed(b) /\ Referred(b)' = Referred(b) /\ Kept(b)' = Kept(b)
        /\ \A b : Leads(b)' = Leads(b) /\ AtEpilog(b)' = AtEpilog(b)
    BY SameCode
  <1>2. Noted'
    BY <1>1 DEF Noted, Grown
  <1>3. ASSUME Waiting PROVE Waiting'
    <2>1. ASSUME NEW b \in Followed, NEW s \in Leads(b), s \notin again' PROVE Agree(b, s)'
      <3>1. b \in Blocks /\ s \in Blocks
        BY LiveTypes, <2>1 DEF Followed
      <3>2. Agree(b, s)
        BY <1>3, <2>1 DEF Waiting, Grown
      <3>3. Settled(b) \subseteq Settled(b)' /\ Settled(s)' \subseteq Settled(s)
        BY <2>1, <3>1, GrownSettled
      <3>. QED
        BY <1>1, <3>2, <3>3 DEF Agree
    <2>. QED
      BY <1>1, <2>1 DEF Waiting
  <1>. QED
    BY <1>2, <1>3

LEMMA MarkHeadsGrown == ASSUME Typed, MarkHeads PROVE Grown
  <1>1. Orphans \subseteq Blocks
    BY DEF Orphans
  <1>2. reglive \in [Blocks -> SUBSET Reg] /\ Saved \subseteq Reg
    BY RegAssumption DEF Typed, RegSets
  <1>. QED
    BY <1>1, <1>2 DEF MarkHeads, Grown

LEMMA UpdateBlockGrown ==
  ASSUME Typed, NEW b \in Blocks, NEW t \in Blocks, UpdateBlock(b, t)
  PROVE  Grown
  <1>. DEFINE l == [reglive EXCEPT ![b] = @ \cup Missing(b, t)]
              m == [regmask EXCEPT ![b] = @ \ Missing(b, t)]
              more(p) == (l[p] \cup l[b]) \cap m[p]
              back == {p \in Blocks : /\ p < b
                         /\ \A q \in Blocks : p < q /\ q < b => more(q) # {} /\ q \in falls}
  <1>1. /\ reglive' = [p \in Blocks |-> IF p \in back THEN l[p] \cup more(p) ELSE l[p]]
        /\ regmask' = [p \in Blocks |-> IF p \in back THEN m[p] \ more(p) ELSE m[p]]
        /\ again' = again \cup {b} \cup {p \in back : more(p) # {}}
    BY DEF UpdateBlock
  <1>2. \A p \in Blocks : /\ l[p] = IF p = b THEN reglive[b] \cup Missing(b, t) ELSE reglive[p]
                          /\ m[p] = IF p = b THEN regmask[b] \ Missing(b, t) ELSE regmask[p]
    BY DEF Typed, RegSets
  <1>. HIDE DEF l, m
  <1>3. ASSUME NEW p \in Blocks
        PROVE  /\ reglive[p] \subseteq reglive'[p] /\ reglive'[p] \subseteq Reg /\ regmask'[p] \subseteq regmask[p]
               /\ regmask[p] \ regmask'[p] \subseteq reglive'[p]
               /\ p \in again' \/ regmask'[p] = regmask[p]
    <2>1. \A q \in Blocks : reglive[q] \subseteq Reg
      BY LiveTypes
    <2>2. Missing(b, t) \subseteq Reg
      BY <2>1 DEF Missing
    <2>. QED
      BY <1>1, <1>2, <2>1, <2>2
  <1>. QED
    BY <1>1, <1>3 DEF Grown


(***************************************************************************)
(* do_setup and do_follow.                                                 *)
(***************************************************************************)
LEMMA SetupNotes ==
  ASSUME Typed, Setup, UNCHANGED code
  PROVE  Noted' /\ \A s \in Followed : regmask'[s] = Reg \ Referred(s)
  <1>1. /\ reglive' = [b \in Blocks |-> reglive[b] \cup (IF AtEpilog(b) THEN Ret ELSE Exposed(b))]
        /\ regmask' = [b \in Blocks |-> Reg \ (IF AtEpilog(b) THEN reglive[b] \cup Ret ELSE Referred(b))]
    BY DEF Setup
  <1>2. /\ Blocks' = Blocks
        /\ \A b : Exposed(b)' = Exposed(b) /\ Referred(b)' = Referred(b) /\ AtEpilog(b)' = AtEpilog(b)
    BY SameCode
  <1>3. ASSUME NEW b \in Blocks, AtEpilog(b) PROVE Ret \subseteq reglive'[b]
    BY <1>1, <1>3
  <1>4. ASSUME NEW b \in Blocks, ~AtEpilog(b)
        PROVE  Exposed(b) \subseteq reglive'[b] /\ regmask'[b] = Reg \ Referred(b)
    BY <1>1, <1>4
  <1>5. Noted'
    <2>1. ASSUME NEW b \in Blocks, ~AtEpilog(b)
          PROVE  /\ Exposed(b) \subseteq reglive'[b]
                 /\ Reg \subseteq regmask'[b] \cup Referred(b) \cup reglive'[b]
                 /\ regmask'[b] \cap Referred(b) = {}
      BY <1>4, <2>1
    <2>. QED
      BY <1>2, <1>3, <2>1 DEF Noted
  <1>. QED
    BY <1>4, <1>5 DEF Followed

\* The jump at the end of a block that goes to an unknown place is its only way out.
LEMMA Indirect ==
  ASSUME Typed, NEW b \in Followed, "jmpr" \in Ops(b)
  PROVE  Leads(b) = {}
  <1>1. PICK i \in Body(b) : code[i].op = "jmpr"
    BY DEF Ops
  <1>2. /\ Blocks \subseteq Nodes /\ Nodes \subseteq Nat \ {0} /\ Body(b) \subseteq Nodes /\ b \in Nodes
        /\ \A j \in Body(b) : code[j].op \in Jumps => j + 1 \in Blocks
    BY Shape DEF Typed, Body, Followed, Split
  <1>3. i + 1 \in Blocks /\ i \in Nat /\ b \in Nat /\ b < i + 1
    <2>1. i + 1 \in Blocks
      BY <1>1, <1>2 DEF Jumps
    <2>2. i \in Nat /\ b \in Nat /\ b < i
      BY <1>2 DEF Body
    <2>. QED
      BY <2>1, <2>2
  <1>4. \A j \in Body(b) : j \in Nat /\ j =< i
    <2>1. \A j \in Body(b) : j \in Nat /\ j < i + 1
      BY <1>2, <1>3 DEF Body
    <2>. QED
      BY <1>3, <2>1
  <1>5. Targets(b) = {}
    <2>1. ASSUME NEW j \in Body(b), code[j].op \in ToLabel PROVE FALSE
      <3>1. j + 1 \in Blocks /\ j \in Nat /\ b < j + 1
        BY <1>2, <1>3, <2>1 DEF Jumps, Body
      <3>2. i < j + 1
        BY <3>1 DEF Body
      <3>3. i = j
        BY <1>3, <1>4, <3>1, <3>2
      <3>. QED
        BY <1>1, <2>1, <3>3 DEF ToLabel, Conditional
    <2>. QED
      BY <2>1 DEF Targets
  <1>6. ASSUME NEW h \in NextLabel(b), RunsInto(code, h) PROVE FALSE
    <2>1. h \in Blocks /\ h \in Nat /\ b < h /\ h =< i + 1
      BY <1>2, <1>3 DEF NextLabel, After
    <2>2. i < h
      BY <2>1 DEF Body
    <2>3. h - 1 = i
      BY <1>3, <2>1, <2>2
    <2>. QED
      BY <1>1, <1>6, <2>3 DEF RunsInto, Leaves
  <1>. QED
    BY <1>5, <1>6 DEF Leads

\* What a block leads to is what do_follow looks at.
LEMMA AheadOf ==
  ASSUME Typed, NEW b, NEW s \in Leads(b)
  PROVE  reglive[s] \subseteq Ahead(b)
  BY DEF Leads, Ahead

LEMMA FollowOne ==
  ASSUME Typed, Noted, NEW b \in Followed, Follow(b), UNCHANGED code, regmask[b] = Reg \ Referred(b)
  PROVE  /\ Noted'
         /\ \A s \in Blocks : s # b => reglive'[s] = reglive[s] /\ regmask'[s] = regmask[s]
         /\ \A s \in Blocks : s # b => (s \in again' <=> s \in again)
         /\ Settled(b) = Exposed(b) /\ Exposed(b) \subseteq Settled(b)'
         /\ b \in again' \/ Settled(b)' = Exposed(b)
         /\ \A s \in Leads(b) : Entry(s) \subseteq Settled(b)' \cup Kept(b)
         /\ b \in again' \/ Quiet(b)
  <1>1. b \in Blocks /\ ~AtEpilog(b) /\ reglive \in [Blocks -> SUBSET Reg] /\ regmask \in [Blocks -> SUBSET Reg]
    BY DEF Followed, Typed, RegSets
  <1>2. /\ reglive'[b] = reglive[b] \cup Gained(b) \cup (IF "jmpr" \in Ops(b) THEN Saved ELSE {})
        /\ regmask'[b] = regmask[b] \ Gained(b)
        /\ \A s \in Blocks : s # b => reglive'[s] = reglive[s] /\ regmask'[s] = regmask[s]
        /\ again' = IF Gained(b) # {} THEN again \cup {b} ELSE again \ {b}
    BY <1>1 DEF Follow
  <1>3. /\ Blocks' = Blocks
        /\ \A c : Exposed(c)' = Exposed(c) /\ Referred(c)' = Referred(c) /\ AtEpilog(c)' = AtEpilog(c)
    BY SameCode
  <1>4. Gained(b) \subseteq regmask[b] /\ Saved \subseteq Reg
    BY RegAssumption DEF Gained, Through
  <1>5. Noted'
    <2>1. ASSUME NEW c \in Blocks, ~AtEpilog(c)
          PROVE  /\ Exposed(c) \subseteq reglive'[c]
                 /\ Reg \subseteq regmask'[c] \cup Referred(c) \cup reglive'[c]
                 /\ regmask'[c] \cap Referred(c) = {}
      <3>1. CASE c = b
        BY <1>2, <1>4, <2>1, <3>1 DEF Noted
      <3>2. CASE c # b
        BY <1>2, <2>1, <3>2 DEF Noted
      <3>. QED
        BY <3>1, <3>2
    <2>2. ASSUME NEW c \in Blocks, AtEpilog(c) PROVE Ret \subseteq reglive'[c]
      BY <1>1, <1>2, <2>2 DEF Noted
    <2>. QED
      BY <1>3, <2>1, <2>2 DEF Noted
  <1>6. Settled(b) = Exposed(b)
    BY <1>1 DEF Settled
  <1>7. Settled(b)' = Exposed(b) \cup Gained(b)
    <2>1. Settled(b)' = Exposed(b) \cup (reglive'[b] \ (regmask'[b] \cup Referred(b)))
      BY <1>1, <1>3 DEF Settled
    <2>2. reglive'[b] \subseteq Reg /\ Gained(b) \subseteq reglive'[b]
      BY <1>1, <1>2, <1>4
    <2>3. reglive'[b] \ (regmask'[b] \cup Referred(b)) = Gained(b)
      BY <1>2, <1>4, <2>2
    <2>. QED
      BY <2>1, <2>3
  <1>8. ASSUME NEW s \in Leads(b), NEW r \in Entry(s), r \notin Kept(b) PROVE r \in Gained(b)
    <2>1. s \in Blocks
      BY <1>1, LiveTypes
    <2>2. r \in reglive[s]
      BY <1>8, <2>1 DEF Entry, Noted
    <2>3. r \in Reg
      BY <1>1, <2>1, <2>2
    <2>4. r \in Through(b)
      <3>1. r \notin Referred(b) /\ r \notin UNION {Clobbered(code[i]) : i \in Body(b)}
        BY <1>8 DEF Kept
      <3>. QED
        BY <2>3, <3>1 DEF Through
    <2>5. "jmpr" \notin Ops(b)
      BY <1>8, Indirect
    <2>. QED
      BY <2>2, <2>4, <2>5, AheadOf DEF Gained
  <1>9. b \in again' \/ Quiet(b)
    BY <1>2, <1>8 DEF Quiet
  <1>10. \A s \in Leads(b) : Entry(s) \subseteq Settled(b)' \cup Kept(b)
    BY <1>7, <1>8
  <1>. QED
    BY <1>2, <1>5, <1>6, <1>7, <1>9, <1>10


LEMMA EntrySettled ==
  ASSUME Typed, NEW s \in Blocks
  PROVE  s \notin Followed \/ Settled(s) = Exposed(s) => Settled(s) = Entry(s)
  BY LiveTypes DEF Settled, Entry, Followed

LEMMA FollowingFrom ==
  ASSUME Typed, NEW i \in Nat, i >= 1
  PROVE  /\ \A s \in Followed : s < From(i, Followed) <=> s < i
         /\ From(i, Followed) = End \/ From(i, Followed) >= i
         /\ \A s \in Followed : s < End /\ s \in Nat
  <1>1. /\ Followed \subseteq Nodes /\ Nodes \subseteq Nat /\ Nodes = 1 .. Len(code) /\ Len(code) \in Nat
        /\ End = Len(code) + 1
    BY Shape, NodeIs DEF Typed
  <1>2. /\ From(i, Followed) \in 1 .. End
        /\ \A j \in Followed : j >= i => From(i, Followed) =< j
        /\ From(i, Followed) >= i \/ From(i, Followed) = End
    BY <1>1, Onward
  <1>3. ASSUME NEW s \in Followed PROVE s < End /\ s \in Nat
    BY <1>1
  <1>4. ASSUME NEW s \in Followed, s < From(i, Followed) PROVE s < i
    <2>1. From(i, Followed) \in Nat
      BY <1>1, <1>2
    <2>. QED
      BY <1>2, <1>3, <1>4, <2>1
  <1>5. ASSUME NEW s \in Followed, s < i PROVE s < From(i, Followed)
    <2>1. From(i, Followed) \in Nat
      BY <1>1, <1>2
    <2>. QED
      BY <1>2, <1>3, <1>5, <2>1
  <1>. QED
    BY <1>2, <1>3, <1>4, <1>5

LEMMA FollowingStep ==
  ASSUME Typed, Looping, Noted, Following, FollowBlock
  PROVE  Noted' /\ Following'
  <1>. PICK n : n = node
    OBVIOUS
  <1>1. /\ phase = "follow" /\ n # End /\ node' = From(n + 1, Followed)
        /\ UNCHANGED <<code, always>>
        /\ IF always \/ n \in again THEN Follow(n) ELSE UNCHANGED liveVars
    BY DEF FollowBlock
  <1>2. n \in Followed /\ n \in Nat /\ n >= 1 /\ n + 1 \in Nat /\ n + 1 >= 1
        /\ Followed \subseteq Blocks /\ n \in Blocks /\ Followed \subseteq Nodes
    BY <1>1, NodeIs DEF Looping, Followed
  <1>3. /\ Blocks' = Blocks /\ Followed' = Followed
        /\ \A b : Exposed(b)' = Exposed(b) /\ Referred(b)' = Referred(b) /\ Kept(b)' = Kept(b)
        /\ \A b : Leads(b)' = Leads(b) /\ AtEpilog(b)' = AtEpilog(b)
    BY <1>1, SameCode
  <1>4. \A b \in Followed : Quiet(b)' = Quiet(b)
    BY <1>3 DEF Quiet, Entry
  <1>5. /\ \A s \in Followed : s \in Nat /\ (s < node' <=> s < n + 1)
        /\ regmask[n] = Reg \ Referred(n)
    BY <1>1, <1>2, FollowingFrom DEF Following
  <1>6. \A s \in Followed : s < node' <=> (s < n \/ s = n)
    BY <1>2, <1>5
  <1>7. n < node' /\ node' \in Nat
    <2>1. node' \in 1 .. End /\ (node' = End \/ node' >= n + 1)
      BY <1>1, <1>2, Onward
    <2>2. End \in Nat /\ n < End
      BY <1>1, Shape DEF Typed
    <2>. QED
      BY <1>2, <2>1, <2>2
  <1>8. /\ Noted'
        /\ \A s \in Blocks : s # n => reglive'[s] = reglive[s] /\ regmask'[s] = regmask[s]
        /\ \A s \in Blocks : s # n => (s \in again' <=> s \in again)
        /\ Settled(n) = Exposed(n) /\ Exposed(n) \subseteq Settled(n)'
        /\ n \in again' \/ Settled(n)' = Exposed(n)
        /\ \A s \in Leads(n) : Entry(s) \subseteq Settled(n)' \cup Kept(n)
        /\ n \in again' \/ Quiet(n)
    <2>1. CASE always \/ n \in again
      BY <1>1, <1>2, <1>5, <2>1, FollowOne
    <2>2. CASE ~(always \/ n \in again)
      <3>1. UNCHANGED liveVars
        BY <1>1, <2>2
      <3>2. Noted'
        BY <1>3, <3>1 DEF Noted, liveVars
      <3>3. Settled(n) = Exposed(n)
        <4>1. reglive[n] \subseteq Reg /\ ~AtEpilog(n)
          BY <1>2, LiveTypes DEF Followed
        <4>. QED
          BY <1>5, <4>1 DEF Settled
      <3>4. Quiet(n)
        BY <1>2, <2>2 DEF Following, Typed
      <3>5. Settled(n)' = Settled(n)
        BY <1>3, <3>1 DEF Settled, liveVars
      <3>. QED
        BY <3>1, <3>2, <3>3, <3>4, <3>5 DEF liveVars, Quiet
    <2>. QED
      BY <2>1, <2>2
  <1>9. \A s \in Blocks : s # n => Settled(s)' = Settled(s)
    BY <1>3, <1>8 DEF Settled
  <1>10. \A s \in Followed : s >= node' => regmask'[s] = Reg \ Referred(s)
    <2>1. \A s \in Followed : s >= node' => s >= n /\ s # n
      BY <1>2, <1>5, <1>7
    <2>. QED
      BY <1>2, <1>8, <2>1 DEF Following
  <1>11. \A s \in Followed : s < node' => s \in again' \/ Settled(s)' = Exposed(s)
    BY <1>2, <1>6, <1>8, <1>9 DEF Following
  <1>12. ASSUME NEW b \in Followed, NEW s \in Leads(b), b < node'
         PROVE  Agree(b, s)' \/ (s \in again' /\ s < node')
    <2>1. b \in Blocks /\ s \in Blocks /\ s \in Nat
      <3>1. b \in Blocks /\ s \in Blocks
        BY <1>2, LiveTypes
      <3>. QED
        BY <3>1, Shape DEF Typed
    <2>2. CASE b = n /\ s = n
      BY <2>2 DEF Agree
    <2>3. CASE b = n /\ s # n
      <3>1. (s \in again /\ s < n) \/ Settled(s) = Entry(s)
        <4>1. CASE s \notin Followed
          BY <2>1, <4>1, EntrySettled
        <4>2. CASE s \in Followed /\ s < n
          BY <2>1, <4>2, EntrySettled DEF Following
        <4>3. CASE s \in Followed /\ s >= n
          <5>1. reglive[s] \subseteq Reg /\ ~AtEpilog(s) /\ regmask[s] = Reg \ Referred(s)
            BY <2>1, <4>3, LiveTypes DEF Followed, Following
          <5>2. Settled(s) = Exposed(s)
            BY <5>1 DEF Settled
          <5>. QED
            BY <2>1, <5>2, EntrySettled
        <4>. QED
          BY <1>2, <2>1, <4>1, <4>2, <4>3
      <3>2. CASE s \in again /\ s < n
        BY <1>2, <1>7, <1>8, <2>1, <2>3, <3>2
      <3>3. CASE Settled(s) = Entry(s)
        <4>1. Settled(s)' \subseteq Settled(n)' \cup Kept(n)
          BY <1>8, <1>9, <2>1, <2>3, <3>3
        <4>. QED
          BY <1>3, <2>3, <4>1 DEF Agree
      <3>. QED
        BY <3>1, <3>2, <3>3
    <2>4. CASE b # n
      <3>1. Agree(b, s) \/ (s \in again /\ s < n)
        BY <1>6, <1>12, <2>4 DEF Following
      <3>2. CASE s # n
        <4>1. Settled(b)' = Settled(b) /\ Settled(s)' = Settled(s) /\ (s \in again' <=> s \in again)
          BY <1>8, <1>9, <2>1, <2>4, <3>2
        <4>2. s < n => s < node'
          BY <1>2, <1>7, <2>1
        <4>. QED
          BY <1>3, <3>1, <4>1, <4>2 DEF Agree
      <3>3. CASE s = n
        <4>1. Agree(b, s)
          BY <1>2, <3>1, <3>3
        <4>2. CASE n \in again'
          BY <1>7, <3>3, <4>2
        <4>3. CASE Settled(n)' = Exposed(n)
          <5>1. Settled(s)' = Settled(s) /\ Settled(b)' = Settled(b)
            BY <1>8, <1>9, <2>1, <2>4, <3>3, <4>3
          <5>. QED
            BY <1>3, <4>1, <5>1 DEF Agree
        <4>. QED
          BY <1>8, <4>2, <4>3
      <3>. QED
        BY <3>2, <3>3
    <2>. QED
      BY <2>2, <2>3, <2>4
  <1>13. \A b \in Followed : b < node' \/ ~always' => b \in again' \/ Quiet(b)'
    BY <1>1, <1>2, <1>4, <1>6, <1>8 DEF Following
  <1>. QED
    BY <1>1, <1>3, <1>8, <1>10, <1>11, <1>12, <1>13 DEF Following


(***************************************************************************)
(* simplify: an instruction that goes away, or changes, has no operand but *)
(* those of nodes before it in its block; so what the setup found stays.   *)
(***************************************************************************)
LEMMA MetInBlock ==
  ASSUME Typed, NEW b \in Followed, NEW i \in Body(b), NEW r \in MetBefore(i)
  PROVE  \E p \in Body(b) : p < i /\ r \in Operands(code[p])
  <1>1. /\ Blocks \subseteq Nodes /\ Nodes \subseteq Nat \ {0} /\ b \in Blocks /\ ~AtEpilog(b) /\ i \in Nat /\ b \in Nat
        /\ b < i /\ \A h \in Blocks : b < h => i < h
    BY Shape DEF Typed, Followed, Body
  <1>2. PICK p \in Nodes : Behind(p, i) /\ r \in Operands(code[p])
    BY DEF MetBefore
  <1>3. p \in Nat /\ p < i
    BY <1>1, <1>2 DEF Behind
  <1>4. ~(p < b)
    BY <1>1, <1>2 DEF Behind
  <1>5. p # b
    <2>1. Operands(code[b]) = {}
      BY <1>1, OperandsOf DEF Blocks
    <2>. QED
      BY <1>2, <2>1
  <1>6. p \in Body(b)
    <2>1. p > b
      BY <1>1, <1>3, <1>4, <1>5
    <2>2. \A h \in Blocks : b < h => p < h
      BY <1>1, <1>3
    <2>. QED
      BY <2>1, <2>2 DEF Body
  <1>. QED
    BY <1>2, <1>3, <1>6

LEMMA SameBehindMet ==
  ASSUME Typed, Rewritten, NEW i \in Nodes, \A j \in Nodes : j # i => code'[j] = code[j],
         code[i].op \in Plain, code'[i].op \in Plain,
         Operands(code[i]) \subseteq MetBefore(i), Operands(code'[i]) \subseteq MetBefore(i), NEW b \in Followed
  PROVE  Exposed(b)' = Exposed(b) /\ Referred(b)' = Referred(b) /\ Kept(b)' = Kept(b)
  <1>1. Body(b)' = Body(b) /\ Body(b) \subseteq Nodes /\ Nodes \subseteq Nat
    BY RewrittenPlaces, Shape DEF Typed, Body
  <1>2. \A j \in Body(b) : j # i => code'[j] = code[j]
    BY <1>1
  <1>3. /\ Clobbered(code[i]) = {} /\ Clobbered(code'[i]) = {}
        /\ Paired(code[i]) = {} /\ Paired(code'[i]) = {}
    BY OperandsOf
  <1>4. ASSUME i \in Body(b), NEW r \in Operands(code[i]) \cup Operands(code'[i])
        PROVE  \E p \in Body(b) : p < i /\ p # i /\ r \in Operands(code[p]) /\ r \in Operands(code'[p])
    <2>1. r \in MetBefore(i)
      BY <1>4
    <2>2. PICK p \in Body(b) : p < i /\ r \in Operands(code[p])
      BY <1>4, <2>1, MetInBlock
    <2>3. p # i
      BY <1>1, <2>2
    <2>. QED
      BY <1>2, <2>2, <2>3
  <1>5. i \in Nat /\ \A p \in Body(b) : p \in Nat
    BY <1>1
  <1>6. Referred(b)' = Referred(b)
    <2>1. ASSUME NEW r, NEW j \in Body(b), r \in Operands(code[j])
          PROVE  \E p \in Body(b) : r \in Operands(code'[p])
      BY <1>2, <1>4, <2>1
    <2>2. ASSUME NEW r, NEW j \in Body(b), r \in Operands(code'[j])
          PROVE  \E p \in Body(b) : r \in Operands(code[p])
      BY <1>2, <1>4, <2>2
    <2>3. Referred(b)' = UNION {Operands(code'[j]) : j \in Body(b)}
      BY <1>1 DEF Referred
    <2>. QED
      BY <2>1, <2>2, <2>3 DEF Referred
  <1>7. Exposed(b)' = Exposed(b)
    <2>1. ASSUME NEW r \in Exposed(b) PROVE r \in Exposed(b)'
      <3>1. PICK j \in Body(b) : /\ r \in Used(code[j]) \ Paired(code[j])
                                 /\ \A l \in Body(b) : l < j => r \notin Operands(code[l])
        BY DEF Exposed
      <3>2. j # i
        <4>1. r \in Operands(code[j])
          BY <3>1 DEF Operands
        <4>. QED
          BY <1>4, <3>1, <4>1
      <3>3. code'[j] = code[j]
        BY <1>2, <3>2
      <3>4. ASSUME NEW l \in Body(b), l < j PROVE r \notin Operands(code'[l])
        <4>1. CASE l # i
          BY <1>2, <3>1, <3>4, <4>1
        <4>2. CASE l = i
          <5>1. i \in Nat /\ j \in Nat /\ i < j
            BY <1>5, <3>4, <4>2
          <5>2. \A p \in Body(b) : p < i => p < j
            BY <1>5, <5>1
          <5>. QED
            BY <1>4, <3>1, <4>2, <5>2
        <4>. QED
          BY <4>1, <4>2
      <3>. QED
        BY <1>1, <3>1, <3>3, <3>4 DEF Exposed
    <2>2. ASSUME NEW r \in Exposed(b)' PROVE r \in Exposed(b)
      <3>1. PICK j \in Body(b) : /\ r \in Used(code'[j]) \ Paired(code'[j])
                                 /\ \A l \in Body(b) : l < j => r \notin Operands(code'[l])
        BY <1>1 DEF Exposed
      <3>2. j # i
        <4>1. r \in Operands(code'[j])
          BY <3>1 DEF Operands
        <4>. QED
          BY <1>4, <3>1, <4>1
      <3>3. code'[j] = code[j]
        BY <1>2, <3>2
      <3>4. ASSUME NEW l \in Body(b), l < j PROVE r \notin Operands(code[l])
        <4>1. CASE l # i
          BY <1>2, <3>1, <3>4, <4>1
        <4>2. CASE l = i
          <5>1. i \in Nat /\ j \in Nat /\ i < j
            BY <1>5, <3>4, <4>2
          <5>2. \A p \in Body(b) : p < i => p < j
            BY <1>5, <5>1
          <5>. QED
            BY <1>4, <3>1, <4>2, <5>2
        <4>. QED
          BY <4>1, <4>2
      <3>5. r \in Reg
        BY <2>2 DEF Exposed
      <3>. QED
        BY <3>1, <3>3, <3>4, <3>5 DEF Exposed
    <2>. QED
      BY <2>1, <2>2
  <1>8. Kept(b)' = Kept(b)
    <2>1. \A j \in Body(b) : Clobbered(code'[j]) = Clobbered(code[j])
      BY <1>2, <1>3
    <2>2. UNION {Clobbered(code'[j]) : j \in Body(b)} = UNION {Clobbered(code[j]) : j \in Body(b)}
      BY <2>1
    <2>. QED
      BY <1>1, <1>6, <2>2 DEF Kept
  <1>. QED
    BY <1>6, <1>7, <1>8


\* What is removed was met: the register holds what a node before it gave it.
LEMMA ChangedMet ==
  ASSUME Typed, NEW i \in Nodes, i = node, Knowing, Removal(i) \/ Keeping(i), code' # code
  PROVE  /\ Operands(code[i]) \subseteq MetBefore(i) /\ Operands(code'[i]) \subseteq MetBefore(i)
         /\ code[i].op \in Plain /\ code'[i].op \in Plain
         /\ \A j \in Nodes : j # i => code'[j] = code[j]
  <1>1. /\ code[i] \in Instruction /\ Operands(code[i]) \subseteq Reg
        /\ Operands(Deleted) = {} /\ Deleted.op = "gone"
    BY Shape, DeletedIs DEF Typed
  <1>2. \A r \in Reg : /\ values[r].kind # "none" => r \in MetBefore(i)
                       /\ values[r].kind \in {"register", "code"} => values[r].base \in MetBefore(i)
    BY DEF Knowing
  <1>3. ASSUME code[i].op \in {"movr", "movi", "ldxi"}, code'[i] = Deleted, Removal(i)
        PROVE  Operands(code[i]) \subseteq MetBefore(i)
    <2>1. CASE DropMovr(i)
      <3>1. Operands(code[i]) = {code[i].u, code[i].v} /\ code[i].u \in Reg /\ code[i].v \in Reg
        BY <1>1, <2>1, OperandsOf DEF DropMovr
      <3>2. CASE values[code[i].u] = Copy(code[i].v)
        <4>1. values[code[i].u].kind = "register" /\ values[code[i].u].base = code[i].v
          BY <3>2 DEF Copy
        <4>. QED
          BY <1>2, <3>1, <4>1
      <3>3. CASE values[code[i].u].kind = "word" /\ values[code[i].v] = values[code[i].u]
        BY <1>2, <3>1, <3>3
      <3>. QED
        BY <2>1, <3>2, <3>3 DEF DropMovr, HoldsCopy
    <2>2. CASE DropMovi(i)
      <3>1. Operands(code[i]) = {code[i].u} /\ code[i].u \in Reg
        BY <1>1, <2>2, OperandsOf DEF DropMovi
      <3>2. values[code[i].u].kind = "word"
        BY <2>2 DEF DropMovi, HoldsConstant, Constant
      <3>. QED
        BY <1>2, <3>1, <3>2
    <2>3. CASE DropLdxi(i)
      <3>1. Operands(code[i]) = {code[i].u, code[i].v} /\ code[i].u \in Reg /\ code[i].v \in Reg
        BY <1>1, <2>3, OperandsOf DEF DropLdxi
      <3>2. values[code[i].u].kind = "code" /\ values[code[i].u].base = code[i].v
        BY <2>3 DEF DropLdxi, HoldsLoad, Loaded
      <3>. QED
        BY <1>2, <3>1, <3>2
    <2>. QED
      BY <1>3, <2>1, <2>2, <2>3 DEF Removal
  <1>4. ASSUME MoviToMovr(i), code[i].op = "movi", Holders(i) # {}, NEW v \in Holders(i), code'[i] = Moved(i, v)
        PROVE  /\ Operands(code[i]) \subseteq MetBefore(i) /\ Operands(code'[i]) \subseteq MetBefore(i)
               /\ code'[i].op = "movr"
    <2>1. Operands(code[i]) = {code[i].u} /\ code[i].u \in Reg
      BY <1>1, <1>4, OperandsOf
    <2>2. values[code[i].u].kind = "word" /\ v \in Reg /\ values[v] = Constant(code[i].k)
      BY <1>4 DEF Holders
    <2>3. values[v].kind = "word"
      BY <2>2 DEF Constant
    <2>4. Operands(code'[i]) = {code[i].u, v} /\ code'[i].op = "movr"
      BY <1>1, <1>4, <2>2, MovedIs
    <2>. QED
      BY <1>2, <2>1, <2>2, <2>3, <2>4
  <1>5. \/ code[i].op \in {"movr", "movi", "ldxi"} /\ code'[i] = Deleted /\ Removal(i)
        \/ /\ code[i].op = "movi" /\ MoviToMovr(i) /\ Holders(i) # {} /\ Min(Holders(i)) \in Holders(i)
           /\ code'[i] = Moved(i, Min(Holders(i)))
    BY SimplifyRewrites
  <1>6. \A j \in Nodes : j # i => code'[j] = code[j]
    BY SimplifyRewrites
  <1>. QED
    BY <1>1, <1>3, <1>4, <1>5, <1>6 DEF Plain

\* What is remembered behind a node is of the registers met up to it.
LEMMA KnowingStep ==
  ASSUME Typed, Knowing, phase = "simplify", SimplifyNode
  PROVE  Knowing'
  <1>. PICK i : i = node
    OBVIOUS
  <1>1. /\ i \in Nodes /\ node' = i + 1 /\ i \in Nat
        /\ Removal(i) \/ Keeping(i)
    BY NodeIs DEF SimplifyNode
  <1>2. Rewritten /\ \A j \in Nodes : j # i => code'[j] = code[j]
    BY <1>1, SimplifyRewrites
  <1>3. /\ Nodes' = Nodes /\ Blocks' = Blocks /\ Nodes \subseteq Nat /\ Blocks \subseteq Nodes
        /\ \A h \in Blocks : AtEpilog(h)' = AtEpilog(h)
    BY <1>2, RewrittenPlaces, RewrittenFlow, Shape DEF Typed
  <1>4. \A r \in Reg : /\ values[r].kind # "none" => r \in MetBefore(i)
                       /\ values[r].kind \in {"register", "code"} => values[r].base \in MetBefore(i)
    BY DEF Knowing
  <1>. DEFINE Met == UNION {Operands(code'[p]) : p \in {q \in Nodes :
                              q < i + 1 /\ \A h \in Blocks : q < h /\ h < i + 1 => AtEpilog(h)}}
  <1>5. MetBefore(node)' = Met
    <2>1. \A q \in Nodes : Behind(q, node)' = (q < i + 1 /\ \A h \in Blocks : q < h /\ h < i + 1 => AtEpilog(h))
      BY <1>1, <1>3 DEF Behind
    <2>. QED
      BY <1>3, <2>1 DEF MetBefore
  <1>6. Operands(code'[i]) \subseteq Met
    <2>1. i < i + 1 /\ \A h \in Blocks : i < h /\ h < i + 1 => AtEpilog(h)
      <3>1. \A h \in Blocks : h \in Nat
        BY <1>3
      <3>. QED
        BY <1>1, <3>1
    <2>. QED
      BY <1>1, <2>1
  <1>7. ASSUME code[i].op \notin {"label", "prolog"} PROVE MetBefore(i) \subseteq Met
    <2>1. ASSUME NEW q \in Nodes, Behind(q, i)
          PROVE  q # i /\ q < i + 1 /\ \A h \in Blocks : q < h /\ h < i + 1 => AtEpilog(h)
      <3>1. q \in Nat /\ q < i
        BY <1>3, <2>1 DEF Behind
      <3>2. \A h \in Blocks : h \in Nat /\ (h < i + 1 => h < i \/ h = i)
        <4>1. \A h \in Blocks : h \in Nat
          BY <1>3
        <4>. QED
          BY <1>1, <4>1
      <3>3. i \in Blocks => AtEpilog(i)
        BY <1>7 DEF Blocks, Heads, AtEpilog
      <3>. QED
        BY <1>1, <2>1, <3>1, <3>2, <3>3 DEF Behind
    <2>2. ASSUME NEW r \in MetBefore(i) PROVE r \in Met
      <3>1. PICK q \in Nodes : Behind(q, i) /\ r \in Operands(code[q])
        BY <2>2 DEF MetBefore
      <3>2. r \in Operands(code'[q])
        BY <1>2, <2>1, <3>1
      <3>. QED
        BY <2>1, <3>1, <3>2
    <2>. QED
      BY <2>2
  <1>. HIDE DEF Met
  <1>8. SUFFICES \A r \in Reg : /\ values'[r].kind # "none" => r \in Met
                                /\ values'[r].kind \in {"register", "code"} => values'[r].base \in Met
    BY <1>5 DEF Knowing
  <1>9. /\ Unknown.kind = "none" /\ \A k : Constant(k).kind = "word"
        /\ \A r : Copy(r).base = r /\ Loaded(r).base = r
    BY DEF Unknown, Constant, Copy, Loaded
  <1>10. values \in [Reg -> Value]
    BY DEF Typed
  <1>11. ASSUME code[i].op \notin {"label", "prolog"},
                \A r \in Reg : \/ values'[r] = values[r] \/ values'[r].kind = "none"
                               \/ /\ r \in Operands(code'[i])
                                  /\ values'[r].kind \in {"register", "code"} => values'[r].base \in Operands(code'[i])
         PROVE  \A r \in Reg : /\ values'[r].kind # "none" => r \in Met
                               /\ values'[r].kind \in {"register", "code"} => values'[r].base \in Met
    BY <1>4, <1>6, <1>7, <1>11
  <1>12. ASSUME Reset(i)
         PROVE  \A r \in Reg : values'[r].kind = "none"
    BY <1>9, <1>12 DEF Reset, NoValues
  <1>13. ASSUME Removal(i)
         PROVE  code[i].op \notin {"label", "prolog"} /\ values' = values
    BY <1>13 DEF Removal, DropMovr, DropMovi, DropLdxi, valueVars
  <1>14. ASSUME Movr(i) \/ Movi(i) \/ Ldxi(i)
         PROVE  /\ code[i].op \notin {"label", "prolog"}
                /\ \A r \in Reg : \/ values'[r] = values[r]
                                  \/ /\ r \in Operands(code'[i])
                                     /\ values'[r].kind \in {"register", "code"} => values'[r].base \in Operands(code'[i])
    <2>1. code'[i] = code[i] /\ code[i].op \in {"movr", "movi", "ldxi"}
      BY <1>14 DEF Movr, Movi, Ldxi
    <2>2. code[i].u \in Operands(code[i])
      BY <2>1, OperandsOf
    <2>3. \A r \in Reg : r # code[i].u => values'[r] = values[r]
      BY <1>10, <1>14 DEF Movr, Movi, Ldxi, Remember
    <2>4. ASSUME code[i].u \in Reg
          PROVE  values'[code[i].u].kind \in {"register", "code"} => values'[code[i].u].base \in Operands(code[i])
      <3>1. CASE Movr(i)
        <4>1. values'[code[i].u] = IF values[code[i].v].kind = "word" THEN values[code[i].v] ELSE Copy(code[i].v)
          BY <1>10, <2>4, <3>1 DEF Movr, Remember
        <4>2. code[i].v \in Operands(code[i])
          BY <3>1, OperandsOf DEF Movr
        <4>. QED
          BY <1>9, <4>1, <4>2
      <3>2. CASE Movi(i)
        <4>1. values'[code[i].u] = IF Patched(code[i]) THEN Unknown ELSE Constant(code[i].k)
          BY <1>10, <2>4, <3>2 DEF Movi, Remember
        <4>. QED
          BY <1>9, <4>1
      <3>3. CASE Ldxi(i)
        <4>1. values'[code[i].u] = Loaded(code[i].v)
          BY <1>10, <2>4, <3>3 DEF Ldxi, Remember
        <4>2. code[i].v \in Operands(code[i])
          BY <3>3, OperandsOf DEF Ldxi
        <4>. QED
          BY <1>9, <4>1, <4>2
      <3>. QED
        BY <1>14, <3>1, <3>2, <3>3
    <2>. QED
      BY <2>1, <2>2, <2>3, <2>4
  <1>15. ASSUME MoviToMovr(i)
         PROVE  /\ code[i].op \notin {"label", "prolog"}
                /\ \A r \in Reg : \/ values'[r] = values[r]
                                  \/ /\ r \in Operands(code'[i])
                                     /\ values'[r].kind \notin {"register", "code"}
    <2>1. code[i].op = "movi" /\ Remember(code[i].u, Constant(code[i].k))
      BY <1>15 DEF MoviToMovr
    <2>2. code'[i].op = "movr" /\ code'[i].u = code[i].u
      <3>1. code \in Seq(Instruction) /\ i \in Nodes /\ code[i] \in Instruction
        BY <1>1, Shape DEF Typed, WellFormed
      <3>. QED
        BY <1>15, <3>1 DEF MoviToMovr, Instruction, Nodes
    <2>3. code[i].u \in Operands(code'[i])
      BY <2>2, OperandsOf
    <2>4. \A r \in Reg : values'[r] = IF r = code[i].u THEN Constant(code[i].k) ELSE values[r]
      BY <1>10, <2>1 DEF Remember
    <2>. QED
      BY <1>9, <2>1, <2>3, <2>4
  <1>16. ASSUME Stxi(i)
         PROVE  /\ code[i].op \notin {"label", "prolog"}
                /\ \A r \in Reg : \/ values'[r] = values[r] \/ values'[r].kind = "none"
                                  \/ r \in Operands(code'[i]) /\ values'[r].base \in Operands(code'[i])
    <2>1. code'[i] = code[i] /\ code[i].op = "stxi"
      BY <1>16 DEF Stxi
    <2>2. code[i].v \in Operands(code'[i]) /\ code[i].w \in Operands(code'[i])
      BY <2>1, OperandsOf
    <2>3. \A r \in Reg : \/ values'[r] = values[r] \/ values'[r] = Unknown
                         \/ r = code[i].w /\ values'[r].base = code[i].v
      BY <1>16 DEF Stxi
    <2>. QED
      BY <1>9, <2>1, <2>2, <2>3
  <1>17. ASSUME Other(i)
         PROVE  /\ code[i].op \notin {"label", "prolog"}
                /\ \A r \in Reg : values'[r] = values[r] \/ values'[r].kind = "none"
    BY <1>9, <1>17 DEF Other, Resets
  <1>. QED
    BY <1>1, <1>11, <1>12, <1>13, <1>14, <1>15, <1>16, <1>17 DEF Keeping


LEMMA SameSets ==
  ASSUME Typed, Rewritten, UNCHANGED <<reglive, regmask, again, falls>>,
         \A b \in Followed : Exposed(b)' = Exposed(b) /\ Referred(b)' = Referred(b) /\ Kept(b)' = Kept(b)
  PROVE  (Noted => Noted') /\ (Waiting => Waiting') /\ (Calm => Calm') /\ (Flagged => Flagged')
  <1>1. /\ Blocks' = Blocks /\ Followed' = Followed
        /\ \A b \in Blocks : AtEpilog(b)' = AtEpilog(b) /\ RunsInto(code, b)' = RunsInto(code, b)
        /\ \A b \in Blocks : Leads(b)' = Leads(b) /\ Leads(b) \subseteq Blocks
        /\ \A b \in Blocks : b \notin Followed <=> AtEpilog(b)
    BY RewrittenPlaces, RewrittenFlow, LiveTypes DEF Followed, Typed
  <1>2. \A b \in Blocks : Settled(b)' = Settled(b) /\ Entry(b)' = Entry(b)
    BY <1>1 DEF Settled, Entry
  <1>3. Noted => Noted'
    <2>1. ASSUME Noted, NEW b \in Blocks, ~AtEpilog(b)
          PROVE  /\ Exposed(b)' \subseteq reglive'[b]
                 /\ Reg \subseteq regmask'[b] \cup Referred(b)' \cup reglive'[b]
                 /\ regmask'[b] \cap Referred(b)' = {}
      BY <1>1, <2>1 DEF Noted
    <2>2. ASSUME Noted, NEW b \in Blocks, AtEpilog(b) PROVE Ret \subseteq reglive'[b]
      BY <2>2 DEF Noted
    <2>. QED
      BY <1>1, <2>1, <2>2 DEF Noted
  <1>4. \A b \in Followed : b \in Blocks
    BY DEF Followed
  <1>5. Waiting => Waiting'
    BY <1>1, <1>2, <1>4 DEF Waiting, Agree
  <1>6. Calm => Calm'
    <2>1. \A b \in Followed : Quiet(b)' = Quiet(b)
      BY <1>1, <1>2, <1>4 DEF Quiet
    <2>. QED
      BY <1>1, <2>1 DEF Calm
  <1>7. Flagged => Flagged'
    BY <1>1 DEF Flagged
  <1>. QED
    BY <1>3, <1>5, <1>6, <1>7

LEMMA SimplifyStep ==
  ASSUME Typed, Knowing, phase = "simplify", SimplifyNode
  PROVE  (Noted => Noted') /\ (Waiting => Waiting') /\ (Calm => Calm') /\ (Flagged => Flagged')
  <1>. PICK i : i = node
    OBVIOUS
  <1>1. /\ i \in Nodes /\ (Removal(i) \/ Keeping(i)) /\ UNCHANGED liveVars
    BY NodeIs DEF SimplifyNode
  <1>2. Rewritten
    BY <1>1, SimplifyRewrites
  <1>3. \A b \in Followed : Exposed(b)' = Exposed(b) /\ Referred(b)' = Referred(b) /\ Kept(b)' = Kept(b)
    <2>1. CASE code' = code
      BY <2>1, SameCode
    <2>2. CASE code' # code
      BY <1>1, <1>2, <2>2, ChangedMet, SameBehindMet
    <2>. QED
      BY <2>1, <2>2
  <1>. QED
    BY <1>1, <1>2, <1>3, SameSets DEF liveVars

(***************************************************************************)
(* redundant_store: where only a beqi leads, the register that it compared *)
(* may be read earlier than before; the block before it refers to it.      *)
(***************************************************************************)
LEMMA StoresStep ==
  ASSUME Typed, Looping, Calm, Flagged, DropStores
  PROVE  Calm' /\ Flagged'
  <1>. PICK i : i = node
    OBVIOUS
  <1>. PICK l, v : l = code[i].to /\ v = code[i].v
    OBVIOUS
  <1>1. i \in Nodes /\ RedundantStore(i, falls) /\ UNCHANGED falls /\ again' = again \cup {l}
    BY NodeIs DEF DropStores
  <1>2. /\ Rewritten
        /\ \A j \in Nodes : IF j \in Redundant(i) THEN code'[j] = Deleted ELSE code'[j] = code[j]
        /\ code[i].op = "beqi" /\ l \in Blocks
        /\ \A j \in Redundant(i) : j \in Body(l) /\ SetsTo(code[j], v, code[i].k)
    BY <1>1, StoresRewrite
  <1>3. /\ Blocks' = Blocks /\ Followed' = Followed /\ Blocks \subseteq Nodes
        /\ \A b : Body(b)' = Body(b) /\ Body(b) \subseteq Nodes
        /\ \A b \in Blocks : AtEpilog(b)' = AtEpilog(b) /\ RunsInto(code, b)' = RunsInto(code, b)
        /\ \A b \in Blocks : Leads(b)' = Leads(b) /\ Leads(b) \subseteq Blocks
    BY <1>2, RewrittenPlaces, RewrittenFlow, LiveTypes, Shape DEF Typed, Body
  <1>4. ~RunsInto(code, l) /\ LinkedTo(l) = {i} /\ code[l].op = "label"
    BY <1>1, <1>2 DEF RedundantStore, SingleSource, Flagged
  <1>5. \A j \in Redundant(i) : Operands(code[j]) = {v} /\ code'[j] = Deleted
    BY <1>2, <1>3, OperandsOf DEF SetsTo
  <1>6. \A b \in Blocks : b # l => \A j \in Body(b) : code'[j] = code[j]
    <2>1. ASSUME NEW b \in Blocks, NEW j \in Body(b), NEW c \in Blocks, j \in Body(c) PROVE b = c
      <3>1. b \in Nat /\ c \in Nat /\ j \in Nat /\ b < j /\ c < j
        BY <1>3, <2>1, Shape DEF Typed, Body
      <3>2. ~(b < c) /\ ~(c < b)
        BY <2>1, <3>1 DEF Body
      <3>. QED
        BY <3>1, <3>2
    <2>. QED
      BY <1>2, <1>3, <2>1
  <1>7. ASSUME NEW b \in Blocks, b # l
        PROVE  Exposed(b)' = Exposed(b) /\ Kept(b)' = Kept(b)
    <2>1. \A j \in Body(b) : code'[j] = code[j]
      BY <1>6, <1>7
    <2>2. Exposed(b)' = Exposed(b)
      BY <1>3, <2>1 DEF Exposed
    <2>3. Referred(b)' = Referred(b)
      BY <1>3, <2>1 DEF Referred
    <2>4. UNION {Clobbered(code'[j]) : j \in Body(b)} = UNION {Clobbered(code[j]) : j \in Body(b)}
      BY <2>1
    <2>. QED
      BY <1>3, <2>2, <2>3, <2>4 DEF Kept
  <1>8. Exposed(l)' \subseteq Exposed(l) \cup {v}
    <2>1. ASSUME NEW r \in Exposed(l)', r # v PROVE r \in Exposed(l)
      <3>1. PICK j \in Body(l) : /\ r \in Used(code'[j]) \ Paired(code'[j])
                                 /\ \A m \in Body(l) : m < j => r \notin Operands(code'[m])
        <4>1. Body(l)' = Body(l)
          BY <1>3
        <4>. QED
          BY <2>1, <4>1 DEF Exposed
      <3>2. code'[j] = code[j]
        <4>1. r \in Operands(code'[j])
          BY <3>1 DEF Operands
        <4>2. code'[j] # Deleted
          BY <4>1, DeletedIs
        <4>. QED
          BY <1>2, <1>3, <4>2
      <3>3. \A m \in Body(l) : m < j => r \notin Operands(code[m])
        BY <1>2, <1>3, <1>5, <2>1, <3>1
      <3>. QED
        BY <2>1, <3>1, <3>2, <3>3 DEF Exposed
    <2>. QED
      BY <2>1
  <1>9. ASSUME NEW b \in Blocks, b # l, l \in Leads(b) PROVE v \in Kept(b)
    <2>1. l \in Targets(b)
      BY <1>4, <1>9 DEF Leads
    <2>2. PICK j \in Body(b) : code[j].to = l
      BY <2>1 DEF Targets
    <2>3. j = i
      BY <1>3, <1>4, <2>2 DEF LinkedTo
    <2>4. v \in Operands(code[i])
      BY <1>2 DEF Operands, Used, ReadsV
    <2>. QED
      BY <2>2, <2>3, <2>4 DEF Kept, Referred
  <1>10. ASSUME NEW b \in Followed, b \notin again' PROVE Quiet(b)'
    <2>1. b \in Blocks /\ b # l /\ Quiet(b)
      BY <1>1, <1>10 DEF Calm, Followed
    <2>2. ASSUME NEW s \in Leads(b) PROVE Entry(s)' \subseteq Kept(b)'
      <3>1. s \in Blocks /\ Entry(s) \subseteq Kept(b) /\ Kept(b)' = Kept(b)
        BY <1>3, <1>7, <2>1, <2>2 DEF Quiet
      <3>2. CASE s # l
        BY <1>3, <1>7, <3>1, <3>2 DEF Entry
      <3>3. CASE s = l
        <4>1. Entry(s) = Exposed(l) /\ Entry(s)' = Exposed(l)' /\ v \in Kept(b)
          <5>1. ~AtEpilog(l) /\ AtEpilog(l)' = AtEpilog(l)
            BY <1>3, <1>4, <3>1, <3>3 DEF AtEpilog
          <5>. QED
            BY <1>9, <2>1, <2>2, <3>3, <5>1 DEF Entry
        <4>. QED
          BY <1>8, <3>1, <4>1
      <3>. QED
        BY <3>2, <3>3
    <2>. QED
      BY <1>3, <2>1, <2>2 DEF Quiet
  <1>. QED
    BY <1>1, <1>3, <1>10 DEF Calm, Flagged


(***************************************************************************)
(* check_block_again: which edges a pass has met, and what it left of them.*)
(***************************************************************************)
LEMMA EndsFrom ==
  ASSUME Typed, NEW i \in Nat, i >= 1
  PROVE  /\ From(i, Ends) \in Nat
         /\ \A j \in Ends : j \in Nat /\ (j < From(i, Ends) => j < i)
         /\ Blocks \subseteq Ends /\ \A j \in Nodes : code[j].op \in ToLabel => j \in Ends
         /\ From(i, Ends) >= i \/ From(i, Ends) = End
         /\ \A j \in Nodes : j \in Nat /\ j >= 1 /\ j < End
         /\ End \in Nat
  <1>1. /\ Ends \subseteq Nodes /\ Nodes = 1 .. Len(code) /\ Len(code) \in Nat /\ End = Len(code) + 1
    BY Shape, NodeIs DEF Typed
  <1>2. /\ From(i, Ends) \in 1 .. End
        /\ \A j \in Ends : j >= i => From(i, Ends) =< j
        /\ From(i, Ends) >= i \/ From(i, Ends) = End
    BY <1>1, Onward
  <1>3. From(i, Ends) \in Nat
    BY <1>1, <1>2
  <1>4. ASSUME NEW j \in Ends PROVE j \in Nat /\ (j < From(i, Ends) => j < i)
    <2>1. j \in Nat
      BY <1>1
    <2>. QED
      BY <1>2, <1>3, <2>1
  <1>5. Blocks \subseteq Ends /\ \A j \in Nodes : code[j].op \in ToLabel => j \in Ends
    BY DEF Ends
  <1>6. \A j \in Nodes : j \in Nat /\ j >= 1 /\ j < End
    BY <1>1
  <1>. QED
    BY <1>1, <1>2, <1>3, <1>4, <1>5, <1>6

LEMMA CheckStart ==
  ASSUME Typed, UNCHANGED code, node' = From(1, Ends), block' = None
  PROVE  Checking'
  <1>1. /\ \A j \in Ends : ~(j < node') /\ j >= node'
        /\ Blocks \subseteq Ends /\ \A j \in Nodes : code[j].op \in ToLabel => j \in Ends
    <2>1. /\ From(1, Ends) \in Nat
          /\ \A j \in Ends : j \in Nat /\ j < From(1, Ends) => j < 1
          /\ \A j \in Ends : j \in Nat /\ j >= 1
      BY EndsFrom, NodeIs
    <2>. QED
      BY <2>1, EndsFrom
  <1>2. Blocks' = Blocks /\ \A b : Body(b)' = Body(b) /\ NextLabel(b)' = NextLabel(b) /\ RunsInto(code, b)' = RunsInto(code, b)
    BY SameCode DEF Body, NextLabel, After
  <1>3. \A b, s : ~Seen(b, s)'
    <2>1. \A b : NextLabel(b) \subseteq Blocks /\ Body(b) \subseteq Nodes
      BY DEF NextLabel, After, Body
    <2>. QED
      BY <1>1, <1>2, <2>1 DEF Seen
  <1>. QED
    BY <1>1, <1>2, <1>3 DEF Checking

\* The node of the pass ends an edge that leads from the block of the node.
LEMMA EdgeMet ==
  ASSUME Typed, Looping, Flagged, Checking, phase = "check", node # End, NEW i, i = node,
         NEW b \in Followed, NEW s \in Leads(b),
         \/ i \in Body(b) /\ code[i].op \in ToLabel /\ code[i].to = s
         \/ s \in NextLabel(b) /\ RunsInto(code, s) /\ s = i
  PROVE  Leading = b /\ Target = s
  <1>1. /\ i \in Nodes /\ i \in Nat /\ Blocks \subseteq Nodes /\ Nodes \subseteq Nat \ {0}
        /\ b \in Blocks /\ b \in Nat /\ b # None
    BY NodeIs, Shape DEF Typed, Followed, None
  <1>2. b < i /\ \A h \in Blocks : b < h => i =< h
    <2>1. CASE i \in Body(b)
      BY <1>1, <2>1 DEF Body
    <2>2. CASE s \in NextLabel(b) /\ s = i
      BY <1>1, <2>2 DEF NextLabel, After
    <2>. QED
      BY <2>1, <2>2
  <1>3. block \in Blocks \cup {None}
    BY DEF Typed
  <1>4. block # None
    BY <1>1, <1>2 DEF Checking
  <1>5. block = b
    <2>1. block \in Blocks /\ block \in Nat /\ block < i /\ b =< block
      BY <1>1, <1>2, <1>3, <1>4 DEF Checking
    <2>2. ~(b < block)
      BY <1>1, <1>2, <2>1
    <2>. QED
      BY <1>1, <2>1, <2>2
  <1>6. CASE i \in Body(b) /\ code[i].op \in ToLabel /\ code[i].to = s
    <2>1. node \notin Blocks
      BY <1>1, <1>6 DEF Body
    <2>. QED
      BY <1>5, <1>6, <2>1 DEF Leading, Target
  <1>7. CASE s \in NextLabel(b) /\ RunsInto(code, s) /\ s = i
    <2>1. node \in Blocks /\ RunsInto(code, node)
      BY <1>7 DEF NextLabel, After
    <2>2. node \in falls
      BY <2>1 DEF Flagged
    <2>. QED
      BY <1>5, <1>7, <2>1, <2>2 DEF Leading, Target
  <1>. QED
    BY <1>6, <1>7

LEMMA KeptAgree ==
  ASSUME Typed, Noted, Waiting, NEW b \in Followed, NEW s \in Leads(b), ~(s \in again /\ Grows(b, s))
  PROVE  Agree(b, s)
  <1>1. b \in Blocks /\ s \in Blocks /\ ~AtEpilog(b)
    BY LiveTypes DEF Followed
  <1>2. CASE s \notin again
    BY <1>2 DEF Waiting
  <1>3. CASE ~Grows(b, s)
    <2>1. ASSUME NEW r \in Settled(s), r \notin Kept(b) PROVE r \in Settled(b)
      <3>1. r \in reglive[s]
        BY <1>1, <2>1 DEF Settled, Noted
      <3>2. r \in Reg
        BY <1>1, <3>1, LiveTypes
      <3>3. r \notin regmask[b]
        BY <1>3, <3>1 DEF Grows, Missing
      <3>4. r \notin Referred(b)
        BY <2>1 DEF Kept
      <3>. QED
        BY <1>1, <3>2, <3>3, <3>4 DEF Settled, Noted
    <2>. QED
      BY <2>1 DEF Agree
  <1>. QED
    BY <1>2, <1>3

LEMMA VisitStep ==
  ASSUME Typed, Looping, Noted, Waiting, Flagged, Checking, VisitUpdates \/ VisitKeeps
  PROVE  Noted' /\ Waiting' /\ Flagged' /\ Checking'
  <1>. PICK i : i = node
    OBVIOUS
  <1>1. /\ phase = "check" /\ i # End /\ UNCHANGED code
        /\ block' = IF i \in Blocks THEN i ELSE block
        /\ node' = From(i + 1, Ends)
    BY DEF VisitUpdates, VisitKeeps, Visit
  <1>2. /\ i \in Nat /\ i >= 1 /\ i + 1 \in Nat /\ i + 1 >= 1 /\ i \in Nodes /\ i \in Ends
    BY <1>1, NodeIs DEF Looping
  <1>3. /\ Blocks' = Blocks /\ Followed' = Followed /\ \A b : Kept(b)' = Kept(b) /\ Leads(b)' = Leads(b)
        /\ \A b : RunsInto(code, b)' = RunsInto(code, b)
        /\ \A b : Body(b)' = Body(b) /\ NextLabel(b)' = NextLabel(b)
        /\ \A b : Exposed(b)' = Exposed(b) /\ Referred(b)' = Referred(b) /\ AtEpilog(b)' = AtEpilog(b)
    BY <1>1, SameCode DEF Body, NextLabel, After
  <1>4. Noted' /\ Waiting' /\ Flagged'
    <2>1. CASE VisitUpdates
      <3>1. Leading \in Blocks /\ Target \in Blocks /\ UpdateBlock(Leading, Target)
        BY <2>1 DEF VisitUpdates, Updates, Leading, Target, Typed
      <3>2. Grown
        BY <3>1, UpdateBlockGrown
      <3>3. falls' = falls
        BY <3>1 DEF UpdateBlock
      <3>. QED
        BY <1>1, <1>3, <3>2, <3>3, GrownKeeps DEF Flagged
    <2>2. CASE VisitKeeps
      <3>1. UNCHANGED liveVars
        BY <2>2 DEF VisitKeeps
      <3>2. \A b : Settled(b)' = Settled(b)
        BY <1>3, <3>1 DEF Settled, liveVars
      <3>. QED
        BY <1>3, <3>1, <3>2 DEF Noted, Waiting, Agree, Flagged, liveVars
    <2>. QED
      BY <2>1, <2>2
  <1>5. /\ node' \in Nat /\ i < node' /\ Blocks \subseteq Ends /\ Blocks \subseteq Nodes
        /\ \A j \in Ends : j \in Nat /\ (j < node' => j < i \/ j = i)
        /\ \A j \in Nodes : code[j].op \in ToLabel => j \in Ends
    <2>1. /\ node' \in Nat /\ i < End /\ End \in Nat /\ (node' >= i + 1 \/ node' = End)
          /\ \A j \in Ends : j \in Nat /\ (j < node' => j < i + 1)
      BY <1>1, <1>2, EndsFrom
    <2>. QED
      BY <1>2, <2>1, EndsFrom, NodeIs
  <1>6. IF block' = None THEN \A h \in Blocks : h >= node'
        ELSE block' < node' /\ \A h \in Blocks : h < node' => h =< block'
    <2>1. \A h \in Blocks : h \in Nat /\ (h < node' => h < i \/ h = i)
      BY <1>5
    <2>2. CASE i \in Blocks
      <3>1. block' = i /\ i # None
        BY <1>1, <1>2, <2>2 DEF None
      <3>2. \A h \in Blocks : h < node' => h =< i
        BY <1>2, <2>1
      <3>. QED
        BY <1>5, <3>1, <3>2
    <2>3. CASE i \notin Blocks /\ block = None
      <3>1. \A h \in Blocks : ~(h < i) /\ h # i
        BY <1>2, <2>1, <2>3 DEF Checking
      <3>2. \A h \in Blocks : h >= node'
        BY <1>5, <2>1, <3>1
      <3>. QED
        BY <1>1, <2>3, <3>2
    <2>4. CASE i \notin Blocks /\ block # None
      <3>1. block' = block /\ block \in Nat /\ block < i /\ \A h \in Blocks : h < i => h =< block
        <4>1. block \in Blocks
          BY <2>4 DEF Typed
        <4>. QED
          BY <1>1, <2>1, <2>4, <4>1 DEF Checking
      <3>2. \A h \in Blocks : h < node' => h =< block
        BY <2>1, <2>4, <3>1
      <3>3. block < node'
        BY <1>2, <1>5, <3>1
      <3>. QED
        BY <2>4, <3>1, <3>2, <3>3
    <2>. QED
      BY <2>2, <2>3, <2>4
  <1>7. ASSUME ~todo', NEW b \in Followed, NEW s \in Leads(b), Seen(b, s)' PROVE Agree(b, s)'
    <2>1. VisitKeeps /\ ~todo /\ UNCHANGED liveVars /\ ~Updates
      BY <1>7 DEF VisitUpdates, VisitKeeps, Visit
    <2>2. Agree(b, s)' = Agree(b, s)
      BY <1>3, <2>1 DEF Agree, Settled, liveVars
    <2>3. \/ Seen(b, s)
          \/ i \in Body(b) /\ code[i].op \in ToLabel /\ code[i].to = s
          \/ s \in NextLabel(b) /\ RunsInto(code, s) /\ s = i
      <3>1. CASE \E j \in Body(b) : code[j].op \in ToLabel /\ code[j].to = s /\ j < node'
        <4>1. PICK j \in Body(b) : code[j].op \in ToLabel /\ code[j].to = s /\ j < node'
          BY <3>1
        <4>2. j < i \/ j = i
          BY <1>5, <4>1 DEF Body
        <4>. QED
          BY <4>1, <4>2 DEF Seen
      <3>2. CASE s \in NextLabel(b) /\ RunsInto(code, s) /\ s < node'
        <4>1. s \in Ends
          BY <1>5, <3>2 DEF NextLabel, After
        <4>. QED
          BY <1>5, <3>2, <4>1 DEF Seen
      <3>. QED
        BY <1>1, <1>3, <1>7, <3>1, <3>2 DEF Seen
    <2>4. ASSUME \/ i \in Body(b) /\ code[i].op \in ToLabel /\ code[i].to = s
                 \/ s \in NextLabel(b) /\ RunsInto(code, s) /\ s = i
          PROVE  Agree(b, s)
      <3>1. Leading = b /\ Target = s
        BY <1>1, <2>4, EdgeMet
      <3>2. b # None /\ s # None
        <4>1. b \in Blocks /\ s \in Blocks
          BY LiveTypes DEF Followed
        <4>. QED
          BY <4>1, Shape DEF Typed, None
      <3>3. ~(s \in again /\ Grows(b, s))
        BY <2>1, <3>1, <3>2 DEF Updates
      <3>. QED
        BY <3>3, KeptAgree
    <2>. QED
      BY <2>1, <2>2, <2>3, <2>4 DEF Checking
  <1>. QED
    BY <1>3, <1>4, <1>6, <1>7 DEF Checking

\* When nothing is left to look at, all blocks agree.
LEMMA AllAgree ==
  ASSUME Typed, Waiting, Checking, again = {} \/ (node = End /\ ~todo)
  PROVE  \A b \in Followed : \A s \in Leads(b) : Agree(b, s)
  <1>1. CASE again = {}
    BY <1>1 DEF Waiting
  <1>2. CASE node = End /\ ~todo
    <2>1. \A j \in Nodes : j < End
      BY EndsFrom
    <2>2. ASSUME NEW b \in Followed, NEW s \in Leads(b) PROVE Seen(b, s)
      <3>1. CASE s \in Targets(b)
        <4>1. PICK j \in Body(b) : code[j].op \in ToLabel /\ code[j].to = s
          BY <3>1 DEF Targets
        <4>. QED
          BY <1>2, <2>1, <4>1 DEF Seen, Body
      <3>2. CASE s \in NextLabel(b) /\ RunsInto(code, s)
        BY <1>2, <2>1, <3>2 DEF Seen, NextLabel, After, Blocks
      <3>. QED
        BY <2>2, <3>1, <3>2 DEF Leads
    <2>. QED
      BY <1>2, <2>2 DEF Checking
  <1>. QED
    BY <1>1, <1>2


-----------------------------------------------------------------------------
(***************************************************************************)
(* The passes, one after another.                                          *)
(***************************************************************************)
LEMMA LiveStart == Init => LiveInv
  BY DEF Init, LiveInv, Blank, NoValues, Unknown, Generating

LEMMA FlaggedRunsInto == ASSUME WellFormed(code), NEW i \in Nodes, FallsInto(code, i) PROVE RunsInto(code, i)
  <1>1. code[i].op = "label" /\ i \in Nat
    BY Shape DEF FallsInto
  <1>2. PICK j \in 1 .. i - 1 : /\ code[j].op \notin Passed \cup Leaves
                                /\ \A h \in j + 1 .. i - 1 : code[h].op \in Passed
    BY DEF FallsInto
  <1>3. CASE j = i - 1
    BY <1>1, <1>2, <1>3 DEF RunsInto
  <1>4. CASE j # i - 1
    <2>1. i - 1 \in j + 1 .. i - 1
      BY <1>1, <1>4
    <2>2. code[i - 1].op \in Passed
      BY <1>2, <2>1
    <2>. QED
      BY <1>1, <2>1, <2>2 DEF RunsInto, Passed, Leaves
  <1>. QED
    BY <1>3, <1>4

LEMMA SameSource == ASSUME [Next]_vars PROVE UNCHANGED source /\ HeadsKnown' = HeadsKnown
  <1>1. UNCHANGED source
    BY DEF Next, Passes, SetupBlocks, FollowBlock, Heading, SimplifyNode, StartStores, DropStores, KeepStores,
       EndStores, EndFollow, VisitUpdates, VisitKeeps, Visit, CheckAgain, EndOptimize,
       Emit, EmitBegin, EmitGet, EmitRefused, EmitAct, EmitUnget, EmitFinish, Done, KeepAll, vars
  <1>. QED
    BY <1>1 DEF HeadsKnown

LEMMA LivePasses ==
  ASSUME Typed, Looping, HeadsKnown, LiveInv, Passes
  PROVE  LiveInv'
  <1>1. CASE SetupBlocks
    <2>1. /\ phase = "setup" /\ phase' = "follow" /\ node' = From(1, Followed) /\ Setup
          /\ UNCHANGED <<code, source, values, always, again, falls>>
      BY <1>1 DEF SetupBlocks, Setup, valueVars
    <2>2. /\ Followed' = Followed /\ Blocks' = Blocks /\ \A b : Leads(b)' = Leads(b) /\ RunsInto(code, b)' = RunsInto(code, b)
          /\ \A b : Referred(b)' = Referred(b) /\ Kept(b)' = Kept(b) /\ Exposed(b)' = Exposed(b) /\ AtEpilog(b)' = AtEpilog(b)
      BY <2>1, SameCode
    <2>3. Noted' /\ \A s \in Followed : regmask'[s] = Reg \ Referred(s)
      BY <2>1, SetupNotes
    <2>4. \A s \in Followed : ~(s < node')
      <3>1. \A s \in Followed : s \in Nat /\ s >= 1 /\ (s < node' <=> s < 1)
        BY <2>1, FollowingFrom, NodeIs, Shape DEF Typed
      <3>. QED
        BY <3>1
    <2>5. ~always => Calm'
      <3>1. \A b \in Followed : Quiet(b)' = Quiet(b)
        BY <2>2 DEF Quiet, Entry
      <3>. QED
        BY <2>1, <2>2, <3>1 DEF LiveInv, Calm
    <2>6. Following'
      BY <2>1, <2>2, <2>3, <2>4, <2>5 DEF Following, Calm
    <2>7. IF always' THEN Blank' /\ code' = source' ELSE Flagged'
      BY <2>1, <2>2 DEF LiveInv, Blank, Flagged
    <2>. QED
      BY <2>1, <2>3, <2>6, <2>7 DEF LiveInv, Generating
  <1>2. CASE FollowBlock
    <2>1. phase = "follow" /\ phase' = "follow" /\ UNCHANGED <<code, source, values, always, falls>>
      BY <1>2 DEF FollowBlock, valueVars, Follow, liveVars
    <2>2. Noted' /\ Following'
      BY <1>2, <2>1, FollowingStep DEF LiveInv
    <2>3. IF always' THEN Blank' /\ code' = source' ELSE Flagged'
      BY <2>1, SameCode DEF LiveInv, Blank, Flagged
    <2>. QED
      BY <2>1, <2>2, <2>3 DEF LiveInv, Generating
  <1>3. CASE Heading
    <2>1. /\ phase = "follow" /\ node = End /\ always /\ MarkHeads /\ phase' = "simplify" /\ node' = 1
          /\ UNCHANGED <<code, values>> /\ Noted /\ Following /\ Blank /\ code = source
      BY <1>3 DEF Heading, LiveInv, valueVars
    <2>2. /\ Followed' = Followed /\ Blocks' = Blocks /\ \A b : Leads(b)' = Leads(b) /\ RunsInto(code, b)' = RunsInto(code, b)
          /\ \A b : Kept(b)' = Kept(b) /\ Exposed(b)' = Exposed(b) /\ AtEpilog(b)' = AtEpilog(b)
      BY <2>1, SameCode
    <2>3. \A b \in Followed : b < node
      BY <2>1, FollowingFrom, Shape DEF Typed
    <2>4. Grown
      BY <2>1, MarkHeadsGrown
    <2>5. Waiting
      BY <2>1, <2>3 DEF Following, Waiting
    <2>6. Noted' /\ Waiting'
      BY <2>1, <2>4, <2>5, GrownKeeps
    <2>7. Calm'
      <3>1. \A b \in Followed : Quiet(b)' = Quiet(b)
        BY <2>2 DEF Quiet, Entry
      <3>. QED
        BY <2>1, <2>2, <2>3, <2>4, <3>1 DEF Calm, Following, Grown
    <2>8. Flagged'
      <3>1. Blocks \subseteq DOMAIN source /\ Blocks \subseteq Nodes
        BY <2>1, Shape DEF Typed, Nodes, Blocks
      <3>2. \A b \in Blocks : FallsInto(code, b) <=> RunsInto(code, b)
        BY <2>1, <3>1, FlaggedRunsInto DEF HeadsKnown, Typed
      <3>. QED
        BY <2>1, <2>2, <3>2 DEF MarkHeads, Flagged
    <2>9. Knowing'
      BY <2>1 DEF Blank, Knowing
    <2>. QED
      BY <2>1, <2>6, <2>7, <2>8, <2>9 DEF LiveInv, Generating
  <1>4. CASE SimplifyNode
    <2>1. phase = "simplify" /\ phase' = "simplify"
      BY <1>4 DEF SimplifyNode
    <2>2. Noted' /\ Waiting' /\ Calm' /\ Flagged' /\ Knowing'
      BY <1>4, <2>1, SimplifyStep, KnowingStep DEF LiveInv
    <2>. QED
      BY <2>1, <2>2 DEF LiveInv, Generating
  <1>5. CASE DropStores
    <2>1. phase = "stores" /\ phase' = "stores" /\ todo' = TRUE
      BY <1>5 DEF DropStores
    <2>2. Calm' /\ Flagged'
      BY <1>5, <2>1, StoresStep DEF LiveInv
    <2>. QED
      BY <2>1, <2>2 DEF LiveInv, Generating
  <1>6. ASSUME UNCHANGED <<code, liveVars>>
        PROVE  Noted' = Noted /\ Waiting' = Waiting /\ Calm' = Calm /\ Flagged' = Flagged
    <2>1. /\ Followed' = Followed /\ Blocks' = Blocks /\ \A b : Leads(b)' = Leads(b) /\ RunsInto(code, b)' = RunsInto(code, b)
          /\ \A b : Referred(b)' = Referred(b) /\ Kept(b)' = Kept(b) /\ Exposed(b)' = Exposed(b) /\ AtEpilog(b)' = AtEpilog(b)
      BY <1>6, SameCode
    <2>2. \A b : Settled(b)' = Settled(b) /\ Entry(b)' = Entry(b)
      BY <1>6, <2>1 DEF Settled, Entry, liveVars
    <2>3. Noted' = Noted
      BY <1>6, <2>1 DEF Noted, liveVars
    <2>4. Waiting' = Waiting
      BY <1>6, <2>1, <2>2 DEF Waiting, Agree, liveVars
    <2>5. Calm' = Calm
      BY <1>6, <2>1, <2>2 DEF Calm, Quiet, liveVars
    <2>6. Flagged' = Flagged
      BY <1>6, <2>1 DEF Flagged, liveVars
    <2>. QED
      BY <2>3, <2>4, <2>5, <2>6
  <1>7. CASE StartStores \/ KeepStores
    <2>1. /\ UNCHANGED <<code, liveVars, todo>> /\ phase \in {"simplify", "stores"} /\ phase' = "stores"
      BY <1>7 DEF StartStores, KeepStores
    <2>. QED
      BY <2>1, <1>6 DEF LiveInv, Generating
  <1>8. CASE EndStores
    <2>1. /\ UNCHANGED <<code, liveVars>> /\ phase = "stores" /\ always' = FALSE /\ todo' = FALSE /\ block' = None
          /\ IF todo THEN phase' = "setup" /\ node' = 1 ELSE phase' = "check" /\ node' = From(1, Ends)
      BY <1>8 DEF EndStores
    <2>2. ~todo => Checking'
      BY <2>1, CheckStart
    <2>. QED
      BY <2>1, <2>2, <1>6 DEF LiveInv, Generating
  <1>9. CASE EndFollow
    <2>1. /\ UNCHANGED <<code, liveVars>> /\ phase = "follow" /\ node = End /\ ~always /\ block' = None
          /\ phase' = "check" /\ node' = From(1, Ends)
      BY <1>9 DEF EndFollow
    <2>2. \A b \in Followed : b < node
      BY <2>1, FollowingFrom, Shape DEF Typed
    <2>3. Waiting
      BY <2>1, <2>2 DEF Following, Waiting, LiveInv
    <2>4. Checking'
      BY <2>1, CheckStart
    <2>. QED
      BY <2>1, <2>3, <2>4, <1>6 DEF LiveInv, Generating
  <1>10. CASE VisitUpdates \/ VisitKeeps
    <2>1. phase = "check" /\ phase' = "check"
      BY <1>10 DEF VisitUpdates, VisitKeeps, Visit
    <2>2. Noted' /\ Waiting' /\ Flagged' /\ Checking'
      BY <1>10, <2>1, VisitStep DEF LiveInv
    <2>. QED
      BY <2>1, <2>2 DEF LiveInv, Generating
  <1>11. CASE CheckAgain
    <2>1. /\ UNCHANGED <<code, liveVars>> /\ phase = "check" /\ phase' = "check" /\ block' = None
          /\ node' = From(1, Ends)
      BY <1>11 DEF CheckAgain
    <2>2. Checking'
      BY <2>1, CheckStart
    <2>. QED
      BY <2>1, <2>2, <1>6 DEF LiveInv, Generating
  <1>12. CASE EndOptimize
    <2>1. /\ UNCHANGED <<code, liveVars>> /\ phase = "check" /\ phase' = "emit" /\ needed' = Needed
          /\ again = {} \/ (node = End /\ ~todo)
      BY <1>12 DEF EndOptimize
    <2>2. (\A b \in Blocks : \A r \in Reg : <<b, r>> \in Needed => r \in reglive[b]) /\ Accounted(Needed)
      BY <2>1, AllAgree, LiveFinally DEF LiveInv
    <2>3. AllLive'
      BY <2>1, <2>2, SameCode DEF AllLive, NeededIn, liveVars
    <2>4. Needed' = Needed
      BY <2>1 DEF Needed, Earlier, NeededAt, NextNodes, AtEpilog, Nodes
    <2>5. Noted' /\ Accounted(needed)'
      <3>1. UNCHANGED <<code, reglive, regmask>> /\ Noted
        BY <1>12, <2>1 DEF liveVars, LiveInv
      <3>. PICK need : need = Needed
        OBVIOUS
      <3>2. Noted' /\ Accounted(need)'
        BY <2>2, <3>1, SameAccounted
      <3>. QED
        BY <2>1, <3>2
    <2>. QED
      BY <2>1, <2>3, <2>4, <2>5 DEF LiveInv, Generating
  <1>. QED
    BY <1>1, <1>2, <1>3, <1>4, <1>5, <1>7, <1>8, <1>9, <1>10, <1>11, <1>12 DEF Passes

LEMMA LiveEmit ==
  ASSUME LiveInv, Emit
  PROVE  LiveInv'
  <1>1. phase = "emit" /\ Generating' /\ UNCHANGED <<code, reglive, regmask, needed>>
    BY DEF Emit, EmitBegin, EmitGet, EmitRefused, EmitAct, EmitUnget, EmitFinish, Done, Emitting, KeepAll,
           liveVars, Generating
  <1>2. Needed' = Needed /\ Blocks' = Blocks
    BY <1>1 DEF Needed, Earlier, NeededAt, NextNodes, AtEpilog, Nodes, Blocks
  <1>3. AllLive'
    BY <1>1, <1>2 DEF LiveInv, AllLive, NeededIn, Generating
  <1>4. Noted' /\ Accounted(needed)'
    <2>. PICK need : need = needed
      OBVIOUS
    <2>1. Noted' /\ Accounted(need)'
      BY <1>1, SameAccounted DEF LiveInv, Generating
    <2>. QED
      BY <1>1, <2>1
  <1>. QED
    BY <1>1, <1>2, <1>3, <1>4 DEF LiveInv, Generating

LEMMA LiveStutter ==
  ASSUME LiveInv, UNCHANGED vars
  PROVE  LiveInv'
  <1>1. UNCHANGED <<code, source, reglive, regmask, again, falls, values, phase, node, always, todo, block, needed>>
    BY DEF vars, liveVars, valueVars, passVars
  <1>2. /\ Followed' = Followed /\ Blocks' = Blocks /\ Nodes' = Nodes
        /\ \A b : Leads(b)' = Leads(b) /\ RunsInto(code, b)' = RunsInto(code, b)
        /\ \A b : Referred(b)' = Referred(b) /\ Kept(b)' = Kept(b) /\ Exposed(b)' = Exposed(b) /\ AtEpilog(b)' = AtEpilog(b)
    BY <1>1, SameCode
  <1>3. \A b : Settled(b)' = Settled(b) /\ Entry(b)' = Entry(b)
    BY <1>1, <1>2 DEF Settled, Entry
  <1>4. /\ Noted' = Noted /\ Following' = Following /\ Waiting' = Waiting /\ Calm' = Calm
        /\ Flagged' = Flagged /\ Blank' = Blank
    BY <1>1, <1>2, <1>3 DEF Noted, Following, Waiting, Agree, Calm, Quiet, Flagged, Blank
  <1>5. Knowing' = Knowing
    BY <1>1, <1>2 DEF Knowing, MetBefore, Behind
  <1>6. Checking' = Checking
    BY <1>1, <1>2, <1>3 DEF Checking, Seen, Agree, Body, NextLabel, After
  <1>7. Needed' = Needed
    BY <1>1 DEF Needed, Earlier, NeededAt, NextNodes, AtEpilog, Nodes
  <1>8. Accounted(needed)' = Accounted(needed)
    <2>. PICK need : need = needed
      OBVIOUS
    <2>. QED
      BY <1>1, SameAccounted
  <1>. QED
    BY <1>1, <1>2, <1>4, <1>5, <1>6, <1>7, <1>8 DEF LiveInv, AllLive, NeededIn, Generating

LEMMA AlwaysLive == Spec => [](HeadsKnown => LiveInv)
  <1>1. Typed /\ Looping /\ (HeadsKnown => LiveInv) /\ [Next]_vars => (HeadsKnown => LiveInv)'
    BY LivePasses, LiveEmit, LiveStutter, SameSource DEF Next
  <1>. QED
    BY LiveStart, <1>1, AlwaysTyped, PTL DEF Spec

(***************************************************************************)
(* When code is generated, each block knows the registers that are needed  *)
(* where it starts, for every program in which each label that is run into *)
(* is flagged, and every set of registers: blocks agree with those they    *)
(* lead to when the updates end.                                           *)
(***************************************************************************)
THEOREM OptimizeLive == Spec => []LiveKept
  <1>1. (HeadsKnown => LiveInv) => LiveKept
    BY DEF LiveInv, AllLive, LiveKept
  <1>. QED
    BY <1>1, AlwaysLive, PTL

-----------------------------------------------------------------------------
(***************************************************************************)
(* The nodes of a function.                                                *)
(***************************************************************************)
LEMMA AskingIn ==
  ASSUME Typed, NEW i \in Nodes, code[i].ask # <<>>
  PROVE  InFunction(i) /\ i \notin Blocks
  <1>1. Nodes = 1 .. Len(code) /\ Len(code) \in Nat /\ Blocks \subseteq Nodes
    BY Shape DEF Typed
  <1>2. PICK b \in 1 .. i - 1 : /\ code[b].op \in Heads \ {"epilog"}
                              /\ \A h \in b + 1 .. i : code[h].op \notin Heads
    BY <1>1 DEF Typed, WellFormed
  <1>3. b \in Nodes /\ b \in Blocks /\ b \in Followed /\ b < i
    BY <1>1, <1>2 DEF Blocks, Followed, AtEpilog
  <1>4. \A h \in Blocks : b < h => i < h
    <2>1. ASSUME NEW h \in Blocks, b < h, ~(i < h) PROVE FALSE
      <3>1. h \in b + 1 .. i
        BY <1>1, <1>2, <2>1
      <3>. QED
        BY <1>2, <2>1, <3>1 DEF Blocks
    <2>. QED
      BY <2>1
  <1>5. i \in Body(b)
    BY <1>3, <1>4 DEF Body
  <1>6. i \notin Blocks
    <2>1. ~(i < i)
      BY <1>1
    <2>. QED
      BY <1>3, <1>4, <2>1
  <1>. QED
    BY <1>3, <1>5, <1>6 DEF InFunction

LEMMA BodyFacts ==
  ASSUME Typed, NEW b \in Followed, NEW i \in Body(b)
  PROVE  /\ i \in Nodes /\ i \in Nat /\ b \in Nat /\ b \in Blocks /\ b < i /\ i \notin Blocks
         /\ code[i].op \notin Heads /\ ~AtEpilog(b) /\ ~AtEpilog(i)
         /\ \A h \in Blocks : h \in Nat /\ (b < h => i < h)
         /\ i + 1 \in Nodes /\ i + 1 \notin Blocks => i + 1 \in Body(b) /\ code[i].op \notin Jumps
  <1>1. Blocks \subseteq Nodes /\ Nodes \subseteq Nat \ {0}
    BY Shape DEF Typed
  <1>2. i \in Nodes /\ i \in Nat /\ b \in Nat /\ b \in Blocks /\ b < i /\ ~AtEpilog(b)
        /\ \A h \in Blocks : h \in Nat /\ (b < h => i < h)
    BY <1>1 DEF Body, Followed
  <1>3. i \notin Blocks
    <2>1. ~(i < i)
      BY <1>2
    <2>. QED
      BY <1>2, <2>1
  <1>4. code[i].op \notin Heads /\ ~AtEpilog(i)
    BY <1>2, <1>3 DEF Blocks, AtEpilog, Heads
  <1>5. ASSUME i + 1 \in Nodes, i + 1 \notin Blocks PROVE i + 1 \in Body(b) /\ code[i].op \notin Jumps
    <2>1. \A h \in Blocks : b < h => i + 1 < h
      <3>1. \A h \in Blocks : h # i + 1
        BY <1>5
      <3>. QED
        BY <1>2, <3>1
    <2>2. code[i].op \in Jumps => i + 1 \in Blocks
      BY <1>2, Shape DEF Typed, Split
    <2>. QED
      BY <1>2, <1>5, <2>1, <2>2 DEF Body
  <1>. QED
    BY <1>2, <1>3, <1>4, <1>5

\* A node that no block opens is in the block of the node before it.
LEMMA BodyGoesOn ==
  ASSUME Typed, NEW i \in Nodes, i + 1 \in Nodes, i + 1 \notin Blocks
  PROVE  /\ InFunction(i + 1) <=> InFunction(i) \/ i \in Followed
         /\ i \in Followed => i + 1 \in Body(i)
  <1>1. Blocks \subseteq Nodes /\ Nodes \subseteq Nat \ {0}
    BY Shape DEF Typed
  <1>2. InFunction(i) => InFunction(i + 1)
    BY BodyFacts DEF InFunction
  <1>3. ASSUME i \in Followed PROVE i + 1 \in Body(i)
    <2>1. \A h \in Blocks : i < h => i + 1 < h
      <3>1. \A h \in Blocks : h # i + 1 /\ h \in Nat
        BY <1>1
      <3>. QED
        BY <1>1, <3>1
    <2>2. i + 1 > i
      BY <1>1
    <2>. QED
      BY <2>1, <2>2 DEF Body
  <1>4. ASSUME InFunction(i + 1) PROVE InFunction(i) \/ i \in Followed
    <2>1. PICK b \in Followed : i + 1 \in Body(b)
      BY <1>4 DEF InFunction
    <2>2. b \in Nat /\ b < i + 1 /\ \A h \in Blocks : h \in Nat /\ (b < h => i + 1 < h)
      BY <2>1, BodyFacts
    <2>3. b = i \/ b < i
      BY <1>1, <2>2
    <2>4. \A h \in Blocks : b < h => i < h
      BY <1>1, <2>2
    <2>. QED
      BY <2>1, <2>3, <2>4 DEF InFunction, Body
  <1>. QED
    BY <1>2, <1>3, <1>4 DEF InFunction

(***************************************************************************)
(* What is needed behind a node is needed there, or hidden by it.          *)
(***************************************************************************)
LEMMA NeedsBehind ==
  ASSUME Typed, needed = Needed, NEW i \in Nodes, NEW r \in NeededBehind(i)
  PROVE  r \in Hides(code[i]) \/ r \in NeededIn(i)
  <1>1. PICK j \in NextNodes(i) : r \in NeededIn(j)
    BY DEF NeededBehind
  <1>2. r \in Reg /\ <<j, r>> \in Needed /\ ~AtEpilog(i)
    BY <1>1 DEF NeededIn, NextNodes, AtEpilog, ToLabel, Conditional
  <1>3. r \notin Hides(code[i]) => <<i, r>> \in Earlier(Needed)
    BY <1>1, <1>2 DEF Earlier, NeededAt
  <1>. QED
    BY <1>2, <1>3, NeededIsComplete DEF NeededIn

LEMMA NeedsThere ==
  ASSUME Typed, needed = Needed, NEW i \in Nodes, NEW r \in NeededIn(i), ~AtEpilog(i)
  PROVE  r \in Reads(code[i]) \/ r \in NeededBehind(i)
  <1>1. <<i, r>> \in Earlier(Needed)
    BY NeededIsComplete DEF NeededIn
  <1>2. NeededAt(i, r, Needed) /\ r \in Reg
    BY <1>1 DEF Earlier
  <1>. QED
    BY <1>2 DEF NeededAt, NeededBehind, NeededIn

\* Behind a jump, or where a block ends, what is needed is needed where a block starts.
LEMMA NextInList ==
  ASSUME Typed, NEW i \in Nodes, i + 1 \in Nodes, i + 1 \notin Blocks, i \notin Blocks \/ i \in Followed
  PROVE  i + 1 \in NextNodes(i)
  <1>1. code[i].op \in Jumps => i + 1 \in Blocks
    BY Shape DEF Typed, Split
  <1>2. code[i].op \notin {"jmpi", "jmpr"}
    BY <1>1 DEF Jumps, ToLabel
  <1>3. code[i].op # "epilog" /\ ~AtEpilog(i + 1)
    BY DEF Blocks, Heads, AtEpilog, Followed
  <1>. QED
    BY <1>2, <1>3 DEF NextNodes

(***************************************************************************)
(* jit_update finds the registers that have to keep their value behind a   *)
(* node that changes them.                                                 *)
(***************************************************************************)
LEMMA FoundRead ==
  ASSUME Typed, NEW i \in Nodes, NEW r, NEW j \in Rest(i),
         r \in (Used(code[j]) \cup Arguments(code[j])) \ Paired(code[j]),
         \A m \in Rest(i) : m < j /\ r \in Meets(code[m]) => r \in Used(code[m]) \ Paired(code[m])
  PROVE  r \in ReadFirst(i)
  <1>. DEFINE T == {m \in Rest(i) : r \in Meets(code[m]) \/ m = j}
  <1>1. T \subseteq Nat /\ T # {} /\ Rest(i) \subseteq Nat
    BY Shape DEF Typed, Rest
  <1>2. PICK m \in T : \A l \in T : m =< l
    BY <1>1, Smallest
  <1>3. m \in Rest(i) /\ m =< j /\ m \in Nat /\ j \in Nat
    BY <1>1, <1>2
  <1>4. \A l \in Rest(i) : l < m => r \notin Meets(code[l])
    BY <1>1, <1>2
  <1>5. r \notin MetTo(i, m)
    BY <1>4 DEF MetTo
  <1>6. r \in (Used(code[m]) \cup Arguments(code[m])) \ Paired(code[m])
    <2>1. m = j \/ m < j
      BY <1>3
    <2>. QED
      BY <1>2, <1>3, <2>1
  <1>. QED
    BY <1>3, <1>5, <1>6 DEF ReadFirst
\* What jit_update walks over: the rest of the block.
LEMMA RestIs ==
  ASSUME Typed, NEW b \in Followed, NEW i \in Body(b)
  PROVE  /\ \A j : j \in Rest(i) <=> j \in Body(b) /\ i < j
         /\ \A j : j \in Rest(i) => j >= i + 1 /\ j \in Nodes /\ j \in Nat
         /\ \A h \in Blocks : i < h <=> b < h
  <1>1. /\ i \in Nat /\ b \in Nat /\ b < i /\ Nodes \subseteq Nat \ {0}
        /\ \A h \in Blocks : h \in Nat /\ (b < h => i < h)
    BY BodyFacts, Shape DEF Typed
  <1>2. \A h \in Blocks : i < h <=> b < h
    BY <1>1
  <1>3. \A j \in Nodes : j \in Nat /\ (i < j => b < j)
    BY <1>1
  <1>4. \A j : j \in Rest(i) <=> j \in Body(b) /\ i < j
    BY <1>2, <1>3 DEF Rest, Body
  <1>5. \A j : j \in Rest(i) => j >= i + 1 /\ j \in Nodes /\ j \in Nat
    BY <1>1, <1>3 DEF Rest
  <1>. QED
    BY <1>2, <1>4, <1>5

LEMMA NotHidden ==
  ASSUME NEW n, NEW r, r \in Meets(n), r \notin Hides(n)
  PROVE  r \in Used(n) \ Paired(n)
  BY DEF Meets, Hides, Operands

LEMMA FoundNeeded ==
  ASSUME Typed, Noted, Accounted(needed), NEW b \in Followed, NEW i \in Body(b), i + 1 \in Body(b),
         NEW r \in NeededIn(i + 1), NEW unknown, r \in unknown
  PROVE  r \in UpdateLive(i, unknown)
  <1>1. /\ i \in Nodes /\ i \in Nat /\ \A j : j \in Rest(i) <=> j \in Body(b) /\ i < j
        /\ \A j : j \in Rest(i) => j >= i + 1 /\ j \in Nat
        /\ \A h \in Blocks : i < h <=> b < h
    BY RestIs, BodyFacts
  <1>2. Body(b) \subseteq Nat
    BY BodyFacts
  <1>3. \A j \in Body(b) : j >= i + 1 => j \in Rest(i)
    BY <1>1, <1>2
  <1>4. ReadFrom(b, i + 1, r) \/ PassedOn(b, i + 1, r)
    <2>1. r \in Reg /\ <<i + 1, r>> \in needed /\ i + 1 \in Nodes /\ Within(b, i + 1)
      BY BodyFacts DEF NeededIn, Within
    <2>. QED
      BY <2>1 DEF Accounted
  <1>5. ASSUME r \in ReadFirst(i) PROVE r \in UpdateLive(i, unknown)
    BY <1>5 DEF UpdateLive
  <1>6. ASSUME ReadFrom(b, i + 1, r) PROVE r \in ReadFirst(i)
    <2>1. PICK j \in Body(b) : /\ j >= i + 1 /\ r \in Reads(code[j])
                               /\ \A m \in Body(b) : i + 1 =< m /\ m < j => r \notin Hides(code[m])
      BY <1>6 DEF ReadFrom
    <2>2. j \in Rest(i) /\ r \in Used(code[j]) \ Paired(code[j])
      BY <1>3, <2>1 DEF Reads
    <2>3. ASSUME NEW m \in Rest(i), m < j, r \in Meets(code[m]) PROVE r \in Used(code[m]) \ Paired(code[m])
      <3>1. m \in Body(b) /\ m >= i + 1 /\ m \in Nat
        BY <1>1
      <3>2. i + 1 =< m
        BY <1>1, <3>1
      <3>3. r \notin Hides(code[m])
        BY <2>1, <2>3, <3>1, <3>2
      <3>. QED
        BY <2>3, <3>3, NotHidden
    <2>. QED
      BY <1>1, <2>2, <2>3, FoundRead
  <1>7. ASSUME PassedOn(b, i + 1, r), r \notin ReadFirst(i) PROVE r \in UpdateLive(i, unknown)
    <2>1. \A m \in Rest(i) : r \notin Hides(code[m])
      BY <1>1, <1>7 DEF PassedOn
    <2>2. \A m \in Rest(i) : r \notin Meets(code[m])
      <3>1. ASSUME NEW m \in Rest(i), r \in Meets(code[m]) PROVE FALSE
        <4>1. \A l \in Rest(i) : r \in Meets(code[l]) => r \in Used(code[l]) \ Paired(code[l])
          BY <2>1, NotHidden
        <4>2. r \in ReadFirst(i)
          BY <1>1, <3>1, <4>1, FoundRead
        <4>. QED
          BY <1>7, <4>2
      <3>. QED
        BY <3>1
    <2>3. \A k : r \notin MetTo(i, k)
      BY <2>2 DEF MetTo
    <2>4. PICK s \in Leads(b) : r \in Settled(s)
      BY <1>7 DEF PassedOn
    <2>5. s \in Blocks /\ r \in reglive[s]
      <3>1. s \in Blocks /\ b \in Blocks
        BY LiveTypes, BodyFacts
      <3>. QED
        BY <2>4, <3>1 DEF Settled, Noted
    <2>6. CASE s \in Targets(b)
      <3>1. PICK j \in Body(b) : code[j].op \in ToLabel /\ code[j].to = s
        BY <2>6 DEF Targets
      <3>2. j \in Rest(i)
        <4>1. j \in Nat /\ j \in Nodes /\ j + 1 \in Blocks /\ b < j
          BY <3>1, BodyFacts, Shape DEF Typed, Split, Jumps
        <4>2. j + 1 \in Nat /\ i + 1 \in Nat /\ b < j + 1
          BY <1>1, <4>1, BodyFacts
        <4>3. i + 1 < j + 1
          BY <4>1, <4>2, BodyFacts
        <4>. QED
          BY <1>1, <3>1, <4>1, <4>3
      <3>3. r \in LiveAtTarget(i)
        BY <2>3, <2>5, <3>1, <3>2 DEF LiveAtTarget
      <3>. QED
        BY <3>3 DEF UpdateLive
    <2>7. CASE s \in NextLabel(b)
      <3>1. JumpAway(i) = {}
        <4>1. "jmpr" \notin Ops(b)
          BY <2>4, Indirect
        <4>. QED
          BY <1>1, <4>1 DEF JumpAway, Ops
      <3>2. s \in NextHead(i) /\ code[s].op = "label"
        BY <1>1, <2>7 DEF NextLabel, After, NextHead
      <3>3. r \in LiveBehind(i, unknown)
        BY <2>3, <3>1, <3>2 DEF LiveBehind
      <3>. QED
        BY <3>3 DEF UpdateLive
    <2>. QED
      BY <2>4, <2>6, <2>7 DEF Leads
  <1>. QED
    BY <1>4, <1>5, <1>6, <1>7

LEMMA CallIs ==
  ASSUME Typed, NEW c \in Nodes, NEW r \in Arguments(code[c])
  PROVE  code[c].op \in Calls /\ code[c].op \in Jumps /\ Paired(code[c]) = {} /\ Changed(code[c]) = {}
  BY DEF Arguments, Calls, Jumps, Paired, Changed, ChangesU, ChangesV

LEMMA FoundArgument ==
  ASSUME Typed, NEW b \in Followed, NEW i \in Body(b), i + 1 \in Body(b),
         NEW r, ArgumentDue(i + 1, r), NEW unknown, r \in unknown
  PROVE  r \in UpdateLive(i, unknown)
  <1>1. /\ i \in Nodes /\ i \in Nat /\ i + 1 \in Nodes /\ \A j : j \in Rest(i) <=> j \in Body(b) /\ i < j
        /\ \A j : j \in Rest(i) => j >= i + 1 /\ j \in Nat /\ j \in Nodes
        /\ Nodes \subseteq Nat \ {0} /\ Blocks \subseteq Nodes
    BY RestIs, BodyFacts, Shape DEF Typed
  <1>2. PICK c \in Nodes : /\ c >= i + 1 /\ r \in Arguments(code[c])
                           /\ \A h \in Blocks : i + 1 =< h => c < h
                           /\ \A m \in Nodes : i + 1 =< m /\ m < c => r \notin Changed(code[m]) \cup Paired(code[m])
    BY DEF ArgumentDue
  <1>3. c \in Rest(i)
    <2>1. \A h \in Blocks : h \in Nat /\ (i < h => i + 1 =< h)
      BY <1>1
    <2>2. i < c
      BY <1>1, <1>2
    <2>. QED
      BY <1>2, <2>1, <2>2 DEF Rest
  <1>4. ASSUME NEW m \in Rest(i), m < c, r \in Meets(code[m]) PROVE r \in Used(code[m]) \ Paired(code[m])
    <2>1. m \in Nodes /\ m \in Nat /\ i + 1 =< m /\ c \in Nat
      BY <1>1
    <2>2. code[m].op \notin Calls
      <3>1. code[m].op \in Calls => m + 1 \in Blocks
        BY <2>1, Shape DEF Typed, Split, Jumps
      <3>2. m + 1 \in Blocks => c < m + 1
        BY <1>1, <1>2, <2>1
      <3>. QED
        BY <1>4, <2>1, <3>1, <3>2
    <2>3. r \notin Hides(code[m])
      BY <1>2, <1>4, <2>1, <2>2 DEF Hides, Clobbered
    <2>. QED
      BY <1>4, <2>3, NotHidden
  <1>5. r \in ReadFirst(i)
    BY <1>1, <1>2, <1>3, <1>4, FoundRead, CallIs
  <1>. QED
    BY <1>5 DEF UpdateLive
(***************************************************************************)
(* A register that has to keep its value behind a node has to keep it      *)
(* there, or is set or read by it.                                         *)
(***************************************************************************)
LEMMA DueBefore ==
  ASSUME Typed, needed = Needed, NEW b \in Followed, NEW i \in Body(b), i + 1 \in Body(b), NEW r \in Due(i + 1)
  PROVE  \/ r \in Changed(code[i]) \cup Paired(code[i])
         \/ r \in Sets(code[i]) /\ r \in Used(code[i])
         \/ r \in Due(i)
  <1>1. /\ i \in Nodes /\ i \in Nat /\ i \notin Blocks /\ i + 1 \in Nodes /\ i + 1 \notin Blocks
        /\ Nodes \subseteq Nat \ {0} /\ Blocks \subseteq Nodes
    BY BodyFacts, Shape DEF Typed
  <1>2. Clobbered(code[i]) = {}
    <2>1. code[i].op \notin Jumps
      BY <1>1, BodyFacts
    <2>. QED
      BY <2>1 DEF Clobbered, Jumps
  <1>3. CASE r \in NeededIn(i + 1)
    <2>1. r \in NeededBehind(i)
      BY <1>1, <1>3, NextInList DEF NeededBehind
    <2>. QED
      BY <1>1, <1>2, <2>1, NeedsBehind DEF Hides, Due
  <1>4. CASE ArgumentDue(i + 1, r) /\ r \in Reg /\ r \notin Changed(code[i]) \cup Paired(code[i])
    <2>1. PICK j \in Nodes : j < i + 1 /\ r \in Sets(code[j]) /\ \A h \in Blocks : h < i + 1 => h < j
      BY <1>4 DEF ArgumentDue, SetInBlock
    <2>2. PICK c \in Nodes : /\ c >= i + 1 /\ r \in Arguments(code[c])
                             /\ \A h \in Blocks : i + 1 =< h => c < h
                             /\ \A m \in Nodes : i + 1 =< m /\ m < c => r \notin Changed(code[m]) \cup Paired(code[m])
      BY <1>4 DEF ArgumentDue
    <2>3. CASE j = i
      BY <1>2, <1>4, <2>1, <2>3 DEF Sets, Used, ReadsV
    <2>4. CASE j # i
      <3>1. j < i
        BY <1>1, <2>1, <2>4
      <3>2. \A h \in Blocks : h < i => h < j
        <4>1. \A h \in Blocks : h < i => h < i + 1
          BY <1>1
        <4>. QED
          BY <2>1, <4>1
      <3>3. SetInBlock(i, r)
        BY <2>1, <3>1, <3>2 DEF SetInBlock
      <3>4. c >= i
        BY <1>1, <2>2
      <3>5. \A h \in Blocks : i =< h => c < h
        <4>1. \A h \in Blocks : i =< h => i + 1 =< h
          BY <1>1
        <4>. QED
          BY <2>2, <4>1
      <3>6. \A m \in Nodes : i =< m /\ m < c => r \notin Changed(code[m]) \cup Paired(code[m])
        <4>1. \A m \in Nodes : i =< m => m = i \/ i + 1 =< m
          BY <1>1
        <4>. QED
          BY <1>4, <2>2, <4>1
      <3>. QED
        BY <1>4, <2>2, <3>3, <3>4, <3>5, <3>6 DEF ArgumentDue, Due
    <2>. QED
      BY <2>3, <2>4
  <1>. QED
    BY <1>3, <1>4 DEF Due

LEMMA DueStaysLive ==
  ASSUME Typed, Noted, Accounted(needed), needed = Needed,
         NEW b \in Followed, NEW i \in Body(b), i + 1 \in Body(b), Due(i) \subseteq live
  PROVE  Due(i + 1) \subseteq LiveAfter(i)
  <1>1. code[i].op \notin Heads \cup Calls
    <2>1. i + 1 \in Nodes /\ i + 1 \notin Blocks
      BY BodyFacts
    <2>. QED
      BY <2>1, BodyFacts DEF Jumps
  <1>. DEFINE unknown == mask \cup Changed(code[i])
  <1>2. LiveAfter(i) = (live \ Changed(code[i])) \cup Used(code[i]) \cup Paired(code[i]) \cup UpdateLive(i, unknown)
    BY <1>1 DEF LiveAfter
  <1>3. ASSUME NEW r \in Due(i + 1) PROVE r \in LiveAfter(i)
    <2>1. CASE r \in Changed(code[i])
      <3>1. r \in unknown
        BY <2>1
      <3>2. r \in UpdateLive(i, unknown)
        BY <3>1, FoundNeeded, FoundArgument DEF Due
      <3>. QED
        BY <1>2, <3>2
    <2>2. CASE r \notin Changed(code[i])
      <3>1. r \in Paired(code[i]) \/ r \in Used(code[i]) \/ r \in Due(i)
        BY <2>2, DueBefore
      <3>. QED
        BY <1>2, <2>2, <3>1
    <2>. QED
      BY <2>1, <2>2
  <1>. QED
    BY <1>3

\* Where a function's block starts nothing was set, and it knows what is needed.
LEMMA DueAtHead ==
  ASSUME Typed, AllLive, Generating, needed = Needed, NEW b \in Followed, b + 1 \in Body(b)
  PROVE  Due(b + 1) \subseteq reglive[b]
  <1>1. /\ b \in Blocks /\ b \in Nodes /\ b \in Nat /\ b + 1 \in Nodes /\ b + 1 \notin Blocks
        /\ Nodes \subseteq Nat \ {0}
    BY BodyFacts, Shape DEF Typed
  <1>2. ASSUME NEW r \in NeededIn(b + 1) PROVE r \in reglive[b]
    <2>1. r \in NeededBehind(b)
      BY <1>1, <1>2, NextInList DEF NeededBehind
    <2>2. r \in NeededIn(b)
      BY <1>1, <2>1, NeedsBehind, HeadsRead
    <2>. QED
      BY <1>1, <2>2 DEF AllLive
  <1>3. \A r : ~SetInBlock(b + 1, r)
    <2>1. ASSUME NEW j \in Nodes, j < b + 1, \A h \in Blocks : h < b + 1 => h < j PROVE FALSE
      <3>1. b < j
        BY <1>1, <2>1
      <3>. QED
        BY <1>1, <2>1, <3>1
    <2>. QED
      BY <2>1 DEF SetInBlock
  <1>. QED
    BY <1>2, <1>3 DEF Due, ArgumentDue

\* At a jump to a label what has to keep its value is needed at the label.
LEMMA DueAtJump ==
  ASSUME Typed, AllLive, Generating, needed = Needed, NEW i \in Nodes, code[i].op = "jmpi"
  PROVE  Due(i) \subseteq reglive[code[i].to]
  <1>1. /\ Nodes \subseteq Nat \ {0} /\ code[i].to \in Blocks /\ i + 1 \in Blocks
    BY Shape DEF Typed, Split, ToLabel, Jumps
  <1>2. Reads(code[i]) = {} /\ Arguments(code[i]) = {} /\ ~AtEpilog(i) /\ NextNodes(i) = {code[i].to}
    BY DEF Reads, Used, ReadsU, ReadsV, ReadsW, Arguments, Calls, AtEpilog, NextNodes, ToLabel
  <1>3. NeededIn(i) \subseteq reglive[code[i].to]
    <2>1. NeededIn(i) \subseteq NeededBehind(i)
      BY <1>2, NeedsThere
    <2>2. NeededBehind(i) = NeededIn(code[i].to)
      BY <1>2 DEF NeededBehind
    <2>. QED
      BY <1>1, <2>1, <2>2 DEF AllLive
  <1>4. \A r : ~ArgumentDue(i, r)
    <2>1. ASSUME NEW c \in Nodes, c >= i, \A h \in Blocks : i =< h => c < h PROVE c = i
      <3>1. c < i + 1
        BY <1>1, <2>1
      <3>. QED
        BY <1>1, <2>1, <3>1
    <2>. QED
      BY <1>2, <2>1 DEF ArgumentDue
  <1>. QED
    BY <1>3, <1>4 DEF Due
(***************************************************************************)
(* Generating code, step by step.                                          *)
(***************************************************************************)
LEMMA SameDue ==
  ASSUME UNCHANGED <<code, needed>>
  PROVE  \A i : /\ Due(i)' = Due(i) /\ InFunction(i)' = InFunction(i) /\ NeededBehind(i)' = NeededBehind(i)
                /\ \A r : Result(i, r)' = Result(i, r)
  <1>1. Nodes' = Nodes /\ Blocks' = Blocks /\ Followed' = Followed /\ \A b : Body(b)' = Body(b)
    BY SameCode DEF Body
  <1>2. \A i : NeededIn(i)' = NeededIn(i) /\ NextNodes(i)' = NextNodes(i)
    BY <1>1 DEF NeededIn, NextNodes, AtEpilog
  <1>3. \A i, r : SetInBlock(i, r)' = SetInBlock(i, r)
    BY <1>1 DEF SetInBlock, Sets, Changed, Clobbered
  <1>4. \A i, r : ArgumentDue(i, r)' = ArgumentDue(i, r)
    BY <1>1, <1>3 DEF ArgumentDue, Arguments, Changed, Paired
  <1>. QED
    BY <1>1, <1>2, <1>4 DEF Due, InFunction, NeededBehind, Result, Clobbered

LEMMA LoanBegin ==
  ASSUME Typed, LendInv, LiveInv, LoanInv, EmitBegin
  PROVE  LoanInv'
  <1>. PICK i : i = node
    OBVIOUS
  <1>1. /\ phase = "emit" /\ i # End /\ stage = "begin" /\ stage' = "within" /\ Begin(code[i])
        /\ UNCHANGED <<code, reglive, needed, phase, node>>
    BY DEF EmitBegin, Emitting, KeepAll, liveVars
  <1>2. lent = <<>> /\ UNCHANGED <<sav, lent, slot, holds>>
    BY <1>1 DEF LendInv, Begin
  <1>3. i \in Nodes /\ Generating /\ needed = Needed /\ AllLive
    BY <1>1, NodeIs DEF LiveInv, Generating
  <1>4. \A r : Intact(r)' = Intact(r)
    BY <1>2 DEF Intact
  <1>5. Due(i)' = Due(i) /\ InFunction(i)' = InFunction(i) /\ Blocks' = Blocks
    BY <1>1, SameDue, SameCode
  <1>6. ASSUME i \notin Blocks PROVE AtNode(i)'
    <2>1. AtNode(i)
      BY <1>1, <1>6 DEF LoanInv
    <2>2. ASSUME InFunction(i) PROVE Due(i) \subseteq live'
      <3>1. CASE code[i].op = "jmpi" /\ code[i].to # None
        <4>1. live' = reglive[code[i].to]
          BY <1>1, <3>1 DEF Begin
        <4>. QED
          BY <1>3, <3>1, <4>1, DueAtJump
      <3>2. CASE ~(code[i].op = "jmpi" /\ code[i].to # None)
        <4>1. live' = live
          BY <1>1, <3>2 DEF Begin
        <4>. QED
          BY <2>1, <2>2, <4>1 DEF AtNode
      <3>. QED
        BY <3>1, <3>2
    <2>3. ASSUME InFunction(i) PROVE \A r \in Due(i) : Intact(r)'
      BY <1>1, <1>4, <2>1, <2>3 DEF AtNode
    <2>4. ASSUME ~InFunction(i) PROVE \A r \in Reg : holds'[r] = "own"
      BY <1>2, <2>1, <2>4 DEF AtNode
    <2>. QED
      BY <1>1, <1>5, <2>2, <2>3, <2>4 DEF AtNode
  <1>. QED
    BY <1>1, <1>2, <1>5, <1>6 DEF LoanInv

LEMMA LoanGet ==
  ASSUME Typed, Looping, LendInv, LoanInv, EmitGet
  PROVE  LoanInv'
  <1>. PICK i : i = node
    OBVIOUS
  <1>1. /\ phase = "emit" /\ i # End /\ stage = "within" /\ UNCHANGED <<code, needed, phase, node, stage>>
        /\ Request \in Requests /\ Get(Request, Function(node)) /\ asked < Len(code[i].ask) /\ code[i].ask \in Seq(Requests)
    BY EmitFacts DEF EmitGet, Emitting, KeepAll, Served, Looping, Typed
  <1>2. PICK r \in Reg :
          /\ r \notin arg /\ Lend(r)
          /\ \/ r \notin live /\ UNCHANGED <<sav, slot>>
             \/ r \notin sav /\ Spill(r)
    BY <1>1, GetIs DEF Typed
  <1>3. holds' = [holds EXCEPT ![r] = "junk"] /\ UNCHANGED live
    BY <1>2, LendIs
  <1>4. code[i].ask # <<>> /\ asked \in Nat
    BY <1>1 DEF Typed
  <1>5. i \in Nodes /\ InFunction(i) /\ i \notin Blocks
    BY <1>1, <1>4, NodeIs, AskingIn
  <1>6. Due(i)' = Due(i) /\ InFunction(i)' = InFunction(i)
    BY <1>1, SameDue
  <1>7. Due(i) \subseteq live /\ \A q \in Due(i) : Intact(q)
    BY <1>1, <1>5 DEF LoanInv, AtNode
  <1>8. /\ Due(i) \subseteq Reg /\ r \notin sav /\ holds \in [Reg -> {"own", "junk"}]
        /\ slot \in [Reg -> {"none", "own", "junk"}]
    <2>1. Due(i) \subseteq Reg
      BY DEF Due, NeededIn
    <2>2. sav \subseteq arg
      BY <1>1 DEF LendInv
    <2>. QED
      BY <1>2, <2>1, <2>2 DEF Typed
  <1>9. ASSUME NEW q \in Due(i) PROVE Intact(q)'
    <2>1. CASE q = r
      <3>1. Spill(r) /\ holds[r] = "own"
        BY <1>2, <1>7, <1>8, <2>1 DEF Intact
      <3>. QED
        BY <1>8, <2>1, <3>1 DEF Intact, Spill
    <2>2. CASE q # r
      <3>1. holds'[q] = holds[q] /\ slot'[q] = slot[q] /\ (q \in sav' <=> q \in sav)
        BY <1>2, <1>3, <1>8, <1>9, <2>2 DEF Spill
      <3>. QED
        BY <1>7, <1>9, <3>1 DEF Intact
    <2>. QED
      BY <2>1, <2>2
  <1>10. AtNode(i)'
    BY <1>1, <1>3, <1>5, <1>6, <1>7, <1>9 DEF AtNode
  <1>. QED
    BY <1>1, <1>4, <1>10 DEF LoanInv

LEMMA SetsIn ==
  ASSUME Typed, NEW i \in Nodes
  PROVE  Sets(code[i]) \cup Paired(code[i]) \subseteq Reg /\ Sets(code[i]) \subseteq Operands(code[i]) \cup Clobbered(code[i])
  <1>1. Operands(code[i]) \subseteq Reg /\ Clobbered(code[i]) \subseteq Reg
    BY Shape DEF Typed, Clobbered
  <1>2. code[i].op = "ldxai" => code[i].v \in Operands(code[i])
    BY DEF Operands, Used, ReadsV
  <1>. QED
    BY <1>1, <1>2 DEF Sets, Operands

LEMMA LoanAct ==
  ASSUME Typed, LendInv, LoanInv, EmitAct
  PROVE  LoanInv'
  <1>. PICK i : i = node
    OBVIOUS
  <1>1. /\ phase = "emit" /\ i # End /\ stage = "within" /\ stage' = "behind"
        /\ UNCHANGED <<code, needed, phase, node, live, sav, lent>>
        /\ holds' = [r \in Reg |-> IF r \in Sets(code[i]) \cup Paired(code[i]) THEN "own" ELSE holds[r]]
        /\ slot' = [r \in Reg |-> IF r \in Sets(code[i]) /\ r \in sav THEN "junk" ELSE slot[r]]
    BY DEF EmitAct, Act, Emitting, KeepAll
  <1>2. /\ i \in Nodes /\ sav \subseteq Lent /\ Lent \cap Operands(code[i]) = {} /\ Operands(code[i]) \subseteq Reg
        /\ (code[i].ask = <<>> => lent = <<>>) /\ Sets(code[i]) \subseteq Reg
    <2>1. i \in Nodes /\ Operands(code[i]) \subseteq Reg
      BY <1>1, EmitFacts DEF EmitAct
    <2>2. Sets(code[i]) \subseteq Reg
      BY <2>1, SetsIn
    <2>. QED
      BY <1>1, <2>1, <2>2 DEF LendInv, LoanInv
  <1>3. Due(i)' = Due(i) /\ InFunction(i)' = InFunction(i) /\ Blocks' = Blocks /\ \A r : Result(i, r)' = Result(i, r)
    BY <1>1, SameDue, SameCode
  <1>4. Due(i) \subseteq Reg
    BY DEF Due, NeededIn
  <1>5. ASSUME NEW r \in Sets(code[i]) \cup Paired(code[i]) PROVE Intact(r)' \/ Result(i, r)
    <2>1. r \in Reg /\ holds'[r] = "own"
      BY <1>1, <1>2, <1>5 DEF Operands
    <2>2. ASSUME r \in sav PROVE Result(i, r)
      <3>1. r \in Lent /\ r \notin Operands(code[i])
        BY <1>2, <2>2
      <3>2. r \in Clobbered(code[i])
        <4>1. r \in Sets(code[i])
          BY <1>5, <3>1 DEF Operands
        <4>. QED
          BY <1>2, <3>1, <4>1, SetsIn
      <3>3. lent # <<>>
        BY <3>1 DEF Lent
      <3>. QED
        BY <1>2, <3>2, <3>3 DEF Result
    <2>. QED
      BY <1>1, <2>1, <2>2 DEF Intact
  <1>6. ASSUME i \notin Blocks PROVE AtNode(i)'
    <2>1. AtNode(i)
      BY <1>1, <1>6 DEF LoanInv
    <2>2. ASSUME InFunction(i), NEW r \in Due(i) PROVE Intact(r)' \/ Result(i, r)
      <3>1. Intact(r) /\ r \in Reg
        BY <1>1, <1>4, <2>1, <2>2 DEF AtNode
      <3>2. CASE r \in Sets(code[i]) \cup Paired(code[i])
        BY <1>5, <3>2
      <3>3. CASE r \notin Sets(code[i]) \cup Paired(code[i])
        BY <1>1, <3>1, <3>3 DEF Intact
      <3>. QED
        BY <3>2, <3>3
    <2>3. ASSUME ~InFunction(i), NEW r \in Reg PROVE holds'[r] = "own"
      BY <1>1, <2>1, <2>3 DEF AtNode
    <2>4. \A r \in Sets(code[i])' \cup Paired(code[i])' : Intact(r)' \/ Result(i, r)'
      <3>1. Sets(code[i])' = Sets(code[i]) /\ Paired(code[i])' = Paired(code[i])
        BY <1>1 DEF Sets, Changed, Clobbered, Paired
      <3>. QED
        BY <1>3, <1>5, <3>1
    <2>5. InFunction(i) => Due(i) \subseteq live'
      BY <1>1, <2>1 DEF AtNode
    <2>. QED
      BY <1>1, <1>3, <2>2, <2>3, <2>4, <2>5 DEF AtNode
  <1>. QED
    BY <1>1, <1>2, <1>3, <1>6 DEF LoanInv

LEMMA LoanUnget ==
  ASSUME Typed, LoanInv, EmitUnget
  PROVE  LoanInv'
  <1>. PICK i : i = node
    OBVIOUS
  <1>. DEFINE h == Head(lent)
  <1>1. /\ phase = "emit" /\ i # End /\ stage = "behind" /\ UNCHANGED <<code, needed, phase, node, stage, live, slot>>
        /\ lent # <<>> /\ sav' = sav \ {h}
        /\ IF h \in sav THEN holds' = [holds EXCEPT ![h] = slot[h]] ELSE UNCHANGED holds
    BY DEF EmitUnget, Unget, Emitting, KeepAll
  <1>2. i \in Nodes /\ code[i].ask # <<>> /\ h \in Reg /\ holds \in [Reg -> {"own", "junk"}]
    BY <1>1, NodeIs, UngetIs DEF LoanInv, EmitUnget, Typed
  <1>3. InFunction(i) /\ i \notin Blocks
    BY <1>2, AskingIn
  <1>4. Due(i)' = Due(i) /\ InFunction(i)' = InFunction(i) /\ \A r : Result(i, r)' = Result(i, r)
    BY <1>1, SameDue
  <1>. HIDE DEF h
  <1>5. ASSUME NEW r \in Reg, Intact(r) PROVE Intact(r)'
    <2>1. CASE r = h /\ h \in sav
      BY <1>1, <1>2, <1>5, <2>1 DEF Intact
    <2>2. CASE r = h /\ h \notin sav
      BY <1>1, <1>5, <2>2 DEF Intact
    <2>3. CASE r # h
      <3>1. holds'[r] = holds[r] /\ slot'[r] = slot[r] /\ (r \in sav' <=> r \in sav)
        BY <1>1, <1>2, <2>3
      <3>. QED
        BY <1>5, <3>1 DEF Intact
    <2>. QED
      BY <2>1, <2>2, <2>3
  <1>6. /\ Due(i) \subseteq live /\ \A r \in Due(i) : Intact(r) \/ Result(i, r)
        /\ \A r \in Sets(code[i]) \cup Paired(code[i]) : Intact(r) \/ Result(i, r)
        /\ Due(i) \subseteq Reg /\ Sets(code[i]) \cup Paired(code[i]) \subseteq Reg
    <2>1. Due(i) \subseteq Reg
      BY DEF Due, NeededIn
    <2>2. Sets(code[i]) \cup Paired(code[i]) \subseteq Reg
      BY <1>2, SetsIn
    <2>. QED
      BY <1>1, <1>3, <2>1, <2>2 DEF LoanInv, AtNode
  <1>7. Sets(code[i])' = Sets(code[i]) /\ Paired(code[i])' = Paired(code[i])
    BY <1>1 DEF Sets, Changed, Clobbered, Paired
  <1>8. AtNode(i)'
    BY <1>1, <1>3, <1>4, <1>5, <1>6, <1>7 DEF AtNode
  <1>. QED
    BY <1>1, <1>2, <1>8 DEF LoanInv
LEMMA LoanFinish ==
  ASSUME Typed, LendInv, LiveInv, LoanInv, EmitFinish
  PROVE  LoanInv'
  <1>. PICK i : i = node
    OBVIOUS
  <1>1. /\ phase = "emit" /\ i # End /\ stage = "behind" /\ stage' = "begin" /\ node' = i + 1
        /\ UNCHANGED <<code, needed, phase, sav>> /\ lent = <<>> /\ live' = LiveAfter(i)
        /\ holds' = [r \in Reg |-> IF code[i].op \in Heads THEN "own" ELSE holds[r]]
    BY DEF EmitFinish, Finish, Emitting, KeepAll
  <1>2. i \in Nodes /\ i \in Nat /\ Nodes \subseteq Nat \ {0} /\ node' - 1 = i /\ i + 1 \in 1 .. End /\ Nodes = 1 .. Len(code)
    BY <1>1, NodeIs, Shape DEF Typed
  <1>3. /\ needed = Needed /\ AllLive /\ Generating /\ Noted /\ Accounted(needed)
        /\ sav = {} /\ sav' = {}
    BY <1>1 DEF LiveInv, Generating, LendInv, Lent
  <1>4. \A r : (Intact(r) <=> holds[r] = "own") /\ (Intact(r)' <=> holds'[r] = "own")
    BY <1>3 DEF Intact
  <1>5. /\ \A j : Due(j)' = Due(j) /\ InFunction(j)' = InFunction(j) /\ NeededBehind(j)' = NeededBehind(j)
        /\ \A j, r : Result(j, r)' = Result(j, r)
        /\ Blocks' = Blocks /\ End' = End
    BY <1>1, SameDue, SameCode
  <1>6. i \in Blocks => \A r \in Reg : holds'[r] = "own"
    BY <1>1 DEF Blocks
  <1>7. i \notin Blocks => AtNode(i) /\ \A r \in Reg : holds'[r] = holds[r]
    BY <1>1, <1>2 DEF LoanInv, Blocks
  <1>8. NeededBehind(i) \subseteq Reg /\ \A j : Due(j) \subseteq Reg
    BY DEF NeededBehind, Due, NeededIn
  <1>9. ASSUME NEW r \in NeededBehind(i) PROVE Result(i, r) \/ holds'[r] = "own"
    <2>1. CASE i \in Blocks
      BY <1>6, <1>8, <1>9, <2>1
    <2>2. CASE i \notin Blocks /\ InFunction(i)
      <3>1. r \in Sets(code[i]) \cup Paired(code[i]) \/ r \in Due(i)
        BY <1>2, <1>3, <1>9, NeedsBehind DEF Hides, Sets, Due
      <3>2. Intact(r) \/ Result(i, r)
        BY <1>1, <1>7, <2>2, <3>1 DEF AtNode
      <3>. QED
        BY <1>4, <1>7, <1>8, <1>9, <2>2, <3>2
    <2>3. CASE i \notin Blocks /\ ~InFunction(i)
      BY <1>7, <1>8, <1>9, <2>3 DEF AtNode
    <2>. QED
      BY <2>1, <2>2, <2>3
  <1>10. Arrived'
    <2>1. \A r \in NeededBehind(i)' : Result(i, r)' \/ holds'[r] = "own"
      BY <1>5, <1>9
    <2>. PICK n : n = node'
      OBVIOUS
    <2>2. n - 1 = i
      BY <1>2
    <2>. QED
      BY <2>1, <2>2 DEF Arrived
  <1>11. ASSUME i + 1 \in Nodes, i + 1 \notin Blocks PROVE AtNode(i + 1)'
    <2>1. /\ InFunction(i + 1) <=> InFunction(i) \/ i \in Followed
          /\ i \in Followed => i + 1 \in Body(i)
      BY <1>2, <1>11, BodyGoesOn
    <2>2. ASSUME i \in Followed
          PROVE  Due(i + 1) \subseteq live' /\ \A r \in Due(i + 1) : Intact(r)'
      <3>1. i \in Blocks /\ code[i].op \in Heads
        BY <2>2 DEF Followed, Blocks
      <3>2. live' = reglive[i]
        BY <1>1, <3>1 DEF LiveAfter, Heads, Calls
      <3>3. Due(i + 1) \subseteq reglive[i]
        BY <1>3, <2>1, <2>2, DueAtHead
      <3>. QED
        BY <1>4, <1>6, <1>8, <3>1, <3>2, <3>3
    <2>3. ASSUME InFunction(i)
          PROVE  Due(i + 1) \subseteq live' /\ \A r \in Due(i + 1) : Intact(r)'
      <3>1. PICK b \in Followed : i \in Body(b)
        BY <2>3 DEF InFunction
      <3>2. i \notin Blocks /\ i + 1 \in Body(b) /\ code[i].op \notin Jumps
        BY <1>11, <3>1, BodyFacts
      <3>3. /\ Due(i) \subseteq live /\ \A r \in Due(i) : Intact(r) \/ Result(i, r)
            /\ \A r \in Sets(code[i]) \cup Paired(code[i]) : Intact(r) \/ Result(i, r)
        BY <1>1, <1>7, <2>3, <3>2 DEF AtNode
      <3>4. Due(i + 1) \subseteq live'
        BY <1>1, <1>3, <3>1, <3>2, <3>3, DueStaysLive
      <3>5. \A r : ~Result(i, r)
        BY <3>2 DEF Result, Clobbered, Jumps
      <3>6. ASSUME NEW r \in Due(i + 1) PROVE holds[r] = "own"
        <4>1. r \in Due(i) \/ r \in Sets(code[i]) \cup Paired(code[i])
          BY <1>3, <3>1, <3>2, <3>6, DueBefore DEF Sets
        <4>. QED
          BY <1>4, <3>3, <3>5, <4>1
      <3>. QED
        BY <1>4, <1>7, <1>8, <3>2, <3>4, <3>6
    <2>4. ASSUME ~InFunction(i + 1), NEW r \in Reg PROVE holds'[r] = "own"
      <3>1. CASE i \in Blocks
        BY <1>6, <3>1, <2>4
      <3>2. CASE i \notin Blocks
        BY <1>7, <2>1, <2>4, <3>2 DEF AtNode
      <3>. QED
        BY <3>1, <3>2
    <2>5. InFunction(i + 1)' = InFunction(i + 1) /\ Due(i + 1)' = Due(i + 1)
      BY <1>5
    <2>6. InFunction(i + 1) => Due(i + 1) \subseteq live' /\ \A r \in Due(i + 1) : Intact(r)'
      BY <2>1, <2>2, <2>3
    <2>. QED
      BY <1>1, <2>4, <2>5, <2>6 DEF AtNode
  <1>12. node' # End' /\ node' \notin Blocks' => AtNode(node)'
    <2>. PICK n : n = node'
      OBVIOUS
    <2>1. n = i + 1
      BY <1>1
    <2>2. n # End => i + 1 \in Nodes
      BY <1>2, <2>1 DEF End
    <2>3. n # End /\ n \notin Blocks => AtNode(n)'
      BY <1>11, <2>1, <2>2
    <2>. QED
      BY <1>5, <2>3 DEF AtNode
  <1>. QED
    BY <1>1, <1>10, <1>12 DEF LoanInv

LEMMA LoanStart == Init => LoanInv
  BY DEF Init, LoanInv

LEMMA LoanPasses ==
  ASSUME Typed, Looping, LendInv, SaveInv, Passes
  PROVE  LoanInv'
  <1>1. ~Generating
    BY DEF Generating, Passes, SetupBlocks, FollowBlock, Heading, SimplifyNode, StartStores, DropStores, KeepStores,
       EndStores, EndFollow, VisitUpdates, VisitKeeps, Visit, CheckAgain, EndOptimize
  <1>2. phase' = "emit" => EndOptimize
    BY DEF Passes, SetupBlocks, FollowBlock, Heading, SimplifyNode, StartStores, DropStores, KeepStores,
       EndStores, EndFollow, VisitUpdates, VisitKeeps, Visit, CheckAgain
  <1>3. stage = "begin" /\ \A r \in Reg : holds[r] = "own"
    BY <1>1 DEF Looping, SaveInv
  <1>4. ASSUME EndOptimize PROVE LoanInv'
    <2>1. node' = 1 /\ stage' = "begin" /\ \A r \in Reg : holds'[r] = "own"
      BY <1>3, <1>4 DEF EndOptimize
    <2>2. UNCHANGED code
      BY <1>4 DEF EndOptimize
    <2>3. ~InFunction(1)'
      <3>1. \A b \in Followed : b \in Nat \ {0}
        BY NodeIs, Shape DEF Typed
      <3>2. ~InFunction(1)
        BY <3>1 DEF InFunction, Body
      <3>3. InFunction(1)' = InFunction(1)
        BY <2>2, SameCode DEF InFunction, Body
      <3>. QED
        BY <3>2, <3>3
    <2>4. AtNode(1)'
      BY <2>1, <2>3 DEF AtNode
    <2>5. Arrived'
      BY <2>1 DEF Arrived
    <2>6. AtNode(node)'
      <3>. PICK n : n = node'
        OBVIOUS
      <3>. QED
        BY <2>1, <2>4 DEF AtNode
    <2>. QED
      BY <2>1, <2>5, <2>6 DEF LoanInv
  <1>. QED
    BY <1>2, <1>4 DEF LoanInv

LEMMA LoanStutter ==
  ASSUME LoanInv, UNCHANGED vars
  PROVE  LoanInv'
  <1>1. UNCHANGED <<code, needed, phase, node, stage, live, lent, sav, slot, holds>>
    BY DEF vars, lendVars, passVars
  <1>2. /\ \A j : Due(j)' = Due(j) /\ InFunction(j)' = InFunction(j) /\ NeededBehind(j)' = NeededBehind(j)
        /\ \A j, r : Result(j, r)' = Result(j, r)
        /\ Blocks' = Blocks /\ End' = End
    BY <1>1, SameDue, SameCode
  <1>3. \A r : Intact(r)' = Intact(r)
    BY <1>1 DEF Intact
  <1>4. \A n : Sets(n)' = Sets(n) /\ Paired(n)' = Paired(n)
    BY DEF Sets, Changed, Clobbered, Paired
  <1>. PICK i : i = node
    OBVIOUS
  <1>5. Arrived' = Arrived
    BY <1>1, <1>2 DEF Arrived
  <1>6. AtNode(i)' = AtNode(i)
    BY <1>1, <1>2, <1>3, <1>4 DEF AtNode
  <1>. QED
    BY <1>1, <1>2, <1>5, <1>6 DEF LoanInv

LEMMA LoanStep ==
  Typed /\ Looping /\ LendInv /\ SaveInv /\ LiveInv /\ LoanInv /\ [Next]_vars => LoanInv'
  <1>. SUFFICES ASSUME Typed, Looping, LendInv, SaveInv, LiveInv, LoanInv, [Next]_vars PROVE LoanInv'
    OBVIOUS
  <1>1. CASE EmitRefused \/ Done
    BY <1>1 DEF EmitRefused, Done, LoanInv
  <1>2. CASE Passes
    BY <1>2, LoanPasses
  <1>3. CASE UNCHANGED vars
    BY <1>3, LoanStutter
  <1>. QED
    BY <1>1, <1>2, <1>3, LoanBegin, LoanGet, LoanAct, LoanUnget, LoanFinish DEF Next, Emit

LEMMA AlwaysLoan == Spec => [](HeadsKnown => LoanInv)
  <1>1. Typed /\ Looping /\ LendInv /\ SaveInv /\ (HeadsKnown => LiveInv) /\ (HeadsKnown => LoanInv) /\ [Next]_vars =>
          (HeadsKnown => LoanInv)'
    BY LoanStep, SameSource
  <1>. QED
    BY <1>1, LoanStart, AlwaysTyped, AlwaysLend, AlwaysLive, PTL DEF Spec

(***************************************************************************)
(* A register that is needed behind a node has its value there, whatever   *)
(* registers jit_get_reg lent to the nodes so far, and so has an argument  *)
(* of a call that the block of the call sets: for every program in which   *)
(* each label that is run into is flagged, and every set of registers.     *)
(***************************************************************************)
THEOREM LoansUnseen == Spec => []Undisturbed
  <1>1. Typed /\ Looping /\ LendInv /\ (HeadsKnown => LoanInv) => Undisturbed
    <2>. SUFFICES ASSUME Typed, LendInv, LoanInv, phase = "emit", stage = "begin" PROVE
            /\ node > 1 => \A r \in NeededBehind(node - 1) : Result(node - 1, r) \/ holds[r] = "own"
            /\ node # End => \A r \in Arguments(code[node]) : SetInBlock(node, r) => holds[r] = "own"
      BY DEF Undisturbed
    <2>1. Arrived
      BY DEF LoanInv
    <2>2. ASSUME node # End, NEW r \in Arguments(code[node]), SetInBlock(node, r)
          PROVE  holds[r] = "own"
      <3>. PICK i : i = node
        OBVIOUS
      <3>1. i \in Nodes /\ Nodes \subseteq Nat \ {0} /\ Blocks \subseteq Nodes
        BY <2>2, NodeIs, Shape DEF Typed
      <3>2. code[i].op \in Calls /\ r \in Reg
        BY <2>2, <3>1, Shape DEF Typed, Arguments, Instruction
      <3>3. i \notin Blocks
        BY <3>2 DEF Blocks, Heads, Calls
      <3>4. ArgumentDue(i, r)
        <4>1. i >= i /\ \A h \in Blocks : i =< h => i < h
          BY <3>1, <3>3
        <4>2. \A m \in Nodes : ~(i =< m /\ m < i)
          BY <3>1
        <4>. QED
          BY <2>2, <3>1, <4>1, <4>2 DEF ArgumentDue
      <3>5. AtNode(i) /\ sav = {}
        BY <2>2, <3>3 DEF LoanInv, LendInv, Lent
      <3>. QED
        BY <3>2, <3>4, <3>5 DEF AtNode, Due, Intact
    <2>. QED
      BY <2>1, <2>2 DEF Arrived
  <1>. QED
    BY <1>1, AlwaysTyped, AlwaysLend, AlwaysLoan, PTL

-----------------------------------------------------------------------------
(***************************************************************************)
(* The machine: what each instruction does to registers and memory.        *)
(***************************************************************************)
LEMMA PutIs ==
  ASSUME NEW m \in Machines, NEW r \in Reg, NEW x \in Word
  PROVE  /\ Put(m, r, x) \in Machines /\ Put(m, r, x).mem = m.mem
         /\ \A q \in Reg : Put(m, r, x).reg[q] = IF q = r THEN x ELSE m.reg[q]
         /\ m.reg[r] = x => Put(m, r, x) = m
  <1>1. m.reg \in [Reg -> Word] /\ m.mem \in [Word -> Word] /\ m = [reg |-> m.reg, mem |-> m.mem]
    BY DEF Machines
  <1>2. Put(m, r, x) = [reg |-> [m.reg EXCEPT ![r] = x], mem |-> m.mem]
    BY <1>1 DEF Put
  <1>3. m.reg[r] = x => [m.reg EXCEPT ![r] = x] = m.reg
    BY <1>1
  <1>. QED
    BY <1>1, <1>2, <1>3 DEF Machines

LEMMA StoreIs ==
  ASSUME NEW m \in Machines, NEW a \in Word, NEW x \in Word
  PROVE  /\ Store(m, a, x) \in Machines /\ Store(m, a, x).reg = m.reg
         /\ Store(m, a, x).mem[a] = x
  <1>1. m.reg \in [Reg -> Word] /\ m.mem \in [Word -> Word] /\ m = [reg |-> m.reg, mem |-> m.mem]
    BY DEF Machines
  <1>2. Store(m, a, x) = [reg |-> m.reg, mem |-> [m.mem EXCEPT ![a] = x]]
    BY <1>1 DEF Store
  <1>. QED
    BY <1>1, <1>2 DEF Machines

LEMMA SumIn == ASSUME NEW x \in Word, NEW y \in Word PROVE Sum(x, y) \in Word
  <1>1. PICK n \in Nat \ {0} : n = Cardinality(Word) /\ Word = 0 .. n - 1
    BY WordIs
  <1>2. \A z \in Nat : z % n \in 0 .. n - 1
    BY <1>1
  <1>3. x + y \in Nat
    BY WordIs
  <1>. QED
    BY <1>1, <1>2, <1>3 DEF Sum

LEMMA EffectIs ==
  ASSUME NEW n, NEW m
  PROVE  /\ n.op = "movi" => Effect(n, m) = Put(m, n.u, n.k)
         /\ n.op = "movr" => Effect(n, m) = Put(m, n.u, m.reg[n.v])
         /\ n.op = "ldxi" => Effect(n, m) = Put(m, n.u, m.mem[m.reg[n.v]])
         /\ n.op = "addr" => Effect(n, m) = Put(m, n.u, Sum(m.reg[n.v], m.reg[n.w]))
         /\ n.op = "boaddi" => Effect(n, m) = Put(m, n.v, Sum(m.reg[n.v], n.k))
         /\ n.op = "ldxai" =>
              Effect(n, m) = Put(Put(m, n.u, m.mem[m.reg[n.v]]), n.v, Sum(m.reg[n.v], n.k))
         /\ n.op = "movnr" => Effect(n, m) = IF m.reg[n.w] # 0 THEN Put(m, n.u, m.reg[n.v]) ELSE m
         /\ n.op = "stxi" => Effect(n, m) = Store(m, m.reg[n.v], m.reg[n.w])
         /\ n.op = "str" => Effect(n, m) = Store(m, m.reg[n.u], m.reg[n.v])
         /\ n.op \in Calls =>
              Effect(n, m) = [m EXCEPT !.reg = [r \in Reg |-> IF r \in Saved THEN @[r] ELSE 0]]
         /\ n.op \in Heads \cup {"gone", "casr", "jmpi", "jmpr", "beqi"} => Effect(n, m) = m
  BY DEF Effect, Calls, Heads

\* A sound instruction: one of a list, its operands registers.
Sound(n) == n \in Instruction /\ Operands(n) \subseteq Reg

LEMMA FieldsOf ==
  ASSUME NEW n, Sound(n)
  PROVE  /\ n.op \in Operations /\ n.k \in Word
         /\ n.op \in {"movi", "movr", "ldxi", "ldxai", "addr", "movnr", "str", "casr"} => n.u \in Reg
         /\ n.op \in {"movr", "ldxi", "ldxai", "stxi", "addr", "movnr", "str", "boaddi", "beqi"} => n.v \in Reg
         /\ n.op \in {"stxi", "addr", "movnr"} => n.w \in Reg
  BY DEF Sound, Instruction, Operands, Changed, Used, ChangesU, ChangesV, ReadsU, ReadsV, ReadsW

\* An instruction that changes one register, or one word of memory.
LEMMA Puts ==
  ASSUME NEW n, Sound(n), n.op \in {"movi", "movr", "ldxi", "addr", "boaddi"}, NEW m \in Machines
  PROVE  \E u \in Reg, x \in Word : Changed(n) = {u} /\ Effect(n, m) = Put(m, u, x)
  <1>1. \A r \in Reg : m.reg[r] \in Word /\ m.mem[m.reg[r]] \in Word
    BY DEF Machines
  <1>2. /\ n.op = "boaddi" => Changed(n) = {n.v} /\ n.v \in Reg
        /\ n.op # "boaddi" => Changed(n) = {n.u} /\ n.u \in Reg
        /\ n.k \in Word
    BY FieldsOf DEF Changed, ChangesU, ChangesV
  <1>3. CASE n.op = "movi"
    <2>1. Effect(n, m) = Put(m, n.u, n.k)
      BY <1>3, EffectIs
    <2>. QED
      BY <1>2, <1>3, <2>1
  <1>4. CASE n.op = "movr"
    <2>1. Effect(n, m) = Put(m, n.u, m.reg[n.v]) /\ m.reg[n.v] \in Word
      BY <1>1, <1>4, EffectIs, FieldsOf
    <2>. QED
      BY <1>2, <1>4, <2>1
  <1>5. CASE n.op = "ldxi"
    <2>1. Effect(n, m) = Put(m, n.u, m.mem[m.reg[n.v]]) /\ m.mem[m.reg[n.v]] \in Word
      BY <1>1, <1>5, EffectIs, FieldsOf
    <2>. QED
      BY <1>2, <1>5, <2>1
  <1>6. CASE n.op = "addr"
    <2>1. Effect(n, m) = Put(m, n.u, Sum(m.reg[n.v], m.reg[n.w])) /\ Sum(m.reg[n.v], m.reg[n.w]) \in Word
      BY <1>1, <1>6, EffectIs, FieldsOf, SumIn
    <2>. QED
      BY <1>2, <1>6, <2>1
  <1>7. CASE n.op = "boaddi"
    <2>1. Effect(n, m) = Put(m, n.v, Sum(m.reg[n.v], n.k)) /\ Sum(m.reg[n.v], n.k) \in Word
      BY <1>1, <1>2, <1>7, EffectIs, FieldsOf, SumIn
    <2>. QED
      BY <1>2, <1>7, <2>1
  <1>. QED
    BY <1>3, <1>4, <1>5, <1>6, <1>7

LEMMA Stores ==
  ASSUME NEW n, Sound(n), n.op \in {"stxi", "str"}, NEW m \in Machines
  PROVE  \E a, x \in Word : Effect(n, m) = Store(m, a, x)
  <1>1. \A r \in Reg : m.reg[r] \in Word
    BY DEF Machines
  <1>2. CASE n.op = "stxi"
    <2>1. Effect(n, m) = Store(m, m.reg[n.v], m.reg[n.w]) /\ m.reg[n.v] \in Word /\ m.reg[n.w] \in Word
      BY <1>1, <1>2, EffectIs, FieldsOf
    <2>. QED
      BY <2>1
  <1>3. CASE n.op = "str"
    <2>1. Effect(n, m) = Store(m, m.reg[n.u], m.reg[n.v]) /\ m.reg[n.u] \in Word /\ m.reg[n.v] \in Word
      BY <1>1, <1>3, EffectIs, FieldsOf
    <2>. QED
      BY <2>1
  <1>. QED
    BY <1>2, <1>3

LEMMA EffectTyped ==
  ASSUME NEW n, Sound(n), NEW m \in Machines
  PROVE  Effect(n, m) \in Machines
  <1>1. /\ m.reg \in [Reg -> Word] /\ m.mem \in [Word -> Word] /\ m = [reg |-> m.reg, mem |-> m.mem]
        /\ \A r \in Reg : m.reg[r] \in Word /\ m.mem[m.reg[r]] \in Word
    BY DEF Machines
  <1>2. CASE n.op \in {"movi", "movr", "ldxi", "addr", "boaddi"}
    <2>1. \E u \in Reg, x \in Word : Effect(n, m) = Put(m, u, x)
      BY <1>2, Puts
    <2>. QED
      BY <2>1, PutIs
  <1>3. CASE n.op = "movnr"
    <2>1. n.u \in Reg /\ m.reg[n.v] \in Word
      BY <1>1, <1>3, FieldsOf
    <2>2. Effect(n, m) = IF m.reg[n.w] # 0 THEN Put(m, n.u, m.reg[n.v]) ELSE m
      BY <1>3, EffectIs
    <2>. QED
      BY <2>1, <2>2, PutIs
  <1>4. CASE n.op = "ldxai"
    <2>1. n.u \in Reg /\ n.v \in Reg /\ Sum(m.reg[n.v], n.k) \in Word
      BY <1>1, <1>4, FieldsOf, SumIn
    <2>2. Put(m, n.u, m.mem[m.reg[n.v]]) \in Machines
      BY <1>1, <2>1, PutIs
    <2>. QED
      BY <1>4, <2>1, <2>2, EffectIs, PutIs
  <1>5. CASE n.op \in {"stxi", "str"}
    <2>1. \E a, x \in Word : Effect(n, m) = Store(m, a, x)
      BY <1>5, Stores
    <2>. QED
      BY <2>1, StoreIs
  <1>6. CASE n.op \in Calls
    <2>1. Effect(n, m) = [m EXCEPT !.reg = [r \in Reg |-> IF r \in Saved THEN @[r] ELSE 0]]
      BY <1>6, EffectIs
    <2>2. Effect(n, m) = [reg |-> [r \in Reg |-> IF r \in Saved THEN m.reg[r] ELSE 0], mem |-> m.mem]
      BY <1>1, <2>1
    <2>3. \A r \in Reg : (IF r \in Saved THEN m.reg[r] ELSE 0) \in Word
      BY <1>1, WordIs DEF None
    <2>. QED
      BY <1>1, <2>2, <2>3 DEF Machines
  <1>7. CASE n.op \in Heads \cup {"gone", "casr", "jmpi", "jmpr", "beqi"}
    BY <1>7, EffectIs
  <1>8. n.op \in Operations
    BY FieldsOf
  <1>. QED
    BY <1>2, <1>3, <1>4, <1>5, <1>6, <1>7, <1>8 DEF Operations, Jumps, ToLabel, Conditional

\* The instructions of which simplify does not know, or not all, that they change something.
Blind == {"str", "casr", "movnr", "ldxai"}

LEMMA EffectKeeps ==
  ASSUME NEW n, Sound(n), n.op \notin Blind \cup Calls, NEW m \in Machines
  PROVE  /\ \A r \in Reg \ Changed(n) : Effect(n, m).reg[r] = m.reg[r]
         /\ n.op # "stxi" => Effect(n, m).mem = m.mem
  <1>1. CASE n.op \in {"movi", "movr", "ldxi", "addr", "boaddi"}
    <2>1. PICK u \in Reg, x \in Word : Changed(n) = {u} /\ Effect(n, m) = Put(m, u, x)
      BY <1>1, Puts
    <2>. QED
      BY <2>1, PutIs
  <1>2. CASE n.op = "stxi"
    <2>1. \E a, x \in Word : Effect(n, m) = Store(m, a, x)
      BY <1>2, Stores
    <2>. QED
      BY <1>2, <2>1, StoreIs
  <1>3. CASE n.op \in Heads \cup {"gone", "jmpi", "jmpr", "beqi"}
    BY <1>3, EffectIs
  <1>4. n.op \in Operations
    BY FieldsOf
  <1>. QED
    BY <1>1, <1>2, <1>3, <1>4 DEF Operations, Jumps, ToLabel, Conditional, Blind

-----------------------------------------------------------------------------
(***************************************************************************)
(* The nodes that execution meets, each with the machine it finds there:   *)
(* the least set with all that a prolog may find, and with the next node   *)
(* of each.                                                                *)
(***************************************************************************)
States == Nodes \X Machines

Closed(S) ==
  /\ \A i \in Prologs : \A m \in Machines : <<i, m>> \in S
  /\ \A i \in Nodes : \A m \in Machines :
       <<i, m>> \in S /\ NextPlace(i, m) \in Nodes => <<NextPlace(i, m), Effect(source[i], m)>> \in S

Met == {s \in States : \A S \in SUBSET States : Closed(S) => s \in S}

\* The code as it is now, and as it was.
Related ==
  /\ WellFormed(source) /\ Len(source) = Len(code)
  /\ \A i \in Nodes : \/ code[i] = source[i]
                      \/ /\ code[i].op \in Plain /\ source[i].op \in Plain
                         /\ code[i].to \in {None, source[i].to}

LEMMA SourceIs ==
  ASSUME WellFormed(code), Related
  PROVE  /\ Len(code) \in Nat /\ Len(source) = Len(code) /\ Nodes = 1 .. Len(code)
         /\ \A i \in Nodes : /\ Sound(source[i]) /\ Sound(code[i])
                             /\ source[i].op \in Jumps => i + 1 \in Blocks
                             /\ source[i].op \in ToLabel => source[i].to \in Blocks
         /\ \A i \in Nodes : code[i].op \in Heads \cup Jumps \/ source[i].op \in Heads \cup Jumps =>
              code[i] = source[i]
  <1>1. Len(code) \in Nat /\ Len(source) = Len(code) /\ Nodes = 1 .. Len(code)
    BY Shape DEF Related
  <1>2. \A i \in Nodes : code[i].op \in Heads \cup Jumps \/ source[i].op \in Heads \cup Jumps =>
              code[i] = source[i]
    BY DEF Related, Plain, Heads, Jumps, ToLabel, Conditional, Calls
  <1>3. source \in Seq(Instruction) /\ \A i \in 1 .. Len(source) : Operands(source[i]) \subseteq Reg
    BY DEF Related, WellFormed
  <1>4. \A i \in Nodes : Sound(source[i])
    BY <1>1, <1>3 DEF Sound
  <1>5. \A i \in Nodes : Sound(code[i])
    BY Shape DEF Sound
  <1>6. ASSUME NEW i \in Nodes, source[i].op \in Jumps PROVE i + 1 \in Blocks
    <2>1. i + 1 \in Nodes /\ source[i + 1].op \in Heads
      BY <1>1, <1>6 DEF Related, WellFormed
    <2>. QED
      BY <1>2, <2>1 DEF Blocks
  <1>7. ASSUME NEW i \in Nodes, source[i].op \in ToLabel PROVE source[i].to \in Blocks
    <2>1. source[i].to \in Nodes /\ source[source[i].to].op \in Heads
      BY <1>1, <1>7 DEF Related, WellFormed
    <2>. QED
      BY <1>2, <2>1 DEF Blocks
  <1>. QED
    BY <1>1, <1>2, <1>4, <1>5, <1>6, <1>7

\* Where execution goes on from a node.
LEMMA NextIs ==
  ASSUME WellFormed(code), Related, NEW i \in Nodes, NEW m, NextPlace(i, m) \in Nodes
  PROVE  \/ /\ source[i].op \in ToLabel /\ NextPlace(i, m) = source[i].to /\ source[i].to \in Blocks
            /\ source[i].op = "beqi" => m.reg[source[i].v] = source[i].k
         \/ /\ source[i].op \notin {"jmpi", "jmpr", "epilog"} /\ NextPlace(i, m) = i + 1
  <1>1. i \in Nat /\ None \notin Nodes
    BY SourceIs DEF None
  <1>2. source[i].op \in ToLabel => source[i].to \in Blocks
    BY SourceIs
  <1>. QED
    BY <1>1, <1>2 DEF NextPlace, ToLabel, Conditional

LEMMA MetClosed ==
  ASSUME WellFormed(code), Related
  PROVE  Met \subseteq States /\ Closed(Met)
  <1>1. ASSUME NEW i \in Prologs, NEW m \in Machines PROVE <<i, m>> \in Met
    BY DEF Met, States, Closed, Prologs
  <1>2. ASSUME NEW i \in Nodes, NEW m \in Machines, <<i, m>> \in Met, NextPlace(i, m) \in Nodes
        PROVE  <<NextPlace(i, m), Effect(source[i], m)>> \in Met
    <2>1. Effect(source[i], m) \in Machines
      BY SourceIs, EffectTyped
    <2>2. \A S \in SUBSET States : Closed(S) => <<NextPlace(i, m), Effect(source[i], m)>> \in S
      BY <1>2 DEF Met, Closed
    <2>. QED
      BY <1>2, <2>1, <2>2 DEF Met, States
  <1>. QED
    BY <1>1, <1>2 DEF Met, Closed

\* What is met is met at a prolog, or behind a node that is met.
LEMMA MetFrom ==
  ASSUME WellFormed(code), Related, NEW j \in Nodes, NEW m \in Machines, <<j, m>> \in Met
  PROVE  \/ source[j].op = "prolog"
         \/ \E i \in Nodes : \E q \in Machines :
              <<i, q>> \in Met /\ NextPlace(i, q) = j /\ Effect(source[i], q) = m
  <1>. SUFFICES ASSUME j \notin Prologs,
                       \A i \in Nodes : \A q \in Machines :
                         <<i, q>> \in Met => ~(NextPlace(i, q) = j /\ Effect(source[i], q) = m)
                PROVE  FALSE
    BY DEF Prologs
  <1>. DEFINE S == Met \ {<<j, m>>}
  <1>1. S \in SUBSET States /\ Closed(Met)
    BY MetClosed
  <1>2. \A i \in Prologs : \A q \in Machines : <<i, q>> \in S
    BY <1>1 DEF Closed
  <1>3. \A i \in Nodes : \A q \in Machines :
          <<i, q>> \in S /\ NextPlace(i, q) \in Nodes => <<NextPlace(i, q), Effect(source[i], q)>> \in S
    BY <1>1 DEF Closed
  <1>4. Closed(S)
    BY <1>2, <1>3 DEF Closed
  <1>. QED
    BY <1>1, <1>4 DEF Met

\* Within a block a node is met behind the one before it.
LEMMA MetFall ==
  ASSUME WellFormed(code), Related, NEW j \in Nodes, j \notin Blocks, NEW m \in Machines, <<j, m>> \in Met
  PROVE  /\ j - 1 \in Nodes /\ source[j - 1].op \notin Jumps \cup {"epilog"}
         /\ \E q \in Machines : <<j - 1, q>> \in Met /\ Effect(source[j - 1], q) = m
  <1>1. source[j].op \notin Heads
    BY SourceIs DEF Blocks
  <1>2. PICK i \in Nodes, q \in Machines : <<i, q>> \in Met /\ NextPlace(i, q) = j /\ Effect(source[i], q) = m
    BY <1>1, MetFrom DEF Heads
  <1>3. source[i].op # "epilog" /\ j = i + 1
    BY <1>2, NextIs
  <1>4. source[i].op \notin Jumps
    BY <1>3, SourceIs
  <1>5. i \in Nat /\ j \in Nat
    BY SourceIs
  <1>6. j - 1 = i
    BY <1>3, <1>5
  <1>. QED
    BY <1>2, <1>3, <1>4, <1>6

(***************************************************************************)
(* A label with one user, that is not fallen into, is met only where the   *)
(* register that the user compares is the constant.                        *)
(***************************************************************************)
LEMMA MetBranch ==
  ASSUME WellFormed(code), Related, NEW i \in Nodes, code[i].op = "beqi",
         NEW l \in Blocks, code[l].op = "label", ~RunsInto(code, l), LinkedTo(l) = {i},
         NEW m \in Machines, <<l, m>> \in Met
  PROVE  m.reg[code[i].v] = code[i].k
  <1>1. l \in Nodes /\ source[l].op = "label"
    BY SourceIs DEF Blocks, Heads
  <1>2. PICK p \in Nodes, q \in Machines : <<p, q>> \in Met /\ NextPlace(p, q) = l /\ Effect(source[p], q) = m
    BY <1>1, MetFrom
  <1>3. p \in Nat /\ l \in Nat
    BY <1>1, SourceIs
  <1>4. CASE source[p].op \notin {"jmpi", "jmpr", "epilog"} /\ l = p + 1
    <2>1. code[p].op \notin {"jmpi", "jmpr", "epilog"}
      BY <1>4, SourceIs DEF Heads, Jumps, ToLabel
    <2>2. l > 1 /\ l - 1 = p
      BY <1>3, <1>4, SourceIs
    <2>. QED
      BY <2>1, <2>2 DEF RunsInto, Leaves
  <1>5. CASE /\ source[p].op \in ToLabel /\ l = source[p].to
             /\ source[p].op = "beqi" => q.reg[source[p].v] = source[p].k
    <2>1. code[p] = source[p]
      BY <1>5, SourceIs DEF Jumps
    <2>2. p = i
      BY <1>5, <2>1 DEF LinkedTo
    <2>3. m = q
      BY <1>2, <2>1, <2>2, EffectIs
    <2>. QED
      BY <1>5, <2>1, <2>2, <2>3
  <1>. QED
    BY <1>1, <1>2, <1>4, <1>5, NextIs

-----------------------------------------------------------------------------
(***************************************************************************)
(* What is remembered of a register is true of a machine.  A copy, or what *)
(* was loaded, only counts while the register that it names did not change:*)
(* its generation is then what it was, and before that it was less.        *)
(***************************************************************************)
Correct(r, m) == LET value == values[r] IN
  /\ value.kind = "word" => m.reg[r] = value.k
  /\ value.kind = "register" /\ value.gen = gen[value.base] => m.reg[r] = m.reg[value.base]
  /\ value.kind = "code" /\ value.gen = gen[value.base] => m.reg[r] = m.mem[m.reg[value.base]]

Fresh == \A r \in Reg : values[r].kind \in {"register", "code"} =>
           values[r].base \in Reg /\ values[r].gen =< gen[values[r].base]

LEMMA ValueTypes ==
  ASSUME Typed
  PROVE  /\ values \in [Reg -> Value] /\ gen \in [Reg -> Nat]
         /\ \A r \in Reg : /\ values[r].kind \in Kind /\ values[r].gen \in Nat /\ values[r].base \in Reg \cup {None}
                           /\ gen[r] \in Nat
  BY DEF Typed, Value

LEMMA ValueKinds ==
  /\ Unknown.kind = "none" /\ \A k : Constant(k).kind = "word" /\ Constant(k).k = k
  /\ \A r : /\ Copy(r).kind = "register" /\ Copy(r).base = r /\ Copy(r).gen = gen[r]
            /\ Loaded(r).kind = "code" /\ Loaded(r).base = r /\ Loaded(r).gen = gen[r]
  BY DEF Unknown, Constant, Copy, Loaded

\* What holds of the others when one register is set and remembered anew.
LEMMA OthersCorrect ==
  ASSUME Typed, Fresh, NEW u \in Reg, NEW value, Remember(u, value),
         NEW m \in Machines, \A r \in Reg : Correct(r, m),
         NEW q \in Machines, q.mem = m.mem, \A r \in Reg : r # u => q.reg[r] = m.reg[r]
  PROVE  \A r \in Reg : r # u => Correct(r, q)'
  <1>. SUFFICES ASSUME NEW r \in Reg, r # u PROVE Correct(r, q)'
    OBVIOUS
  <1>1. values'[r] = values[r] /\ gen' = [gen EXCEPT ![u] = @ + 1]
    BY ValueTypes DEF Remember
  <1>. PICK x : x = values[r]
    OBVIOUS
  <1>2. \A b \in Reg : gen'[b] = IF b = u THEN gen[b] + 1 ELSE gen[b]
    BY <1>1, ValueTypes
  <1>3. x.kind \in {"register", "code"} => x.base \in Reg /\ x.gen \in Nat /\ gen[x.base] \in Nat /\ x.gen =< gen[x.base]
    BY ValueTypes DEF Fresh
  <1>4. x.kind \in {"register", "code"} /\ x.gen = gen'[x.base] => x.base # u /\ x.gen = gen[x.base]
    BY <1>2, <1>3
  <1>5. q.reg[r] = m.reg[r] /\ Correct(r, m)
    OBVIOUS
  <1>6. x.kind = "word" => q.reg[r] = x.k
    BY <1>5 DEF Correct
  <1>7. x.kind = "register" /\ x.gen = gen'[x.base] => q.reg[r] = q.reg[x.base]
    BY <1>3, <1>4, <1>5 DEF Correct
  <1>8. x.kind = "code" /\ x.gen = gen'[x.base] => q.reg[r] = q.mem[q.reg[x.base]]
    BY <1>3, <1>4, <1>5 DEF Correct
  <1>. QED
    BY <1>1, <1>6, <1>7, <1>8 DEF Correct

\* Generations grow, so what is remembered stays as old as it was.
LEMMA FreshGrown ==
  ASSUME Typed, Fresh, \A b \in Reg : gen'[b] \in Nat /\ gen[b] =< gen'[b],
         \A r \in Reg : \/ values'[r] = values[r]
                        \/ values'[r].kind \notin {"register", "code"}
                        \/ values'[r].base \in Reg /\ values'[r].gen =< gen'[values'[r].base]
  PROVE  Fresh'
  <1>1. ASSUME NEW r \in Reg, values'[r].kind \in {"register", "code"}, values'[r] = values[r]
        PROVE  values'[r].base \in Reg /\ values'[r].gen =< gen'[values'[r].base]
    <2>. PICK b : b = values[r].base
      OBVIOUS
    <2>1. b \in Reg /\ values[r].gen \in Nat /\ values[r].gen =< gen[b] /\ gen[b] \in Nat
      BY <1>1, ValueTypes DEF Fresh
    <2>2. gen'[b] \in Nat /\ gen[b] =< gen'[b]
      BY <2>1
    <2>3. values[r].gen =< gen'[b]
      BY <2>1, <2>2
    <2>. QED
      BY <1>1, <2>1, <2>3
  <1>. QED
    BY <1>1 DEF Fresh

LEMMA FreshNode ==
  ASSUME Typed, Fresh, NEW i \in Nodes, Removal(i) \/ Keeping(i)
  PROVE  Fresh'
  <1>. PICK u, v : u = code[i].u /\ v = code[i].v
    OBVIOUS
  <1>1. Sound(code[i])
    BY Shape DEF Typed, Sound
  <1>2. ASSUME NEW value, u \in Reg, Remember(u, value),
               value.kind \in {"register", "code"} => value.base \in Reg /\ value.gen = gen[value.base]
        PROVE  Fresh'
    <2>1. \A b \in Reg : gen[b] \in Nat /\ gen'[b] = IF b = u THEN gen[b] + 1 ELSE gen[b]
      BY <1>2, ValueTypes DEF Remember
    <2>2. \A r \in Reg : values'[r] = IF r = u THEN value ELSE values[r]
      BY <1>2, ValueTypes DEF Remember
    <2>3. \A b \in Reg : gen'[b] \in Nat /\ gen[b] =< gen'[b]
      BY <2>1
    <2>. QED
      BY <1>2, <2>2, <2>3, FreshGrown
  <1>3. CASE Removal(i)
    BY <1>3 DEF Removal, DropMovr, DropMovi, DropLdxi, valueVars, Fresh
  <1>4. CASE Reset(i)
    BY <1>4, ValueKinds DEF Reset, NoValues, Fresh
  <1>5. CASE Movr(i)
    <2>1. u \in Reg /\ v \in Reg
      BY <1>1, <1>5, FieldsOf DEF Movr
    <2>. QED
      BY <1>2, <1>5, <2>1, ValueKinds DEF Movr
  <1>6. CASE Movi(i) \/ MoviToMovr(i)
    <2>1. u \in Reg
      BY <1>1, <1>6, FieldsOf DEF Movi, MoviToMovr
    <2>2. PICK value \in {Unknown, Constant(code[i].k)} : Remember(u, value)
      BY <1>6 DEF Movi, MoviToMovr
    <2>. QED
      BY <1>2, <2>1, <2>2, ValueKinds
  <1>7. CASE Ldxi(i)
    <2>1. u \in Reg /\ v \in Reg
      BY <1>1, <1>7, FieldsOf DEF Ldxi
    <2>. QED
      BY <1>2, <1>7, <2>1, ValueKinds DEF Ldxi
  <1>8. CASE Stxi(i)
    <2>1. v \in Reg
      BY <1>1, <1>8, FieldsOf DEF Stxi
    <2>2. \A b \in Reg : gen'[b] \in Nat /\ gen[b] =< gen'[b]
      BY <1>8, ValueTypes DEF Stxi
    <2>3. ASSUME NEW r \in Reg
          PROVE  \/ values'[r] = values[r]
                 \/ values'[r].kind \notin {"register", "code"}
                 \/ values'[r].base = v /\ values'[r].gen = gen'[v]
      BY <1>8, ValueKinds DEF Stxi
    <2>4. gen'[v] =< gen'[v]
      BY <2>1, <2>2
    <2>. QED
      BY <2>1, <2>2, <2>3, <2>4, FreshGrown
  <1>9. CASE Other(i)
    <2>1. \A b \in Reg : gen'[b] \in Nat /\ gen[b] =< gen'[b]
      BY <1>9, ValueTypes DEF Other
    <2>2. \A r \in Reg : values'[r] = values[r] \/ values'[r] = Unknown
      BY <1>9 DEF Other
    <2>. QED
      BY <2>1, <2>2, ValueKinds, FreshGrown
  <1>. QED
    BY <1>3, <1>4, <1>5, <1>6, <1>7, <1>8, <1>9 DEF Keeping

(***************************************************************************)
(* Each case of simplify: the instruction that is left does the same, and  *)
(* what is remembered behind it is true.                                   *)
(***************************************************************************)
Meant(i, m, q) ==
  /\ Effect(code'[i], m) = q
  /\ code[i].op # "epilog" => \A r \in Reg : Correct(r, q)'

LEMMA MeantMovr ==
  ASSUME Typed, Fresh, NEW i \in Nodes, NEW m \in Machines, \A r \in Reg : Correct(r, m),
         NEW q, q = Effect(code[i], m), Movr(i)
  PROVE  Meant(i, m, q)
  <1>. PICK u, v : u = code[i].u /\ v = code[i].v
    OBVIOUS
  <1>. DEFINE value == IF values[v].kind = "word" THEN values[v] ELSE Copy(v)
  <1>1. Sound(code[i]) /\ code[i].op = "movr" /\ code' = code /\ Remember(u, value)
    BY Shape DEF Movr, Typed, Sound
  <1>2. u \in Reg /\ v \in Reg /\ m.reg[v] \in Word
    BY <1>1, FieldsOf DEF Machines
  <1>3. q = Put(m, u, m.reg[v])
    BY <1>1, EffectIs
  <1>4. q \in Machines /\ q.mem = m.mem /\ \A r \in Reg : q.reg[r] = IF r = u THEN m.reg[v] ELSE m.reg[r]
    BY <1>2, <1>3, PutIs
  <1>5. \A r \in Reg : r # u => Correct(r, q)'
    BY <1>1, <1>2, <1>4, OthersCorrect
  <1>6. Correct(u, q)'
    <2>1. values'[u] = value /\ gen' = [gen EXCEPT ![u] = @ + 1]
      BY <1>1, <1>2, ValueTypes DEF Remember
    <2>2. CASE values[v].kind = "word"
      <3>1. q.reg[u] = values[v].k /\ values'[u] = values[v]
        BY <1>2, <1>4, <2>1, <2>2 DEF Correct
      <3>. QED
        BY <2>2, <3>1 DEF Correct
    <2>3. CASE values[v].kind # "word"
      <3>1. values'[u].kind = "register" /\ values'[u].base = v /\ values'[u].gen = gen[v]
        BY <2>1, <2>3, ValueKinds
      <3>2. q.reg[u] = q.reg[v]
        BY <1>2, <1>4
      <3>. QED
        BY <3>1, <3>2 DEF Correct
    <2>. QED
      BY <2>2, <2>3
  <1>. QED
    BY <1>1, <1>5, <1>6 DEF Meant

LEMMA MeantMovi ==
  ASSUME Typed, Fresh, NEW i \in Nodes, NEW m \in Machines, \A r \in Reg : Correct(r, m),
         NEW q, q = Effect(code[i], m), Movi(i) \/ MoviToMovr(i)
  PROVE  Meant(i, m, q)
  <1>. PICK u, k : u = code[i].u /\ k = code[i].k
    OBVIOUS
  <1>1. Sound(code[i]) /\ code[i].op = "movi"
    BY Shape DEF Movi, MoviToMovr, Typed, Sound
  <1>2. u \in Reg /\ k \in Word
    BY <1>1, FieldsOf
  <1>3. PICK value : Remember(u, value) /\ value \in {Unknown, Constant(k)}
    BY DEF Movi, MoviToMovr
  <1>4. q = Put(m, u, k)
    BY <1>1, EffectIs
  <1>5. q \in Machines /\ q.mem = m.mem /\ \A r \in Reg : q.reg[r] = IF r = u THEN k ELSE m.reg[r]
    BY <1>2, <1>4, PutIs
  <1>6. \A r \in Reg : r # u => Correct(r, q)'
    BY <1>2, <1>3, <1>5, OthersCorrect
  <1>7. Correct(u, q)'
    <2>1. values'[u] = value
      BY <1>2, <1>3, ValueTypes DEF Remember
    <2>. QED
      BY <1>2, <1>3, <1>5, <2>1, ValueKinds DEF Correct
  <1>8. Effect(code'[i], m) = q
    <2>1. CASE Movi(i)
      BY <2>1 DEF Movi
    <2>2. CASE MoviToMovr(i)
      <3>. PICK v : v = Min(Holders(i))
        OBVIOUS
      <3>1. v \in Holders(i) /\ code'[i] = Moved(i, v)
        <4>1. code'[i].op = "movr"
          <5>1. /\ code' = [code EXCEPT ![i].op = "movr", ![i].v = v, ![i].k = None]
                /\ code[i] \in Instruction
            BY <1>1, <2>2 DEF MoviToMovr, Sound
          <5>. QED
            BY <5>1 DEF Nodes, Instruction
        <4>2. Keeping(i)
          BY <2>2 DEF Keeping
        <4>. QED
          BY <1>1, <4>1, <4>2, SimplifyRewrites, DeletedIs
      <3>2. v \in Reg /\ values[v] = Constant(k)
        BY <3>1 DEF Holders
      <3>3. Moved(i, v).op = "movr" /\ Moved(i, v).u = u /\ Moved(i, v).v = v
        BY <1>1, <3>2, MovedIs DEF Sound
      <3>4. m.reg[v] = k
        BY <3>2, ValueKinds DEF Correct
      <3>. QED
        BY <1>4, <3>1, <3>3, <3>4, EffectIs
    <2>. QED
      BY <2>1, <2>2
  <1>. QED
    BY <1>6, <1>7, <1>8 DEF Meant

LEMMA MeantLdxi ==
  ASSUME Typed, Fresh, NEW i \in Nodes, NEW m \in Machines, \A r \in Reg : Correct(r, m),
         NEW q, q = Effect(code[i], m), Ldxi(i)
  PROVE  Meant(i, m, q)
  <1>. PICK u, v : u = code[i].u /\ v = code[i].v
    OBVIOUS
  <1>. PICK x : x = m.mem[m.reg[v]]
    OBVIOUS
  <1>1. Sound(code[i]) /\ code[i].op = "ldxi" /\ code' = code /\ Remember(u, Loaded(v))
    BY Shape DEF Ldxi, Typed, Sound
  <1>2. u \in Reg /\ v \in Reg /\ x \in Word
    BY <1>1, FieldsOf DEF Machines
  <1>3. q = Put(m, u, x)
    BY <1>1, EffectIs
  <1>4. q \in Machines /\ q.mem = m.mem /\ \A r \in Reg : q.reg[r] = IF r = u THEN x ELSE m.reg[r]
    <2>1. /\ Put(m, u, x) \in Machines /\ Put(m, u, x).mem = m.mem
          /\ \A r \in Reg : Put(m, u, x).reg[r] = IF r = u THEN x ELSE m.reg[r]
      BY <1>2, PutIs
    <2>. QED
      BY <1>3, <2>1
  <1>5. \A r \in Reg : r # u => Correct(r, q)'
    BY <1>1, <1>2, <1>4, OthersCorrect
  <1>6. Correct(u, q)'
    <2>1. values'[u] = Loaded(v) /\ gen'[u] = gen[u] + 1 /\ gen[u] \in Nat
      BY <1>1, <1>2, ValueTypes DEF Remember
    <2>2. values'[u].kind = "code" /\ values'[u].base = v /\ values'[u].gen = gen[v]
      BY <2>1, ValueKinds
    <2>3. v = u => values'[u].gen # gen'[v]
      <3>1. gen[u] # gen[u] + 1
        BY <2>1
      <3>. QED
        BY <2>1, <2>2, <3>1
    <2>4. v # u => q.reg[u] = q.mem[q.reg[v]]
      BY <1>2, <1>4
    <2>. QED
      BY <2>2, <2>3, <2>4 DEF Correct
  <1>. QED
    BY <1>1, <1>5, <1>6 DEF Meant

LEMMA MeantStxi ==
  ASSUME Typed, Fresh, NEW i \in Nodes, NEW m \in Machines, \A r \in Reg : Correct(r, m),
         NEW q, q = Effect(code[i], m), Stxi(i)
  PROVE  Meant(i, m, q)
  <1>. PICK v, w : v = code[i].v /\ w = code[i].w
    OBVIOUS
  <1>. PICK value : value = [kind |-> "code", base |-> v, gen |-> gen'[v], k |-> None]
    OBVIOUS
  <1>1. Sound(code[i]) /\ code[i].op = "stxi" /\ code' = code
    BY Shape DEF Stxi, Typed, Sound
  <1>2. v \in Reg /\ w \in Reg /\ m.reg[v] \in Word /\ m.reg[w] \in Word
    BY <1>1, FieldsOf DEF Machines
  <1>3. q = Store(m, m.reg[v], m.reg[w])
    BY <1>1, EffectIs
  <1>4. q \in Machines /\ q.reg = m.reg /\ q.mem[m.reg[v]] = m.reg[w]
    <2>1. PICK a, x : a = m.reg[v] /\ x = m.reg[w]
      OBVIOUS
    <2>2. a \in Word /\ x \in Word /\ q = Store(m, a, x)
      BY <1>2, <1>3, <2>1
    <2>3. Store(m, a, x) \in Machines /\ Store(m, a, x).reg = m.reg /\ Store(m, a, x).mem[a] = x
      BY <2>2, StoreIs
    <2>. QED
      BY <2>1, <2>2, <2>3
  <1>5. \A b \in Reg : gen'[b] \in Nat /\ gen[b] \in Nat /\ gen[b] =< gen'[b]
    BY ValueTypes DEF Stxi
  <1>6. \A r \in Reg : \/ r = w /\ values'[r] = value
                       \/ values'[r] = Unknown
                       \/ values'[r] = values[r] /\ values[r].kind # "code"
    BY DEF Stxi, FromMemory
  <1>7. ASSUME NEW r \in Reg PROVE Correct(r, q)'
    <2>1. CASE r = w /\ values'[r] = value
      <3>1. values'[r].kind = "code" /\ values'[r].base = v /\ values'[r].gen = gen'[v]
        BY <2>1
      <3>2. q.reg[r] = q.mem[q.reg[v]]
        BY <1>4, <2>1
      <3>. QED
        BY <3>1, <3>2 DEF Correct
    <2>2. CASE values'[r] = Unknown
      BY <2>2, ValueKinds DEF Correct
    <2>3. CASE values'[r] = values[r] /\ values[r].kind # "code"
      <3>1. values[r].kind = "word" => q.reg[r] = values[r].k
        BY <1>4 DEF Correct
      <3>2. CASE values[r].kind = "register"
        <4>. PICK b : b = values[r].base
          OBVIOUS
        <4>1. b \in Reg /\ values[r].gen \in Nat /\ values[r].gen =< gen[b]
          BY <3>2, ValueTypes DEF Fresh
        <4>2. values[r].gen = gen'[b] => values[r].gen = gen[b]
          BY <1>5, <4>1
        <4>3. values[r].gen = gen[b] => q.reg[r] = q.reg[b]
          BY <1>4, <3>2 DEF Correct
        <4>. QED
          BY <2>3, <3>2, <4>2, <4>3 DEF Correct
      <3>3. CASE values[r].kind # "register"
        BY <2>3, <3>1, <3>3 DEF Correct
      <3>. QED
        BY <3>2, <3>3
    <2>. QED
      BY <1>6, <2>1, <2>2, <2>3
  <1>. QED
    BY <1>1, <1>7 DEF Meant

LEMMA MeantOther ==
  ASSUME Typed, Fresh, NEW i \in Nodes, code[i].op \notin Blind, NEW m \in Machines,
         code[i].op # "epilog" => \A r \in Reg : Correct(r, m),
         NEW q, q = Effect(code[i], m), Other(i)
  PROVE  Meant(i, m, q)
  <1>. PICK C : C = Changed(code[i])
    OBVIOUS
  <1>1. Sound(code[i]) /\ code' = code /\ code[i].op \notin Blind \cup Calls \cup {"stxi"}
    BY Shape DEF Other, Resets, Jumps, Typed, Sound
  <1>2. /\ \A r \in Reg : values'[r] = IF r \in C THEN Unknown ELSE values[r]
        /\ \A b \in Reg : gen[b] \in Nat /\ gen'[b] = IF b \in C THEN gen[b] + 1 ELSE gen[b]
    BY ValueTypes DEF Other
  <1>3. q.mem = m.mem /\ \A r \in Reg \ C : q.reg[r] = m.reg[r]
    BY <1>1, EffectKeeps
  <1>4. ASSUME NEW r \in Reg, code[i].op # "epilog" PROVE Correct(r, q)'
    <2>1. CASE r \in C
      BY <1>2, <2>1, ValueKinds DEF Correct
    <2>2. CASE r \notin C
      <3>. PICK x : x = values[r]
        OBVIOUS
      <3>1. values'[r] = x
        BY <1>2, <2>2
      <3>2. x.kind \in {"register", "code"} => x.base \in Reg /\ x.gen \in Nat /\ x.gen =< gen[x.base]
        BY ValueTypes DEF Fresh
      <3>3. x.kind \in {"register", "code"} /\ x.gen = gen'[x.base] => x.base \notin C /\ x.gen = gen[x.base]
        BY <1>2, <3>2
      <3>4. q.reg[r] = m.reg[r] /\ Correct(r, m)
        BY <1>3, <1>4, <2>2
      <3>5. x.kind = "word" => q.reg[r] = x.k
        BY <3>4 DEF Correct
      <3>6. x.kind = "register" /\ x.gen = gen'[x.base] => q.reg[r] = q.reg[x.base]
        BY <1>3, <3>2, <3>3, <3>4 DEF Correct
      <3>7. x.kind = "code" /\ x.gen = gen'[x.base] => q.reg[r] = q.mem[q.reg[x.base]]
        BY <1>3, <3>2, <3>3, <3>4 DEF Correct
      <3>. QED
        BY <3>1, <3>5, <3>6, <3>7 DEF Correct
    <2>. QED
      BY <2>1, <2>2
  <1>. QED
    BY <1>1, <1>4 DEF Meant

LEMMA MeantReset ==
  ASSUME NEW i, NEW m, NEW q, q = Effect(code[i], m), Reset(i)
  PROVE  Meant(i, m, q)
  <1>1. code' = code /\ \A r \in Reg : values'[r].kind = "none"
    BY ValueKinds DEF Reset, NoValues
  <1>. QED
    BY <1>1 DEF Meant, Correct

(***************************************************************************)
(* An instruction that is removed would set a register to what it holds.   *)
(***************************************************************************)
LEMMA MeantRemoval ==
  ASSUME Typed, Fresh, NEW i \in Nodes, NEW m \in Machines, \A r \in Reg : Correct(r, m),
         NEW q, q = Effect(code[i], m), Removal(i)
  PROVE  Meant(i, m, q)
  <1>. PICK u, v : u = code[i].u /\ v = code[i].v
    OBVIOUS
  <1>1. Sound(code[i]) /\ UNCHANGED valueVars /\ code[i].op \in {"movr", "movi", "ldxi"}
    BY Shape DEF Removal, DropMovr, DropMovi, DropLdxi, Typed, Sound
  <1>2. /\ u \in Reg /\ (code[i].op # "movi" => v \in Reg)
        /\ m.reg[u] \in Word
    BY <1>1, FieldsOf DEF Machines
  <1>3. q = Put(m, u, m.reg[u])
    <2>1. CASE DropMovr(i)
      <3>1. q = Put(m, u, m.reg[v]) /\ v \in Reg
        BY <1>2, <2>1, EffectIs DEF DropMovr
      <3>2. CASE values[u] = Copy(v)
        BY <1>2, <3>1, <3>2, ValueKinds DEF Correct
      <3>3. CASE values[u].kind = "word" /\ values[v] = values[u]
        <4>1. m.reg[u] = values[u].k /\ m.reg[v] = values[u].k
          BY <1>2, <3>1, <3>3 DEF Correct
        <4>. QED
          BY <3>1, <4>1
      <3>. QED
        BY <2>1, <3>2, <3>3 DEF DropMovr, HoldsCopy
    <2>2. CASE DropMovi(i)
      <3>1. q = Put(m, u, code[i].k) /\ values[u] = Constant(code[i].k)
        BY <2>2, EffectIs DEF DropMovi, HoldsConstant
      <3>2. m.reg[u] = code[i].k
        BY <1>2, <3>1, ValueKinds DEF Correct
      <3>. QED
        BY <3>1, <3>2
    <2>3. CASE DropLdxi(i)
      <3>1. q = Put(m, u, m.mem[m.reg[v]]) /\ values[u] = Loaded(v)
        BY <2>3, EffectIs DEF DropLdxi, HoldsLoad
      <3>2. values[u].kind = "code" /\ values[u].base = v /\ values[u].gen = gen[v] /\ Correct(u, m)
        BY <1>2, <3>1, ValueKinds
      <3>3. m.reg[u] = m.mem[m.reg[v]]
        BY <3>2 DEF Correct
      <3>. QED
        BY <3>1, <3>3
    <2>. QED
      BY <2>1, <2>2, <2>3 DEF Removal
  <1>4. q = m
    BY <1>2, <1>3, PutIs
  <1>5. code'[i] = Deleted
    BY DEF Removal, DropMovr, DropMovi, DropLdxi, Delete, Nodes
  <1>6. Effect(Deleted, m) = m
    BY DeletedIs, EffectIs
  <1>7. \A r \in Reg : Correct(r, m)'
    BY <1>1 DEF valueVars, Correct
  <1>. QED
    BY <1>4, <1>5, <1>6, <1>7 DEF Meant

LEMMA MeantNode ==
  ASSUME Typed, Fresh, NEW i \in Nodes, code[i].op \notin Blind, NEW m \in Machines,
         code[i].op \notin Heads => \A r \in Reg : Correct(r, m),
         NEW q, q = Effect(code[i], m), Removal(i) \/ Keeping(i)
  PROVE  Meant(i, m, q)
  <1>1. CASE Reset(i)
    BY <1>1, MeantReset
  <1>2. CASE Other(i)
    <2>1. code[i].op # "epilog" => code[i].op \notin Heads
      BY <1>2 DEF Other, Resets, Heads
    <2>. QED
      BY <1>2, <2>1, MeantOther
  <1>3. CASE ~Reset(i) /\ ~Other(i)
    <2>1. code[i].op \notin Heads
      BY <1>3 DEF Removal, Keeping, DropMovr, DropMovi, DropLdxi, Movr, Movi, MoviToMovr, Ldxi, Stxi, Heads
    <2>. QED
      BY <1>3, <2>1, MeantRemoval, MeantMovr, MeantMovi, MeantLdxi, MeantStxi DEF Keeping
  <1>. QED
    BY <1>1, <1>2, <1>3

-----------------------------------------------------------------------------
(***************************************************************************)
(* The passes over values: what the code does at each node that is met is  *)
(* what the source does there, and what simplify remembers is true of all  *)
(* that its node is met with.                                              *)
(***************************************************************************)
Tame == ~Uses(Blind)

Same  == \A i \in Nodes : \A m \in Machines : <<i, m>> \in Met => Effect(code[i], m) = Effect(source[i], m)
Known == node \in Nodes \ Blocks => \A m \in Machines : <<node, m>> \in Met => \A r \in Reg : Correct(r, m)

MeansInv ==
  /\ Related
  /\ phase \in {"setup", "follow"} /\ always => code = source
  /\ phase = "simplify" => \A i \in Nodes : i >= node => code[i] = source[i]
  /\ Tame => Same /\ (phase = "simplify" => Fresh /\ Known)

LEMMA MetSame ==
  ASSUME UNCHANGED source, Nodes' = Nodes
  PROVE  Met' = Met /\ Tame' = Tame
  <1>1. Prologs' = Prologs /\ States' = States /\ \A i, m : NextPlace(i, m)' = NextPlace(i, m)
    BY DEF Prologs, States, NextPlace
  <1>2. \A S : Closed(S)' = Closed(S)
    BY <1>1 DEF Closed
  <1>3. Tame' = Tame
    BY DEF Tame, Uses
  <1>. QED
    BY <1>1, <1>2, <1>3 DEF Met

LEMMA RelatedStill ==
  ASSUME WellFormed(code), Related, Rewritten, UNCHANGED source
  PROVE  Related' /\ Met' = Met /\ Tame' = Tame /\ Nodes' = Nodes /\ Blocks' = Blocks
  <1>1. Nodes' = Nodes /\ Blocks' = Blocks
    BY RewrittenPlaces
  <1>2. Len(source') = Len(code') /\ WellFormed(source)'
    BY DEF Rewritten, Related, WellFormed
  <1>3. ASSUME NEW i \in Nodes
        PROVE  \/ code'[i] = source[i]
               \/ /\ code'[i].op \in Plain /\ source[i].op \in Plain
                  /\ code'[i].to \in {None, source[i].to}
    BY DEF Rewritten, Related
  <1>. QED
    BY <1>1, <1>2, <1>3, MetSame DEF Related

\* In a tame program no instruction changes more than its class says.
LEMMA TameCode ==
  ASSUME Related, Tame, NEW i \in Nodes
  PROVE  code[i].op \notin Blind /\ source[i].op \notin Blind
  BY DEF Related, Tame, Uses, Blind, Plain

LEMMA SimplifyMeans ==
  ASSUME Typed, MeansInv, Tame, phase = "simplify", SimplifyNode
  PROVE  Same' /\ Fresh' /\ Known'
  <1>. PICK i : i = node
    OBVIOUS
  <1>1. /\ i \in Nodes /\ i \in Nat /\ (Removal(i) \/ Keeping(i)) /\ node' = i + 1
        /\ UNCHANGED source
    BY NodeIs DEF SimplifyNode
  <1>2. Related /\ Same /\ Fresh /\ Known /\ code[i] = source[i] /\ WellFormed(code)
    BY <1>1 DEF MeansInv, Typed
  <1>3. Rewritten /\ \A j \in Nodes : j # i => code'[j] = code[j]
    BY <1>1, SimplifyRewrites
  <1>4. Met' = Met /\ Nodes' = Nodes /\ Blocks' = Blocks
    BY <1>1, <1>2, <1>3, RelatedStill
  <1>5. ASSUME NEW m \in Machines, <<i, m>> \in Met, NEW q, q = Effect(code[i], m)
        PROVE  Meant(i, m, q)
    <2>1. code[i].op \notin Heads => \A r \in Reg : Correct(r, m)
      BY <1>1, <1>2, <1>5 DEF Known, Blocks
    <2>2. code[i].op \notin Blind
      BY <1>1, <1>2, TameCode
    <2>. QED
      BY <1>1, <1>2, <1>5, <2>1, <2>2, MeantNode
  <1>6. Fresh'
    BY <1>1, <1>2, FreshNode
  <1>7. ASSUME NEW j \in Nodes, NEW m \in Machines, <<j, m>> \in Met
        PROVE  Effect(code'[j], m) = Effect(source[j], m)
    <2>1. CASE j = i
      BY <1>2, <1>5, <1>7, <2>1 DEF Meant
    <2>2. CASE j # i
      BY <1>2, <1>3, <1>7, <2>2 DEF Same
    <2>. QED
      BY <2>1, <2>2
  <1>8. ASSUME NEW j \in Nodes \ Blocks, j = i + 1, NEW q \in Machines, <<j, q>> \in Met, NEW r \in Reg
        PROVE  Correct(r, q)'
    <2>1. j - 1 = i
      BY <1>1, <1>8
    <2>2. /\ source[j - 1].op \notin Jumps \cup {"epilog"}
          /\ \E m \in Machines : <<j - 1, m>> \in Met /\ Effect(source[j - 1], m) = q
      BY <1>2, <1>8, MetFall
    <2>3. source[i].op # "epilog" /\ \E m \in Machines : <<i, m>> \in Met /\ Effect(source[i], m) = q
      BY <2>1, <2>2
    <2>. QED
      BY <1>2, <1>5, <1>8, <2>3 DEF Meant
  <1>9. Same'
    BY <1>1, <1>4, <1>7 DEF Same
  <1>10. Known'
    BY <1>1, <1>4, <1>8 DEF Known
  <1>. QED
    BY <1>6, <1>9, <1>10


LEMMA BeforeInBody ==
  ASSUME WellFormed(code), NEW l \in Blocks, NEW j \in Body(l), NEW p \in Nat, l =< p, p < j
  PROVE  p + 1 \in Nodes /\ p + 1 \notin Blocks /\ p \in Nodes /\ (p = l \/ p \in Body(l))
  <1>1. /\ Nodes = 1 .. Len(code) /\ Len(code) \in Nat /\ l \in Nodes /\ j \in Nodes
        /\ \A h \in Blocks : h \in Nat /\ (l < h => j < h)
    BY Shape DEF Body
  <1>2. l \in Nat /\ j \in Nat /\ p \in Nodes /\ p + 1 \in Nodes /\ l < p + 1 /\ p + 1 =< j
    BY <1>1
  <1>3. p + 1 \notin Blocks
    BY <1>1, <1>2
  <1>4. l < p => \A h \in Blocks : l < h => p < h
    BY <1>1, <1>2
  <1>. QED
    BY <1>2, <1>3, <1>4 DEF Body

(***************************************************************************)
(* redundant_store: from a label that only a beqi leads to, the register   *)
(* that it compared is the constant at each node up to a stop.             *)
(***************************************************************************)
LEMMA ConstantBehind ==
  ASSUME Typed, Related, Same, Tame, NEW i \in Nodes, code[i].op = "beqi", NEW l \in Blocks, l = code[i].to,
         code[l].op = "label", ~RunsInto(code, l), LinkedTo(l) = {i},
         NEW j \in Body(l), \A p \in Body(l) : p < j => ~StopsAt(code[p], code[i].v, code[i].k),
         NEW m \in Machines, <<j, m>> \in Met
  PROVE  m.reg[code[i].v] = code[i].k
  <1>. PICK v, k : v = code[i].v /\ k = code[i].k
    OBVIOUS
  <1>. DEFINE Holding(p) == \A q \in Machines : <<p, q>> \in Met => q.reg[v] = k
              S == {d \in Nat : l + d =< j => Holding(l + d)}
  <1>1. WellFormed(code) /\ l \in Nat /\ j \in Nat /\ l < j /\ v \in Reg
    <2>1. Sound(code[i])
      BY SourceIs DEF Typed
    <2>. QED
      BY <2>1, FieldsOf, Shape DEF Typed, Body
  <1>2. 0 \in S
    BY <1>1, MetBranch
  <1>3. ASSUME NEW d \in Nat, d \in S PROVE d + 1 \in S
    <2>. SUFFICES ASSUME l + (d + 1) =< j, NEW q \in Machines, <<l + (d + 1), q>> \in Met
                  PROVE  q.reg[v] = k
      OBVIOUS
    <2>. PICK p, n : p = l + d /\ n = p + 1
      OBVIOUS
    <2>1. p \in Nat /\ n = l + (d + 1) /\ n - 1 = p /\ l =< p /\ p < j /\ n =< j /\ Holding(p)
      BY <1>1, <1>3
    <2>2. n \in Nodes /\ n \notin Blocks /\ p \in Nodes /\ (p = l \/ p \in Body(l))
      BY <1>1, <2>1, BeforeInBody
    <2>3. PICK m0 \in Machines : <<p, m0>> \in Met /\ Effect(source[p], m0) = q
      BY <1>1, <2>1, <2>2, MetFall
    <2>4. m0.reg[v] = k /\ Effect(code[p], m0) = q
      BY <2>1, <2>2, <2>3 DEF Same
    <2>5. CASE p = l
      BY <2>4, <2>5, EffectIs DEF Heads
    <2>6. CASE p \in Body(l)
      <3>1. ~StopsAt(code[p], v, k) /\ Sound(code[p]) /\ code[p].op \notin Blind
        BY <1>1, <2>1, <2>2, <2>6, SourceIs, TameCode
      <3>2. CASE SetsTo(code[p], v, k)
        <4>1. q = Put(m0, v, k) /\ k \in Word
          BY <2>4, <3>1, <3>2, EffectIs, FieldsOf DEF SetsTo
        <4>. QED
          BY <1>1, <4>1, PutIs
      <3>3. CASE v \notin Changed(code[p])
        <4>1. code[p].op \notin Blind \cup Calls
          BY <3>1 DEF StopsAt, Jumps
        <4>. QED
          BY <1>1, <2>4, <3>1, <3>3, <4>1, EffectKeeps
      <3>. QED
        BY <3>1, <3>2, <3>3 DEF StopsAt
    <2>. QED
      BY <2>2, <2>5, <2>6
  <1>4. j - l \in Nat /\ l + (j - l) = j
    BY <1>1
  <1>5. j - l \in S
    <2>. HIDE DEF S
    <2>. QED
      BY <1>2, <1>3, <1>4, SetInduction
  <1>. QED
    BY <1>1, <1>4, <1>5

LEMMA StoresMean ==
  ASSUME Typed, Looping, Flagged, Related, Same, Tame, DropStores
  PROVE  Same'
  <1>. PICK i, l : i = node /\ l = code[i].to
    OBVIOUS
  <1>1. i \in Nodes /\ RedundantStore(i, falls) /\ UNCHANGED source
    BY NodeIs DEF DropStores
  <1>2. /\ Rewritten
        /\ \A j \in Nodes : IF j \in Redundant(i) THEN code'[j] = Deleted ELSE code'[j] = code[j]
        /\ code[i].op = "beqi" /\ l \in Blocks
        /\ \A j \in Redundant(i) : j \in Body(l) /\ SetsTo(code[j], code[i].v, code[i].k)
    BY <1>1, StoresRewrite
  <1>3. Met' = Met /\ Nodes' = Nodes
    BY <1>1, <1>2, RelatedStill DEF Typed
  <1>4. ~RunsInto(code, l) /\ LinkedTo(l) = {i} /\ code[l].op = "label"
    BY <1>1, <1>2 DEF RedundantStore, SingleSource, Flagged
  <1>5. ASSUME NEW j \in Redundant(i), NEW m \in Machines, <<j, m>> \in Met
        PROVE  Effect(code'[j], m) = Effect(code[j], m)
    <2>. PICK v, k : v = code[i].v /\ k = code[i].k
      OBVIOUS
    <2>1. j \in Body(l) /\ j \in Nodes /\ SetsTo(code[j], v, k)
          /\ \A p \in Body(l) : p < j => ~StopsAt(code[p], v, k)
      BY <1>2 DEF Redundant, Body
    <2>2. m.reg[v] = k
      BY <1>1, <1>2, <1>4, <1>5, <2>1, ConstantBehind
    <2>3. v \in Reg /\ k \in Word
      <3>1. Sound(code[j])
        BY <2>1, SourceIs DEF Typed
      <3>. QED
        BY <2>1, <3>1, FieldsOf DEF SetsTo
    <2>4. Effect(code[j], m) = Put(m, v, k)
      BY <2>1, EffectIs DEF SetsTo
    <2>5. Put(m, v, k) = m
      BY <2>2, <2>3, PutIs
    <2>6. Effect(Deleted, m) = m
      BY DeletedIs, EffectIs
    <2>. QED
      BY <1>2, <2>1, <2>4, <2>5, <2>6
  <1>6. ASSUME NEW j \in Nodes, NEW m \in Machines, <<j, m>> \in Met
        PROVE  Effect(code'[j], m) = Effect(source[j], m)
    <2>1. Effect(code[j], m) = Effect(source[j], m)
      BY <1>6 DEF Same
    <2>2. Effect(code'[j], m) = Effect(code[j], m)
      BY <1>2, <1>5, <1>6
    <2>. QED
      BY <2>1, <2>2
  <1>. QED
    BY <1>1, <1>3, <1>6 DEF Same


-----------------------------------------------------------------------------
(***************************************************************************)
(* All passes, one after another.                                          *)
(***************************************************************************)
LEMMA MeansStart == Init => MeansInv
  <1>. SUFFICES ASSUME Init PROVE MeansInv
    OBVIOUS
  <1>1. code \in Programs /\ source = code /\ phase = "setup" /\ node = 1
    BY DEF Init
  <1>2. Related
    BY <1>1, ProgramShape DEF Related
  <1>. QED
    BY <1>1, <1>2 DEF MeansInv, Same

LEMMA MeansOther ==
  ASSUME Typed, MeansInv, UNCHANGED <<code, source>>,
         phase' \in {"setup", "follow"} /\ always' => phase \in {"setup", "follow"} /\ always,
         phase' # "simplify"
  PROVE  MeansInv'
  <1>1. Nodes' = Nodes /\ Met' = Met /\ Tame' = Tame /\ Related'
    <2>1. Nodes' = Nodes
      BY DEF Nodes
    <2>. QED
      BY <2>1, MetSame DEF MeansInv, Related, WellFormed
  <1>2. Tame => Same'
    BY <1>1 DEF MeansInv, Same
  <1>. QED
    BY <1>1, <1>2 DEF MeansInv

LEMMA MeansStep ==
  ASSUME Typed, Looping, LiveInv, MeansInv, [Next]_vars
  PROVE  MeansInv'
  <1>1. CASE Heading
    <2>1. /\ phase = "follow" /\ always /\ phase' = "simplify" /\ node' = 1
          /\ UNCHANGED <<code, source, values, gen>>
      BY <1>1 DEF Heading, valueVars
    <2>2. code = source /\ \A r \in Reg : values'[r].kind = "none"
      BY <2>1 DEF MeansInv, LiveInv, Blank
    <2>3. Nodes' = Nodes /\ Met' = Met /\ Tame' = Tame /\ Related'
      <3>1. Nodes' = Nodes
        BY <2>1 DEF Nodes
      <3>. QED
        BY <2>1, <3>1, MetSame DEF MeansInv, Related, WellFormed
    <2>4. Same' /\ Fresh' /\ Known'
      BY <2>1, <2>2 DEF Same, Fresh, Known, Correct
    <2>. QED
      BY <2>1, <2>2, <2>3, <2>4 DEF MeansInv
  <1>2. CASE SimplifyNode
    <2>. PICK i : i = node
      OBVIOUS
    <2>1. /\ phase = "simplify" /\ phase' = "simplify" /\ i \in Nodes /\ i \in Nat
          /\ Removal(i) \/ Keeping(i)
          /\ node' = i + 1 /\ UNCHANGED source
      BY <1>2, NodeIs DEF SimplifyNode
    <2>2. Rewritten /\ \A j \in Nodes : j # i => code'[j] = code[j]
      BY <2>1, SimplifyRewrites
    <2>3. Related' /\ Tame' = Tame /\ Nodes' = Nodes
      BY <2>1, <2>2, RelatedStill DEF MeansInv, Typed
    <2>4. \A j \in Nodes : j >= i + 1 => code'[j] = source[j]
      <3>1. \A j \in Nodes : j \in Nat /\ (j >= i + 1 => j >= i /\ j # i)
        BY <2>1, Shape DEF Typed
      <3>. QED
        BY <2>1, <2>2, <3>1 DEF MeansInv
    <2>5. Tame => Same' /\ Fresh' /\ Known'
      BY <1>2, <2>1, SimplifyMeans
    <2>. QED
      BY <2>1, <2>3, <2>4, <2>5 DEF MeansInv
  <1>3. CASE DropStores
    <2>1. phase = "stores" /\ phase' = "stores" /\ UNCHANGED source /\ node \in Nodes /\ RedundantStore(node, falls)
      BY <1>3, NodeIs DEF DropStores
    <2>2. Related' /\ Tame' = Tame
      BY <2>1, StoresRewrite, RelatedStill DEF MeansInv, Typed
    <2>3. Tame => Same'
      BY <1>3, <2>1, StoresMean DEF MeansInv, LiveInv
    <2>. QED
      BY <2>1, <2>2, <2>3 DEF MeansInv
  <1>4. CASE SetupBlocks \/ FollowBlock \/ EndFollow \/ CheckAgain \/ VisitUpdates \/ VisitKeeps
    <2>1. /\ UNCHANGED <<code, source>> /\ phase' # "simplify"
          /\ phase' \in {"setup", "follow"} /\ always' => phase \in {"setup", "follow"} /\ always
      BY <1>4 DEF SetupBlocks, FollowBlock, EndFollow, CheckAgain, VisitUpdates, VisitKeeps, Visit
    <2>. QED
      BY <2>1, MeansOther
  <1>5. CASE StartStores \/ KeepStores \/ EndStores \/ EndOptimize
    <2>1. /\ UNCHANGED <<code, source>> /\ phase' # "simplify"
          /\ ~(phase' \in {"setup", "follow"} /\ always')
      BY <1>5 DEF StartStores, KeepStores, EndStores, EndOptimize
    <2>. QED
      BY <2>1, MeansOther
  <1>6. CASE Emit
    <2>1. /\ UNCHANGED <<code, source>> /\ phase = "emit" /\ phase' \in {"emit", "failed", "done"}
      BY <1>6 DEF Emit, EmitBegin, EmitGet, EmitRefused, EmitAct, EmitUnget, EmitFinish, Done, Emitting, KeepAll
    <2>. QED
      BY <2>1, MeansOther
  <1>7. CASE UNCHANGED vars
    <2>1. UNCHANGED <<code, source, phase, always, node, values, gen>>
      BY <1>7 DEF vars, valueVars, passVars
    <2>2. Nodes' = Nodes /\ Blocks' = Blocks
      BY <2>1 DEF Nodes, Blocks
    <2>3. Met' = Met /\ Tame' = Tame /\ Related' = Related
      BY <2>1, <2>2, MetSame DEF Related, WellFormed
    <2>4. Same' = Same /\ Fresh' = Fresh /\ Known' = Known
      BY <2>1, <2>2, <2>3 DEF Same, Fresh, Known, Correct
    <2>. QED
      BY <2>1, <2>2, <2>3, <2>4 DEF MeansInv
  <1>. QED
    BY <1>1, <1>2, <1>3, <1>4, <1>5, <1>6, <1>7 DEF Next, Passes

LEMMA AlwaysMeans == Spec => [](HeadsKnown => MeansInv)
  <1>1. Typed /\ Looping /\ (HeadsKnown => LiveInv) /\ (HeadsKnown => MeansInv) /\ [Next]_vars =>
          (HeadsKnown => MeansInv)'
    BY MeansStep, SameSource
  <1>. QED
    BY <1>1, MeansStart, AlwaysTyped, AlwaysLive, PTL DEF Spec

(***************************************************************************)
(* Executing a program step by step.                                       *)
(***************************************************************************)
Runs(after, i, m, n) ==
  after = [k \in 0 .. n |-> IF k = 0 THEN [at |-> i, m |-> m, alike |-> TRUE] ELSE Execute(after[k - 1])]

LEMMA RunsExist == ASSUME NEW i, NEW m PROVE \A n \in Nat : \E after : Runs(after, i, m, n)
  <1>. DEFINE S == {n \in Nat : \E after : Runs(after, i, m, n)}
              start == [at |-> i, m |-> m, alike |-> TRUE]
  <1>1. 0 \in S
    <2>. DEFINE w == [k \in 0 .. 0 |-> start]
    <2>1. \A k \in 0 .. 0 : w[k] = IF k = 0 THEN start ELSE Execute(w[k - 1])
      OBVIOUS
    <2>2. w = [k \in 0 .. 0 |-> IF k = 0 THEN start ELSE Execute(w[k - 1])]
      BY <2>1
    <2>. QED
      BY <2>2 DEF Runs
  <1>2. ASSUME NEW n \in Nat, n \in S PROVE n + 1 \in S
    <2>1. PICK v : Runs(v, i, m, n)
      BY <1>2
    <2>. DEFINE w == [k \in 0 .. n + 1 |-> IF k = n + 1 THEN Execute(v[n]) ELSE v[k]]
    <2>. HIDE DEF start
    <2>2. \A k \in 0 .. n : v[k] = IF k = 0 THEN start ELSE Execute(v[k - 1])
      BY <2>1 DEF Runs, start
    <2>3. ASSUME NEW k \in 0 .. n + 1 PROVE w[k] = IF k = 0 THEN start ELSE Execute(w[k - 1])
      <3>1. CASE k = n + 1
        <4>1. w[k] = Execute(v[n]) /\ w[n] = v[n] /\ k # 0 /\ k - 1 = n
          BY <3>1
        <4>. QED
          BY <4>1
      <3>2. CASE k # n + 1 /\ k # 0
        <4>1. w[k] = v[k] /\ w[k - 1] = v[k - 1] /\ k \in 0 .. n
          BY <3>2
        <4>. QED
          BY <4>1, <3>2, <2>2
      <3>3. CASE k = 0
        BY <3>3, <2>2
      <3>. QED
        BY <3>1, <3>2, <3>3
    <2>. HIDE DEF w
    <2>4. w = [k \in 0 .. n + 1 |-> w[k]]
      BY DEF w
    <2>5. Runs(w, i, m, n + 1)
      BY <2>3, <2>4 DEF Runs, start
    <2>. QED
      BY <2>5
  <1>. QED
    BY <1>1, <1>2, SetInduction

LEMMA ExecutedSteps ==
  ASSUME NEW i, NEW m
  PROVE  \E after : /\ Executed(i, m) = after[Fuel]
                    /\ after[0] = [at |-> i, m |-> m, alike |-> TRUE]
                    /\ \A k \in 1 .. Fuel : after[k] = Execute(after[k - 1])
  <1>. DEFINE after == CHOOSE w : Runs(w, i, m, Fuel)
  <1>1. Fuel \in Nat /\ Runs(after, i, m, Fuel)
    BY ProgramsAssumption, RunsExist
  <1>2. Executed(i, m) = after[Fuel]
    BY DEF Executed, Runs
  <1>. HIDE DEF after
  <1>3. \A k \in 0 .. Fuel : after[k] = IF k = 0 THEN [at |-> i, m |-> m, alike |-> TRUE] ELSE Execute(after[k - 1])
    BY <1>1 DEF Runs
  <1>4. after[0] = [at |-> i, m |-> m, alike |-> TRUE]
    <2>1. 0 \in 0 .. Fuel
      BY <1>1
    <2>. QED
      BY <1>3, <2>1
  <1>5. ASSUME NEW k \in 1 .. Fuel PROVE after[k] = Execute(after[k - 1])
    <2>1. k \in 0 .. Fuel /\ k # 0
      BY <1>1
    <2>. QED
      BY <2>1, <1>3
  <1>. QED
    BY <1>2, <1>4, <1>5

\* What was executed so far: the place is met, or the program is over.
Going(e) ==
  /\ e.alike = TRUE
  /\ e.at # None => e.at \in Nodes /\ e.m \in Machines /\ <<e.at, e.m>> \in Met

LEMMA ExecuteGoes ==
  ASSUME Typed, Related, Same, NEW e, Going(e)
  PROVE  Going(Execute(e))
  <1>1. CASE e.at = None
    BY <1>1 DEF Execute, Going
  <1>2. CASE e.at # None
    <2>. PICK i, m : i = e.at /\ m = e.m
      OBVIOUS
    <2>. PICK q, j : q = Effect(source[i], m) /\ j = NextPlace(i, m)
      OBVIOUS
    <2>1. i \in Nodes /\ m \in Machines /\ <<i, m>> \in Met
      BY <1>2 DEF Going
    <2>2. q = Effect(code[i], m) /\ q \in Machines
      BY <2>1, SourceIs, EffectTyped DEF Same, Typed
    <2>3. Execute(e) = [at |-> j, m |-> q, alike |-> TRUE]
      BY <1>2, <2>2 DEF Execute, Going
    <2>4. j # None => j \in Nodes
      <3>1. /\ Nodes = 1 .. Len(code) /\ Len(code) \in Nat /\ Len(source) = Len(code)
            /\ source[i].op \in ToLabel => source[i].to \in Blocks
        BY <2>1, SourceIs DEF Typed
      <3>2. j = None \/ (source[i].op \in ToLabel /\ j = source[i].to) \/ (i # Len(source) /\ j = i + 1)
        BY DEF NextPlace, ToLabel, Conditional
      <3>. QED
        BY <2>1, <3>1, <3>2 DEF Blocks
    <2>5. j # None => <<j, q>> \in Met
      BY <2>1, <2>4, MetClosed DEF Closed, Typed
    <2>. QED
      BY <2>2, <2>3, <2>4, <2>5 DEF Going
  <1>. QED
    BY <1>1, <1>2

LEMMA AllAlike ==
  ASSUME Typed, Related, Same
  PROVE  Alike
  <1>. SUFFICES ASSUME NEW i \in Prologs, NEW m \in Machines PROVE Executed(i, m).alike
    BY DEF Alike
  <1>1. PICK after : /\ Executed(i, m) = after[Fuel]
                     /\ after[0] = [at |-> i, m |-> m, alike |-> TRUE]
                     /\ \A k \in 1 .. Fuel : after[k] = Execute(after[k - 1])
    BY ExecutedSteps
  <1>. DEFINE S == {k \in Nat : k =< Fuel => Going(after[k])}
  <1>2. 0 \in S
    <2>1. <<i, m>> \in Met
      BY MetClosed DEF Closed, Typed
    <2>. QED
      BY <1>1, <2>1 DEF Going, Prologs
  <1>3. ASSUME NEW k \in Nat, k \in S PROVE k + 1 \in S
    <2>. SUFFICES ASSUME k + 1 =< Fuel PROVE Going(after[k + 1])
      OBVIOUS
    <2>1. k + 1 \in 1 .. Fuel /\ k + 1 - 1 = k /\ k =< Fuel
      BY ProgramsAssumption
    <2>2. Going(after[k]) /\ after[k + 1] = Execute(after[k])
      BY <1>1, <1>3, <2>1
    <2>. QED
      BY <2>2, ExecuteGoes
  <1>4. Fuel \in S
    <2>. HIDE DEF S
    <2>. QED
      BY <1>2, <1>3, SetInduction, ProgramsAssumption
  <1>. QED
    BY <1>1, <1>4, ProgramsAssumption DEF Going

(***************************************************************************)
(* Whatever simplify and redundant_store remove or replace, in a program   *)
(* without the instructions that simplify is blind to and in which each    *)
(* label that is run into is flagged, a function does at each node that it *)
(* reaches what it did before: for every such program, every number of     *)
(* registers, every width of a word, from all registers and memory that    *)
(* the prolog may find, and for any number of steps.                       *)
(***************************************************************************)
THEOREM RemovalsUnseen == Spec => []SimplifiedAlike
  <1>1. Typed /\ (HeadsKnown => MeansInv) => SimplifiedAlike
    <2>1. ASSUME Typed, MeansInv, ~Uses({"str", "casr", "movnr", "ldxai"}) PROVE Alike
      BY <2>1, AllAlike DEF MeansInv, Tame, Blind
    <2>. QED
      BY <2>1 DEF SimplifiedAlike, RemovalsAlike
  <1>. QED
    BY <1>1, AlwaysTyped, AlwaysMeans, PTL

=============================================================================
