-------------------------------- MODULE Jumps --------------------------------
(***************************************************************************)
(* What jit_optimize does to the jumps and labels of a program before it   *)
(* looks at registers: thread_jumps, sequential_labels, split_branches.    *)
(* The nodes are as in the code: a list linked by next, each label at the  *)
(* head of a second list, linked by link, of the nodes patched to it, and  *)
(* a third one of free nodes.                                              *)
(*                                                                         *)
(* Nodes are numbered in the order the pool gives them.  An "insn" stands  *)
(* for any instruction that only continues with the next one.              *)
(***************************************************************************)
EXTENDS Integers, Sequences, FiniteSets

CONSTANTS
  N,          \* nodes in the pool; the last two are the prolog and the epilog
  Kinds,      \* the instructions a program may have
  MaxCode,    \* bounds on the nodes it is built from, these two aside,
  MaxInsns,   \*   on its instructions and on the calls of jit_indirect,
  MaxLabels,  \*   on its labels,
  MaxBefore   \*   and on the nodes before the prolog

ASSUME NAssumption == N \in Nat /\ MaxCode \in Nat /\ MaxCode < N - 2
ASSUME KindsAssumption == Kinds \subseteq {"insn", "note", "movi", "branch", "jmpi", "jmpr"}

Node == 1 .. N
NULL == 0
PrologNode == N - 1
EpilogNode == N
Reg  == N + 1                  \* the number of a register, in the operand of jmpr
Ends == {"label", "epilog"}    \* what a jump can be patched to
Heads == Ends \cup {"prolog"}  \* what begins a basic block
Jump == {"jmpi", "jmpr", "branch", "reversed"}   \* "reversed": a branch turned round
Code == Heads \cup Jump \cup {"data", "insn", "note", "movi"}

VARIABLES
  mem,        \* the nodes
  head, tail, \* of the program
  list,       \* the first free node
  blocks,     \* the label of each basic block, by slot
  phase,      \* "build", "thread", "labels", "split", "done"; or "failed", "crashed"
  prev, node, \* the loop variables of the three passes
  split,      \* the new vector of blocks of split_branches
  meant,      \* what the program meant when jit_optimize was called
  tame        \* whether thread_jumps left the labels as sequential_labels needs them

vars == <<mem, head, tail, list, blocks, phase, prev, node, split, meant, tame>>

-----------------------------------------------------------------------------
(***************************************************************************)
(* Following a field from node n: the nodes reached one after the other,   *)
(* and NULL after the last.                                                *)
(***************************************************************************)
Steps(field, n) ==
  LET s[i \in 0 .. N] == IF i = 0 THEN n ELSE field[s[i - 1]]
  IN  s

Reached(field, n) == LET s == Steps(field, n) IN {s[i] : i \in 0 .. N} \ {NULL}

NextOf    == [n \in 0 .. N |-> IF n = NULL THEN NULL ELSE mem[n].next]
LinkOf    == [n \in 0 .. N |-> IF n = NULL THEN NULL ELSE mem[n].link]
Program   == Reached(NextOf, head)
Users(l)  == Reached(LinkOf, mem[l].link)   \* the list of l
Patched   == {n \in Program : "node" \in mem[n].flag}

(***************************************************************************)
(* The nodes after n as far as those of the given codes go, and one more.  *)
(***************************************************************************)
After(n, codes) ==
  LET onward == [m \in 0 .. N |->
                   IF m # NULL /\ mem[m].code \in codes THEN mem[m].next ELSE NULL]
  IN  Reached(onward, mem[n].next)

(***************************************************************************)
(* Where the execution that comes to a node, or jumps to it, lands: on one *)
(* that does something, on Reg if it is a jump to the register, or nowhere *)
(* (Lost), or it never lands (Loop).                                       *)
(***************************************************************************)
Lost == N + 2
Loop == N + 3

Onward(program) ==
  [n \in 0 .. Loop |->
     IF n \notin Node THEN IF n = NULL THEN Lost ELSE n
     ELSE IF n \notin program THEN Lost
     ELSE CASE mem[n].code \in {"label", "note", "data"} -> mem[n].next
            [] mem[n].code = "jmpi" -> mem[n].to
            [] mem[n].code = "jmpr" -> IF mem[n].to = Reg THEN Reg ELSE Lost
            [] OTHER -> n]

Landing(n, onward) ==
  LET end == Steps(onward, n)[N] IN IF onward[end] = end THEN end ELSE Loop

(***************************************************************************)
(* The meaning of the program: where it starts, and for each node that     *)
(* does something where it goes from there.                                *)
(***************************************************************************)
Meaning ==
  LET program    == Program
      onward     == Onward(program)
      through(n) == Landing(mem[n].next, onward)
      there(n)   == Landing(mem[n].to, onward)
  IN  [n \in 0 .. N |->
         IF n = 0 THEN <<Landing(head, onward)>>
         ELSE IF n \notin program THEN <<>>
         ELSE CASE mem[n].code \in {"prolog", "insn"} -> <<through(n)>>
                [] mem[n].code \in {"movi", "branch"} -> <<through(n), there(n)>>
                [] mem[n].code = "reversed" -> <<there(n), through(n)>>
                [] mem[n].code = "label" /\ "use" \in mem[n].flag -> <<Landing(n, onward)>>
                [] OTHER -> <<>>]

-----------------------------------------------------------------------------
(***************************************************************************)
(* Building the program.                                                   *)
(***************************************************************************)
Zeroed(next) ==
  [code |-> "data", flag |-> {}, to |-> NULL, link |-> NULL, slot |-> 0, next |-> next]

Init ==
  /\ mem = [n \in Node |->
              CASE n = PrologNode -> [Zeroed(NULL) EXCEPT !.code = "prolog"]
                [] n = EpilogNode -> [Zeroed(NULL) EXCEPT !.code = "epilog"]
                [] OTHER -> Zeroed(IF n = N - 2 THEN NULL ELSE n + 1)]
  /\ list = 1 /\ head = NULL /\ tail = NULL /\ blocks = <<>> /\ phase = "build"
  /\ prev = NULL /\ node = NULL /\ split = <<>> /\ meant = <<>> /\ tame = TRUE

New(m, code) == [m EXCEPT ![list].code = code, ![list].next = NULL]

Linked(m, n) == IF tail = NULL THEN m ELSE [m EXCEPT ![tail].next = n]

AddToList(n) ==
  /\ head' = IF tail = NULL THEN n ELSE head
  /\ tail' = n

Building == phase = "build" /\ tail # EpilogNode
Room     == list <= MaxCode
Insns    == {n \in Node : mem[n].code \in Kinds \/ mem[n].flag = {"use"}}
Labels   == {n \in Node : mem[n].code = "label"}

Insn(kind) ==
  /\ Building /\ Room /\ Cardinality(Insns) < MaxInsns
  /\ mem' = Linked([New(mem, kind) EXCEPT ![list].to = IF kind = "jmpr" THEN Reg ELSE NULL], list)
  /\ list' = mem[list].next
  /\ AddToList(list)
  /\ UNCHANGED <<blocks, phase, prev, node, split, meant, tame>>

(***************************************************************************)
(* jit_prolog, with at most MaxBefore nodes before it.                     *)
(***************************************************************************)
Prolog ==
  /\ Building /\ PrologNode \notin Program /\ list - 1 <= MaxBefore
  /\ mem' = [Linked(mem, PrologNode) EXCEPT ![PrologNode].slot = Len(blocks)]
  /\ blocks' = Append(blocks, PrologNode)
  /\ AddToList(PrologNode)
  /\ UNCHANGED <<list, phase, prev, node, split, meant, tame>>

(***************************************************************************)
(* jit_forward and jit_link.                                               *)
(***************************************************************************)
Forward ==
  /\ Building /\ Room /\ Cardinality(Labels) < MaxLabels
  /\ mem' = [Linked(New(mem, "label"), list) EXCEPT ![list].slot = Len(blocks)]
  /\ list' = mem[list].next
  /\ blocks' = Append(blocks, list)
  /\ AddToList(list)
  /\ UNCHANGED <<phase, prev, node, split, meant, tame>>

(***************************************************************************)
(* jit_label gives the label at the end of the program if there is one,    *)
(* and jit_indirect marks what it gives as used.                           *)
(***************************************************************************)
Label(flag) ==
  /\ Building
  /\ flag # {} => Cardinality(Insns) < MaxInsns
  /\ IF tail # NULL /\ mem[tail].code = "label"
     THEN /\ mem' = [mem EXCEPT ![tail].flag = @ \cup flag]
          /\ UNCHANGED <<list, blocks, head, tail>>
     ELSE /\ Room /\ Cardinality(Labels) < MaxLabels
          /\ mem' = [Linked(New(mem, "label"), list) EXCEPT
                       ![list].slot = Len(blocks), ![list].flag = flag]
          /\ list' = mem[list].next
          /\ blocks' = Append(blocks, list)
          /\ AddToList(list)
  /\ UNCHANGED <<phase, prev, node, split, meant, tame>>

(***************************************************************************)
(* jit_epilog ends the function.                                           *)
(***************************************************************************)
Epilog ==
  /\ Building /\ PrologNode \in Program
  /\ mem' = [Linked(mem, EpilogNode) EXCEPT ![EpilogNode].slot = Len(blocks)]
  /\ blocks' = Append(blocks, EpilogNode)
  /\ AddToList(EpilogNode)
  /\ UNCHANGED <<list, phase, prev, node, split, meant, tame>>

(***************************************************************************)
(* jit_patch_at.  When a jump is patched does not matter, but in which     *)
(* order the jumps to a label are: here all are when the nodes are there.  *)
(***************************************************************************)
Unpatched ==
  {n \in Node : mem[n].code \in {"movi", "branch", "jmpi"} /\ "node" \notin mem[n].flag}

PatchAt(j, l) ==
  /\ phase = "build" /\ tail = EpilogNode /\ j \in Unpatched
  /\ mem[l].code = "label" \/ (mem[l].code = "epilog" /\ mem[j].code = "jmpi")
  /\ mem' = [mem EXCEPT ![j].flag = {"node"}, ![j].to = l, ![j].link = mem[l].link,
                        ![l].link = j]
  /\ UNCHANGED <<head, tail, list, blocks, phase, prev, node, split, meant, tame>>

Optimize ==
  /\ phase = "build" /\ tail = EpilogNode /\ Unpatched = {}
  /\ phase' = "thread" /\ prev' = head /\ node' = head
  /\ meant' = Meaning
  /\ tame' = \A n \in Program : Landing(n, Onward(Program)) # Loop
  /\ UNCHANGED <<mem, head, tail, list, blocks, split>>

-----------------------------------------------------------------------------
(***************************************************************************)
(* del_node and del_label: the memory, the program and the free list       *)
(* without node n, which the caller believes comes after p; p = n at the   *)
(* head.  Both passes hold on to a p that they have deleted.               *)
(***************************************************************************)
BugWithout(m, p, n) == [m EXCEPT ![n] = Zeroed(list)]
Without(m, p, n)    ==
  [[m EXCEPT ![p].next = m[n].next] EXCEPT ![n] = Zeroed(list)]

Delete(m, p, n) ==
  /\ mem' = Without(m, p, n)
  /\ head' = IF p = n THEN m[n].next ELSE head
  /\ list' = n

NotAtHead(p, n) == p = n /\ p # head    \* the assertion of del_node

(***************************************************************************)
(* Taking node n off the list of label l.  The search runs off the end of  *)
(* the list if n is not there.  (The definitions named Bug... are mistakes *)
(* the properties below detect; nothing uses them.)                        *)
(***************************************************************************)
BugOff(l, n) == mem
Off(l, n)    ==
  LET holder == CHOOSE x \in {l} \cup Users(l) : mem[x].link = n
  IN  [mem EXCEPT ![holder].link = mem[n].link]

Stop(how) ==
  /\ phase' = how
  /\ UNCHANGED <<mem, head, tail, list, blocks, prev, node, split, meant, tame>>

-----------------------------------------------------------------------------
(***************************************************************************)
(* thread_jumps, one action for each turn of its loop.                     *)
(***************************************************************************)
Threading == phase = "thread" /\ node # NULL
Flagged(n) == "node" \in mem[n].flag
Conditional(n) == mem[n].code \in {"branch", "reversed"}

Redundant(n) ==
  mem[n].code = "jmpi" /\ Flagged(n) /\ mem[n].to \in After(n, Ends \cup {"note"})

Reversible(n) ==
  /\ Conditional(n) /\ Flagged(n) /\ mem[n].next # NULL
  /\ mem[mem[n].next].code = "jmpi" /\ Flagged(mem[n].next)
  /\ mem[n].to \in After(mem[n].next, Ends \cup {"note"})

(***************************************************************************)
(* The jump at the target of n, after labels and notes: NULL if what is    *)
(* there is anything else.                                                 *)
(***************************************************************************)
BugSecond(n) ==
  LET there == {s \in After(mem[n].to, {"insn", "label"}) :
                  mem[s].code = "jmpi" /\ Flagged(s)}
  IN  IF there = {} THEN NULL ELSE CHOOSE s \in there : TRUE
Second(n) ==
  LET there == {s \in After(mem[n].to, {"note", "label"}) :
                  \/ mem[s].code = "jmpi" /\ Flagged(s)
                  \/ mem[s].code = "jmpr" /\ mem[n].code = "jmpi"}
  IN  IF there = {} THEN NULL ELSE CHOOSE s \in there : TRUE

Short(n) ==
  (mem[n].code = "jmpi" \/ Conditional(n)) /\ Flagged(n) /\ ~Redundant(n)
    /\ ~Reversible(n) /\ Second(n) # NULL

RedundantJump ==
  /\ Threading /\ Redundant(node)
  /\ IF node \notin Users(mem[node].to) THEN Stop("crashed")
     ELSE IF NotAtHead(prev, node) THEN Stop("failed")
     ELSE /\ Delete(Off(mem[node].to, node), prev, node)
          /\ node' = prev
          /\ UNCHANGED <<tail, blocks, phase, prev, split, meant, tame>>

(***************************************************************************)
(* The jump after a branch is deleted, and the branch turned round to go   *)
(* where it went.  The jump stays on the list of its label.                *)
(***************************************************************************)
BugTurned(code) == code
Turned(code)    == IF code = "branch" THEN "reversed" ELSE "branch"

ReverseJump ==
  /\ Threading /\ Reversible(node)
  /\ IF node \notin Users(mem[node].to) THEN Stop("crashed")
     ELSE LET jump == mem[mem[node].next].to
              m    == Without(Off(mem[node].to, node), node, mem[node].next)
          IN  /\ mem' = [m EXCEPT ![node].code = Turned(@), ![node].to = jump,
                                  ![node].link = m[jump].link, ![jump].link = node]
              /\ list' = mem[node].next
              /\ UNCHANGED <<head, tail, blocks, phase, prev, node, split, meant, tame>>

(***************************************************************************)
(* A jump to a jump goes where that one goes, and is looked at again.      *)
(***************************************************************************)
ShortcutJump ==
  /\ Threading /\ Short(node) /\ mem[Second(node)].code = "jmpi"
  /\ IF node \notin Users(mem[node].to) THEN Stop("crashed")
     ELSE LET jump == mem[Second(node)].to
              m    == Off(mem[node].to, node)
          IN  /\ mem' = [m EXCEPT ![node].to = jump, ![node].link = m[jump].link,
                                  ![jump].link = node]
              /\ UNCHANGED <<head, tail, list, blocks, phase, prev, node, split, meant, tame>>

BugShortcutToRegister ==
  /\ Threading /\ Short(node) /\ mem[Second(node)].code = "jmpr"
  /\ mem' = [mem EXCEPT ![node].code = "jmpr", ![node].to = mem[Second(node)].to]
  /\ UNCHANGED <<head, tail, list, blocks, phase, prev, node, split, meant, tame>>

ShortcutToRegister ==
  /\ Threading /\ Short(node) /\ mem[Second(node)].code = "jmpr"
  /\ mem' = [mem EXCEPT ![node].code = "jmpr", ![node].to = mem[Second(node)].to,
                        ![node].link = NULL, ![node].flag = @ \ {"node"}]
  /\ UNCHANGED <<head, tail, list, blocks, phase, prev, node, split, meant, tame>>

NextNode ==
  /\ Threading /\ ~Redundant(node) /\ ~Reversible(node) /\ ~Short(node)
  /\ prev' = node /\ node' = mem[node].next
  /\ UNCHANGED <<mem, head, tail, list, blocks, phase, split, meant, tame>>

-----------------------------------------------------------------------------
(***************************************************************************)
(* sequential_labels, one action for each turn of its loop.                *)
(***************************************************************************)
IsLabel(n) == n # NULL /\ mem[n].code = "label"
Plain(n)   == IsLabel(n) /\ mem[n].flag = {}
Idle(n)    == Plain(n) /\ mem[n].link = NULL

(***************************************************************************)
(* The users of label n, one by one, become the first users of label p.    *)
(***************************************************************************)
BugMoved(n, p) == [mem EXCEPT ![p].link = mem[n].link, ![n].link = NULL]
Moved(n, p)    ==
  LET user    == Steps(LinkOf, mem[n].link)
      last    == Cardinality(Users(n))
      place(x) == CHOOSE i \in 0 .. last - 1 : user[i] = x
  IN  [x \in Node |->
         IF x \in Users(n)
         THEN [mem[x] EXCEPT !.to = p, !.link = IF place(x) = 0 THEN mem[p].link
                                                 ELSE user[place(x) - 1]]
         ELSE IF x = p /\ last > 0 THEN [mem[x] EXCEPT !.link = user[last - 1]]
         ELSE IF x = n THEN [mem[x] EXCEPT !.link = NULL] ELSE mem[x]]

Labelling == phase = "labels" /\ node # NULL
Merged    == Plain(node) /\ prev # node /\ IsLabel(prev)

DelLabel(m, p, n) ==
  IF blocks[mem[n].slot + 1] # n \/ NotAtHead(p, n)
  THEN Stop("failed")
  ELSE /\ Delete(m, p, n)
       /\ blocks' = [blocks EXCEPT ![mem[n].slot + 1] = NULL]
       /\ node' = mem[n].next
       /\ UNCHANGED <<tail, phase, prev, split, meant, tame>>

DropLabel ==
  /\ Labelling /\ Idle(node)
  /\ DelLabel(mem, prev, node)

MergeLabel ==
  /\ Labelling /\ ~Idle(node) /\ Merged
  /\ DelLabel(Moved(node, prev), prev, node)

MergeNextLabel ==
  /\ Labelling /\ IsLabel(node) /\ ~Idle(node) /\ ~Merged /\ Plain(mem[node].next)
  /\ DelLabel(Moved(mem[node].next, node), node, mem[node].next)

NextLabel ==
  /\ Labelling /\ ~Idle(node) /\ ~Merged
  /\ ~(IsLabel(node) /\ Plain(mem[node].next))
  /\ prev' = node /\ node' = mem[node].next
  /\ UNCHANGED <<mem, head, tail, list, blocks, phase, split, meant, tame>>

-----------------------------------------------------------------------------
(***************************************************************************)
(* split_branches: a label after each jump, and the blocks in the order of *)
(* the program.  One action for each turn of the loop.                     *)
(***************************************************************************)
Splitting == phase = "split" /\ node # NULL
Ahead     == mem[node].next
BlockOf(n) == blocks[mem[n].slot + 1]
AtHead     == Ahead # NULL /\ mem[Ahead].code \in Heads
BugAtBranch == Ahead # NULL /\ ~AtHead /\ Conditional(node)
AtBranch    == Ahead # NULL /\ ~AtHead /\ mem[node].code \in Jump

KeepBlock ==
  /\ Splitting /\ AtHead
  /\ split' = Append(split, BlockOf(Ahead))
  /\ mem' = [mem EXCEPT ![Ahead].slot = Len(split)]
  /\ node' = Ahead
  /\ UNCHANGED <<head, tail, list, blocks, phase, prev, meant, tame>>

SplitBlock ==
  /\ Splitting /\ AtBranch /\ list # NULL
  /\ mem' = [mem EXCEPT ![list].code = "label", ![list].next = Ahead,
                        ![node].next = list, ![list].slot = Len(split)]
  /\ list' = mem[list].next
  /\ split' = Append(split, list)
  /\ node' = Ahead
  /\ UNCHANGED <<head, tail, blocks, phase, prev, meant, tame>>

NextBlock ==
  /\ Splitting /\ ~AtHead /\ ~AtBranch
  /\ node' = Ahead
  /\ UNCHANGED <<mem, head, tail, list, blocks, phase, prev, split, meant, tame>>

-----------------------------------------------------------------------------
(***************************************************************************)
(* From one pass to the next.  What is tame has, in thread_jumps, no jumps *)
(* that only lead to each other; then, labels that can be merged safely.   *)
(***************************************************************************)
ListedUsers(l) == Users(l) = {n \in Patched : mem[n].to = l}

Tame ==
  /\ ~(Idle(head) /\ IsLabel(mem[head].next))
  /\ \A n \in Program : IsLabel(n) /\ Plain(mem[n].next) =>
       ListedUsers(mem[n].next) /\ ~Plain(mem[mem[n].next].next)

EndThreading ==
  /\ phase = "thread" /\ node = NULL
  /\ phase' = "labels" /\ prev' = head /\ node' = head
  /\ tame' = Tame
  /\ UNCHANGED <<mem, head, tail, list, blocks, split, meant>>

EndLabelling ==
  /\ phase = "labels" /\ node = NULL
  /\ phase' = "split" /\ node' = head
  /\ IF mem[head].code \in {"label", "prolog"}
     THEN split' = <<BlockOf(head)>> /\ mem' = [mem EXCEPT ![head].slot = 0]
     ELSE split' = <<>> /\ mem' = mem
  /\ UNCHANGED <<head, tail, list, blocks, prev, meant, tame>>

EndSplitting ==
  /\ phase = "split" /\ node = NULL
  /\ phase' = "done" /\ blocks' = split
  /\ UNCHANGED <<mem, head, tail, list, prev, node, split, meant, tame>>

Build ==
  \/ \E kind \in Kinds : Insn(kind)
  \/ Prolog \/ Forward \/ Epilog
  \/ \E flag \in {{}, {"use"}} : Label(flag)
  \/ \E j, l \in Node : PatchAt(j, l)

Passes ==
  \/ RedundantJump \/ ReverseJump \/ ShortcutJump \/ ShortcutToRegister \/ NextNode
  \/ EndThreading
  \/ DropLabel \/ MergeLabel \/ MergeNextLabel \/ NextLabel \/ EndLabelling
  \/ KeepBlock \/ SplitBlock \/ NextBlock \/ EndSplitting

Next == Build \/ Optimize \/ Passes

Spec == Init /\ [][Next]_vars /\ WF_vars(Passes)

-----------------------------------------------------------------------------
(***************************************************************************)
(* The type invariant.  A node that is patched points to a node: the other *)
(* use of its operand is a register number.                                *)
(***************************************************************************)
TypeOK ==
  /\ mem \in [Node -> [code : Code, flag : SUBSET {"node", "use"}, to : 0 .. Reg,
                       link : 0 .. N, next : 0 .. N, slot : 0 .. N]]
  /\ \A n \in Node : Flagged(n) => mem[n].to \in Node
  /\ {head, tail, list, prev, node} \subseteq 0 .. N
  /\ blocks \in Seq(0 .. N) /\ split \in Seq(0 .. N)

(***************************************************************************)
(* thread_jumps changes jumps, and leaves the program with the meaning it  *)
(* had at every turn of its loop.                                          *)
(***************************************************************************)
ThreadingKeepsMeaning == phase = "thread" => meant = Meaning

(***************************************************************************)
(* So do sequential_labels and split_branches, with a program that         *)
(* thread_jumps left tame: no three labels in a row that could be merged,  *)
(* and on the list of a label to be merged all the jumps to it.            *)
(***************************************************************************)
LabelsKeepMeaning == phase \in {"labels", "split", "done"} /\ tame => meant = Meaning

(***************************************************************************)
(* "link field is used as list of nodes associated with a given label",    *)
(* says the comment in jit_patch_at: the jumps to it and no other node.    *)
(***************************************************************************)
LinksAgree ==
  phase = "thread" => \A l \in Program : mem[l].code \in Ends => ListedUsers(l)

(***************************************************************************)
(* What the code does: so it is until a branch is turned round or a jump   *)
(* becomes a jump to a register.                                           *)
(***************************************************************************)
LinksAgreeIfPlain ==
  (\A n \in Program : mem[n].code \notin {"reversed", "jmpr"}) => LinksAgree

(***************************************************************************)
(* A node is in the program or free, never both, so that the labels of     *)
(* split_branches do not overwrite the program.                            *)
(***************************************************************************)
FreeApart == phase # "build" /\ tame => Program \cap Reached(NextOf, list) = {}

(***************************************************************************)
(* jit_optimize goes on with basic blocks numbered in the order of the     *)
(* program, each with its own label, and no jump inside of one.            *)
(***************************************************************************)
BlocksInOrder ==
  phase = "done" /\ tame =>
    \A n \in Program :
      /\ mem[n].code \in Heads =>
           /\ BlockOf(n) = n
           /\ \A m \in After(n, Code) : mem[m].code \in Heads => mem[m].slot > mem[n].slot
      /\ mem[n].code \in Jump => mem[mem[n].next].code \in Heads

(***************************************************************************)
(* The documentation of jit_indirect says that it "tells GNU lightning to  *)
(* not optimize out a label that is not the target of any jump".           *)
(***************************************************************************)
IndirectStays ==
  phase = "done" => \A l \in Node : "use" \in mem[l].flag => l \in Program

(***************************************************************************)
(* The three passes end, whatever the jumps of the program: the            *)
(* documentation puts no condition on where a jump may be patched to.      *)
(***************************************************************************)
Ended    == {"done", "failed", "crashed"}
PassesEnd == phase = "thread" ~> phase \in Ended

(***************************************************************************)
(* What the code does: they end if no jumps of the program lead nowhere    *)
(* but to each other.                                                      *)
(***************************************************************************)
PassesEndIfNoLoop == phase = "thread" /\ tame ~> phase \in Ended
=============================================================================
