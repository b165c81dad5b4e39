---------------------------- MODULE JumpsProofs ----------------------------
(***************************************************************************)
(* The lists of Jumps: the program and the free nodes are two lists that   *)
(* have no node in common, through all passes over a tame program, and the *)
(* basic blocks come out in the order of the program.  Then the lists of   *)
(* the users of labels, and last the meaning of the program: all that the  *)
(* three passes do to jumps and labels leaves it as it is.                 *)
(***************************************************************************)
EXTENDS Jumps, Induction, SequenceTheorems

(***************************************************************************)
(* A list as the sequence of its nodes: it starts at h, follows next, ends *)
(* with NULL, and has no node twice.                                       *)
(***************************************************************************)
Nth(p, i) == IF i \in 1 .. Len(p) THEN p[i] ELSE NULL
Elems(p)  == {p[i] : i \in 1 .. Len(p)}

Once(p) == \A i, j \in 1 .. Len(p) : p[i] = p[j] => i = j

\* p is the list that starts at h in memory m.
Path(m, h, p) ==
  /\ p \in Seq(Node) /\ Once(p) /\ h = Nth(p, 1)
  /\ \A i \in 1 .. Len(p) : m[p[i]].next = Nth(p, i + 1)

\* Two lists without a common node.
Apart(p, q) == Elems(p) \cap Elems(q) = {}

\* The nodes of the program, and the free ones, which have no instruction.
Lists(m, h, f, p, q) ==
  /\ Path(m, h, p) /\ Path(m, f, q) /\ Apart(p, q)
  /\ \A n \in Elems(q) : m[n].code = "data" /\ m[n].flag = {}

\* A node; what is always so of the nodes.
Fields == [code : Code, flag : SUBSET {"node", "use"}, to : 0 .. Reg,
           link : 0 .. N, next : 0 .. N, slot : 0 .. N]

Sound(m) ==
  /\ m \in [Node -> Fields] /\ \A n \in Node : "node" \in m[n].flag => m[n].to \in Node
  /\ m[PrologNode].code = "prolog"
  /\ \A n \in Node : m[n].code = "epilog" <=> n = EpilogNode

\* The types.
Typed ==
  /\ Sound(mem) /\ {head, tail, list, prev, node} \subseteq 0 .. N
  /\ phase \in {"build", "thread", "labels", "split", "done", "failed", "crashed"}

(***************************************************************************)
(* The slot of a block is its place in the vector.                         *)
(***************************************************************************)
InSlot(m, v, n)  == m[n].slot + 1 \in 1 .. Len(v) /\ v[m[n].slot + 1] = n
Slotted(m, v, S) == v \in Seq(0 .. N) /\ \A n \in S : m[n].code \in Heads => InSlot(m, v, n)

\* No slot is for anything else.
Filled(m, v, S) == \A k \in 1 .. Len(v) : v[k] \in S /\ m[v[k]].slot = k - 1

\* The program has its prolog, and ends with its epilog.
Whole(p) == /\ PrologNode \in Elems(p) /\ p[Len(p)] = EpilogNode /\ EpilogNode \in Elems(p)

\* The free nodes are those from list on, and the program has none of them.
BuildInv(p, q) ==
  /\ list \in 1 .. N - 2 /\ Len(q) = (N - 1) - list /\ \A j \in 1 .. Len(q) : q[j] = (list - 1) + j
  /\ Elems(p) \subseteq 1 .. list - 1 \cup {PrologNode, EpilogNode}
  /\ \A n \in {PrologNode, EpilogNode} \ Elems(p) : mem[n].next = NULL
  /\ tail = Nth(p, Len(p))
  /\ EpilogNode \in Elems(p) => Whole(p)
  /\ Slotted(mem, blocks, Elems(p)) /\ Filled(mem, blocks, Elems(p)) /\ split = <<>>

(***************************************************************************)
(* thread_jumps is in the program, behind prev or at it; or it deleted the *)
(* head, and goes on in the free list.                                     *)
(***************************************************************************)
ThreadInv(p, q) ==
  /\ Whole(p) /\ Slotted(mem, blocks, Elems(p)) /\ split = <<>>
  /\ node \in {NULL} \cup Elems(p) \cup Elems(q)
  /\ \A i \in 1 .. Len(p) : node = p[i] => prev = node \/ (i > 1 /\ prev = p[i - 1])

(***************************************************************************)
(* sequential_labels is at i, with prev at v.  A label that it deletes     *)
(* here is at the head or behind prev, which is no label, so that no label *)
(* is merged into one that it has deleted.                                 *)
(***************************************************************************)
LabelAt(m, n) == n # NULL /\ m[n].code = "label"
PlainAt(m, n) == LabelAt(m, n) /\ m[n].flag = {}

LabelsAt(m, p, i, v) ==
  /\ PlainAt(m, Nth(p, i)) => \/ i = 1 /\ v = p[1]
                              \/ i > 1 /\ v = p[i - 1] /\ ~LabelAt(m, v)
  /\ \/ \A j \in i .. Len(p) : v # p[j]
     \/ i = 1 /\ v = p[1] /\ ~(PlainAt(m, p[1]) /\ m[p[1]].link = NULL /\ LabelAt(m, Nth(p, 2)))
  /\ \A j \in i .. Len(p) :
       LabelAt(m, p[j]) /\ PlainAt(m, Nth(p, j + 1)) => ~PlainAt(m, Nth(p, j + 2))

LabelsInv(p, i) ==
  /\ Whole(p) /\ Slotted(mem, blocks, Elems(p)) /\ split = <<>>
  /\ i \in 1 .. Len(p) + 1 /\ node = Nth(p, i) /\ LabelsAt(mem, p, i, prev)

(***************************************************************************)
(* split_branches has looked at the nodes up to i; those behind it still   *)
(* have their old slots.                                                   *)
(***************************************************************************)
Upto(p, i)   == {p[j] : j \in 1 .. i}
Behind(p, i) == {p[j] : j \in i + 1 .. Len(p)}

InOrder(m, p, i) ==
  /\ \A j, k \in 1 .. i : j < k /\ m[p[j]].code \in Heads /\ m[p[k]].code \in Heads
                            => m[p[j]].slot < m[p[k]].slot
  /\ \A j \in 1 .. i - 1 : m[p[j]].code \in Jump => m[p[j + 1]].code \in Heads

SplitInv(p, i) ==
  /\ Whole(p) /\ Slotted(mem, blocks, Behind(p, i))
  /\ Slotted(mem, split, Upto(p, i)) /\ Filled(mem, split, Upto(p, i)) /\ InOrder(mem, p, i)
  /\ IF node = NULL THEN i = Len(p) ELSE i \in 1 .. Len(p) /\ node = p[i]

\* All blocks are in their new slots.
DoneInv(p) ==
  /\ Whole(p) /\ Slotted(mem, blocks, Elems(p)) /\ InOrder(mem, p, Len(p)) /\ split = blocks

\* The two lists, and where the pass is in them.
ListsInv(p, q) ==
  /\ Lists(mem, head, list, p, q)
  /\ phase = "build" => BuildInv(p, q)
  /\ phase = "thread" => ThreadInv(p, q)
  /\ phase = "labels" => \E i \in 1 .. Len(p) + 1 : LabelsInv(p, i)
  /\ phase = "split" => \E i \in 1 .. Len(p) : SplitInv(p, i)
  /\ phase = "done" => DoneInv(p)
  /\ blocks \in Seq(0 .. N) /\ split \in Seq(0 .. N)

\* The inductive invariant.
JumpsInv == tame \/ phase \in {"build", "thread"} => Typed /\ \E p, q \in Seq(Node) : ListsInv(p, q)

-----------------------------------------------------------------------------
(***************************************************************************)
(* Following a field.                                                      *)
(***************************************************************************)
Walks(f, h, s) == s = [i \in 0 .. N |-> IF i = 0 THEN h ELSE f[s[i - 1]]]
Follows(f, h, s) == s[0] = h /\ \A i \in 1 .. N : s[i] = f[s[i - 1]]

\* Steps is defined by recursion: the sequence of steps exists.
LEMMA WalkExists ==
  ASSUME NEW D, NEW f \in [D -> D], NEW h \in D
  PROVE  \E s \in [0 .. N -> D] : Walks(f, h, s)
  <1>. DEFINE P(k) == \E s \in [0 .. k -> D] : s[0] = h /\ \A i \in 1 .. k : s[i] = f[s[i - 1]]
              S == {k \in Nat : P(k)}
  <1>0. N \in Nat
    BY NAssumption
  <1>1. 0 \in S
    <2>1. [k \in 0 .. 0 |-> h] \in [0 .. 0 -> D] /\ [k \in 0 .. 0 |-> h][0] = h /\ 1 .. 0 = {}
      OBVIOUS
    <2>2. P(0)
      BY <2>1
    <2>. HIDE DEF P
    <2>. QED
      BY <2>2
  <1>2. ASSUME NEW k \in Nat, k \in S PROVE k + 1 \in S
    <2>0. P(k)
      <3>. HIDE DEF P
      <3>. QED
        BY <1>2
    <2>1. PICK s \in [0 .. k -> D] : s[0] = h /\ \A i \in 1 .. k : s[i] = f[s[i - 1]]
      BY <2>0
    <2>. DEFINE t == [i \in 0 .. k + 1 |-> IF i =< k THEN s[i] ELSE f[s[k]]]
    <2>2. s[k] \in D /\ f[s[k]] \in D
      BY <2>1
    <2>3. t \in [0 .. k + 1 -> D] /\ t[0] = h
      BY <2>1, <2>2
    <2>4. ASSUME NEW i \in 1 .. k + 1 PROVE t[i] = f[t[i - 1]]
      <3>1. CASE i \in 1 .. k
        BY <2>1, <3>1
      <3>2. CASE i = k + 1
        BY <3>2
      <3>. QED
        BY <3>1, <3>2
    <2>5. P(k + 1)
      BY <2>3, <2>4
    <2>. HIDE DEF P
    <2>. QED
      BY <2>5
  <1>3. P(N)
    <2>. HIDE DEF P
    <2>1. Nat \subseteq S
      <3>. HIDE DEF S
      <3>. QED
        BY <1>1, <1>2, SetInduction
    <2>. QED
      BY <1>0, <2>1
  <1>4. PICK s \in [0 .. N -> D] : s[0] = h /\ \A i \in 1 .. N : s[i] = f[s[i - 1]]
    BY <1>3
  <1>5. ASSUME NEW i \in 0 .. N PROVE s[i] = IF i = 0 THEN h ELSE f[s[i - 1]]
    <2>1. i # 0 => i \in 1 .. N
      BY <1>0
    <2>. QED
      BY <1>4, <2>1
  <1>. QED
    BY <1>4, <1>5 DEF Walks

\* The steps of any function stay in its domain.
LEMMA StepsIn ==
  ASSUME NEW D, NEW f \in [D -> D], NEW h \in D
  PROVE  Steps(f, h) \in [0 .. N -> D] /\ Follows(f, h, Steps(f, h))
  <1>. PICK s : s = CHOOSE t : Walks(f, h, t)
    OBVIOUS
  <1>0. N \in Nat
    BY NAssumption
  <1>1. Steps(f, h) = s
    BY DEF Steps, Walks
  <1>2. Walks(f, h, s)
    BY WalkExists
  <1>3. \A i \in 0 .. N : s[i] = IF i = 0 THEN h ELSE f[s[i - 1]]
    BY <1>2, Zenon DEF Walks
  <1>4. s[0] = h
    BY <1>0, <1>3
  <1>5. ASSUME NEW i \in 1 .. N PROVE s[i] = f[s[i - 1]]
    <2>1. i \in 0 .. N /\ i # 0
      BY <1>0
    <2>. QED
      BY <1>3, <2>1, Zenon
  <1>6. DOMAIN s = 0 .. N /\ s = [i \in 0 .. N |-> s[i]]
    <2>1. DOMAIN s = 0 .. N
      BY <1>2, Zenon DEF Walks
    <2>2. s = [i \in 0 .. N |-> IF i = 0 THEN h ELSE f[s[i - 1]]]
      BY <1>2 DEF Walks
    <2>. QED
      BY <1>3, <2>1, <2>2, Zenon
  <1>. DEFINE S == {k \in Nat : k =< N => s[k] \in D}
  <1>7. 0 \in S
    BY <1>4
  <1>8. ASSUME NEW k \in Nat, k \in S PROVE k + 1 \in S
    <2>1. SUFFICES ASSUME k + 1 =< N PROVE s[k + 1] \in D
      OBVIOUS
    <2>. PICK j : j = k + 1
      OBVIOUS
    <2>2. j \in 1 .. N /\ j - 1 = k /\ s[k] \in D
      BY <1>0, <1>8, <2>1
    <2>3. s[j] = f[s[k]]
      BY <1>5, <2>2
    <2>. QED
      BY <2>2, <2>3
  <1>9. ASSUME NEW k \in 0 .. N PROVE s[k] \in D
    <2>1. Nat \subseteq S
      <3>. HIDE DEF S
      <3>. QED
        BY <1>7, <1>8, SetInduction
    <2>2. k \in S /\ k =< N
      BY <1>0, <2>1
    <2>. QED
      BY <2>2
  <1>. QED
    BY <1>1, <1>4, <1>5, <1>6, <1>9 DEF Follows

\* Steps starts at h, and each step follows f.
LEMMA StepsAre ==
  ASSUME NEW f \in [0 .. N -> 0 .. N], NEW h \in 0 .. N
  PROVE  Steps(f, h) \in [0 .. N -> 0 .. N] /\ Follows(f, h, Steps(f, h))
  BY StepsIn

\* What is reached is a node.
LEMMA ReachedNodes ==
  ASSUME NEW f \in [0 .. N -> 0 .. N], NEW h \in 0 .. N
  PROVE  Reached(f, h) \subseteq Node
  <1>1. Steps(f, h) \in [0 .. N -> 0 .. N]
    BY StepsAre
  <1>2. \A x \in 0 .. N : x # NULL => x \in Node
    BY NAssumption DEF Node, NULL
  <1>. QED
    BY <1>1, <1>2 DEF Reached

(***************************************************************************)
(* A list that has no node twice is not longer than the pool.              *)
(***************************************************************************)
LEMMA NoLonger ==
  ASSUME NEW p, NEW n \in Nat, \A i \in 1 .. n : p[i] \in Node, \A i, j \in 1 .. n : p[i] = p[j] => i = j
  PROVE  n =< N /\ ((\E x \in Node : \A i \in 1 .. n : p[i] # x) => n < N)
  <1>0. N \in Nat /\ IsFiniteSet(Node) /\ Cardinality(Node) = N /\ IsFiniteSet(1 .. n) /\ Cardinality(1 .. n) = n
    BY NAssumption, FS_Interval DEF Node
  <1>. PICK f : f = [i \in 1 .. n |-> p[i]]
    OBVIOUS
  <1>1. ASSUME NEW T \in SUBSET Node, \A i \in 1 .. n : p[i] \in T PROVE n =< Cardinality(T)
    <2>1. f \in Injection(1 .. n, T)
      BY <1>1 DEF Injection, IsInjective
    <2>2. IsFiniteSet(T)
      BY <1>0, FS_Subset
    <2>. QED
      BY <1>0, <2>1, <2>2, FS_Injection
  <1>2. n =< N
    BY <1>0, <1>1
  <1>3. ASSUME NEW x \in Node, \A i \in 1 .. n : p[i] # x PROVE n < N
    <2>1. Cardinality(Node \ {x}) = N - 1
      BY <1>0, FS_RemoveElement
    <2>2. n =< Cardinality(Node \ {x})
      BY <1>1, <1>3
    <2>. QED
      BY <1>0, <2>1, <2>2
  <1>. QED
    BY <1>2, <1>3

(***************************************************************************)
(* What is reached from the head of a list are its nodes.                  *)
(***************************************************************************)
LEMMA ReachedOfList ==
  ASSUME NEW f \in [0 .. N -> 0 .. N], f[NULL] = NULL, NEW p \in Seq(Node), Once(p),
         \A i \in 1 .. Len(p) : f[p[i]] = Nth(p, i + 1)
  PROVE  Reached(f, Nth(p, 1)) = Elems(p)
  <1>. PICK s : s = Steps(f, Nth(p, 1))
    OBVIOUS
  <1>. PICK n : n = Len(p)
    OBVIOUS
  <1>0. N \in Nat /\ n \in Nat /\ \A i \in 1 .. n : p[i] \in Node /\ p[i] \in 0 .. N /\ p[i] # NULL
    <2>1. \A i \in 1 .. n : p[i] \in Node
      BY ElementOfSeq
    <2>2. N \in Nat /\ n \in Nat
      BY NAssumption
    <2>3. \A x \in Node : x \in 0 .. N /\ x # NULL
      BY <2>2 DEF Node, NULL
    <2>. QED
      BY <2>1, <2>2, <2>3
  <1>1. n =< N
    BY <1>0, NoLonger DEF Once
  <1>2. Nth(p, 1) \in 0 .. N
    BY <1>0 DEF Nth, NULL
  <1>3. s[0] = Nth(p, 1) /\ \A i \in 1 .. N : s[i] = f[s[i - 1]]
    BY <1>2, StepsAre DEF Follows
  <1>. DEFINE S == {k \in Nat : k =< N => s[k] = Nth(p, k + 1)}
  <1>4. 0 \in S
    BY <1>3
  <1>5. ASSUME NEW k \in Nat, k \in S PROVE k + 1 \in S
    <2>. PICK j : j = k + 1
      OBVIOUS
    <2>1. SUFFICES ASSUME j =< N PROVE s[j] = Nth(p, j + 1)
      OBVIOUS
    <2>2. j \in 1 .. N /\ j - 1 = k /\ k =< N
      BY <1>0, <2>1
    <2>3. s[j] = f[Nth(p, j)]
      BY <1>3, <1>5, <2>2
    <2>4. CASE j \in 1 .. n
      BY <2>3, <2>4 DEF Nth
    <2>5. CASE j \notin 1 .. n
      <3>1. Nth(p, j) = NULL /\ j + 1 \notin 1 .. n
        BY <1>0, <2>2, <2>5 DEF Nth
      <3>. QED
        BY <2>3, <3>1 DEF Nth
    <2>. QED
      BY <2>4, <2>5
  <1>6. \A k \in 0 .. N : s[k] = Nth(p, k + 1)
    <2>. HIDE DEF S
    <2>1. Nat \subseteq S
      BY <1>4, <1>5, SetInduction
    <2>. QED
      BY <1>0, <2>1 DEF S
  <1>7. ASSUME NEW x \in Elems(p) PROVE x \in Reached(f, Nth(p, 1))
    <2>1. PICK i \in 1 .. n : p[i] = x
      BY <1>7 DEF Elems
    <2>. PICK k : k = i - 1
      OBVIOUS
    <2>2. k \in 0 .. N /\ k + 1 = i
      BY <1>0, <1>1, <2>1
    <2>3. s[k] = x /\ x # NULL
      BY <1>0, <1>6, <2>1, <2>2 DEF Nth
    <2>. QED
      BY <2>2, <2>3 DEF Reached
  <1>8. ASSUME NEW x \in Reached(f, Nth(p, 1)) PROVE x \in Elems(p)
    <2>1. PICK k \in 0 .. N : s[k] = x /\ x # NULL
      BY <1>8 DEF Reached
    <2>2. x = Nth(p, k + 1)
      BY <1>6, <2>1
    <2>. QED
      BY <2>1, <2>2 DEF Nth, Elems
  <1>. QED
    BY <1>7, <1>8

-----------------------------------------------------------------------------
(***************************************************************************)
(* Taking a node off a list, and putting one into it.                      *)
(***************************************************************************)
Del(p, k)    == [i \in 1 .. Len(p) - 1 |-> IF i < k THEN p[i] ELSE p[i + 1]]
Ins(p, k, n) == [i \in 1 .. Len(p) + 1 |-> IF i < k THEN p[i] ELSE IF i = k THEN n ELSE p[i - 1]]

\* r is p without its k-th node; with n as its k-th node.
Removes(p, k, r) ==
  /\ r \in Seq(Node) /\ Once(r) /\ Len(r) = Len(p) - 1 /\ Elems(r) = Elems(p) \ {p[k]}
  /\ \A i \in 1 .. k - 1 : r[i] = p[i]
  /\ \A i \in k .. Len(p) - 1 : r[i] = p[i + 1]

Inserts(p, k, n, r) ==
  /\ r \in Seq(Node) /\ Once(r) /\ Len(r) = Len(p) + 1 /\ Elems(r) = Elems(p) \cup {n}
  /\ r[k] = n /\ \A i \in 1 .. k - 1 : r[i] = p[i]
  /\ \A i \in k + 1 .. Len(p) + 1 : r[i] = p[i - 1]

\* Removing one node of a list.
LEMMA DelRemoves ==
  ASSUME NEW p \in Seq(Node), Once(p), NEW k \in 1 .. Len(p)
  PROVE  Removes(p, k, Del(p, k))
  <1>. PICK n : n = Len(p)
    OBVIOUS
  <1>. PICK r : r = Del(p, k)
    OBVIOUS
  <1>0. n \in Nat /\ k \in 1 .. n /\ \A i \in 1 .. n : p[i] \in Node
    BY ElementOfSeq
  <1>1. /\ \A i \in 1 .. n - 1 : r[i] = IF i < k THEN p[i] ELSE p[i + 1]
        /\ r = [i \in 1 .. n - 1 |-> IF i < k THEN p[i] ELSE p[i + 1]]
    BY DEF Del
  <1>2. r \in Seq(Node) /\ Len(r) = n - 1
    <2>1. n - 1 \in Nat
      BY <1>0
    <2>2. \A i \in 1 .. n - 1 : r[i] \in Node
      BY <1>0, <1>1
    <2>3. r = [i \in 1 .. n - 1 |-> r[i]]
      BY <1>1
    <2>4. r \in [1 .. n - 1 -> Node]
      BY <2>2, <2>3
    <2>. QED
      BY <2>1, <2>4
  <1>3. ASSUME NEW i \in 1 .. n - 1, NEW j \in 1 .. n - 1, r[i] = r[j] PROVE i = j
    <2>1. PICK a : a = IF i < k THEN i ELSE i + 1
      OBVIOUS
    <2>2. PICK b : b = IF j < k THEN j ELSE j + 1
      OBVIOUS
    <2>3. a \in 1 .. n /\ b \in 1 .. n /\ p[a] = p[b]
      BY <1>0, <1>1, <1>3, <2>1, <2>2
    <2>4. a = b
      BY <2>3 DEF Once
    <2>. QED
      BY <1>0, <2>1, <2>2, <2>4
  <1>4. /\ \A i \in 1 .. k - 1 : r[i] = p[i]
        /\ \A i \in k .. n - 1 : r[i] = p[i + 1]
    BY <1>0, <1>1
  <1>5. ASSUME NEW x \in Elems(r) PROVE x \in Elems(p) \ {p[k]}
    <2>1. PICK i \in 1 .. n - 1 : r[i] = x
      BY <1>2, <1>5 DEF Elems
    <2>2. PICK a : a = IF i < k THEN i ELSE i + 1
      OBVIOUS
    <2>3. a \in 1 .. n /\ p[a] = x /\ a # k
      BY <1>0, <1>1, <2>1, <2>2
    <2>. QED
      BY <2>3 DEF Elems, Once
  <1>6. ASSUME NEW x \in Elems(p) \ {p[k]} PROVE x \in Elems(r)
    <2>1. PICK i \in 1 .. n : p[i] = x /\ i # k
      BY <1>6 DEF Elems
    <2>2. CASE i < k
      <3>1. i \in 1 .. n - 1 /\ r[i] = x
        BY <1>0, <1>1, <2>1, <2>2
      <3>. QED
        BY <1>2, <3>1 DEF Elems
    <2>3. CASE ~(i < k)
      <3>. PICK j : j = i - 1
        OBVIOUS
      <3>1. j \in 1 .. n - 1 /\ j + 1 = i /\ ~(j < k)
        BY <1>0, <2>1, <2>3
      <3>2. r[j] = x
        BY <1>1, <2>1, <3>1
      <3>. QED
        BY <1>2, <3>1, <3>2 DEF Elems
    <2>. QED
      BY <2>2, <2>3
  <1>7. Elems(r) = Elems(p) \ {p[k]}
    BY <1>5, <1>6
  <1>8. Once(r)
    BY <1>2, <1>3 DEF Once
  <1>. QED
    BY <1>2, <1>4, <1>7, <1>8 DEF Removes

\* Inserting a node that is not in the list.
LEMMA InsInserts ==
  ASSUME NEW p \in Seq(Node), Once(p), NEW k \in 1 .. Len(p) + 1, NEW x \in Node, x \notin Elems(p)
  PROVE  Inserts(p, k, x, Ins(p, k, x))
  <1>. PICK n : n = Len(p)
    OBVIOUS
  <1>. PICK r : r = Ins(p, k, x)
    OBVIOUS
  <1>0. n \in Nat /\ k \in 1 .. n + 1 /\ \A i \in 1 .. n : p[i] \in Node /\ p[i] # x
    <2>1. \A i \in 1 .. n : p[i] \in Node
      BY ElementOfSeq
    <2>. QED
      BY <2>1 DEF Elems
  <1>1. /\ \A i \in 1 .. n + 1 : r[i] = IF i < k THEN p[i] ELSE IF i = k THEN x ELSE p[i - 1]
        /\ r = [i \in 1 .. n + 1 |-> IF i < k THEN p[i] ELSE IF i = k THEN x ELSE p[i - 1]]
    BY DEF Ins
  <1>2. r \in Seq(Node) /\ Len(r) = n + 1
    <2>1. n + 1 \in Nat
      BY <1>0
    <2>2. ASSUME NEW i \in 1 .. n + 1 PROVE r[i] \in Node
      <3>1. i < k => i \in 1 .. n
        BY <1>0
      <3>2. ~(i < k) /\ i # k => i - 1 \in 1 .. n
        BY <1>0
      <3>. QED
        BY <1>0, <1>1, <3>1, <3>2
    <2>3. r = [i \in 1 .. n + 1 |-> r[i]]
      BY <1>1
    <2>4. r \in [1 .. n + 1 -> Node]
      BY <2>2, <2>3
    <2>. QED
      BY <2>1, <2>4
  <1>3. /\ r[k] = x /\ \A i \in 1 .. k - 1 : r[i] = p[i]
        /\ \A i \in k + 1 .. n + 1 : r[i] = p[i - 1]
    BY <1>0, <1>1
  <1>4. \A i \in 1 .. n + 1 : \/ i < k /\ i \in 1 .. n /\ r[i] = p[i]
                              \/ i = k /\ r[i] = x
                              \/ i > k /\ i - 1 \in 1 .. n /\ r[i] = p[i - 1]
    BY <1>0, <1>3
  <1>5. ASSUME NEW i \in 1 .. n + 1, NEW j \in 1 .. n + 1, r[i] = r[j] PROVE i = j
    <2>1. CASE i = k
      BY <1>0, <1>4, <1>5, <2>1
    <2>2. CASE j = k
      BY <1>0, <1>4, <1>5, <2>2
    <2>3. CASE i # k /\ j # k
      <3>1. PICK a : a = IF i < k THEN i ELSE i - 1
        OBVIOUS
      <3>2. PICK b : b = IF j < k THEN j ELSE j - 1
        OBVIOUS
      <3>3. a \in 1 .. n /\ r[i] = p[a]
        BY <1>0, <1>4, <2>3, <3>1
      <3>4. b \in 1 .. n /\ r[j] = p[b]
        BY <1>0, <1>4, <2>3, <3>2
      <3>5. a = b
        BY <1>5, <3>3, <3>4 DEF Once
      <3>. QED
        BY <1>0, <2>3, <3>1, <3>2, <3>5
    <2>. QED
      BY <2>1, <2>2, <2>3
  <1>6. ASSUME NEW y \in Elems(r) PROVE y \in Elems(p) \cup {x}
    <2>1. PICK i \in 1 .. n + 1 : r[i] = y
      BY <1>2, <1>6 DEF Elems
    <2>. QED
      BY <1>4, <2>1 DEF Elems
  <1>7. ASSUME NEW y \in Elems(p) \cup {x} PROVE y \in Elems(r)
    <2>1. CASE y = x
      BY <1>0, <1>2, <1>3, <2>1 DEF Elems
    <2>2. CASE y \in Elems(p)
      <3>1. PICK i \in 1 .. n : p[i] = y
        BY <2>2 DEF Elems
      <3>2. CASE i < k
        <4>1. i \in 1 .. n + 1 /\ r[i] = y
          BY <1>0, <1>3, <3>1, <3>2
        <4>. QED
          BY <1>2, <4>1 DEF Elems
      <3>3. CASE ~(i < k)
        <4>. PICK j : j = i + 1
          OBVIOUS
        <4>1. j \in k + 1 .. n + 1 /\ j - 1 = i /\ j \in 1 .. n + 1
          BY <1>0, <3>1, <3>3
        <4>2. r[j] = y
          BY <1>3, <3>1, <4>1
        <4>. QED
          BY <1>2, <4>1, <4>2 DEF Elems
      <3>. QED
        BY <3>2, <3>3
    <2>. QED
      BY <2>1, <2>2
  <1>8. Elems(r) = Elems(p) \cup {x}
    BY <1>6, <1>7
  <1>9. Once(r)
    BY <1>2, <1>5 DEF Once
  <1>. QED
    BY <1>2, <1>3, <1>8, <1>9 DEF Inserts

\* The numbers of nodes.
LEMMA Numbers ==
  /\ N \in Nat /\ N > 2 /\ Node = 1 .. N /\ Node \subseteq 0 .. N /\ NULL = 0 /\ NULL \notin Node
  /\ PrologNode \in Node /\ EpilogNode \in Node /\ PrologNode # EpilogNode
  BY NAssumption DEF Node, NULL, PrologNode, EpilogNode

\* Nth is a node in the list and NULL behind it.
LEMMA NthOf ==
  ASSUME NEW p \in Seq(Node), NEW i \in Nat \ {0}
  PROVE  /\ Len(p) \in Nat /\ Nth(p, i) \in 0 .. N
         /\ i \in 1 .. Len(p) => Nth(p, i) = p[i] /\ p[i] \in Node /\ p[i] \in Elems(p)
         /\ i \notin 1 .. Len(p) => Nth(p, i) = NULL
  <1>1. i \in 1 .. Len(p) => p[i] \in Node
    BY ElementOfSeq
  <1>. QED
    BY <1>1, Numbers DEF Nth, Elems

\* The nodes of a list, and their places.
LEMMA ElemsOf ==
  ASSUME NEW p \in Seq(Node)
  PROVE  /\ Elems(p) \subseteq Node /\ \A n \in Elems(p) : \E i \in 1 .. Len(p) : p[i] = n
         /\ \A i \in 1 .. Len(p) : p[i] \in Elems(p) /\ p[i] \in Node
  BY ElementOfSeq DEF Elems

(***************************************************************************)
(* A list without its k-th node, and with one more as its k-th.            *)
(***************************************************************************)
LEMMA PathWithout ==
  ASSUME NEW m, NEW m2, NEW h, NEW p, Path(m, h, p), NEW k \in 1 .. Len(p), NEW r, Removes(p, k, r),
         \A i \in 1 .. Len(p) : i # k => m2[p[i]].next = IF i = k - 1 THEN m[p[k]].next ELSE m[p[i]].next
  PROVE  Path(m2, IF k = 1 THEN m[p[k]].next ELSE h, r)
  <1>. PICK n : n = Len(p)
    OBVIOUS
  <1>0. p \in Seq(Node) /\ n \in Nat /\ k \in 1 .. n /\ r \in Seq(Node) /\ Once(r) /\ Len(r) = n - 1
    BY DEF Path, Removes
  <1>1. /\ \A i \in 1 .. n : m[p[i]].next = Nth(p, i + 1)
        /\ h = Nth(p, 1)
    BY DEF Path
  <1>2. /\ \A i \in 1 .. k - 1 : r[i] = p[i]
        /\ \A i \in k .. n - 1 : r[i] = p[i + 1]
    BY DEF Removes
  <1>3. (IF k = 1 THEN m[p[k]].next ELSE h) = Nth(r, 1)
    <2>1. CASE k = 1
      <3>1. m[p[k]].next = Nth(p, 2)
        BY <1>0, <1>1, <2>1
      <3>2. Nth(p, 2) = Nth(r, 1)
        BY <1>0, <1>2, <2>1 DEF Nth
      <3>. QED
        BY <2>1, <3>1, <3>2
    <2>2. CASE k # 1
      BY <1>0, <1>1, <1>2, <2>2 DEF Nth
    <2>. QED
      BY <2>1, <2>2
  <1>4. ASSUME NEW i \in 1 .. n - 1 PROVE m2[r[i]].next = Nth(r, i + 1)
    <2>1. CASE i < k - 1
      <3>1. m2[p[i]].next = Nth(p, i + 1) /\ r[i] = p[i]
        BY <1>0, <1>1, <1>2, <2>1
      <3>2. Nth(p, i + 1) = Nth(r, i + 1)
        BY <1>0, <1>2, <2>1 DEF Nth
      <3>. QED
        BY <3>1, <3>2
    <2>2. CASE i = k - 1
      <3>1. m2[p[i]].next = Nth(p, k + 1) /\ r[i] = p[i]
        BY <1>0, <1>1, <1>2, <2>2, SMTT(20)
      <3>2. Nth(p, k + 1) = Nth(r, k)
        BY <1>0, <1>2 DEF Nth
      <3>. QED
        BY <1>0, <2>2, <3>1, <3>2
    <2>3. CASE i >= k
      <3>. PICK j : j = i + 1
        OBVIOUS
      <3>0. j \in 1 .. n /\ j # k /\ j # k - 1 /\ j + 1 \in Nat
        BY <1>0, <2>3
      <3>1. m2[p[j]].next = Nth(p, j + 1) /\ r[i] = p[j]
        BY <1>0, <1>1, <1>2, <2>3, <3>0
      <3>2. Nth(p, j + 1) = Nth(r, j)
        BY <1>0, <1>2, <2>3, <3>0 DEF Nth
      <3>. QED
        BY <3>1, <3>2
    <2>. QED
      BY <1>0, <2>1, <2>2, <2>3
  <1>. QED
    BY <1>0, <1>3, <1>4 DEF Path

\* A node is linked into a list.
LEMMA PathWith ==
  ASSUME NEW m, NEW m2, NEW h, NEW p, Path(m, h, p), NEW k \in 1 .. Len(p) + 1, NEW x, NEW r,
         Inserts(p, k, x, r), m2[x].next = Nth(p, k),
         \A i \in 1 .. Len(p) : m2[p[i]].next = IF i = k - 1 THEN x ELSE m[p[i]].next
  PROVE  Path(m2, IF k = 1 THEN x ELSE h, r)
  <1>. PICK n : n = Len(p)
    OBVIOUS
  <1>0. p \in Seq(Node) /\ n \in Nat /\ k \in 1 .. n + 1 /\ r \in Seq(Node) /\ Once(r) /\ Len(r) = n + 1
    BY DEF Path, Inserts
  <1>1. /\ \A i \in 1 .. n : m[p[i]].next = Nth(p, i + 1)
        /\ h = Nth(p, 1)
    BY DEF Path
  <1>2. /\ \A i \in 1 .. k - 1 : r[i] = p[i]
        /\ r[k] = x
        /\ \A i \in k + 1 .. n + 1 : r[i] = p[i - 1]
    BY DEF Inserts
  <1>3. (IF k = 1 THEN x ELSE h) = Nth(r, 1)
    BY <1>0, <1>1, <1>2 DEF Nth
  <1>4. ASSUME NEW i \in 1 .. n + 1 PROVE m2[r[i]].next = Nth(r, i + 1)
    <2>1. CASE i < k - 1
      <3>1. m2[p[i]].next = Nth(p, i + 1) /\ r[i] = p[i]
        BY <1>0, <1>1, <1>2, <2>1
      <3>2. Nth(p, i + 1) = Nth(r, i + 1)
        BY <1>0, <1>2, <2>1 DEF Nth
      <3>. QED
        BY <3>1, <3>2
    <2>2. CASE i = k - 1
      <3>1. m2[p[i]].next = x /\ r[i] = p[i]
        BY <1>0, <1>1, <1>2, <2>2, SMTT(20)
      <3>2. x = Nth(r, i + 1)
        BY <1>0, <1>2, <2>2 DEF Nth
      <3>. QED
        BY <3>1, <3>2
    <2>3. CASE i = k
      BY <1>0, <1>2, <2>3 DEF Nth
    <2>4. CASE i > k
      <3>. PICK j : j = i - 1
        OBVIOUS
      <3>0. j \in 1 .. n /\ j + 1 = i /\ j # k - 1
        BY <1>0, <2>4
      <3>1. m2[p[j]].next = Nth(p, i) /\ r[i] = p[j]
        BY <1>0, <1>1, <1>2, <2>4, <3>0
      <3>2. Nth(p, i) = Nth(r, i + 1)
        BY <1>0, <1>2, <2>4 DEF Nth
      <3>. QED
        BY <3>1, <3>2
    <2>. QED
      BY <1>0, <2>1, <2>2, <2>3, <2>4
  <1>. QED
    BY <1>0, <1>3, <1>4 DEF Path

(***************************************************************************)
(* Both lists: nothing changes in them; a node of the program is freed;    *)
(* the first free one, or one that is neither, is put into the program.    *)
(***************************************************************************)
LEMMA ListsStay ==
  ASSUME NEW m, NEW m2, NEW h, NEW f, NEW p, NEW q, Lists(m, h, f, p, q),
         \A n \in Node : m2[n].next = m[n].next,
         \A n \in Node : m[n].code = "data" => m2[n].code = "data" /\ m2[n].flag = m[n].flag
  PROVE  Lists(m2, h, f, p, q)
  <1>1. Elems(q) \subseteq Node /\ \A i \in 1 .. Len(p) : p[i] \in Node
    BY ElemsOf DEF Lists, Path
  <1>2. \A i \in 1 .. Len(q) : q[i] \in Node
    BY ElemsOf DEF Lists, Path
  <1>3. Path(m2, h, p) /\ Path(m2, f, q)
    BY <1>1, <1>2 DEF Lists, Path
  <1>. QED
    BY <1>1, <1>3 DEF Lists

\* The memory after p[k] has been deleted.
Leaves(m, m2, f, p, k) ==
  /\ k \in 1 .. Len(p)
  /\ m2[p[k]].next = f /\ m2[p[k]].code = "data" /\ m2[p[k]].flag = {}
  /\ \A n \in Node : n # p[k] =>
       /\ m2[n].next = IF k > 1 /\ n = p[k - 1] THEN m[p[k]].next ELSE m[n].next
       /\ m[n].code = "data" => m2[n].code = "data" /\ m2[n].flag = m[n].flag

\* A node of the program becomes the first of the free ones.
LEMMA ListsWithout ==
  ASSUME NEW m, NEW m2, NEW h, NEW f, NEW p, NEW q, Lists(m, h, f, p, q), NEW k, Leaves(m, m2, f, p, k)
  PROVE  /\ Removes(p, k, Del(p, k)) /\ Inserts(q, 1, p[k], Ins(q, 1, p[k]))
         /\ Lists(m2, IF k = 1 THEN m[p[k]].next ELSE h, p[k], Del(p, k), Ins(q, 1, p[k]))
  <1>. PICK r : r = Del(p, k)
    OBVIOUS
  <1>. PICK s : s = Ins(q, 1, p[k])
    OBVIOUS
  <1>. PICK x : x = p[k]
    OBVIOUS
  <1>0. /\ p \in Seq(Node) /\ q \in Seq(Node) /\ Once(p) /\ Once(q) /\ Path(m, h, p) /\ Path(m, f, q)
        /\ Elems(p) \cap Elems(q) = {} /\ Len(p) \in Nat /\ Len(q) \in Nat /\ k \in 1 .. Len(p)
        /\ m2[p[k]].next = f /\ m2[p[k]].code = "data" /\ m2[p[k]].flag = {}
    BY LenProperties DEF Lists, Path, Apart, Leaves
  <1>00. \A n \in Node : n # p[k] =>
       /\ m2[n].next = IF k > 1 /\ n = p[k - 1] THEN m[p[k]].next ELSE m[n].next
       /\ m[n].code = "data" => m2[n].code = "data" /\ m2[n].flag = m[n].flag
    BY DEF Leaves
  <1>1. x \in Node /\ x \in Elems(p) /\ x \notin Elems(q)
    BY <1>0, ElemsOf
  <1>2. Removes(p, k, r)
    BY <1>0, DelRemoves
  <1>3. 1 \in 1 .. Len(q) + 1
    BY <1>0
  <1>4. Inserts(q, 1, x, s)
    BY <1>0, <1>1, <1>3, InsInserts
  <1>5. ASSUME NEW i \in 1 .. Len(p), i # k
        PROVE  m2[p[i]].next = IF i = k - 1 THEN m[p[k]].next ELSE m[p[i]].next
    <2>1. p[i] \in Node /\ p[i] # p[k]
      BY <1>0, <1>5, ElemsOf DEF Once
    <2>2. k > 1 /\ p[i] = p[k - 1] <=> i = k - 1
      <3>1. k > 1 => k - 1 \in 1 .. Len(p)
        BY <1>0
      <3>2. k > 1 /\ p[i] = p[k - 1] => i = k - 1
        BY <1>0, <3>1 DEF Once
      <3>3. i = k - 1 => k > 1
        BY <1>0
      <3>. QED
        BY <3>2, <3>3
    <2>. QED
      BY <1>00, <2>1, <2>2
  <1>6. Path(m2, IF k = 1 THEN m[p[k]].next ELSE h, r)
    BY <1>0, <1>2, <1>5, PathWithout
  <1>7. f = Nth(q, 1)
    BY <1>0 DEF Path
  <1>8. ASSUME NEW i \in 1 .. Len(q) PROVE m2[q[i]].next = IF i = 1 - 1 THEN x ELSE m[q[i]].next
    <2>1. q[i] \in Node /\ q[i] \in Elems(q)
      BY <1>0, ElemsOf
    <2>2. q[i] # p[k] /\ (k > 1 => q[i] # p[k - 1])
      <3>1. k > 1 => k - 1 \in 1 .. Len(p)
        BY <1>0
      <3>2. k > 1 => p[k - 1] \in Elems(p)
        BY <1>0, <3>1, ElemsOf
      <3>. QED
        BY <1>0, <1>1, <2>1, <3>2
    <2>3. i # 0
      OBVIOUS
    <2>. QED
      BY <1>00, <2>1, <2>2, <2>3
  <1>9. Path(m2, x, s)
    <2>1. Path(m2, IF 1 = 1 THEN x ELSE f, s)
      BY <1>0, <1>3, <1>4, <1>7, <1>8, PathWith
    <2>. QED
      BY <2>1
  <1>10. Elems(r) = Elems(p) \ {x} /\ Elems(s) = Elems(q) \cup {x}
    BY <1>2, <1>4 DEF Removes, Inserts
  <1>11. ASSUME NEW n \in Elems(s) PROVE m2[n].code = "data" /\ m2[n].flag = {}
    <2>1. CASE n = x
      BY <1>0, <2>1
    <2>2. CASE n \in Elems(q)
      <3>1. n \in Node /\ n # x
        BY <1>0, <1>1, <2>2, ElemsOf
      <3>2. m[n].code = "data" /\ m[n].flag = {}
        BY <2>2 DEF Lists
      <3>. QED
        BY <1>00, <3>1, <3>2
    <2>. QED
      BY <1>10, <2>1, <2>2
  <1>12. Elems(r) \cap Elems(s) = {}
    BY <1>0, <1>10
  <1>. QED
    BY <1>2, <1>4, <1>6, <1>9, <1>11, <1>12 DEF Lists, Apart

\* Node x becomes the k-th of the program; s are the free ones without it.
Freed(q, x, s) == s \in Seq(Node) /\ Elems(s) = Elems(q) \ {x}

\* The memory after x has been linked in as the k-th node.
Joins(m, m2, p, k, x) ==
  /\ k \in 1 .. Len(p) + 1 /\ x \in Node /\ x \notin Elems(p) /\ m2[x].next = Nth(p, k)
  /\ \A n \in Node : n # x =>
       /\ m2[n].next = IF k > 1 /\ n = p[k - 1] THEN x ELSE m[n].next
       /\ m[n].code = "data" => m2[n].code = "data" /\ m2[n].flag = m[n].flag

\* x was the first free node, or none of the free ones.
FromFree(m, f, f2, q, s, x) ==
  \/ s = q /\ f2 = f /\ x \notin Elems(q)
  \/ Len(q) > 0 /\ x = q[1] /\ s = Del(q, 1) /\ f2 = m[x].next

\* A node, free or one of the two ends, becomes one of the program.
LEMMA ListsWith ==
  ASSUME NEW m, NEW m2, NEW h, NEW f, NEW f2, NEW p, NEW q, NEW k, NEW x, NEW s,
         Lists(m, h, f, p, q), Joins(m, m2, p, k, x), FromFree(m, f, f2, q, s, x)
  PROVE  /\ Inserts(p, k, x, Ins(p, k, x)) /\ Freed(q, x, s)
         /\ Lists(m2, IF k = 1 THEN x ELSE h, f2, Ins(p, k, x), s)
  <1>. PICK r : r = Ins(p, k, x)
    OBVIOUS
  <1>0. /\ p \in Seq(Node) /\ q \in Seq(Node) /\ Once(p) /\ Once(q) /\ Path(m, h, p) /\ Path(m, f, q)
        /\ Elems(p) \cap Elems(q) = {} /\ Len(p) \in Nat /\ Len(q) \in Nat /\ k \in 1 .. Len(p) + 1
        /\ x \in Node /\ x \notin Elems(p) /\ m2[x].next = Nth(p, k)
    BY LenProperties DEF Lists, Path, Apart, Joins
  <1>00. \A n \in Node : n # x =>
       /\ m2[n].next = IF k > 1 /\ n = p[k - 1] THEN x ELSE m[n].next
       /\ m[n].code = "data" => m2[n].code = "data" /\ m2[n].flag = m[n].flag
    BY DEF Joins
  <1>1. Inserts(p, k, x, r)
    BY <1>0, InsInserts
  <1>2. ASSUME NEW i \in 1 .. Len(p) PROVE m2[p[i]].next = IF i = k - 1 THEN x ELSE m[p[i]].next
    <2>1. p[i] \in Node /\ p[i] # x
      BY <1>0, ElemsOf
    <2>2. k > 1 /\ p[i] = p[k - 1] <=> i = k - 1
      <3>1. k > 1 => k - 1 \in 1 .. Len(p)
        BY <1>0
      <3>2. k > 1 /\ p[i] = p[k - 1] => i = k - 1
        BY <1>0, <3>1 DEF Once
      <3>3. i = k - 1 => k > 1
        BY <1>0
      <3>. QED
        BY <3>2, <3>3
    <2>. QED
      BY <1>00, <2>1, <2>2
  <1>3. Path(m2, IF k = 1 THEN x ELSE h, r)
    BY <1>0, <1>1, <1>2, PathWith
  <1>4. ASSUME NEW n \in Elems(q), n # x
        PROVE  m2[n].next = m[n].next /\ m2[n].code = "data" /\ m2[n].flag = {}
    <2>1. n \in Node /\ m[n].code = "data" /\ m[n].flag = {}
      BY <1>0, ElemsOf DEF Lists
    <2>2. k > 1 => p[k - 1] \in Elems(p)
      <3>1. k > 1 => k - 1 \in 1 .. Len(p)
        BY <1>0
      <3>. QED
        BY <1>0, <3>1, ElemsOf
    <2>3. k > 1 => n # p[k - 1]
      BY <1>0, <2>2
    <2>. QED
      BY <1>00, <1>4, <2>1, <2>3
  <1>5. Path(m2, f2, s) /\ Freed(q, x, s)
    <2>1. CASE s = q /\ f2 = f /\ x \notin Elems(q)
      <3>1. \A i \in 1 .. Len(q) : m2[q[i]].next = m[q[i]].next
        BY <1>0, <1>4, <2>1, ElemsOf
      <3>2. Path(m2, f, q)
        BY <3>1 DEF Lists, Path
      <3>. QED
        BY <1>0, <2>1, <3>2 DEF Freed
    <2>2. CASE Len(q) > 0 /\ x = q[1] /\ s = Del(q, 1) /\ f2 = m[x].next
      <3>1. 1 \in 1 .. Len(q)
        BY <1>0, <2>2
      <3>2. Removes(q, 1, s)
        BY <1>0, <2>2, <3>1, DelRemoves
      <3>3. ASSUME NEW i \in 1 .. Len(q), i # 1
            PROVE  m2[q[i]].next = IF i = 1 - 1 THEN m[q[1]].next ELSE m[q[i]].next
        <4>1. q[i] \in Elems(q) /\ q[i] # x /\ i # 0
          BY <1>0, <2>2, <3>1, <3>3, ElemsOf DEF Once
        <4>. QED
          BY <1>4, <4>1
      <3>4. Path(m2, IF 1 = 1 THEN m[q[1]].next ELSE f, s)
        BY <1>0, <3>1, <3>2, <3>3, PathWithout
      <3>5. Path(m2, f2, s)
        BY <2>2, <3>4
      <3>. QED
        BY <2>2, <3>2, <3>5 DEF Removes, Freed
    <2>. QED
      BY <2>1, <2>2 DEF FromFree
  <1>6. Elems(r) = Elems(p) \cup {x} /\ Elems(s) = Elems(q) \ {x}
    BY <1>1, <1>5 DEF Inserts, Freed
  <1>7. Elems(r) \cap Elems(s) = {}
    BY <1>0, <1>6
  <1>8. \A n \in Elems(s) : m2[n].code = "data" /\ m2[n].flag = {}
    BY <1>4, <1>6
  <1>. QED
    BY <1>1, <1>3, <1>5, <1>7, <1>8 DEF Lists, Apart

(***************************************************************************)
(* What the list operators of Jumps see of the lists.                      *)
(***************************************************************************)
LEMMA ReachedIs ==
  ASSUME mem \in [Node -> Fields], NEW h, NEW p, Path(mem, h, p)
  PROVE  Reached(NextOf, h) = Elems(p)
  <1>1. NextOf \in [0 .. N -> 0 .. N] /\ NextOf[NULL] = NULL /\ \A n \in Node : NextOf[n] = mem[n].next
    <2>1. \A n \in 0 .. N : n # NULL => n \in Node /\ mem[n].next \in 0 .. N
      BY Numbers DEF Fields
    <2>. QED
      BY <2>1, Numbers DEF NextOf
  <1>2. \A i \in 1 .. Len(p) : NextOf[p[i]] = Nth(p, i + 1)
    BY <1>1, ElemsOf DEF Path
  <1>. QED
    BY <1>1, <1>2, ReachedOfList DEF Path

\* After gives nodes.
LEMMA AfterNodes ==
  ASSUME mem \in [Node -> Fields], NEW n \in Node, NEW codes
  PROVE  After(n, codes) \subseteq Node
  <1>. DEFINE onward == [m \in 0 .. N |-> IF m # NULL /\ mem[m].code \in codes THEN mem[m].next ELSE NULL]
  <1>1. \A m \in 0 .. N : m # NULL => m \in Node /\ mem[m].next \in 0 .. N
    BY Numbers DEF Fields
  <1>2. onward \in [0 .. N -> 0 .. N] /\ mem[n].next \in 0 .. N
    BY <1>1, Numbers, SMTT(20) DEF Fields
  <1>. QED
    BY <1>2, ReachedNodes DEF After

-----------------------------------------------------------------------------
(***************************************************************************)
(* Building.                                                               *)
(***************************************************************************)
LEMMA SlotsFit ==
  ASSUME mem \in [Node -> Fields], NEW v \in Seq(0 .. N), NEW S \in SUBSET Node, Filled(mem, v, S)
  PROVE  Len(v) \in 0 .. N /\ ((\E x \in Node : x \notin S) => Len(v) < N)
  <1>1. Len(v) \in Nat /\ \A i \in 1 .. Len(v) : v[i] \in S /\ mem[v[i]].slot = i - 1
    BY LenProperties DEF Filled
  <1>2. ASSUME NEW i \in 1 .. Len(v), NEW j \in 1 .. Len(v), v[i] = v[j] PROVE i = j
    <2>1. i - 1 = j - 1
      BY <1>1, <1>2
    <2>. QED
      BY <1>1, <2>1
  <1>3. \A i \in 1 .. Len(v) : v[i] \in Node
    BY <1>1
  <1>4. Len(v) =< N /\ ((\E x \in Node : \A i \in 1 .. Len(v) : v[i] # x) => Len(v) < N)
    BY <1>1, <1>2, <1>3, NoLonger
  <1>5. ASSUME NEW x \in Node, x \notin S PROVE Len(v) < N
    <2>1. \A i \in 1 .. Len(v) : v[i] # x
      BY <1>1, <1>5
    <2>. QED
      BY <1>4, <2>1
  <1>6. Len(v) \in 0 .. N
    BY <1>1, <1>4, Numbers
  <1>. QED
    BY <1>5, <1>6

\* The program has one node more, and that no user and no list of users.
Alike(m, m2, n) ==
  m2[n].code = m[n].code /\ m2[n].flag = m[n].flag /\ m2[n].to = m[n].to /\ m2[n].link = m[n].link

\* Node x, which was free, is no jump yet.
Newly(m, m2, x) ==
  m2[x].link = m[x].link /\ m2[x].flag \subseteq m[x].flag \cup {"use"} /\ m2[x].code # "reversed"

\* The program r is p with one more node.
Grows(p, r) ==
  \E x \in Node \ Elems(p) :
    /\ Elems(r) = Elems(p) \cup {x} /\ Newly(mem, mem', x)
    /\ \A n \in Node : n # x => Alike(mem, mem', n)

\* What all steps that add a node have in common.
Added(x) ==
  /\ mem'[x].next = NULL /\ Newly(mem, mem', x)
  /\ \A n \in Node : n # x => mem'[n] = IF n = tail THEN [mem[n] EXCEPT !.next = x] ELSE mem[n]
  /\ AddToList(x) /\ phase' = phase /\ split' = split
  /\ \/ x = list /\ list < N - 2 /\ list' = mem[list].next
     \/ x \in {PrologNode, EpilogNode} /\ list' = list
  /\ \/ mem'[x].code \notin Heads /\ blocks' = blocks
     \/ mem'[x].slot = Len(blocks) /\ blocks' = Append(blocks, x)

\* A node is added at the end of the program.
LEMMA Adding ==
  ASSUME mem \in [Node -> Fields], mem' \in [Node -> Fields], NEW p \in Seq(Node), NEW q \in Seq(Node),
         ListsInv(p, q), Building, NEW x \in Node, x \notin Elems(p), Added(x),
         x = EpilogNode => PrologNode \in Elems(p)
  PROVE  \E r, s \in Seq(Node) : ListsInv(r, s)' /\ Grows(p, r)
  <1>. PICK n : n = Len(p)
    OBVIOUS
  <1>. PICK k : k = n + 1
    OBVIOUS
  <1>0. /\ Lists(mem, head, list, p, q) /\ BuildInv(p, q) /\ n \in Nat /\ k \in 1 .. Len(p) + 1
        /\ Len(q) \in Nat /\ blocks \in Seq(0 .. N) /\ split \in Seq(0 .. N)
    BY LenProperties DEF ListsInv, Building
  <1>1. tail = Nth(p, n) /\ (n = 0 => tail = NULL) /\ (n > 0 => tail = p[n] /\ tail \in Elems(p) /\ tail \in Node)
    BY <1>0, NthOf DEF BuildInv, Nth
  <1>2. EpilogNode \notin Elems(p)
    <2>. SUFFICES ASSUME EpilogNode \in Elems(p) PROVE FALSE
      OBVIOUS
    <2>1. p[n] = EpilogNode /\ n > 0
      BY <1>0 DEF BuildInv, Whole, Elems
    <2>. QED
      BY <1>1, <2>1 DEF Building
  <1>. PICK s : s = IF x = list THEN Del(q, 1) ELSE q
    OBVIOUS
  <1>. PICK r : r = Ins(p, k, x)
    OBVIOUS
  <1>3. list \in 1 .. N - 2 /\ Len(q) = (N - 1) - list /\ \A j \in 1 .. Len(q) : q[j] = (list - 1) + j
    BY <1>0 DEF BuildInv
  <1>4. PrologNode \notin 1 .. N - 2 /\ EpilogNode \notin 1 .. N - 2
    BY Numbers DEF PrologNode, EpilogNode
  <1>5. Len(q) > 0 /\ 1 \in 1 .. Len(q) /\ q[1] = list
    BY <1>3, Numbers
  <1>6. x = list => list < N - 2 /\ list' = mem[list].next /\ list' = list + 1
    <2>. SUFFICES ASSUME x = list PROVE list < N - 2 /\ list' = mem[list].next /\ list' = list + 1
      OBVIOUS
    <2>1. list < N - 2 /\ list' = mem[list].next
      BY <1>3, <1>4 DEF Added
    <2>2. mem[q[1]].next = Nth(q, 1 + 1)
      BY <1>0, <1>5 DEF Lists, Path
    <2>3. 2 \in 1 .. Len(q) /\ q[2] = list + 1
      BY <1>3, <2>1, Numbers
    <2>. QED
      BY <1>5, <2>1, <2>2, <2>3 DEF Nth
  <1>7. x # list => x \in {PrologNode, EpilogNode} /\ list' = list
    BY DEF Added
  <1>8. \/ s = q /\ list' = list /\ x \notin Elems(q)
        \/ Len(q) > 0 /\ x = q[1] /\ s = Del(q, 1) /\ list' = mem[x].next
    <2>1. CASE x = list
      BY <1>5, <1>6, <2>1
    <2>2. CASE x # list
      <3>1. x \notin Elems(q)
        BY <1>3, <1>4, <1>7, <2>2, Numbers, SMTT(20) DEF Elems
      <3>. QED
        BY <1>7, <2>2, <3>1
    <2>. QED
      BY <2>1, <2>2
  <1>9. mem'[x].next = Nth(p, k)
    BY <1>0 DEF Added, Nth
  <1>10. ASSUME NEW y \in Node, y # x
         PROVE  /\ mem'[y].next = IF k > 1 /\ y = p[k - 1] THEN x ELSE mem[y].next
                /\ mem'[y].code = mem[y].code /\ mem'[y].flag = mem[y].flag /\ mem'[y].slot = mem[y].slot
    <2>1. mem'[y] = IF y = tail THEN [mem[y] EXCEPT !.next = x] ELSE mem[y]
      BY <1>10 DEF Added
    <2>2. y = tail <=> k > 1 /\ y = p[k - 1]
      BY <1>0, <1>1, Numbers
    <2>3. mem[y] \in Fields
      OBVIOUS
    <2>. QED
      BY <2>1, <2>2, <2>3 DEF Fields
  <1>11. /\ Inserts(p, k, x, r) /\ Freed(q, x, s)
         /\ Lists(mem', IF k = 1 THEN x ELSE head, list', r, s)
    <2>1. Joins(mem, mem', p, k, x)
      BY <1>0, <1>9, <1>10 DEF Joins
    <2>2. FromFree(mem, list, list', q, s, x)
      BY <1>8 DEF FromFree
    <2>3. Lists(mem, head, list, p, q)
      BY <1>0
    <2>4. /\ Inserts(p, k, x, Ins(p, k, x)) /\ Freed(q, x, s)
          /\ Lists(mem', IF k = 1 THEN x ELSE head, list', Ins(p, k, x), s)
      BY <2>1, <2>2, <2>3, ListsWith
    <2>. QED
      BY <2>4
  <1>12. head' = (IF k = 1 THEN x ELSE head) /\ tail' = x
    BY <1>0, <1>1, Numbers DEF Added, AddToList
  <1>13. /\ r \in Seq(Node) /\ Len(r) = k /\ Elems(r) = Elems(p) \cup {x} /\ r[k] = x
         /\ Elems(r) \subseteq Node /\ s \in Seq(Node)
    BY <1>0, <1>11, ElemsOf DEF Inserts, Freed
  <1>14. list' \in 1 .. N - 2 /\ Len(s) = (N - 1) - list' /\ \A j \in 1 .. Len(s) : s[j] = (list' - 1) + j
    <2>1. CASE x = list
      <3>1. Removes(q, 1, s)
        BY <1>0, <1>5, <2>1, DelRemoves DEF Lists, Path
      <3>2. Len(s) = Len(q) - 1 /\ \A j \in 1 .. Len(q) - 1 : s[j] = q[j + 1]
        BY <3>1 DEF Removes
      <3>3. list' \in 1 .. N - 2 /\ Len(s) = (N - 1) - list'
        BY <1>3, <1>6, <2>1, <3>2, Numbers
      <3>4. ASSUME NEW j \in 1 .. Len(s) PROVE s[j] = (list' - 1) + j
        <4>. PICK i : i = j + 1
          OBVIOUS
        <4>1. i \in 1 .. Len(q) /\ s[j] = q[i]
          BY <1>0, <3>2
        <4>2. q[i] = (list - 1) + i
          BY <1>3, <4>1
        <4>. QED
          BY <1>3, <1>6, <2>1, <4>1, <4>2
      <3>. QED
        BY <3>3, <3>4
    <2>2. CASE x # list
      BY <1>3, <1>7, <2>2
    <2>. QED
      BY <2>1, <2>2
  <1>15. Elems(r) \subseteq 1 .. list' - 1 \cup {PrologNode, EpilogNode}
    <2>1. Elems(p) \subseteq 1 .. list - 1 \cup {PrologNode, EpilogNode}
      BY <1>0 DEF BuildInv
    <2>. QED
      BY <1>3, <1>6, <1>7, <1>13, <2>1
  <1>16. tail' = Nth(r, Len(r))
    BY <1>0, <1>12, <1>13 DEF Nth
  <1>17. EpilogNode \in Elems(r) => Whole(r)
    BY <1>2, <1>13 DEF Whole
  <1>18. /\ blocks' \in Seq(0 .. N) /\ Len(blocks) \in Nat
         /\ Slotted(mem, blocks, Elems(p)) /\ Filled(mem, blocks, Elems(p))
    <2>1. x \in 0 .. N
      BY Numbers
    <2>2. Append(blocks, x) \in Seq(0 .. N) /\ Len(blocks) \in Nat
      BY <1>0, <2>1, AppendProperties, LenProperties
    <2>3. blocks' \in Seq(0 .. N)
      BY <1>0, <2>2 DEF Added
    <2>. QED
      BY <1>0, <2>2, <2>3 DEF BuildInv
  <1>19. ASSUME NEW y \in Node
         PROVE  InSlot(mem, blocks, y)' <=>
                  mem'[y].slot + 1 \in 1 .. Len(blocks') /\ blocks'[mem'[y].slot + 1] = y
    BY DEF InSlot
  <1>20. \A i \in 1 .. Len(blocks) : i \in 1 .. Len(blocks') /\ blocks'[i] = blocks[i]
    BY <1>18, AppendProperties DEF Added
  <1>21. Slotted(mem, blocks, Elems(r))'
    <2>1. ASSUME NEW y \in Elems(r), mem'[y].code \in Heads PROVE InSlot(mem, blocks, y)'
      <3>1. CASE y = x
        <4>1. mem'[x].slot = Len(blocks) /\ blocks' = Append(blocks, x)
          BY <2>1, <3>1 DEF Added
        <4>2. Len(blocks') = Len(blocks) + 1 /\ blocks'[Len(blocks) + 1] = x
          BY <1>18, <4>1, AppendProperties
        <4>3. mem'[y].slot + 1 = Len(blocks) + 1
          BY <3>1, <4>1
        <4>4. Len(blocks) + 1 \in 1 .. Len(blocks')
          BY <1>18, <4>2
        <4>. QED
          BY <1>19, <3>1, <4>2, <4>3, <4>4
      <3>2. CASE y # x
        <4>1. y \in Elems(p) /\ y \in Node
          BY <1>13, <3>2
        <4>2. mem'[y].slot = mem[y].slot /\ mem[y].code \in Heads
          BY <1>10, <2>1, <3>2, <4>1
        <4>3. InSlot(mem, blocks, y)
          BY <1>18, <4>1, <4>2 DEF Slotted
        <4>. QED
          BY <1>19, <1>20, <4>1, <4>2, <4>3 DEF InSlot
      <3>. QED
        BY <3>1, <3>2
    <2>. QED
      BY <1>18, <2>1 DEF Slotted
  <1>22. Filled(mem, blocks, Elems(r))'
    <2>1. ASSUME NEW i \in 1 .. Len(blocks') PROVE blocks'[i] \in Elems(r) /\ mem'[blocks'[i]].slot = i - 1
      <3>1. CASE i \in 1 .. Len(blocks)
        <4>1. blocks[i] \in Elems(p) /\ mem[blocks[i]].slot = i - 1
          BY <1>18, <3>1 DEF Filled
        <4>2. blocks[i] # x /\ blocks[i] \in Node /\ blocks[i] \in Elems(r)
          BY <1>13, <4>1
        <4>. QED
          BY <1>10, <1>20, <3>1, <4>1, <4>2
      <3>2. CASE i \notin 1 .. Len(blocks)
        <4>1. mem'[x].slot = Len(blocks) /\ blocks' = Append(blocks, x)
          BY <3>2 DEF Added
        <4>2. Len(blocks') = Len(blocks) + 1 /\ blocks'[Len(blocks) + 1] = x
          BY <1>18, <4>1, AppendProperties
        <4>3. i = Len(blocks) + 1
          BY <1>18, <3>2, <4>2
        <4>. QED
          BY <1>13, <1>18, <4>1, <4>2, <4>3
      <3>. QED
        BY <3>1, <3>2
    <2>. QED
      BY <2>1 DEF Filled
  <1>23. split' = <<>> /\ split' \in Seq(0 .. N) /\ phase' = "build"
    BY <1>0 DEF Added, BuildInv, Building
  <1>24. \A y \in {PrologNode, EpilogNode} \ Elems(r) : mem'[y].next = NULL
    <2>. SUFFICES ASSUME NEW y \in {PrologNode, EpilogNode} \ Elems(r) PROVE mem'[y].next = NULL
      OBVIOUS
    <2>1. y \in Node /\ y # x /\ y \notin Elems(p) /\ mem[y].next = NULL
      BY <1>0, <1>13, Numbers DEF BuildInv
    <2>2. k > 1 => p[k - 1] \in Elems(p)
      BY <1>0, ElemsOf
    <2>. QED
      BY <1>10, <2>1, <2>2
  <1>25. BuildInv(r, s)'
    BY <1>14, <1>15, <1>16, <1>17, <1>21, <1>22, <1>23, <1>24 DEF BuildInv
  <1>26. ListsInv(r, s)'
    BY <1>11, <1>12, <1>18, <1>23, <1>25 DEF ListsInv
  <1>27. Grows(p, r)
    <2>1. ASSUME NEW y \in Node, y # x PROVE Alike(mem, mem', y)
      <3>1. mem'[y] = IF y = tail THEN [mem[y] EXCEPT !.next = x] ELSE mem[y]
        BY <2>1 DEF Added
      <3>2. mem[y] \in Fields
        OBVIOUS
      <3>. QED
        BY <3>1, <3>2 DEF Fields, Alike
    <2>2. Newly(mem, mem', x)
      BY DEF Added
    <2>. QED
      BY <1>13, <2>1, <2>2 DEF Grows
  <1>. QED
    BY <1>13, <1>26, <1>27

\* One node changes, and the nodes stay sound.
LEMMA SoundWith ==
  ASSUME NEW m, Sound(m), NEW n \in Node, NEW rec \in Fields,
         "node" \in rec.flag => rec.to \in Node, rec.code = "epilog" <=> n = EpilogNode,
         n = PrologNode => rec.code = "prolog"
  PROVE  Sound([m EXCEPT ![n] = rec])
  BY Numbers DEF Sound

\* The codes, and that Kinds has none that begins a block.
LEMMA Codes ==
  /\ "data" \in Code /\ "label" \in Code /\ "label" \in Heads /\ "prolog" \in Heads /\ "epilog" \in Heads
  /\ Kinds \subseteq Code /\ "jmpr" \in Code /\ "branch" \in Code /\ "reversed" \in Code
  /\ \A k \in Kinds : k # "data" /\ k # "prolog" /\ k # "epilog" /\ k # "reversed" /\ k \notin Heads
  BY KindsAssumption DEF Code, Heads, Ends, Jump

\* The node that list gives.
LEMMA Fresh ==
  ASSUME Typed, NEW p \in Seq(Node), NEW q \in Seq(Node), ListsInv(p, q), Building, Room
  PROVE  /\ list \in Node /\ list < N - 2 /\ list \notin Elems(p) /\ list # tail
         /\ list # PrologNode /\ list # EpilogNode
         /\ mem[list] \in Fields /\ mem[list].code = "data" /\ mem[list].flag = {} /\ mem[list].next \in 0 .. N
  <1>1. Lists(mem, head, list, p, q) /\ BuildInv(p, q) /\ mem \in [Node -> Fields]
    BY DEF ListsInv, Building, Typed, Sound
  <1>2. /\ list \in 1 .. N - 2 /\ Len(q) = (N - 1) - list /\ \A j \in 1 .. Len(q) : q[j] = (list - 1) + j
        /\ Elems(p) \subseteq 1 .. list - 1 \cup {PrologNode, EpilogNode} /\ tail = Nth(p, Len(p))
    BY <1>1 DEF BuildInv
  <1>3. list \in Node /\ list < N - 2 /\ list # PrologNode /\ list # EpilogNode
    BY <1>2, Numbers, NAssumption DEF Room, PrologNode, EpilogNode
  <1>4. list \notin Elems(p)
    BY <1>2, <1>3
  <1>5. list # tail
    <2>1. tail # NULL => tail \in Elems(p)
      BY <1>2 DEF Nth, Elems
    <2>. QED
      BY <1>3, <1>4, <2>1, Numbers
  <1>6. list \in Elems(q)
    <2>1. 1 \in 1 .. Len(q) /\ q[1] = list
      BY <1>2, Numbers
    <2>. QED
      BY <2>1 DEF Elems
  <1>7. mem[list].code = "data" /\ mem[list].flag = {}
    BY <1>1, <1>6 DEF Lists
  <1>8. mem[list] \in Fields /\ mem[list].next \in 0 .. N
    BY <1>1, <1>3 DEF Fields
  <1>. QED
    BY <1>3, <1>4, <1>5, <1>7, <1>8

\* Behind the last node, whose next becomes x.
LEMMA LinkedIs ==
  ASSUME NEW m, Sound(m), NEW x \in Node, tail \in 0 .. N
  PROVE  /\ Sound(Linked(m, x))
         /\ \A n \in Node : Linked(m, x)[n] = IF n = tail THEN [m[n] EXCEPT !.next = x] ELSE m[n]
  <1>1. CASE tail = NULL
    BY <1>1, Numbers DEF Linked
  <1>2. CASE tail # NULL
    <2>1. tail \in Node
      BY <1>2, Numbers
    <2>. PICK rec : rec = [m[tail] EXCEPT !.next = x]
      OBVIOUS
    <2>2. m[tail] \in Fields /\ m \in [Node -> Fields]
      BY <2>1 DEF Sound
    <2>3. /\ rec \in Fields /\ rec.flag = m[tail].flag /\ rec.to = m[tail].to /\ rec.code = m[tail].code
      BY <2>2, Numbers DEF Fields
    <2>4. Linked(m, x) = [m EXCEPT ![tail] = rec]
      BY <1>2, <2>1, <2>2 DEF Linked
    <2>5. Sound([m EXCEPT ![tail] = rec])
      <3>1. /\ "node" \in rec.flag => rec.to \in Node
            /\ rec.code = "epilog" <=> tail = EpilogNode
            /\ tail = PrologNode => rec.code = "prolog"
        BY <2>1, <2>3 DEF Sound
      <3>. QED
        BY <2>1, <2>3, <3>1, SoundWith
    <2>. QED
      BY <2>2, <2>4, <2>5
  <1>. QED
    BY <1>1, <1>2

\* The types, when a node is added.
LEMMA TypedAdded ==
  ASSUME Typed, Sound(mem'), NEW x \in Node, Added(x), UNCHANGED <<prev, node>>
  PROVE  Typed'
  <1>1. list' \in 0 .. N /\ head' \in 0 .. N /\ tail' \in 0 .. N
    <2>1. list \in 0 .. N /\ head \in 0 .. N
      BY DEF Typed
    <2>2. x = list /\ list < N - 2 => mem[list].next \in 0 .. N
      BY DEF Typed, Sound, Fields
    <2>. QED
      BY <2>1, <2>2, Numbers DEF Added, AddToList
  <1>2. phase' = phase
    BY DEF Added
  <1>. QED
    BY <1>1, <1>2 DEF Typed

\* Insn: an instruction is added.
LEMMA InsnStep ==
  ASSUME Typed, NEW p \in Seq(Node), NEW q \in Seq(Node), ListsInv(p, q), NEW kind \in Kinds, Insn(kind)
  PROVE  Typed' /\ \E r, s \in Seq(Node) : ListsInv(r, s)' /\ Grows(p, r)
  <1>1. Building /\ Room
    BY DEF Insn
  <1>2. /\ list \in Node /\ list < N - 2 /\ list \notin Elems(p) /\ list # tail
        /\ list # PrologNode /\ list # EpilogNode
        /\ mem[list] \in Fields /\ mem[list].code = "data" /\ mem[list].flag = {} /\ mem[list].next \in 0 .. N
    BY <1>1, Fresh
  <1>a. PICK rec : rec = [mem[list] EXCEPT !.code = kind, !.next = NULL, !.to = IF kind = "jmpr" THEN Reg ELSE NULL]
    OBVIOUS
  <1>b. PICK m : m = [mem EXCEPT ![list] = rec]
    OBVIOUS
  <1>3. /\ rec \in Fields /\ rec.code = kind /\ rec.next = NULL /\ rec.flag = {} /\ rec.link = mem[list].link
        /\ kind \notin Heads /\ kind # "epilog" /\ kind # "reversed"
    <2>. PICK c : c = mem[list]
      OBVIOUS
    <2>. PICK to : to = IF kind = "jmpr" THEN Reg ELSE NULL
      OBVIOUS
    <2>1. /\ kind \in Code /\ kind \notin Heads /\ kind # "epilog" /\ kind # "reversed"
          /\ NULL \in 0 .. N /\ to \in 0 .. Reg
      BY Codes, Numbers DEF Reg
    <2>2. c \in Fields /\ c.flag = {} /\ rec = [c EXCEPT !.code = kind, !.next = NULL, !.to = to]
      BY <1>2, <1>a
    <2>3. rec \in Fields /\ rec.code = kind /\ rec.next = NULL /\ rec.flag = {} /\ rec.link = c.link
      BY <2>1, <2>2 DEF Fields
    <2>. QED
      BY <2>1, <2>3
  <1>4. mem \in [Node -> Fields] /\ Sound(mem) /\ tail \in 0 .. N
    BY DEF Typed, Sound
  <1>5. mem' = Linked(m, list)
    <2>1. [New(mem, kind) EXCEPT ![list].to = IF kind = "jmpr" THEN Reg ELSE NULL] = m
      BY <1>2, <1>4, <1>a, <1>b DEF New
    <2>. QED
      BY <2>1 DEF Insn
  <1>6. Sound(m)
    BY <1>2, <1>3, <1>4, <1>b, SoundWith
  <1>7. Sound(mem') /\ \A n \in Node : mem'[n] = IF n = tail THEN [m[n] EXCEPT !.next = list] ELSE m[n]
    <2>a. PICK m1 : m1 = Linked(m, list)
      OBVIOUS
    <2>1. Sound(m1) /\ \A n \in Node : m1[n] = IF n = tail THEN [m[n] EXCEPT !.next = list] ELSE m[n]
      BY <1>2, <1>4, <1>6, <2>a, LinkedIs
    <2>. QED
      BY <1>5, <2>a, <2>1
  <1>8. m[list] = rec /\ \A n \in Node : n # list => m[n] = mem[n]
    BY <1>2, <1>4, <1>b
  <1>9. Added(list)
    <2>0. mem'[list] = rec
      BY <1>2, <1>7, <1>8
    <2>1. mem'[list].next = NULL /\ mem'[list].code \notin Heads /\ Newly(mem, mem', list)
      BY <1>3, <2>0 DEF Newly
    <2>2. \A n \in Node : n # list => mem'[n] = IF n = tail THEN [mem[n] EXCEPT !.next = list] ELSE mem[n]
      BY <1>7, <1>8
    <2>3. blocks' = blocks /\ AddToList(list) /\ list' = mem[list].next /\ phase' = phase /\ split' = split
      BY DEF Insn
    <2>. QED
      BY <1>2, <2>1, <2>2, <2>3 DEF Added
  <1>10. mem' \in [Node -> Fields] /\ UNCHANGED <<prev, node>>
    BY <1>7 DEF Sound, Insn
  <1>11. Typed'
    BY <1>2, <1>7, <1>9, <1>10, TypedAdded
  <1>. QED
    BY <1>1, <1>2, <1>4, <1>9, <1>10, <1>11, Adding

\* A label is added with flag.
BlockAdded(flag) ==
  /\ mem' = [Linked(New(mem, "label"), list) EXCEPT ![list].slot = Len(blocks), ![list].flag = flag]
  /\ list' = mem[list].next /\ blocks' = Append(blocks, list) /\ AddToList(list)
  /\ UNCHANGED <<phase, prev, node, split, meant, tame>>

\* Forward and Label: a new label is added.
LEMMA BlockStep ==
  ASSUME Typed, NEW p \in Seq(Node), NEW q \in Seq(Node), ListsInv(p, q), Building, Room,
         NEW flag \in {{}, {"use"}},
         BlockAdded(flag)
  PROVE  Typed' /\ \E r, s \in Seq(Node) : ListsInv(r, s)' /\ Grows(p, r)
  <1>2. /\ list \in Node /\ list < N - 2 /\ list \notin Elems(p) /\ list # tail
        /\ list # PrologNode /\ list # EpilogNode
        /\ mem[list] \in Fields /\ mem[list].code = "data" /\ mem[list].flag = {} /\ mem[list].next \in 0 .. N
    BY Fresh
  <1>3. Len(blocks) \in 0 .. N
    <2>1. BuildInv(p, q) /\ blocks \in Seq(0 .. N) /\ Elems(p) \in SUBSET Node /\ mem \in [Node -> Fields]
      BY ElemsOf DEF ListsInv, Building, Typed, Sound
    <2>2. Filled(mem, blocks, Elems(p))
      BY <2>1 DEF BuildInv
    <2>. QED
      BY <2>1, <2>2, SlotsFit
  <1>a. PICK rec : rec = [mem[list] EXCEPT !.code = "label", !.next = NULL]
    OBVIOUS
  <1>b. PICK m : m = [mem EXCEPT ![list] = rec]
    OBVIOUS
  <1>c. PICK m1 : m1 = Linked(m, list)
    OBVIOUS
  <1>d. PICK rec2 : rec2 = [rec EXCEPT !.slot = Len(blocks), !.flag = flag]
    OBVIOUS
  <1>4. /\ rec \in Fields /\ rec.code = "label" /\ rec.next = NULL /\ rec.flag = {} /\ rec.code # "epilog"
        /\ rec.link = mem[list].link
    <2>. PICK c : c = mem[list]
      OBVIOUS
    <2>1. "label" \in Code /\ NULL \in 0 .. N
      BY Codes, Numbers
    <2>2. c \in Fields /\ c.flag = {} /\ rec = [c EXCEPT !.code = "label", !.next = NULL]
      BY <1>2, <1>a
    <2>. QED
      BY <2>1, <2>2 DEF Fields
  <1>5. /\ rec2 \in Fields /\ rec2.code = "label" /\ rec2.next = NULL /\ rec2.flag = flag /\ rec2.slot = Len(blocks)
        /\ "node" \notin rec2.flag /\ rec2.code # "epilog" /\ rec2.link = mem[list].link
    BY <1>3, <1>4, <1>d, Codes, Numbers DEF Fields
  <1>6. mem \in [Node -> Fields] /\ Sound(mem) /\ tail \in 0 .. N
    BY DEF Typed, Sound
  <1>7. Sound(m)
    BY <1>2, <1>4, <1>6, <1>b, SoundWith
  <1>8. Sound(m1) /\ \A n \in Node : m1[n] = IF n = tail THEN [m[n] EXCEPT !.next = list] ELSE m[n]
    BY <1>2, <1>6, <1>7, <1>c, LinkedIs
  <1>9. m[list] = rec /\ \A n \in Node : n # list => m[n] = mem[n]
    BY <1>2, <1>6, <1>b
  <1>10. m1[list] = rec /\ m1 \in [Node -> Fields]
    BY <1>2, <1>8, <1>9 DEF Sound
  <1>11. mem' = [m1 EXCEPT ![list] = rec2]
    <2>1. New(mem, "label") = m
      BY <1>2, <1>6, <1>a, <1>b DEF New
    <2>2. mem' = [m1 EXCEPT ![list].slot = Len(blocks), ![list].flag = flag]
      BY <1>c, <2>1 DEF BlockAdded
    <2>. QED
      BY <1>2, <1>10, <1>d, <2>2
  <1>12. Sound(mem')
    <2>1. Sound([m1 EXCEPT ![list] = rec2])
      BY <1>2, <1>5, <1>8, SoundWith
    <2>. QED
      BY <1>11, <2>1
  <1>13. mem'[list] = rec2 /\ \A n \in Node : n # list => mem'[n] = m1[n]
    BY <1>2, <1>10, <1>11
  <1>14. Added(list)
    <2>1. mem'[list].next = NULL /\ mem'[list].slot = Len(blocks) /\ Newly(mem, mem', list)
      BY <1>5, <1>13 DEF Newly
    <2>3. AddToList(list) /\ list' = mem[list].next /\ phase' = phase /\ split' = split
          /\ blocks' = Append(blocks, list)
      BY DEF BlockAdded
    <2>2. \A n \in Node : n # list => mem'[n] = IF n = tail THEN [mem[n] EXCEPT !.next = list] ELSE mem[n]
      BY <1>8, <1>9, <1>13
    <2>. QED
      BY <1>2, <2>1, <2>2, <2>3 DEF Added
  <1>15. mem' \in [Node -> Fields]
    BY <1>12 DEF Sound
  <1>16. UNCHANGED <<prev, node>>
    BY DEF BlockAdded
  <1>17. Typed'
    BY <1>2, <1>12, <1>14, <1>16, TypedAdded
  <1>. QED
    BY <1>2, <1>6, <1>14, <1>15, <1>17, Adding

\* Prolog and Epilog: the two nodes that are not free ones are added.
LEMMA PoleStep ==
  ASSUME Typed, NEW p \in Seq(Node), NEW q \in Seq(Node), ListsInv(p, q), Building,
         NEW x \in {PrologNode, EpilogNode}, x \notin Elems(p), x = EpilogNode => PrologNode \in Elems(p),
         mem' = [Linked(mem, x) EXCEPT ![x].slot = Len(blocks)], blocks' = Append(blocks, x),
         AddToList(x), UNCHANGED <<list, phase, prev, node, split, meant, tame>>
  PROVE  Typed' /\ \E r, s \in Seq(Node) : ListsInv(r, s)' /\ Grows(p, r)
  <1>1. x \in Node /\ mem \in [Node -> Fields] /\ Sound(mem) /\ tail \in 0 .. N /\ BuildInv(p, q)
        /\ Lists(mem, head, list, p, q)
    BY Numbers DEF Typed, Sound, ListsInv, Building
  <1>2. Len(blocks) \in 0 .. N
    <2>1. Filled(mem, blocks, Elems(p)) /\ blocks \in Seq(0 .. N) /\ Elems(p) \in SUBSET Node
      BY <1>1, ElemsOf DEF ListsInv, BuildInv
    <2>. QED
      BY <1>1, <2>1, SlotsFit
  <1>3. x # tail
    <2>1. tail = Nth(p, Len(p))
      BY <1>1 DEF BuildInv
    <2>. QED
      BY <1>1, <2>1, Numbers DEF Nth, Elems
  <1>. PICK m1 : m1 = Linked(mem, x)
    OBVIOUS
  <1>4. Sound(m1) /\ \A n \in Node : m1[n] = IF n = tail THEN [mem[n] EXCEPT !.next = x] ELSE mem[n]
    BY <1>1, LinkedIs
  <1>5. m1[x] = mem[x] /\ m1 \in [Node -> Fields] /\ mem[x] \in Fields
    BY <1>1, <1>3, <1>4 DEF Sound
  <1>. PICK rec : rec = [mem[x] EXCEPT !.slot = Len(blocks)]
    OBVIOUS
  <1>6. /\ rec \in Fields /\ rec.code = mem[x].code /\ rec.next = mem[x].next /\ rec.slot = Len(blocks)
        /\ rec.flag = mem[x].flag /\ rec.to = mem[x].to /\ rec.link = mem[x].link
    BY <1>2, <1>5 DEF Fields
  <1>7. mem' = [m1 EXCEPT ![x] = rec]
    BY <1>1, <1>5
  <1>8. Sound(mem')
    <2>1. /\ "node" \in rec.flag => rec.to \in Node
          /\ rec.code = "epilog" <=> x = EpilogNode
          /\ x = PrologNode => rec.code = "prolog"
      BY <1>1, <1>6 DEF Sound
    <2>2. Sound([m1 EXCEPT ![x] = rec])
      BY <1>1, <1>4, <1>6, <2>1, SoundWith
    <2>. QED
      BY <1>7, <2>2
  <1>9. mem'[x] = rec /\ \A n \in Node : n # x => mem'[n] = m1[n]
    BY <1>1, <1>5, <1>7
  <1>10. mem[x].next = NULL
    BY <1>1 DEF BuildInv
  <1>11. Added(x)
    <2>1. mem'[x].next = NULL /\ mem'[x].slot = Len(blocks)
      BY <1>6, <1>9, <1>10
    <2>3. Newly(mem, mem', x)
      <3>1. mem[x].code # "reversed"
        BY <1>1 DEF Sound
      <3>. QED
        BY <1>6, <1>9, <3>1 DEF Newly
    <2>2. \A n \in Node : n # x => mem'[n] = IF n = tail THEN [mem[n] EXCEPT !.next = x] ELSE mem[n]
      BY <1>4, <1>9
    <2>. QED
      BY <2>1, <2>2, <2>3 DEF Added
  <1>12. mem' \in [Node -> Fields]
    BY <1>8 DEF Sound
  <1>13. Typed'
    BY <1>1, <1>8, <1>11, TypedAdded
  <1>. QED
    BY <1>1, <1>11, <1>12, <1>13, Adding

(***************************************************************************)
(* A step that leaves the lists, the slots and the free nodes as they are. *)
(***************************************************************************)
Keeps(m, m2) ==
  \A n \in Node :
    /\ m2[n].next = m[n].next /\ m2[n].slot = m[n].slot /\ (m2[n].code \in Heads <=> m[n].code \in Heads)
    /\ m[n].code = "data" => m2[n].code = "data" /\ m2[n].flag = m[n].flag

\* Nodes may change in what the lists and the slots do not depend on.
LEMMA Kept ==
  ASSUME NEW m, NEW m2, Keeps(m, m2)
  PROVE  /\ \A h, f, p, q : Lists(m, h, f, p, q) => Lists(m2, h, f, p, q)
         /\ \A v : \A S \in SUBSET Node : Slotted(m, v, S) => Slotted(m2, v, S)
         /\ \A v : \A S \in SUBSET Node : Filled(m, v, S) => Filled(m2, v, S)
  <1>1. ASSUME NEW h, NEW f, NEW p, NEW q, Lists(m, h, f, p, q) PROVE Lists(m2, h, f, p, q)
    <2>1. /\ \A n \in Node : m2[n].next = m[n].next
          /\ \A n \in Node : m[n].code = "data" => m2[n].code = "data" /\ m2[n].flag = m[n].flag
      BY DEF Keeps
    <2>. QED
      BY <1>1, <2>1, ListsStay
  <1>2. ASSUME NEW v, NEW S \in SUBSET Node, Slotted(m, v, S) PROVE Slotted(m2, v, S)
    <2>1. ASSUME NEW n \in S, m2[n].code \in Heads PROVE InSlot(m2, v, n)
      <3>1. n \in Node /\ m[n].code \in Heads /\ m2[n].slot = m[n].slot
        BY <2>1 DEF Keeps
      <3>2. InSlot(m, v, n)
        BY <1>2, <3>1 DEF Slotted
      <3>. QED
        BY <3>1, <3>2 DEF InSlot
    <2>. QED
      BY <1>2, <2>1 DEF Slotted
  <1>3. ASSUME NEW v, NEW S \in SUBSET Node, Filled(m, v, S) PROVE Filled(m2, v, S)
    <2>1. ASSUME NEW k \in 1 .. Len(v) PROVE v[k] \in S /\ m2[v[k]].slot = k - 1
      <3>1. v[k] \in S /\ v[k] \in Node /\ m[v[k]].slot = k - 1
        BY <1>3 DEF Filled
      <3>. QED
        BY <3>1 DEF Keeps
    <2>. QED
      BY <2>1 DEF Filled
  <1>. QED
    BY <1>1, <1>2, <1>3

\* So they may while the program is built.
LEMMA BuildKept ==
  ASSUME Typed, NEW p \in Seq(Node), NEW q \in Seq(Node), ListsInv(p, q), phase = "build",
         Sound(mem'), Keeps(mem, mem'), UNCHANGED <<head, tail, list, blocks, phase, prev, node, split>>
  PROVE  Typed' /\ ListsInv(p, q)'
  <1>1. /\ Lists(mem, head, list, p, q) /\ BuildInv(p, q) /\ Elems(p) \in SUBSET Node
        /\ blocks \in Seq(0 .. N) /\ split \in Seq(0 .. N)
    BY ElemsOf DEF ListsInv
  <1>2. Lists(mem', head', list', p, q)
    BY <1>1, Kept
  <1>3. Slotted(mem', blocks', Elems(p)) /\ Filled(mem', blocks', Elems(p))
    BY <1>1, Kept DEF BuildInv
  <1>4. \A n \in {PrologNode, EpilogNode} \ Elems(p) : mem'[n].next = NULL
    BY <1>1, Numbers DEF Keeps, BuildInv
  <1>5. /\ list' = list /\ tail' = tail /\ split' = split /\ phase' = "build" /\ blocks' = blocks
        /\ head' = head /\ prev' = prev /\ node' = node
    OBVIOUS
  <1>6. BuildInv(p, q)'
    <2>1. /\ list \in 1 .. N - 2 /\ Len(q) = (N - 1) - list /\ \A j \in 1 .. Len(q) : q[j] = (list - 1) + j
          /\ Elems(p) \subseteq 1 .. list - 1 \cup {PrologNode, EpilogNode}
          /\ tail = Nth(p, Len(p)) /\ (EpilogNode \in Elems(p) => Whole(p)) /\ split = <<>>
      BY <1>1 DEF BuildInv
    <2>. QED
      BY <1>3, <1>4, <1>5, <2>1 DEF BuildInv
  <1>7. ListsInv(p, q)'
    BY <1>1, <1>2, <1>5, <1>6 DEF ListsInv
  <1>8. Typed'
    BY <1>5 DEF Typed
  <1>. QED
    BY <1>7, <1>8

\* An action on one node that does not touch what its place depends on.
LEMMA KeepsWith ==
  ASSUME NEW m, m \in [Node -> Fields], NEW n \in Node, NEW rec,
         rec.next = m[n].next, rec.slot = m[n].slot, rec.code \in Heads <=> m[n].code \in Heads,
         m[n].code # "data"
  PROVE  Keeps(m, [m EXCEPT ![n] = rec])
  BY DEF Keeps

\* Such changes can follow one another.
LEMMA KeepsThrough ==
  ASSUME NEW m, NEW m2, NEW m3, Keeps(m, m2), Keeps(m2, m3)
  PROVE  Keeps(m, m3)
  BY DEF Keeps

\* The same nodes use the same labels.
SameUse(m, m2) ==
  \A n \in Node : /\ m2[n].code = m[n].code /\ m2[n].to = m[n].to /\ m2[n].link = m[n].link
                  /\ "node" \in m2[n].flag <=> "node" \in m[n].flag
                  /\ m2[n].flag # m[n].flag => m[n].code = "label"

\* Label: jit_label and jit_indirect.
LEMMA LabelStep ==
  ASSUME Typed, NEW p \in Seq(Node), NEW q \in Seq(Node), ListsInv(p, q), NEW flag \in {{}, {"use"}}, Label(flag)
  PROVE  Typed' /\ \E r, s \in Seq(Node) : ListsInv(r, s)' /\ (Grows(p, r) \/ (r = p /\ SameUse(mem, mem')))
  <1>1. CASE tail # NULL /\ mem[tail].code = "label"
    <2>1. /\ mem' = [mem EXCEPT ![tail].flag = @ \cup flag] /\ phase = "build"
          /\ UNCHANGED <<head, tail, list, blocks, phase, prev, node, split>>
      BY <1>1 DEF Label, Building
    <2>2. tail \in Node /\ mem \in [Node -> Fields] /\ Sound(mem) /\ mem[tail] \in Fields
      BY <1>1, Numbers DEF Typed, Sound
    <2>a. PICK rec : rec = [mem[tail] EXCEPT !.flag = @ \cup flag]
      OBVIOUS
    <2>3. /\ rec \in Fields /\ rec.next = mem[tail].next /\ rec.slot = mem[tail].slot
          /\ rec.code = mem[tail].code /\ rec.to = mem[tail].to /\ rec.flag = mem[tail].flag \cup flag
          /\ rec.link = mem[tail].link
      BY <2>2, <2>a DEF Fields
    <2>4. mem' = [mem EXCEPT ![tail] = rec]
      BY <2>1, <2>2, <2>a
    <2>5. Keeps(mem, [mem EXCEPT ![tail] = rec])
      BY <1>1, <2>2, <2>3, KeepsWith
    <2>6. Sound([mem EXCEPT ![tail] = rec])
      <3>1. "node" \in rec.flag => rec.to \in Node
        BY <2>2, <2>3 DEF Sound
      <3>2. (rec.code = "epilog" <=> tail = EpilogNode) /\ (tail = PrologNode => rec.code = "prolog")
        BY <2>2, <2>3 DEF Sound
      <3>. QED
        BY <2>2, <2>3, <3>1, <3>2, SoundWith
    <2>7. Sound(mem') /\ Keeps(mem, mem')
      BY <2>4, <2>5, <2>6
    <2>8. Typed' /\ ListsInv(p, q)'
      BY <2>1, <2>7, BuildKept
    <2>9. SameUse(mem, mem')
      <3>1. mem'[tail] = rec /\ \A n \in Node : n # tail => mem'[n] = mem[n]
        BY <2>2, <2>4
      <3>. QED
        BY <1>1, <2>3, <3>1 DEF SameUse
    <2>. QED
      BY <2>8, <2>9
  <1>2. CASE ~(tail # NULL /\ mem[tail].code = "label")
    <2>1. Building /\ Room /\ BlockAdded(flag)
      BY <1>2 DEF Label, BlockAdded
    <2>. QED
      BY <2>1, BlockStep
  <1>. QED
    BY <1>1, <1>2

\* Forward: jit_forward and jit_link.
LEMMA ForwardStep ==
  ASSUME Typed, NEW p \in Seq(Node), NEW q \in Seq(Node), ListsInv(p, q), Forward
  PROVE  Typed' /\ \E r, s \in Seq(Node) : ListsInv(r, s)' /\ Grows(p, r)
  <1>1. Building /\ Room
    BY DEF Forward
  <1>2. /\ list \in Node /\ list # PrologNode /\ list # EpilogNode /\ list # tail
        /\ mem[list] \in Fields /\ mem[list].flag = {}
    BY <1>1, Fresh
  <1>3. Sound(mem) /\ mem \in [Node -> Fields] /\ tail \in 0 .. N
    BY DEF Typed, Sound
  <1>a. PICK rec : rec = [mem[list] EXCEPT !.code = "label", !.next = NULL]
    OBVIOUS
  <1>b. PICK m : m = [mem EXCEPT ![list] = rec]
    OBVIOUS
  <1>c. PICK m1 : m1 = Linked(m, list)
    OBVIOUS
  <1>4. rec \in Fields /\ rec.code = "label" /\ rec.flag = {} /\ rec.code # "epilog"
    <2>1. "label" \in Code /\ NULL \in 0 .. N
      BY Codes, Numbers
    <2>. QED
      BY <1>2, <1>a, <2>1 DEF Fields
  <1>5. Sound(m) /\ m[list] = rec
    <2>1. Sound([mem EXCEPT ![list] = rec])
      BY <1>2, <1>3, <1>4, SoundWith
    <2>. QED
      BY <1>2, <1>3, <1>b, <2>1
  <1>6. Sound(m1) /\ m1[list] = rec
    <2>1. Sound(m1) /\ \A n \in Node : m1[n] = IF n = tail THEN [m[n] EXCEPT !.next = list] ELSE m[n]
      BY <1>2, <1>3, <1>5, <1>c, LinkedIs
    <2>. QED
      BY <1>2, <1>5, <2>1
  <1>d. PICK rec2 : rec2 = [rec EXCEPT !.slot = Len(blocks)]
    OBVIOUS
  <1>7. rec2 = [rec EXCEPT !.slot = Len(blocks), !.flag = {}]
    BY <1>4, <1>d DEF Fields
  <1>8. mem' = [m1 EXCEPT ![list].slot = Len(blocks)]
    <2>1. New(mem, "label") = m
      BY <1>2, <1>3, <1>a, <1>b DEF New
    <2>. QED
      BY <1>c, <2>1 DEF Forward
  <1>9. mem' = [m1 EXCEPT ![list].slot = Len(blocks), ![list].flag = {}]
    <2>1. m1 \in [Node -> Fields]
      BY <1>6 DEF Sound
    <2>2. mem' = [m1 EXCEPT ![list] = rec2]
      BY <1>2, <1>6, <1>8, <1>d, <2>1
    <2>. QED
      BY <1>2, <1>6, <1>7, <2>1, <2>2
  <1>10. BlockAdded({})
    <2>1. New(mem, "label") = m
      BY <1>2, <1>3, <1>a, <1>b DEF New
    <2>2. mem' = [Linked(New(mem, "label"), list) EXCEPT ![list].slot = Len(blocks), ![list].flag = {}]
      BY <1>9, <1>c, <2>1
    <2>. QED
      BY <2>2 DEF BlockAdded, Forward
  <1>. QED
    BY <1>1, <1>10, BlockStep

\* PatchAt: a jump is patched to a label.
LEMMA PatchAtStep ==
  ASSUME Typed, NEW p \in Seq(Node), NEW q \in Seq(Node), ListsInv(p, q), NEW j \in Node, NEW l \in Node, PatchAt(j, l)
  PROVE  Typed' /\ ListsInv(p, q)'
  <1>1. /\ mem' = [mem EXCEPT ![j].flag = {"node"}, ![j].to = l, ![j].link = mem[l].link, ![l].link = j]
        /\ phase = "build" /\ UNCHANGED <<head, tail, list, blocks, phase, prev, node, split>>
    BY DEF PatchAt
  <1>2. mem[j].code \in {"movi", "branch", "jmpi"} /\ mem[l].code \in {"label", "epilog"} /\ j # l
    BY DEF PatchAt, Unpatched
  <1>3. mem \in [Node -> Fields] /\ Sound(mem) /\ mem[j] \in Fields /\ mem[l] \in Fields /\ mem[l].link \in 0 .. N
    BY DEF Typed, Sound, Fields
  <1>a. PICK rec : rec = [mem[j] EXCEPT !.flag = {"node"}, !.to = l, !.link = mem[l].link]
    OBVIOUS
  <1>b. PICK end : end = [mem[l] EXCEPT !.link = j]
    OBVIOUS
  <1>4. /\ rec \in Fields /\ rec.next = mem[j].next /\ rec.slot = mem[j].slot
        /\ rec.code = mem[j].code /\ rec.to = l
    <2>1. l \in 0 .. Reg
      BY Numbers DEF Reg
    <2>. QED
      BY <1>3, <1>a, <2>1 DEF Fields
  <1>5. /\ end \in Fields /\ end.next = mem[l].next /\ end.slot = mem[l].slot
        /\ end.code = mem[l].code /\ end.to = mem[l].to /\ end.flag = mem[l].flag
    <2>1. j \in 0 .. N
      BY Numbers
    <2>. QED
      BY <1>3, <1>b, <2>1 DEF Fields
  <1>c. PICK m : m = [mem EXCEPT ![j] = rec]
    OBVIOUS
  <1>6. m \in [Node -> Fields] /\ m[l] = mem[l]
    BY <1>2, <1>3, <1>4, <1>c
  <1>7. mem' = [m EXCEPT ![l] = end]
    BY <1>1, <1>2, <1>3, <1>a, <1>b, <1>c
  <1>8. Keeps(mem, m) /\ Sound(m)
    <2>1. rec.code # "epilog" /\ rec.code # "prolog" /\ rec.code # "data" /\ mem[j].code # "data"
      BY <1>2, <1>4
    <2>2. (rec.code = "epilog" <=> j = EpilogNode) /\ (j = PrologNode => rec.code = "prolog")
      BY <1>3, <1>4 DEF Sound
    <2>3. Keeps(mem, [mem EXCEPT ![j] = rec])
      BY <1>3, <1>4, <2>1, KeepsWith
    <2>4. Sound([mem EXCEPT ![j] = rec])
      BY <1>3, <1>4, <2>2, SoundWith
    <2>. QED
      BY <1>c, <2>3, <2>4
  <1>9. Keeps(m, mem') /\ Sound(mem')
    <2>1. m[l].code # "data"
      BY <1>2, <1>6
    <2>2. /\ (end.code = "epilog" <=> l = EpilogNode) /\ (l = PrologNode => end.code = "prolog")
          /\ ("node" \in end.flag => end.to \in Node)
      BY <1>3, <1>5 DEF Sound
    <2>3. Keeps(m, [m EXCEPT ![l] = end])
      BY <1>5, <1>6, <2>1, KeepsWith
    <2>4. Sound([m EXCEPT ![l] = end])
      BY <1>5, <1>8, <2>2, SoundWith
    <2>. QED
      BY <1>7, <2>3, <2>4
  <1>10. Keeps(mem, mem')
    BY <1>8, <1>9, KeepsThrough
  <1>. QED
    BY <1>1, <1>9, <1>10, BuildKept

\* Prolog: it is in the program at most once.
LEMMA PrologStep ==
  ASSUME Typed, NEW p \in Seq(Node), NEW q \in Seq(Node), ListsInv(p, q), Prolog
  PROVE  Typed' /\ \E r, s \in Seq(Node) : ListsInv(r, s)' /\ Grows(p, r)
  <1>1. Program = Elems(p)
    BY ReachedIs DEF Program, ListsInv, Lists, Typed, Sound
  <1>2. PrologNode \notin Elems(p) /\ PrologNode # EpilogNode
    BY <1>1, Numbers DEF Prolog
  <1>. QED
    BY <1>2, PoleStep DEF Prolog

\* Epilog: it is the last node of the program.
LEMMA EpilogStep ==
  ASSUME Typed, NEW p \in Seq(Node), NEW q \in Seq(Node), ListsInv(p, q), Epilog
  PROVE  Typed' /\ \E r, s \in Seq(Node) : ListsInv(r, s)' /\ Grows(p, r)
  <1>1. Program = Elems(p)
    BY ReachedIs DEF Program, ListsInv, Lists, Typed, Sound
  <1>2. PrologNode \in Elems(p)
    BY <1>1 DEF Epilog
  <1>3. EpilogNode \notin Elems(p)
    <2>1. BuildInv(p, q) /\ tail # EpilogNode
      BY DEF ListsInv, Epilog, Building
    <2>. SUFFICES ASSUME EpilogNode \in Elems(p) PROVE FALSE
      OBVIOUS
    <2>2. Whole(p) /\ tail = Nth(p, Len(p)) /\ p # <<>>
      BY <2>1, ElemsOf DEF BuildInv
    <2>3. Len(p) \in 1 .. Len(p)
      BY <2>2, ElemsOf, LenProperties
    <2>. QED
      BY <2>1, <2>2, <2>3 DEF Whole, Nth
  <1>. QED
    BY <1>2, <1>3, PoleStep DEF Epilog

\* All steps that build the program.
LEMMA BuildStep ==
  ASSUME Typed, NEW p \in Seq(Node), NEW q \in Seq(Node), ListsInv(p, q), Build
  PROVE  Typed' /\ \E r, s \in Seq(Node) : ListsInv(r, s)'
  <1>1. ASSUME NEW kind \in Kinds, Insn(kind) PROVE Typed' /\ \E r, s \in Seq(Node) : ListsInv(r, s)'
    BY <1>1, InsnStep
  <1>2. ASSUME NEW flag \in {{}, {"use"}}, Label(flag) PROVE Typed' /\ \E r, s \in Seq(Node) : ListsInv(r, s)'
    BY <1>2, LabelStep
  <1>3. ASSUME NEW j \in Node, NEW l \in Node, PatchAt(j, l)
        PROVE  Typed' /\ \E r, s \in Seq(Node) : ListsInv(r, s)'
    <2>1. Typed' /\ ListsInv(p, q)'
      BY <1>3, PatchAtStep
    <2>. QED
      BY <2>1
  <1>. QED
    BY <1>1, <1>2, <1>3, PrologStep, ForwardStep, EpilogStep DEF Build

(***************************************************************************)
(* The pool before anything is built.                                      *)
(***************************************************************************)
LEMMA InitLists ==
  ASSUME Init
  PROVE  Typed /\ \E p, q \in Seq(Node) : ListsInv(p, q)
  <1>a. PICK q : q = [j \in 1 .. N - 2 |-> j]
    OBVIOUS
  <1>b. PICK p : p = <<>>
    OBVIOUS
  <1>0. N - 2 \in Nat /\ PrologNode = N - 1 /\ EpilogNode = N
    BY Numbers DEF PrologNode, EpilogNode
  <1>1. q \in Seq(Node) /\ Len(q) = N - 2 /\ \A j \in 1 .. N - 2 : q[j] = j
    <2>1. \A j \in 1 .. N - 2 : j \in Node
      BY Numbers
    <2>2. q \in [1 .. N - 2 -> Node]
      BY <1>a, <2>1
    <2>. QED
      BY <1>0, <1>a, <2>2
  <1>2. p \in Seq(Node) /\ Len(p) = 0 /\ Elems(p) = {}
    BY <1>b DEF Elems
  <1>3. Elems(q) = 1 .. N - 2
    BY <1>1 DEF Elems
  <1>4. ASSUME NEW n \in Node
        PROVE  /\ mem[n] \in Fields /\ mem[n].flag = {}
               /\ mem[n].code = IF n = PrologNode THEN "prolog" ELSE IF n = EpilogNode THEN "epilog" ELSE "data"
               /\ mem[n].next = IF n < N - 2 THEN n + 1 ELSE NULL
    <2>1. /\ n = PrologNode => mem[n] = [Zeroed(NULL) EXCEPT !.code = "prolog"]
          /\ n = EpilogNode => mem[n] = [Zeroed(NULL) EXCEPT !.code = "epilog"]
          /\ n # PrologNode /\ n # EpilogNode => mem[n] = Zeroed(IF n = N - 2 THEN NULL ELSE n + 1)
      BY <1>0, Numbers DEF Init
    <2>2. \A x \in 0 .. N : Zeroed(x) \in Fields /\ Zeroed(x).flag = {} /\ Zeroed(x).code = "data" /\ Zeroed(x).next = x
      BY Codes, Numbers DEF Zeroed, Fields, Reg
    <2>3. "prolog" \in Code /\ "epilog" \in Code /\ NULL \in 0 .. N
      BY Numbers DEF Code, Heads, Ends
    <2>4. CASE n = PrologNode
      <3>1. Zeroed(NULL) \in Fields /\ Zeroed(NULL).flag = {} /\ Zeroed(NULL).next = NULL
        BY <2>2, <2>3
      <3>2. mem[n] \in Fields /\ mem[n].flag = {} /\ mem[n].code = "prolog" /\ mem[n].next = NULL
        BY <2>1, <2>3, <2>4, <3>1 DEF Fields
      <3>3. ~(n < N - 2)
        BY <1>0, <2>4, Numbers
      <3>. QED
        BY <2>4, <3>2, <3>3
    <2>5. CASE n = EpilogNode
      <3>1. Zeroed(NULL) \in Fields /\ Zeroed(NULL).flag = {} /\ Zeroed(NULL).next = NULL
        BY <2>2, <2>3
      <3>2. mem[n] \in Fields /\ mem[n].flag = {} /\ mem[n].code = "epilog" /\ mem[n].next = NULL
        BY <2>1, <2>3, <2>5, <3>1 DEF Fields
      <3>3. ~(n < N - 2) /\ n # PrologNode
        BY <1>0, <2>5, Numbers
      <3>. QED
        BY <2>5, <3>2, <3>3
    <2>6. CASE n # PrologNode /\ n # EpilogNode
      <3>a. PICK x : x = IF n = N - 2 THEN NULL ELSE n + 1
        OBVIOUS
      <3>1. n =< N - 2 /\ x \in 0 .. N
        BY <1>0, <2>6, <3>a, Numbers
      <3>2. mem[n] = Zeroed(x)
        BY <2>1, <2>6, <3>a
      <3>3. x = IF n < N - 2 THEN n + 1 ELSE NULL
        BY <1>0, <3>1, <3>a, Numbers
      <3>. QED
        BY <2>2, <2>6, <3>1, <3>2, <3>3
    <2>. QED
      BY <2>4, <2>5, <2>6
  <1>5. Sound(mem)
    <2>1. mem \in [Node -> Fields]
      <3>1. mem = [n \in Node |-> mem[n]]
        BY DEF Init
      <3>. QED
        BY <1>4, <3>1
    <2>. QED
      BY <1>0, <1>4, <2>1, Numbers DEF Sound
  <1>6. Typed
    <2>1. 1 \in 0 .. N /\ NULL \in 0 .. N
      BY Numbers
    <2>. QED
      BY <1>5, <2>1 DEF Typed, Init
  <1>7. Lists(mem, head, list, p, q)
    <2>1. Path(mem, head, p)
      BY <1>2 DEF Init, Path, Once, Nth
    <2>2. Path(mem, list, q)
      <3>1. Once(q)
        BY <1>1 DEF Once
      <3>2. list = Nth(q, 1)
        BY <1>0, <1>1, Numbers DEF Init, Nth
      <3>3. ASSUME NEW i \in 1 .. Len(q) PROVE mem[q[i]].next = Nth(q, i + 1)
        <4>1. i \in 1 .. N - 2 /\ q[i] = i /\ i \in Node
          BY <1>1, Numbers
        <4>2. mem[i].next = IF i < N - 2 THEN i + 1 ELSE NULL
          BY <1>4, <4>1
        <4>3. i < N - 2 => i + 1 \in 1 .. Len(q) /\ q[i + 1] = i + 1
          BY <1>0, <1>1, <4>1
        <4>4. ~(i < N - 2) => i + 1 \notin 1 .. Len(q)
          BY <1>0, <1>1, <4>1
        <4>. QED
          BY <4>1, <4>2, <4>3, <4>4 DEF Nth
      <3>. QED
        BY <1>1, <3>1, <3>2, <3>3 DEF Path
    <2>3. ASSUME NEW n \in Elems(q) PROVE mem[n].code = "data" /\ mem[n].flag = {}
      <3>1. n \in Node /\ n # PrologNode /\ n # EpilogNode
        BY <1>0, <1>3, <2>3, Numbers
      <3>. QED
        BY <1>4, <3>1
    <2>. QED
      BY <1>2, <2>1, <2>2, <2>3 DEF Lists, Apart
  <1>8. BuildInv(p, q)
    <2>1. list = 1 /\ tail = NULL /\ blocks = <<>> /\ split = <<>>
      BY DEF Init
    <2>2. list \in 1 .. N - 2 /\ Len(q) = (N - 1) - list /\ \A j \in 1 .. Len(q) : q[j] = (list - 1) + j
      BY <1>0, <1>1, <2>1, Numbers
    <2>3. \A n \in {PrologNode, EpilogNode} \ Elems(p) : mem[n].next = NULL
      <3>1. ~(PrologNode < N - 2) /\ ~(EpilogNode < N - 2)
        BY <1>0, Numbers
      <3>. QED
        BY <1>4, <3>1, Numbers
    <2>4. Slotted(mem, blocks, Elems(p)) /\ Filled(mem, blocks, Elems(p))
      BY <1>2, <2>1 DEF Slotted, Filled
    <2>5. tail = Nth(p, Len(p))
      BY <1>2, <2>1 DEF Nth
    <2>. QED
      BY <1>2, <2>1, <2>2, <2>3, <2>4, <2>5 DEF BuildInv
  <1>9. ListsInv(p, q)
    BY <1>7, <1>8 DEF ListsInv, Init
  <1>. QED
    BY <1>1, <1>2, <1>6, <1>9

-----------------------------------------------------------------------------
(***************************************************************************)
(* Taking a node out of the program.                                       *)
(***************************************************************************)
LEMMA WholeWithout ==
  ASSUME NEW p \in Seq(Node), Whole(p), NEW k \in 1 .. Len(p), NEW r, Removes(p, k, r),
         p[k] # PrologNode, p[k] # EpilogNode
  PROVE  Whole(r)
  <1>1. Len(p) \in Nat /\ k # Len(p) /\ k \in 1 .. Len(p)
    BY LenProperties DEF Whole
  <1>2. Len(r) = Len(p) - 1 /\ Elems(r) = Elems(p) \ {p[k]} /\ \A i \in k .. Len(p) - 1 : r[i] = p[i + 1]
    BY DEF Removes
  <1>3. PICK j : j = Len(p) - 1
    OBVIOUS
  <1>4. j \in k .. Len(p) - 1 /\ j + 1 = Len(p)
    BY <1>1, <1>3
  <1>5. r[Len(r)] = p[Len(p)]
    BY <1>2, <1>3, <1>4
  <1>. QED
    BY <1>2, <1>5 DEF Whole

\* Only the links change, and where jumps go.
Relinks(m, m2) ==
  \A n \in Node : /\ m2[n].next = m[n].next /\ m2[n].slot = m[n].slot
                  /\ m2[n].code = m[n].code /\ m2[n].flag = m[n].flag

\* Off changes links only.
LEMMA OffIs ==
  ASSUME Sound(mem), NEW l, NEW n \in Node
  PROVE  Sound(Off(l, n)) /\ Relinks(mem, Off(l, n))
  <1>a. PICK x : x = CHOOSE y \in {l} \cup Users(l) : mem[y].link = n
    OBVIOUS
  <1>1. mem \in [Node -> Fields] /\ mem[n].link \in 0 .. N
    BY DEF Sound, Fields
  <1>2. Off(l, n) = [mem EXCEPT ![x].link = mem[n].link]
    BY <1>a DEF Off
  <1>3. CASE x \notin Node
    <2>1. Off(l, n) = mem
      BY <1>1, <1>2, <1>3
    <2>. QED
      BY <2>1 DEF Relinks
  <1>4. CASE x \in Node
    <2>a. PICK rec : rec = [mem[x] EXCEPT !.link = mem[n].link]
      OBVIOUS
    <2>1. /\ rec \in Fields /\ rec.code = mem[x].code /\ rec.flag = mem[x].flag /\ rec.to = mem[x].to
          /\ rec.next = mem[x].next /\ rec.slot = mem[x].slot
      BY <1>1, <1>4, <2>a DEF Fields
    <2>2. Off(l, n) = [mem EXCEPT ![x] = rec]
      BY <1>1, <1>2, <1>4, <2>a
    <2>3. Sound([mem EXCEPT ![x] = rec])
      <3>1. /\ "node" \in rec.flag => rec.to \in Node
            /\ rec.code = "epilog" <=> x = EpilogNode
            /\ x = PrologNode => rec.code = "prolog"
        BY <1>4, <2>1 DEF Sound
      <3>. QED
        BY <1>4, <2>1, <3>1, SoundWith
    <2>4. Relinks(mem, [mem EXCEPT ![x] = rec])
      BY <1>1, <1>4, <2>1 DEF Relinks
    <2>. QED
      BY <2>2, <2>3, <2>4
  <1>. QED
    BY <1>3, <1>4

\* w is m after x, behind a, has been deleted.
FreedIn(m, a, x, w) ==
  /\ w[x] = Zeroed(list)
  /\ \A n \in Node : n # x => w[n] = IF n = a THEN [m[n] EXCEPT !.next = m[x].next] ELSE m[n]

\* What Without changes.
LEMMA WithoutIs ==
  ASSUME NEW m, Sound(m), NEW a \in Node, NEW x \in Node, list \in 0 .. N, x # PrologNode, x # EpilogNode
  PROVE  Sound(Without(m, a, x)) /\ FreedIn(m, a, x, Without(m, a, x))
  <1>1. m \in [Node -> Fields] /\ m[a] \in Fields /\ m[x].next \in 0 .. N
    BY DEF Sound, Fields
  <1>a. PICK rec : rec = [m[a] EXCEPT !.next = m[x].next]
    OBVIOUS
  <1>2. /\ rec \in Fields /\ rec.code = m[a].code /\ rec.flag = m[a].flag /\ rec.to = m[a].to
    BY <1>1, <1>a DEF Fields
  <1>b. PICK m1 : m1 = [m EXCEPT ![a] = rec]
    OBVIOUS
  <1>c. PICK z : z = Zeroed(list)
    OBVIOUS
  <1>3. Sound(m1)
    <2>1. /\ "node" \in rec.flag => rec.to \in Node
          /\ rec.code = "epilog" <=> a = EpilogNode
          /\ a = PrologNode => rec.code = "prolog"
      BY <1>2 DEF Sound
    <2>2. Sound([m EXCEPT ![a] = rec])
      BY <1>2, <2>1, SoundWith
    <2>. QED
      BY <1>b, <2>2
  <1>4. z \in Fields /\ z.flag = {} /\ z.code = "data"
    BY <1>c, Codes, Numbers DEF Zeroed, Fields, Reg
  <1>5. Without(m, a, x) = [m1 EXCEPT ![x] = z]
    BY <1>1, <1>a, <1>b, <1>c DEF Without
  <1>6. Sound([m1 EXCEPT ![x] = z])
    <2>1. "node" \notin z.flag /\ z.code # "epilog"
      BY <1>4
    <2>. QED
      BY <1>3, <1>4, <2>1, SoundWith
  <1>7. m1 \in [Node -> Fields]
    BY <1>3 DEF Sound
  <1>d. PICK w : w = [m1 EXCEPT ![x] = z]
    OBVIOUS
  <1>8. w[x] = z /\ \A n \in Node : n # x => w[n] = m1[n]
    BY <1>7, <1>d
  <1>9. \A n \in Node : m1[n] = IF n = a THEN rec ELSE m[n]
    BY <1>1, <1>b
  <1>10. \A n \in Node : n # x => w[n] = IF n = a THEN [m[n] EXCEPT !.next = m[x].next] ELSE m[n]
    BY <1>8, <1>9, <1>a
  <1>11. FreedIn(m, a, x, w)
    BY <1>8, <1>10, <1>c DEF FreedIn
  <1>. QED
    BY <1>5, <1>6, <1>11, <1>d

\* Node p[k] is freed, and m2 has the lists and slots of what remains.
Before(p, k) == IF k = 1 THEN p[1] ELSE p[k - 1]

\* m2 has the codes and slots of m, but for x.
Spares(m, m2, x) ==
  \A n \in Node : n # x => m2[n].slot = m[n].slot /\ (m2[n].code \in Heads <=> m[n].code \in Heads)

\* A node behind prev, or at the head, is deleted.
LEMMA Freeing ==
  ASSUME Sound(mem), list \in 0 .. N, NEW p, NEW q, Lists(mem, head, list, p, q), Whole(p), NEW k \in 1 .. Len(p),
         p[k] # PrologNode, p[k] # EpilogNode,
         NEW m, Sound(m), Relinks(mem, m), NEW m2, Keeps(Without(m, Before(p, k), p[k]), m2)
  PROVE  /\ Removes(p, k, Del(p, k)) /\ Whole(Del(p, k))
         /\ Ins(q, 1, p[k]) \in Seq(Node) /\ Elems(Ins(q, 1, p[k])) = Elems(q) \cup {p[k]}
         /\ Lists(m2, IF k = 1 THEN mem[p[k]].next ELSE head, p[k], Del(p, k), Ins(q, 1, p[k]))
         /\ Spares(mem, m2, p[k])
  <1>a. PICK x : x = p[k]
    OBVIOUS
  <1>b. PICK a : a = Before(p, k)
    OBVIOUS
  <1>c. PICK w : w = Without(m, a, x)
    OBVIOUS
  <1>1. p \in Seq(Node) /\ Len(p) \in Nat /\ k \in 1 .. Len(p)
    BY LenProperties DEF Lists, Path
  <1>2. x \in Node /\ a \in Node /\ (k = 1 => a = x) /\ (k > 1 => a = p[k - 1])
    <2>1. k # 1 => k > 1 /\ k - 1 \in 1 .. Len(p)
      BY <1>1
    <2>2. k = 1 \/ k > 1
      BY <1>1
    <2>. QED
      BY <1>1, <1>a, <1>b, <2>1, <2>2, ElemsOf DEF Before
  <1>3. /\ w[x] = Zeroed(list)
        /\ \A n \in Node : n # x => w[n] = IF n = a THEN [m[n] EXCEPT !.next = m[x].next] ELSE m[n]
    <2>1. x # PrologNode /\ x # EpilogNode
      BY <1>a
    <2>2. FreedIn(m, a, x, w)
      BY <1>2, <1>c, <2>1, WithoutIs
    <2>. QED
      BY <2>2 DEF FreedIn
  <1>4. ASSUME NEW n \in Node, n # x
        PROVE  /\ w[n].next = IF n = a THEN mem[x].next ELSE mem[n].next
               /\ w[n].slot = mem[n].slot /\ w[n].code = mem[n].code /\ w[n].flag = mem[n].flag
    <2>1. m[n] \in Fields /\ m[x].next = mem[x].next
      BY <1>2 DEF Sound, Relinks
    <2>2. m[n].next = mem[n].next /\ m[n].slot = mem[n].slot /\ m[n].code = mem[n].code /\ m[n].flag = mem[n].flag
      BY DEF Relinks
    <2>3. w[n] = IF n = a THEN [m[n] EXCEPT !.next = m[x].next] ELSE m[n]
      BY <1>3, <1>4
    <2>. QED
      BY <2>1, <2>2, <2>3 DEF Fields
  <1>5. Keeps(w, m2)
    BY <1>a, <1>b, <1>c
  <1>6. m2[x].next = list /\ m2[x].code = "data" /\ m2[x].flag = {}
    <2>1. w[x].next = list /\ w[x].code = "data" /\ w[x].flag = {}
      BY <1>3 DEF Zeroed
    <2>. QED
      BY <1>2, <1>5, <2>1 DEF Keeps
  <1>7. ASSUME NEW n \in Node, n # x
        PROVE  /\ m2[n].next = IF k > 1 /\ n = p[k - 1] THEN mem[x].next ELSE mem[n].next
               /\ mem[n].code = "data" => m2[n].code = "data" /\ m2[n].flag = mem[n].flag
               /\ m2[n].slot = mem[n].slot /\ (m2[n].code \in Heads <=> mem[n].code \in Heads)
    <2>1. n = a <=> k > 1 /\ n = p[k - 1]
      <3>1. k = 1 \/ k > 1
        BY <1>1
      <3>2. ~(k = 1 /\ k > 1)
        BY <1>1
      <3>. QED
        BY <1>2, <1>7, <3>1, <3>2
    <2>2. /\ m2[n].next = w[n].next /\ m2[n].slot = w[n].slot /\ (m2[n].code \in Heads <=> w[n].code \in Heads)
          /\ w[n].code = "data" => m2[n].code = "data" /\ m2[n].flag = w[n].flag
      BY <1>5 DEF Keeps
    <2>. QED
      BY <1>4, <1>7, <2>1, <2>2
  <1>8. Leaves(mem, m2, list, p, k)
    BY <1>1, <1>6, <1>7, <1>a DEF Leaves
  <1>9. /\ Removes(p, k, Del(p, k)) /\ Inserts(q, 1, p[k], Ins(q, 1, p[k]))
        /\ Lists(m2, IF k = 1 THEN mem[p[k]].next ELSE head, p[k], Del(p, k), Ins(q, 1, p[k]))
    BY <1>8, ListsWithout
  <1>10. Whole(Del(p, k))
    BY <1>1, <1>9, WholeWithout
  <1>11. Spares(mem, m2, p[k])
    BY <1>7, <1>a DEF Spares
  <1>. QED
    BY <1>9, <1>10, <1>11 DEF Inserts

\* The slots of the other nodes are as before.
LEMMA SlotsSpared ==
  ASSUME NEW m, NEW m2, NEW x, Spares(m, m2, x), NEW v, NEW S \in SUBSET Node, Slotted(m, v, S)
  PROVE  Slotted(m2, v, S \ {x})
  <1>1. ASSUME NEW n \in S \ {x}, m2[n].code \in Heads PROVE InSlot(m2, v, n)
    <2>1. m[n].code \in Heads /\ m2[n].slot = m[n].slot
      BY <1>1 DEF Spares
    <2>2. InSlot(m, v, n)
      BY <2>1 DEF Slotted
    <2>. QED
      BY <2>1, <2>2 DEF InSlot
  <1>. QED
    BY <1>1 DEF Slotted

-----------------------------------------------------------------------------
(***************************************************************************)
(* thread_jumps.                                                           *)
(***************************************************************************)
LEMMA RelinksKeeps ==
  ASSUME NEW m, NEW m2, Relinks(m, m2)
  PROVE  Keeps(m, m2)
  BY DEF Relinks, Keeps

\* What the loop looks at is in the program if it is an instruction.
LEMMA AtNode ==
  ASSUME NEW p \in Seq(Node), NEW q \in Seq(Node), Lists(mem, head, list, p, q), ThreadInv(p, q),
         node # NULL, mem[node].code # "data"
  PROVE  \E k \in 1 .. Len(p) : node = p[k] /\ node \in Node /\ (prev = node \/ (k > 1 /\ prev = p[k - 1]))
  <1>1. node \in Elems(p)
    BY DEF ThreadInv, Lists
  <1>2. PICK k \in 1 .. Len(p) : p[k] = node
    BY <1>1, ElemsOf
  <1>3. node \in Node
    BY <1>1, ElemsOf
  <1>. QED
    BY <1>2, <1>3 DEF ThreadInv

\* Stop: an assertion or a crash.
LEMMA StopStep ==
  ASSUME Typed, NEW p \in Seq(Node), NEW q \in Seq(Node), ListsInv(p, q), NEW how \in {"failed", "crashed"}, Stop(how)
  PROVE  Typed' /\ ListsInv(p, q)'
  <1>1. phase' = how /\ UNCHANGED <<mem, head, tail, list, blocks, prev, node, split, meant, tame>>
    BY DEF Stop
  <1>2. Typed'
    BY <1>1 DEF Typed
  <1>3. Lists(mem', head', list', p, q) /\ blocks' \in Seq(0 .. N) /\ split' \in Seq(0 .. N)
    BY <1>1 DEF ListsInv
  <1>4. phase' # "build" /\ phase' # "thread" /\ phase' # "labels" /\ phase' # "split" /\ phase' # "done"
    BY <1>1
  <1>. QED
    BY <1>2, <1>3, <1>4 DEF ListsInv

\* Nodes may change so in thread_jumps as well.
LEMMA ThreadKept ==
  ASSUME Typed, NEW p \in Seq(Node), NEW q \in Seq(Node), ListsInv(p, q), phase = "thread",
         Sound(mem'), Keeps(mem, mem'), UNCHANGED <<head, tail, list, blocks, phase, prev, node, split>>
  PROVE  Typed' /\ ListsInv(p, q)'
  <1>1. /\ Lists(mem, head, list, p, q) /\ ThreadInv(p, q) /\ Elems(p) \in SUBSET Node
        /\ blocks \in Seq(0 .. N) /\ split \in Seq(0 .. N)
    BY ElemsOf DEF ListsInv
  <1>2. Lists(mem', head', list', p, q)
    BY <1>1, Kept
  <1>3. Slotted(mem', blocks', Elems(p))
    BY <1>1, Kept DEF ThreadInv
  <1>4. /\ list' = list /\ tail' = tail /\ split' = split /\ phase' = "thread" /\ blocks' = blocks
        /\ head' = head /\ prev' = prev /\ node' = node
    OBVIOUS
  <1>5. ThreadInv(p, q)'
    <2>1. /\ Whole(p) /\ split = <<>> /\ node \in {NULL} \cup Elems(p) \cup Elems(q)
          /\ \A i \in 1 .. Len(p) : node = p[i] => prev = node \/ (i > 1 /\ prev = p[i - 1])
      BY <1>1 DEF ThreadInv
    <2>. QED
      BY <1>3, <1>4, <2>1 DEF ThreadInv
  <1>6. ListsInv(p, q)'
    BY <1>1, <1>2, <1>4, <1>5 DEF ListsInv
  <1>7. Typed'
    BY <1>4 DEF Typed
  <1>. QED
    BY <1>6, <1>7

\* NextNode: prev follows node.
LEMMA NextNodeStep ==
  ASSUME Typed, NEW p \in Seq(Node), NEW q \in Seq(Node), ListsInv(p, q), NextNode
  PROVE  Typed' /\ ListsInv(p, q)'
  <1>1. /\ phase = "thread" /\ node # NULL /\ prev' = node /\ node' = mem[node].next /\ phase' = "thread"
        /\ mem' = mem /\ head' = head /\ tail' = tail /\ list' = list /\ blocks' = blocks /\ split' = split
    BY DEF NextNode, Threading
  <1>2. /\ Lists(mem, head, list, p, q) /\ ThreadInv(p, q) /\ blocks \in Seq(0 .. N) /\ split \in Seq(0 .. N)
    BY <1>1 DEF ListsInv
  <1>3. node \in Elems(p) \cup Elems(q) /\ node \in Node
    BY <1>1, <1>2, ElemsOf DEF ThreadInv
  <1>4. mem[node].next \in 0 .. N
    BY <1>3 DEF Typed, Sound, Fields
  <1>5. Typed'
    BY <1>1, <1>3, <1>4, Numbers DEF Typed
  <1>6. Whole(p) /\ Slotted(mem, blocks, Elems(p)) /\ split = <<>>
    BY <1>2 DEF ThreadInv
  <1>7. /\ node' \in {NULL} \cup Elems(p) \cup Elems(q)
        /\ \A i \in 1 .. Len(p) : node' = p[i] => i > 1 /\ node = p[i - 1]
    <2>1. CASE node \in Elems(p)
      <3>1. PICK k \in 1 .. Len(p) : p[k] = node
        BY <2>1, ElemsOf
      <3>2. mem[node].next = Nth(p, k + 1)
        BY <1>2, <3>1 DEF Lists, Path
      <3>3. Once(p)
        BY <1>2 DEF Lists, Path
      <3>4. node' = NULL \/ (k + 1 \in 1 .. Len(p) /\ node' = p[k + 1])
        BY <1>1, <3>2 DEF Nth
      <3>5. ASSUME NEW i \in 1 .. Len(p), node' = p[i] PROVE i > 1 /\ node = p[i - 1]
        <4>1. p[i] \in Node
          BY ElemsOf
        <4>2. i = k + 1
          BY <3>3, <3>4, <3>5, <4>1, Numbers DEF Once
        <4>. QED
          BY <3>1, <4>2
      <3>6. node' # NULL => node' \in Elems(p)
        BY <3>4, ElemsOf
      <3>. QED
        BY <3>5, <3>6
    <2>2. CASE node \in Elems(q)
      <3>1. PICK k \in 1 .. Len(q) : q[k] = node
        BY <2>2, ElemsOf
      <3>2. mem[node].next = Nth(q, k + 1)
        BY <1>2, <3>1 DEF Lists, Path
      <3>3. node' = NULL \/ node' \in Elems(q)
        BY <1>1, <3>2, ElemsOf DEF Nth
      <3>4. \A i \in 1 .. Len(p) : node' # p[i]
        BY <1>2, <3>3, ElemsOf, Numbers DEF Lists, Apart
      <3>. QED
        BY <3>3, <3>4
    <2>. QED
      BY <1>3, <2>1, <2>2
  <1>8. ThreadInv(p, q)'
    <2>1. Slotted(mem', blocks', Elems(p)) /\ split' = <<>>
      BY <1>1, <1>6
    <2>2. \A i \in 1 .. Len(p) : node' = p[i] => prev' = node' \/ (i > 1 /\ prev' = p[i - 1])
      BY <1>1, <1>7
    <2>. QED
      BY <1>6, <1>7, <2>1, <2>2 DEF ThreadInv
  <1>9. Lists(mem', head', list', p, q)
    BY <1>1, <1>2
  <1>10. ListsInv(p, q)'
    BY <1>1, <1>2, <1>8, <1>9 DEF ListsInv
  <1>. QED
    BY <1>5, <1>10

\* RedundantJump: a jump to what follows it is deleted.
LEMMA RedundantStep ==
  ASSUME Typed, NEW p \in Seq(Node), NEW q \in Seq(Node), ListsInv(p, q), RedundantJump
  PROVE  /\ Typed'
         /\ \E r, s \in Seq(Node) : ListsInv(r, s)' /\ (phase' = "thread" => Elems(r) = Elems(p) \ {node})
         /\ phase' = "thread" => /\ node \in Elems(p) /\ prev \in Node
                                 /\ prev = node \/ mem[prev].next = node
  <1>1. CASE Stop("crashed") \/ Stop("failed")
    <2>1. Typed' /\ ListsInv(p, q)' /\ phase' # "thread"
      BY <1>1, StopStep DEF Stop
    <2>. QED
      BY <2>1
  <1>2. CASE ~(Stop("crashed") \/ Stop("failed"))
    <2>1. /\ phase = "thread" /\ node # NULL /\ mem[node].code = "jmpi" /\ ~NotAtHead(prev, node)
          /\ Delete(Off(mem[node].to, node), prev, node) /\ node' = prev
          /\ UNCHANGED <<tail, blocks, phase, prev, split, meant, tame>>
      BY <1>2 DEF RedundantJump, Threading, Redundant
    <2>2. /\ Lists(mem, head, list, p, q) /\ ThreadInv(p, q) /\ blocks \in Seq(0 .. N) /\ split \in Seq(0 .. N)
          /\ Path(mem, head, p) /\ head = Nth(p, 1) /\ Once(p)
      BY <2>1 DEF ListsInv, Lists, Path
    <2>3. Whole(p) /\ Slotted(mem, blocks, Elems(p)) /\ split = <<>>
      BY <2>2 DEF ThreadInv
    <2>4. PICK k \in 1 .. Len(p) : node = p[k] /\ node \in Node /\ (prev = node \/ (k > 1 /\ prev = p[k - 1]))
      BY <2>1, <2>2, AtNode
    <2>5. Len(p) \in Nat /\ k \in Nat /\ (k = 1 \/ k > 1) /\ 1 \in 1 .. Len(p) /\ (k > 1 => k - 1 \in 1 .. Len(p))
      BY <2>4, LenProperties
    <2>6. prev = Before(p, k) /\ (prev = node <=> k = 1)
      <3>1. prev = node => k = 1
        <4>. SUFFICES ASSUME prev = node PROVE k = 1
          OBVIOUS
        <4>1. p[k] = p[1]
          BY <2>1, <2>2, <2>4, <2>5 DEF NotAtHead, Nth
        <4>. QED
          BY <2>2, <2>5, <4>1 DEF Once
      <3>2. k = 1 => prev = node
        BY <2>4, <2>5
      <3>. QED
        BY <2>4, <2>5, <3>1, <3>2 DEF Before
    <2>a. PICK m : m = Off(mem[node].to, node)
      OBVIOUS
    <2>7. Sound(mem) /\ list \in 0 .. N /\ Sound(m) /\ Relinks(mem, m)
      BY <2>4, <2>a, OffIs DEF Typed
    <2>8. node # PrologNode /\ node # EpilogNode
      <3>1. Sound(mem) /\ node \in Node /\ mem[node].code = "jmpi"
        BY <2>1, <2>4, <2>7
      <3>. QED
        BY <3>1 DEF Sound
    <2>9. mem' = Without(m, prev, node) /\ head' = (IF prev = node THEN m[node].next ELSE head) /\ list' = node
      BY <2>1, <2>a DEF Delete
    <2>10. prev \in Node
      BY <2>4, <2>5, ElemsOf
    <2>11. Sound(mem')
      BY <2>4, <2>7, <2>8, <2>9, <2>10, WithoutIs
    <2>12. Keeps(Without(m, Before(p, k), p[k]), mem')
      <3>1. mem' = Without(m, Before(p, k), p[k])
        BY <2>4, <2>6, <2>9
      <3>. QED
        BY <3>1 DEF Keeps
    <2>b. PICK r : r = Del(p, k)
      OBVIOUS
    <2>c. PICK s : s = Ins(q, 1, node)
      OBVIOUS
    <2>13. /\ Removes(p, k, r) /\ Whole(r) /\ s \in Seq(Node) /\ Elems(s) = Elems(q) \cup {node}
           /\ Lists(mem', IF k = 1 THEN mem[p[k]].next ELSE head, p[k], r, s)
           /\ Spares(mem, mem', p[k])
      <3>1. p[k] # PrologNode /\ p[k] # EpilogNode
        BY <2>4, <2>8
      <3>2. /\ Removes(p, k, Del(p, k)) /\ Whole(Del(p, k))
            /\ Ins(q, 1, p[k]) \in Seq(Node) /\ Elems(Ins(q, 1, p[k])) = Elems(q) \cup {p[k]}
            /\ Lists(mem', IF k = 1 THEN mem[p[k]].next ELSE head, p[k], Del(p, k), Ins(q, 1, p[k]))
            /\ Spares(mem, mem', p[k])
        BY <2>2, <2>3, <2>7, <2>12, <3>1, Freeing
      <3>. QED
        BY <2>4, <2>b, <2>c, <3>2
    <2>14. r \in Seq(Node) /\ Elems(r) = Elems(p) \ {node} /\ \A i \in 1 .. k - 1 : r[i] = p[i]
      BY <2>4, <2>13 DEF Removes
    <2>15. Lists(mem', head', list', r, s)
      <3>1. m[node].next = mem[node].next
        BY <2>4, <2>7 DEF Relinks
      <3>. QED
        BY <2>4, <2>6, <2>9, <2>13, <3>1
    <2>16. Slotted(mem', blocks', Elems(r))
      <3>1. Slotted(mem', blocks, Elems(p) \ {p[k]})
        BY <2>3, <2>13, SlotsSpared, ElemsOf
      <3>. QED
        BY <2>1, <2>4, <2>14, <3>1
    <2>17. node' \in Elems(r) \cup Elems(s)
      <3>1. CASE k = 1
        BY <2>1, <2>6, <2>13, <3>1
      <3>2. CASE k > 1
        <4>1. prev \in Elems(p) /\ prev # node
          BY <2>5, <2>4, <2>6, <3>2, ElemsOf
        <4>. QED
          BY <2>1, <2>14, <4>1
      <3>. QED
        BY <2>5, <3>1, <3>2
    <2>18. ThreadInv(r, s)'
      <3>1. \A i \in 1 .. Len(r) : node' = r[i] => prev' = node' \/ (i > 1 /\ prev' = r[i - 1])
        BY <2>1
      <3>2. split' = <<>>
        BY <2>1, <2>3
      <3>. QED
        BY <2>13, <2>16, <2>17, <3>1, <3>2 DEF ThreadInv
    <2>19. ListsInv(r, s)'
      <3>1. phase' = "thread" /\ blocks' \in Seq(0 .. N) /\ split' \in Seq(0 .. N)
        BY <2>1, <2>2
      <3>. QED
        BY <2>15, <2>18, <3>1 DEF ListsInv
    <2>20. Typed'
      <3>1. m[node].next \in 0 .. N
        BY <2>4, <2>7 DEF Sound, Fields
      <3>2. head' \in 0 .. N /\ list' \in 0 .. N /\ node' \in 0 .. N /\ tail' = tail /\ prev' = prev /\ phase' = phase
        BY <2>1, <2>4, <2>9, <2>10, <3>1, Numbers DEF Typed
      <3>. QED
        BY <2>11, <3>2 DEF Typed
    <2>21. prev = node \/ mem[prev].next = node
      <3>1. CASE k > 1
        <4>a. PICK j : j = k - 1
          OBVIOUS
        <4>1. j \in 1 .. Len(p) /\ prev = p[j] /\ j + 1 = k
          BY <2>4, <2>5, <2>6, <3>1, <4>a
        <4>2. mem[p[j]].next = Nth(p, k)
          BY <2>2, <4>1 DEF Path
        <4>. QED
          BY <2>4, <4>1, <4>2 DEF Nth
      <3>. QED
        BY <2>5, <2>6, <3>1
    <2>. QED
      BY <2>4, <2>10, <2>13, <2>14, <2>19, <2>20, <2>21, ElemsOf
  <1>. QED
    BY <1>1, <1>2

(***************************************************************************)
(* Node n is made to point to j, and becomes the first of its users.       *)
(***************************************************************************)
LEMMA Pointed ==
  ASSUME NEW m, Sound(m), NEW n \in Node, NEW j \in Node, NEW rec \in Fields,
         rec.next = m[n].next, rec.slot = m[n].slot, rec.code \notin Heads \cup {"data"},
         m[n].code \notin Heads \cup {"data"}, rec.to \in Node
  PROVE  /\ Sound([[m EXCEPT ![n] = rec] EXCEPT ![j].link = n])
         /\ Keeps(m, [[m EXCEPT ![n] = rec] EXCEPT ![j].link = n])
  <1>a. PICK m1 : m1 = [m EXCEPT ![n] = rec]
    OBVIOUS
  <1>1. m \in [Node -> Fields]
    BY DEF Sound
  <1>2. n # PrologNode /\ n # EpilogNode /\ rec.code # "epilog"
    BY Codes DEF Sound
  <1>3. Sound(m1)
    BY <1>2, <1>a, SoundWith
  <1>4. Keeps(m, m1)
    BY <1>1, <1>a, KeepsWith
  <1>5. m1 \in [Node -> Fields] /\ m1[j] \in Fields
    BY <1>3 DEF Sound
  <1>b. PICK end : end = [m1[j] EXCEPT !.link = n]
    OBVIOUS
  <1>6. /\ end \in Fields /\ end.next = m1[j].next /\ end.slot = m1[j].slot /\ end.code = m1[j].code
        /\ end.flag = m1[j].flag /\ end.to = m1[j].to
    BY <1>5, <1>b, Numbers DEF Fields
  <1>c. PICK m2 : m2 = [m1 EXCEPT ![j] = end]
    OBVIOUS
  <1>7. Sound(m2)
    <2>1. /\ "node" \in end.flag => end.to \in Node
          /\ end.code = "epilog" <=> j = EpilogNode
          /\ j = PrologNode => end.code = "prolog"
      BY <1>3, <1>6 DEF Sound
    <2>. QED
      BY <1>3, <1>6, <1>c, <2>1, SoundWith
  <1>8. Keeps(m1, m2)
    <2>1. m2[j] = end /\ \A x \in Node : x # j => m2[x] = m1[x]
      BY <1>5, <1>c
    <2>. QED
      BY <1>6, <2>1 DEF Keeps
  <1>9. Keeps(m, m2)
    BY <1>4, <1>8, KeepsThrough
  <1>10. m2 = [[m EXCEPT ![n] = rec] EXCEPT ![j].link = n]
    BY <1>5, <1>a, <1>b, <1>c
  <1>. QED
    BY <1>7, <1>9, <1>10

\* Second is a node with a target.
LEMMA SecondIs ==
  ASSUME Typed, NEW n \in Node, Flagged(n), Second(n) # NULL
  PROVE  /\ Second(n) \in Node /\ mem[Second(n)].to \in 0 .. Reg
         /\ mem[Second(n)].code = "jmpi" => mem[Second(n)].to \in Node
  <1>1. Sound(mem) /\ mem \in [Node -> Fields] /\ mem[n].to \in Node
    BY DEF Typed, Sound, Flagged
  <1>a. PICK there : there = {s \in After(mem[n].to, {"note", "label"}) :
                                \/ mem[s].code = "jmpi" /\ Flagged(s)
                                \/ mem[s].code = "jmpr" /\ mem[n].code = "jmpi"}
    OBVIOUS
  <1>b. PICK s : s = Second(n)
    OBVIOUS
  <1>2. s = IF there = {} THEN NULL ELSE CHOOSE x \in there : TRUE
    BY <1>a, <1>b DEF Second
  <1>3. s \in there
    BY <1>2, <1>b
  <1>4. After(mem[n].to, {"note", "label"}) \subseteq Node
    BY <1>1, AfterNodes
  <1>5. s \in Node /\ (mem[s].code = "jmpi" => Flagged(s))
    BY <1>3, <1>4, <1>a
  <1>6. mem[s].to \in 0 .. Reg /\ (Flagged(s) => mem[s].to \in Node)
    BY <1>1, <1>5 DEF Sound, Fields, Flagged
  <1>. QED
    BY <1>5, <1>6, <1>b

\* ShortcutJump: a jump to a jump.
LEMMA ShortcutStep ==
  ASSUME Typed, NEW p \in Seq(Node), NEW q \in Seq(Node), ListsInv(p, q), ShortcutJump
  PROVE  Typed' /\ ListsInv(p, q)'
  <1>1. CASE Stop("crashed")
    BY <1>1, StopStep
  <1>2. CASE ~Stop("crashed")
    <2>a. PICK jump : jump = mem[Second(node)].to
      OBVIOUS
    <2>b. PICK m : m = Off(mem[node].to, node)
      OBVIOUS
    <2>1. /\ phase = "thread" /\ node # NULL /\ Short(node) /\ mem[Second(node)].code = "jmpi"
          /\ mem' = [m EXCEPT ![node].to = jump, ![node].link = m[jump].link, ![jump].link = node]
          /\ UNCHANGED <<head, tail, list, blocks, phase, prev, node, split>>
      BY <1>2, <2>a, <2>b DEF ShortcutJump, Threading
    <2>2. Flagged(node) /\ Second(node) # NULL /\ mem[node].code \in {"jmpi", "branch", "reversed"}
      BY <2>1 DEF Short, Conditional
    <2>3. node \in Node /\ Sound(mem)
      BY <2>1, Numbers DEF Typed
    <2>4. jump \in Node
      BY <2>1, <2>2, <2>3, <2>a, SecondIs
    <2>5. Sound(m) /\ Relinks(mem, m) /\ m \in [Node -> Fields] /\ m[node] \in Fields /\ m[jump].link \in 0 .. N
      <3>1. Sound(m) /\ Relinks(mem, m)
        BY <2>3, <2>b, OffIs
      <3>. QED
        BY <2>3, <2>4, <3>1 DEF Sound, Fields
    <2>c. PICK rec : rec = [m[node] EXCEPT !.to = jump, !.link = m[jump].link]
      OBVIOUS
    <2>6. /\ rec \in Fields /\ rec.next = m[node].next /\ rec.slot = m[node].slot /\ rec.code = m[node].code
          /\ rec.to = jump
      <3>1. jump \in 0 .. Reg
        BY <2>4, Numbers DEF Reg
      <3>. QED
        BY <2>5, <2>c, <3>1 DEF Fields
    <2>7. m[node].code \notin Heads \cup {"data"}
      BY <2>2, <2>3, <2>5 DEF Relinks, Heads, Ends
    <2>d. PICK m2 : m2 = [[m EXCEPT ![node] = rec] EXCEPT ![jump].link = node]
      OBVIOUS
    <2>8. Sound(m2) /\ Keeps(m, m2)
      BY <2>3, <2>4, <2>5, <2>6, <2>7, <2>d, Pointed
    <2>9. mem' = m2
      BY <2>1, <2>3, <2>5, <2>c, <2>d
    <2>10. Keeps(mem, mem')
      BY <2>5, <2>8, <2>9, RelinksKeeps, KeepsThrough
    <2>. QED
      BY <2>1, <2>8, <2>9, <2>10, ThreadKept
  <1>. QED
    BY <1>1, <1>2

\* ShortcutToRegister: a jump to a jump to a register.
LEMMA ShortcutToRegisterStep ==
  ASSUME Typed, NEW p \in Seq(Node), NEW q \in Seq(Node), ListsInv(p, q), ShortcutToRegister
  PROVE  Typed' /\ ListsInv(p, q)'
  <1>a. PICK reg : reg = mem[Second(node)].to
    OBVIOUS
  <1>1. /\ phase = "thread" /\ node # NULL /\ Short(node)
        /\ mem' = [mem EXCEPT ![node].code = "jmpr", ![node].to = reg, ![node].link = NULL, ![node].flag = @ \ {"node"}]
        /\ UNCHANGED <<head, tail, list, blocks, phase, prev, node, split>>
    BY <1>a DEF ShortcutToRegister, Threading
  <1>2. Flagged(node) /\ Second(node) # NULL /\ mem[node].code \in {"jmpi", "branch", "reversed"}
    BY <1>1 DEF Short, Conditional
  <1>3. node \in Node /\ Sound(mem) /\ mem \in [Node -> Fields] /\ mem[node] \in Fields
    BY <1>1, Numbers DEF Typed, Sound
  <1>4. reg \in 0 .. Reg
    BY <1>2, <1>3, <1>a, SecondIs
  <1>b. PICK rec : rec = [mem[node] EXCEPT !.code = "jmpr", !.to = reg, !.link = NULL, !.flag = @ \ {"node"}]
    OBVIOUS
  <1>5. /\ rec \in Fields /\ rec.next = mem[node].next /\ rec.slot = mem[node].slot /\ rec.code = "jmpr"
        /\ "node" \notin rec.flag
    <2>1. "jmpr" \in Code /\ NULL \in 0 .. N
      BY Codes, Numbers
    <2>. QED
      BY <1>3, <1>4, <1>b, <2>1 DEF Fields
  <1>6. mem[node].code \notin Heads /\ mem[node].code # "data" /\ "jmpr" \notin Heads
        /\ node # PrologNode /\ node # EpilogNode
    BY <1>2, <1>3 DEF Heads, Ends, Sound
  <1>7. mem' = [mem EXCEPT ![node] = rec]
    BY <1>1, <1>3, <1>b
  <1>8. Sound([mem EXCEPT ![node] = rec])
    BY <1>3, <1>5, <1>6, SoundWith
  <1>9. Keeps(mem, [mem EXCEPT ![node] = rec])
    BY <1>3, <1>5, <1>6, KeepsWith
  <1>. QED
    BY <1>1, <1>7, <1>8, <1>9, ThreadKept

\* ReverseJump: the jump behind a branch is deleted, and the branch turned round.
LEMMA ReverseStep ==
  ASSUME Typed, NEW p \in Seq(Node), NEW q \in Seq(Node), ListsInv(p, q), ReverseJump
  PROVE  /\ Typed'
         /\ \E r, s \in Seq(Node) :
              ListsInv(r, s)' /\ (phase' = "thread" => Elems(r) = Elems(p) \ {mem[node].next})
         /\ phase' = "thread" => node \in Elems(p) /\ mem[node].next \in Elems(p) \ {node}
  <1>1. CASE Stop("crashed")
    <2>1. Typed' /\ ListsInv(p, q)' /\ phase' # "thread"
      BY <1>1, StopStep DEF Stop
    <2>. QED
      BY <2>1
  <1>2. CASE ~Stop("crashed")
    <2>a. PICK next : next = mem[node].next
      OBVIOUS
    <2>b. PICK jump : jump = mem[next].to
      OBVIOUS
    <2>c. PICK o : o = Off(mem[node].to, node)
      OBVIOUS
    <2>d. PICK m : m = Without(o, node, next)
      OBVIOUS
    <2>1. /\ phase = "thread" /\ node # NULL /\ Reversible(node)
          /\ mem' = [m EXCEPT ![node].code = Turned(@), ![node].to = jump, ![node].link = m[jump].link,
                              ![jump].link = node]
          /\ list' = next /\ UNCHANGED <<head, tail, blocks, phase, prev, node, split>>
      BY <1>2, <2>a, <2>b, <2>c, <2>d DEF ReverseJump, Threading
    <2>2. /\ mem[node].code \in {"branch", "reversed"} /\ next # NULL /\ mem[next].code = "jmpi" /\ Flagged(next)
      BY <2>1, <2>a DEF Reversible, Conditional
    <2>3. /\ Lists(mem, head, list, p, q) /\ ThreadInv(p, q) /\ blocks \in Seq(0 .. N) /\ split \in Seq(0 .. N)
          /\ Path(mem, head, p) /\ Once(p) /\ Sound(mem) /\ list \in 0 .. N
      BY <2>1 DEF ListsInv, Lists, Path, Typed
    <2>4. Whole(p) /\ Slotted(mem, blocks, Elems(p)) /\ split = <<>>
      BY <2>3 DEF ThreadInv
    <2>5. PICK k \in 1 .. Len(p) : node = p[k] /\ node \in Node /\ (prev = node \/ (k > 1 /\ prev = p[k - 1]))
      BY <2>1, <2>2, <2>3, AtNode
    <2>e. PICK j : j = k + 1
      OBVIOUS
    <2>6. Len(p) \in Nat /\ k \in Nat /\ k >= 1 /\ j - 1 = k /\ j # 1 /\ j > k
      BY <2>5, <2>e, LenProperties
    <2>7. next = Nth(p, j)
      BY <2>3, <2>5, <2>a, <2>e DEF Path
    <2>8. j \in 1 .. Len(p) /\ next = p[j] /\ next \in Node /\ next # node
      <3>1. j \in 1 .. Len(p) /\ next = p[j]
        BY <2>2, <2>7 DEF Nth
      <3>2. k # j
        BY <2>6
      <3>. QED
        BY <2>3, <2>5, <3>1, <3>2, ElemsOf DEF Once
    <2>9. Before(p, j) = node
      BY <2>5, <2>6 DEF Before
    <2>10. next # PrologNode /\ next # EpilogNode /\ jump \in Node
      <3>1. mem[next].code = "jmpi" /\ "node" \in mem[next].flag
        BY <2>2 DEF Flagged
      <3>. QED
        BY <2>3, <2>8, <3>1, <2>b DEF Sound
    <2>11. Sound(o) /\ Relinks(mem, o)
      BY <2>3, <2>5, <2>c, OffIs
    <2>12. Sound(m) /\ FreedIn(o, node, next, m)
      BY <2>3, <2>5, <2>8, <2>10, <2>11, <2>d, WithoutIs
    <2>13. m \in [Node -> Fields] /\ m[node] \in Fields /\ m[jump].link \in 0 .. N
      BY <2>5, <2>10, <2>12 DEF Sound, Fields
    <2>14. m[node].code = mem[node].code
      <3>1. m[node] = [o[node] EXCEPT !.next = o[next].next]
        BY <2>5, <2>8, <2>12 DEF FreedIn
      <3>2. o[node] \in Fields /\ o[node].code = mem[node].code
        BY <2>5, <2>11 DEF Sound, Relinks
      <3>. QED
        BY <3>1, <3>2 DEF Fields
    <2>f. PICK rec : rec = [m[node] EXCEPT !.code = Turned(@), !.to = jump, !.link = m[jump].link]
      OBVIOUS
    <2>15. /\ rec \in Fields /\ rec.next = m[node].next /\ rec.slot = m[node].slot /\ rec.to = jump
           /\ rec.code \in {"branch", "reversed"}
      <3>1. Turned(m[node].code) \in Code /\ Turned(m[node].code) \in {"branch", "reversed"}
        BY Codes DEF Turned
      <3>2. jump \in 0 .. Reg
        BY <2>10, Numbers DEF Reg
      <3>. QED
        BY <2>13, <2>f, <3>1, <3>2 DEF Fields
    <2>16. rec.code \notin Heads \cup {"data"} /\ m[node].code \notin Heads \cup {"data"}
      BY <2>2, <2>14, <2>15 DEF Heads, Ends
    <2>g. PICK m2 : m2 = [[m EXCEPT ![node] = rec] EXCEPT ![jump].link = node]
      OBVIOUS
    <2>17. Sound(m2) /\ Keeps(m, m2)
      BY <2>5, <2>10, <2>12, <2>15, <2>16, <2>g, Pointed
    <2>18. mem' = m2
      BY <2>1, <2>5, <2>13, <2>f, <2>g
    <2>h. PICK r : r = Del(p, j)
      OBVIOUS
    <2>i. PICK s : s = Ins(q, 1, next)
      OBVIOUS
    <2>19. /\ Removes(p, j, r) /\ Whole(r) /\ s \in Seq(Node) /\ Elems(s) = Elems(q) \cup {next}
           /\ Lists(mem', head, next, r, s) /\ Spares(mem, mem', next)
      <3>1. p[j] # PrologNode /\ p[j] # EpilogNode
        BY <2>8, <2>10
      <3>2. Keeps(Without(o, Before(p, j), p[j]), m2)
        BY <2>8, <2>9, <2>17, <2>d
      <3>3. /\ Removes(p, j, Del(p, j)) /\ Whole(Del(p, j))
            /\ Ins(q, 1, p[j]) \in Seq(Node) /\ Elems(Ins(q, 1, p[j])) = Elems(q) \cup {p[j]}
            /\ Lists(m2, IF j = 1 THEN mem[p[j]].next ELSE head, p[j], Del(p, j), Ins(q, 1, p[j]))
            /\ Spares(mem, m2, p[j])
        BY <2>3, <2>4, <2>8, <2>11, <3>1, <3>2, Freeing
      <3>. QED
        BY <2>6, <2>8, <2>18, <2>h, <2>i, <3>3
    <2>20. r \in Seq(Node) /\ Once(r) /\ Len(r) = Len(p) - 1 /\ Elems(r) = Elems(p) \ {next}
           /\ \A i \in 1 .. j - 1 : r[i] = p[i]
      BY <2>8, <2>19 DEF Removes
    <2>21. Slotted(mem', blocks', Elems(r))
      <3>1. Slotted(mem', blocks, Elems(p) \ {next})
        BY <2>4, <2>19, SlotsSpared, ElemsOf
      <3>. QED
        BY <2>1, <2>20, <3>1
    <2>22. k \in 1 .. Len(r) /\ r[k] = node /\ (k > 1 => r[k - 1] = p[k - 1])
      BY <2>5, <2>6, <2>8, <2>20
    <2>23. ThreadInv(r, s)'
      <3>1. ASSUME NEW i \in 1 .. Len(r), node = r[i] PROVE prev = node \/ (i > 1 /\ prev = r[i - 1])
        <4>1. i = k
          BY <2>20, <2>22, <3>1 DEF Once
        <4>. QED
          BY <2>5, <2>22, <4>1
      <3>2. node \in Elems(r)
        BY <2>5, <2>8, <2>20, ElemsOf
      <3>3. node' = node /\ prev' = prev /\ split' = <<>>
        BY <2>1, <2>4
      <3>. QED
        BY <2>19, <2>21, <3>1, <3>2, <3>3 DEF ThreadInv
    <2>24. ListsInv(r, s)'
      <3>1. phase' = "thread" /\ blocks' \in Seq(0 .. N) /\ split' \in Seq(0 .. N) /\ head' = head /\ list' = next
        BY <2>1, <2>3
      <3>. QED
        BY <2>19, <2>23, <3>1 DEF ListsInv
    <2>25. Typed'
      <3>1. list' \in 0 .. N /\ head' = head /\ tail' = tail /\ prev' = prev /\ node' = node /\ phase' = phase
        BY <2>1, <2>8, Numbers
      <3>. QED
        BY <2>17, <2>18, <3>1 DEF Typed
    <2>. QED
      BY <2>5, <2>8, <2>19, <2>20, <2>24, <2>25, <2>a, ElemsOf
  <1>. QED
    BY <1>1, <1>2

\* Optimize: the program is whole when jit_optimize is called.
LEMMA OptimizeStep ==
  ASSUME Typed, NEW p \in Seq(Node), NEW q \in Seq(Node), ListsInv(p, q), Optimize
  PROVE  Typed' /\ ListsInv(p, q)'
  <1>1. /\ phase = "build" /\ tail = EpilogNode /\ phase' = "thread" /\ prev' = head /\ node' = head
        /\ mem' = mem /\ head' = head /\ tail' = tail /\ list' = list /\ blocks' = blocks /\ split' = split
    BY DEF Optimize
  <1>2. /\ Lists(mem, head, list, p, q) /\ BuildInv(p, q) /\ blocks \in Seq(0 .. N) /\ split \in Seq(0 .. N)
        /\ head = Nth(p, 1)
    BY <1>1 DEF ListsInv, Lists, Path
  <1>3. EpilogNode \in Elems(p)
    <2>1. EpilogNode = Nth(p, Len(p)) /\ EpilogNode # NULL
      BY <1>1, <1>2, Numbers DEF BuildInv
    <2>. QED
      BY <2>1 DEF Nth, Elems
  <1>4. Whole(p) /\ Slotted(mem, blocks, Elems(p)) /\ split = <<>>
    BY <1>2, <1>3 DEF BuildInv
  <1>5. head \in {NULL} \cup Elems(p)
    BY <1>2, ElemsOf DEF Nth
  <1>6. ThreadInv(p, q)'
    <2>1. Slotted(mem', blocks', Elems(p))
      BY <1>1, <1>4
    <2>. QED
      BY <1>1, <1>4, <1>5, <2>1 DEF ThreadInv
  <1>7. Lists(mem', head', list', p, q)
    BY <1>1, <1>2
  <1>8. ListsInv(p, q)'
    BY <1>1, <1>2, <1>6, <1>7 DEF ListsInv
  <1>9. Typed'
    BY <1>1 DEF Typed
  <1>. QED
    BY <1>8, <1>9

\* EndThreading: what Tame says is what sequential_labels begins with.
LEMMA EndThreadingStep ==
  ASSUME Typed, NEW p \in Seq(Node), NEW q \in Seq(Node), ListsInv(p, q), EndThreading, Tame
  PROVE  Typed' /\ ListsInv(p, q)'
  <1>1. /\ phase = "thread" /\ phase' = "labels" /\ prev' = head /\ node' = head
        /\ mem' = mem /\ head' = head /\ tail' = tail /\ list' = list /\ blocks' = blocks /\ split' = split
    BY DEF EndThreading
  <1>2. /\ Lists(mem, head, list, p, q) /\ ThreadInv(p, q) /\ blocks \in Seq(0 .. N) /\ split \in Seq(0 .. N)
        /\ Path(mem, head, p) /\ head = Nth(p, 1)
    BY <1>1 DEF ListsInv, Lists, Path
  <1>3. Whole(p) /\ Slotted(mem, blocks, Elems(p)) /\ split = <<>>
    BY <1>2 DEF ThreadInv
  <1>4. Len(p) \in Nat /\ 1 \in 1 .. Len(p) /\ 1 \in 1 .. Len(p) + 1 /\ head = p[1] /\ head \in Node
    <2>1. \E i \in 1 .. Len(p) : p[i] = PrologNode
      BY <1>3, ElemsOf DEF Whole
    <2>2. Len(p) \in Nat /\ 1 \in 1 .. Len(p) /\ 1 \in 1 .. Len(p) + 1
      BY <2>1, LenProperties
    <2>. QED
      BY <1>2, <2>2, ElemsOf DEF Nth
  <1>5. \A i \in 1 .. Len(p) : mem[p[i]].next = Nth(p, i + 1)
    BY <1>2 DEF Path
  <1>6. Program = Elems(p)
    BY <1>2, ReachedIs DEF Program, Typed, Sound
  <1>7. ~(Idle(head) /\ IsLabel(Nth(p, 2)))
    <2>1. mem[p[1]].next = Nth(p, 2)
      BY <1>4, <1>5
    <2>. QED
      BY <1>4, <2>1 DEF Tame
  <1>8. ASSUME NEW j \in 1 .. Len(p), IsLabel(p[j]), Plain(Nth(p, j + 1)) PROVE ~Plain(Nth(p, j + 2))
    <2>a. PICK i : i = j + 1
      OBVIOUS
    <2>1. Nth(p, i) # NULL /\ Plain(Nth(p, i))
      BY <1>8, <2>a DEF Plain, IsLabel
    <2>2. i \in 1 .. Len(p) /\ Nth(p, i) = p[i]
      BY <2>1 DEF Nth
    <2>3. mem[p[i]].next = Nth(p, j + 2)
      <3>1. i + 1 = j + 2
        BY <2>a
      <3>. QED
        BY <1>5, <2>2, <3>1
    <2>4. mem[p[j]].next = p[i]
      BY <1>5, <2>2, <2>a
    <2>5. p[j] \in Program
      BY <1>6, ElemsOf
    <2>6. ~Plain(mem[mem[p[j]].next].next)
      BY <1>8, <2>1, <2>2, <2>4, <2>5 DEF Tame
    <2>. QED
      BY <2>3, <2>4, <2>6
  <1>9. LabelsInv(p, 1)'
    <2>1. Slotted(mem', blocks', Elems(p)) /\ split' = <<>> /\ node' = Nth(p, 1) /\ prev' = p[1]
      BY <1>1, <1>2, <1>3, <1>4
    <2>2. LabelsAt(mem, p, 1, p[1])
      <3>1. ~(PlainAt(mem, p[1]) /\ mem[p[1]].link = NULL /\ LabelAt(mem, Nth(p, 2)))
        BY <1>4, <1>7 DEF Idle, Plain, IsLabel, PlainAt, LabelAt
      <3>2. \A j \in 1 .. Len(p) :
              LabelAt(mem, p[j]) /\ PlainAt(mem, Nth(p, j + 1)) => ~PlainAt(mem, Nth(p, j + 2))
        BY <1>8 DEF Plain, IsLabel, PlainAt, LabelAt
      <3>. QED
        BY <3>1, <3>2 DEF LabelsAt
    <2>3. LabelsAt(mem', p, 1, prev')
      BY <1>1, <2>1, <2>2
    <2>. QED
      BY <1>3, <1>4, <2>1, <2>3 DEF LabelsInv
  <1>10. Lists(mem', head', list', p, q)
    BY <1>1, <1>2
  <1>11. ListsInv(p, q)'
    <2>1. \E i \in 1 .. Len(p) + 1 : LabelsInv(p, i)'
      BY <1>4, <1>9
    <2>. QED
      BY <1>1, <1>2, <1>10, <2>1 DEF ListsInv
  <1>12. Typed'
    BY <1>1 DEF Typed
  <1>. QED
    BY <1>11, <1>12

-----------------------------------------------------------------------------
(***************************************************************************)
(* sequential_labels.  Of n nodes that are reached, each is reached in     *)
(* less than n steps.                                                      *)
(***************************************************************************)
LEMMA PlaceFound ==
  ASSUME NEW f \in [0 .. N -> 0 .. N], f[NULL] = NULL, NEW h \in 0 .. N, NEW x \in Reached(f, h)
  PROVE  \E i \in 0 .. Cardinality(Reached(f, h)) - 1 : Steps(f, h)[i] = x
  <1>a. PICK s : s = Steps(f, h)
    OBVIOUS
  <1>b. PICK R : R = Reached(f, h)
    OBVIOUS
  <1>1. N \in Nat /\ NULL = 0 /\ s \in [0 .. N -> 0 .. N] /\ \A i \in 1 .. N : s[i] = f[s[i - 1]]
    BY <1>a, StepsAre, Numbers, ZenonT(30) DEF Follows
  <1>2. R = {s[i] : i \in 0 .. N} \ {NULL} /\ R \subseteq Node
    BY <1>a, <1>b, ReachedNodes DEF Reached
  <1>3. ASSUME NEW a \in 0 .. N, NEW b \in 0 .. N, s[a] = s[b], NEW d \in Nat, a + d \in 0 .. N, b + d \in 0 .. N
        PROVE  s[a + d] = s[b + d]
    <2>. DEFINE S == {k \in Nat : a + k \in 0 .. N /\ b + k \in 0 .. N => s[a + k] = s[b + k]}
    <2>1. 0 \in S
      BY <1>3
    <2>2. ASSUME NEW k \in Nat, k \in S PROVE k + 1 \in S
      <3>. SUFFICES ASSUME a + (k + 1) \in 0 .. N, b + (k + 1) \in 0 .. N PROVE s[a + (k + 1)] = s[b + (k + 1)]
        OBVIOUS
      <3>1. a + k \in 0 .. N /\ b + k \in 0 .. N
        BY <1>1
      <3>2. s[a + k] = s[b + k]
        BY <2>2, <3>1
      <3>3. s[a + (k + 1)] = f[s[a + k]]
        <4>1. a + (k + 1) \in 1 .. N /\ (a + (k + 1)) - 1 = a + k
          BY <1>1, <3>1
        <4>. QED
          BY <1>1, <4>1
      <3>4. s[b + (k + 1)] = f[s[b + k]]
        <4>1. b + (k + 1) \in 1 .. N /\ (b + (k + 1)) - 1 = b + k
          BY <1>1, <3>1
        <4>. QED
          BY <1>1, <4>1
      <3>. QED
        BY <3>2, <3>3, <3>4
    <2>3. Nat \subseteq S
      <3>. HIDE DEF S
      <3>. QED
        BY <2>1, <2>2, SetInduction
    <2>. QED
      BY <1>3, <2>3
  <1>4. ASSUME NEW a \in 0 .. N, s[a] = NULL, NEW b \in 0 .. N, a =< b PROVE s[b] = NULL
    <2>. DEFINE S == {k \in Nat : a + k \in 0 .. N => s[a + k] = NULL}
    <2>1. 0 \in S
      BY <1>4
    <2>2. ASSUME NEW k \in Nat, k \in S PROVE k + 1 \in S
      <3>. SUFFICES ASSUME a + (k + 1) \in 0 .. N PROVE s[a + (k + 1)] = NULL
        OBVIOUS
      <3>1. a + (k + 1) \in 1 .. N /\ (a + (k + 1)) - 1 = a + k /\ a + k \in 0 .. N
        BY <1>1
      <3>2. s[a + k] = NULL
        BY <2>2, <3>1
      <3>. QED
        BY <1>1, <3>1, <3>2
    <2>3. Nat \subseteq S
      <3>. HIDE DEF S
      <3>. QED
        BY <2>1, <2>2, SetInduction
    <2>4. b - a \in Nat /\ a + (b - a) = b
      BY <1>1, <1>4
    <2>5. b - a \in S
      BY <2>3, <2>4
    <2>. QED
      BY <2>4, <2>5
  <1>c. PICK T : T = {i \in 0 .. N : s[i] = x}
    OBVIOUS
  <1>5. T \subseteq Nat /\ T # {} /\ x # NULL
    <2>1. x \in R
      BY <1>b
    <2>2. PICK j \in 0 .. N : s[j] = x
      BY <1>2, <2>1
    <2>3. x # NULL
      BY <1>2, <2>1
    <2>4. j \in T
      BY <1>c, <2>2
    <2>5. 0 .. N \subseteq Nat /\ T \subseteq 0 .. N
      BY <1>1, <1>c
    <2>. QED
      BY <2>3, <2>4, <2>5
  <1>6. PICK i \in T : \A j \in T : i =< j
    BY <1>5, Smallest
  <1>7. i \in 0 .. N /\ s[i] = x
    BY <1>6, <1>c
  <1>8. ASSUME NEW a \in 0 .. i, NEW b \in 0 .. i, s[a] = s[b], a < b PROVE FALSE
    <2>a. PICK d : d = i - b
      OBVIOUS
    <2>1. d \in Nat /\ b + d = i /\ a + d \in 0 .. N /\ a + d < i /\ a \in 0 .. N /\ b \in 0 .. N
      BY <1>1, <1>7, <1>8, <2>a
    <2>2. s[a + d] = s[b + d]
      BY <1>3, <1>7, <1>8, <2>1
    <2>3. a + d \in T
      BY <1>7, <1>c, <2>1, <2>2
    <2>4. i =< a + d
      BY <1>6, <2>3
    <2>. QED
      BY <1>7, <2>1, <2>4
  <1>9. ASSUME NEW a \in 0 .. i PROVE s[a] \in R
    <2>1. a \in 0 .. N /\ a =< i
      BY <1>1, <1>7
    <2>2. s[a] # NULL
      BY <1>4, <1>5, <1>7, <2>1
    <2>. QED
      BY <1>2, <2>1, <2>2
  <1>d. PICK g : g = [a \in 0 .. i |-> s[a]]
    OBVIOUS
  <1>10. g \in Injection(0 .. i, R)
    <2>1. g \in [0 .. i -> R]
      BY <1>9, <1>d
    <2>2. ASSUME NEW a \in 0 .. i, NEW b \in 0 .. i, g[a] = g[b] PROVE a = b
      <3>1. ~(a < b) /\ ~(b < a)
        BY <1>8, <1>d, <2>2
      <3>. QED
        BY <1>7, <3>1
    <2>. QED
      BY <2>1, <2>2 DEF Injection, IsInjective
  <1>11. IsFiniteSet(R) /\ IsFiniteSet(0 .. i) /\ Cardinality(0 .. i) = i + 1
    <2>1. IsFiniteSet(Node)
      BY <1>1, FS_Interval DEF Node
    <2>2. IsFiniteSet(0 .. i) /\ Cardinality(0 .. i) = i + 1
      <3>1. 0 =< i /\ i \in Int /\ 0 \in Int /\ (i - 0) + 1 = i + 1
        BY <1>7
      <3>. QED
        BY <3>1, FS_Interval
    <2>. QED
      BY <1>2, <2>1, <2>2, FS_Subset
  <1>12. i + 1 =< Cardinality(R) /\ Cardinality(R) \in Nat
    BY <1>10, <1>11, FS_Injection, FS_CardinalityType
  <1>13. i \in 0 .. Cardinality(R) - 1
    BY <1>7, <1>12
  <1>. QED
    BY <1>7, <1>13, <1>a, <1>b

\* Moved changes links and targets only, and targets to a node.
LEMMA MovedIs ==
  ASSUME Sound(mem), NEW n \in Node, NEW p \in Node
  PROVE  Sound(Moved(n, p)) /\ Relinks(mem, Moved(n, p))
  <1>. DEFINE user == Steps(LinkOf, mem[n].link)
              U == Users(n)
              last == Cardinality(U)
              place(x) == CHOOSE i \in 0 .. last - 1 : user[i] = x
              link(x) == IF place(x) = 0 THEN mem[p].link ELSE user[place(x) - 1]
  <1>a. user = Steps(LinkOf, mem[n].link)
    OBVIOUS
  <1>b. U = Users(n)
    OBVIOUS
  <1>c. last = Cardinality(U)
    OBVIOUS
  <1>d. PICK m : m = Moved(n, p)
    OBVIOUS
  <1>8. m = [x \in Node |->
               IF x \in U THEN [mem[x] EXCEPT !.to = p, !.link = link(x)]
               ELSE IF x = p /\ last > 0 THEN [mem[x] EXCEPT !.link = user[last - 1]]
               ELSE IF x = n THEN [mem[x] EXCEPT !.link = NULL] ELSE mem[x]]
    BY <1>d DEF Moved
  <1>. HIDE DEF user, U, last
  <1>1. mem \in [Node -> Fields] /\ N \in Nat
    BY Numbers DEF Sound
  <1>2. LinkOf \in [0 .. N -> 0 .. N] /\ LinkOf[NULL] = NULL /\ mem[n].link \in 0 .. N
    <2>1. \A x \in 0 .. N : x # NULL => x \in Node /\ mem[x].link \in 0 .. N
      BY <1>1, Numbers DEF Fields
    <2>. QED
      BY <2>1, Numbers DEF LinkOf
  <1>3. user \in [0 .. N -> 0 .. N]
    BY <1>2, <1>a, StepsAre
  <1>4. U \subseteq Node /\ U = Reached(LinkOf, mem[n].link)
    BY <1>2, <1>b, ReachedNodes DEF Users
  <1>5. last \in 0 .. N
    <2>1. IsFiniteSet(Node) /\ Cardinality(Node) = N
      BY <1>1, FS_Interval DEF Node
    <2>2. IsFiniteSet(U) /\ Cardinality(U) =< Cardinality(Node)
      BY <1>4, <2>1, FS_Subset
    <2>. QED
      BY <1>1, <1>c, <2>1, <2>2, FS_CardinalityType
  <1>6. ASSUME NEW x \in U PROVE link(x) \in 0 .. N
    <2>1. \E i \in 0 .. last - 1 : user[i] = x
      BY <1>2, <1>4, <1>a, <1>c, PlaceFound, ZenonT(30)
    <2>2. place(x) \in 0 .. last - 1
      BY <2>1
    <2>3. mem[p].link \in 0 .. N
      BY <1>1 DEF Fields
    <2>. HIDE DEF place
    <2>4. place(x) # 0 => place(x) - 1 \in 0 .. N
      BY <1>1, <1>5, <2>2
    <2>. QED
      BY <1>3, <2>3, <2>4
  <1>7. last > 0 => user[last - 1] \in 0 .. N
    <2>1. last > 0 => last - 1 \in 0 .. N
      BY <1>1, <1>5
    <2>. QED
      BY <1>3, <2>1
  <1>. HIDE DEF link
  <1>9. ASSUME NEW x \in Node
        PROVE  /\ m[x] \in Fields /\ m[x].next = mem[x].next /\ m[x].slot = mem[x].slot
               /\ m[x].code = mem[x].code /\ m[x].flag = mem[x].flag
               /\ m[x].to = mem[x].to \/ m[x].to = p
    <2>a. PICK c : c = mem[x]
      OBVIOUS
    <2>1. c \in Fields /\ p \in 0 .. Reg /\ NULL \in 0 .. N
      BY <1>1, <2>a, Numbers DEF Reg
    <2>2. \A l \in 0 .. N :
            LET d == [c EXCEPT !.link = l]
            IN  d \in Fields /\ d.next = c.next /\ d.slot = c.slot /\ d.code = c.code /\ d.flag = c.flag /\ d.to = c.to
      BY <2>1 DEF Fields
    <2>3. \A l \in 0 .. N :
            LET d == [c EXCEPT !.to = p, !.link = l]
            IN  d \in Fields /\ d.next = c.next /\ d.slot = c.slot /\ d.code = c.code /\ d.flag = c.flag /\ d.to = p
      BY <2>1 DEF Fields
    <2>4. CASE x \in U
      <3>1. m[x] = [c EXCEPT !.to = p, !.link = link(x)] /\ link(x) \in 0 .. N
        BY <1>6, <1>8, <2>4, <2>a
      <3>. QED
        BY <2>3, <2>a, <3>1
    <2>5. CASE x \notin U /\ x = p /\ last > 0
      <3>1. m[x] = [c EXCEPT !.link = user[last - 1]] /\ user[last - 1] \in 0 .. N
        BY <1>7, <1>8, <2>5, <2>a
      <3>. QED
        BY <2>2, <2>a, <3>1
    <2>6. CASE x \notin U /\ ~(x = p /\ last > 0) /\ x = n
      <3>1. m[x] = [c EXCEPT !.link = NULL]
        BY <1>8, <2>6, <2>a
      <3>. QED
        BY <2>1, <2>2, <2>a, <3>1
    <2>7. CASE x \notin U /\ ~(x = p /\ last > 0) /\ x # n
      <3>1. m[x] = c
        BY <1>8, <2>7, <2>a
      <3>. QED
        BY <2>1, <2>a, <3>1
    <2>. QED
      BY <2>4, <2>5, <2>6, <2>7
  <1>10. Relinks(mem, m)
    BY <1>9 DEF Relinks
  <1>11. Sound(m)
    <2>1. m \in [Node -> Fields]
      <3>1. m = [x \in Node |-> m[x]]
        BY <1>8
      <3>. QED
        BY <1>9, <3>1
    <2>2. \A x \in Node : "node" \in m[x].flag => m[x].to \in Node
      BY <1>9 DEF Sound
    <2>3. m[PrologNode].code = "prolog" /\ \A x \in Node : m[x].code = "epilog" <=> x = EpilogNode
      BY <1>9, Numbers DEF Sound
    <2>. QED
      BY <2>1, <2>2, <2>3 DEF Sound
  <1>. QED
    BY <1>10, <1>11, <1>d

\* The list from i on once a label has been deleted.
LabelsFrom(m, r, i, v) ==
  /\ PlainAt(m, Nth(r, i)) => i > 1 /\ v = r[i - 1] /\ ~LabelAt(m, v)
  /\ \A j \in i .. Len(r) : v # r[j]
  /\ \A j \in i .. Len(r) :
       LabelAt(m, r[j]) /\ PlainAt(m, Nth(r, j + 1)) => ~PlainAt(m, Nth(r, j + 2))

\* The users of labels do not matter to where sequential_labels is.
LEMMA LabelsMoved ==
  ASSUME NEW m, NEW m2, NEW r \in Seq(Node), NEW i \in 1 .. Len(r) + 1, NEW v, LabelsFrom(m, r, i, v),
         \A n \in Elems(r) : m2[n].code = m[n].code /\ m2[n].flag = m[n].flag
  PROVE  LabelsAt(m2, r, i, v)
  <1>1. i \in Nat \ {0} /\ Len(r) \in Nat
    BY LenProperties
  <1>2. \A n \in Elems(r) \cup {NULL} : (LabelAt(m2, n) <=> LabelAt(m, n)) /\ (PlainAt(m2, n) <=> PlainAt(m, n))
    BY DEF LabelAt, PlainAt
  <1>3. \A j \in Nat : Nth(r, j) \in Elems(r) \cup {NULL}
    BY DEF Nth, Elems
  <1>4. i > 1 => r[i - 1] \in Elems(r)
    <2>1. i > 1 => i - 1 \in 1 .. Len(r)
      BY <1>1
    <2>. QED
      BY <2>1 DEF Elems
  <1>5. PlainAt(m2, Nth(r, i)) => i > 1 /\ v = r[i - 1] /\ ~LabelAt(m2, v)
    BY <1>1, <1>2, <1>3, <1>4 DEF LabelsFrom
  <1>6. ASSUME NEW j \in i .. Len(r), LabelAt(m2, r[j]), PlainAt(m2, Nth(r, j + 1))
        PROVE  ~PlainAt(m2, Nth(r, j + 2))
    <2>1. j \in 1 .. Len(r) /\ j + 1 \in Nat /\ j + 2 \in Nat
      BY <1>1
    <2>2. r[j] \in Elems(r)
      BY <2>1 DEF Elems
    <2>3. LabelAt(m, r[j]) /\ PlainAt(m, Nth(r, j + 1))
      BY <1>2, <1>3, <1>6, <2>1, <2>2
    <2>4. ~PlainAt(m, Nth(r, j + 2))
      BY <2>3 DEF LabelsFrom
    <2>. QED
      BY <1>2, <1>3, <2>1, <2>4
  <1>7. \A j \in i .. Len(r) : v # r[j]
    BY DEF LabelsFrom
  <1>. QED
    BY <1>5, <1>6, <1>7 DEF LabelsAt

\* Behind a node that was removed the places are one less.
LEMMA NthDel ==
  ASSUME NEW p \in Seq(Node), NEW k \in 1 .. Len(p), NEW r, Removes(p, k, r)
  PROVE  \A j \in Nat : j >= k => Nth(r, j) = Nth(p, j + 1)
  <1>1. Len(p) \in Nat /\ k \in Nat /\ k >= 1 /\ Len(r) = Len(p) - 1 /\ \A i \in k .. Len(p) - 1 : r[i] = p[i + 1]
    BY LenProperties DEF Removes
  <1>. SUFFICES ASSUME NEW j \in Nat, j >= k PROVE Nth(r, j) = Nth(p, j + 1)
    OBVIOUS
  <1>2. CASE j \in 1 .. Len(p) - 1
    BY <1>1, <1>2 DEF Nth
  <1>3. CASE j \notin 1 .. Len(p) - 1
    BY <1>1, <1>3 DEF Nth
  <1>. QED
    BY <1>2, <1>3

\* Three labels that can be merged are not in a row after that either.
NoThree(m, p, i) ==
  \A j \in i .. Len(p) : LabelAt(m, p[j]) /\ PlainAt(m, Nth(p, j + 1)) => ~PlainAt(m, Nth(p, j + 2))

\* A label that is removed leaves no three in a row either.
LEMMA NoThreeWithout ==
  ASSUME NEW p \in Seq(Node), NEW k \in 1 .. Len(p), NEW r, Removes(p, k, r), NEW m,
         NEW i \in 1 .. Len(p) + 1, NoThree(m, p, i), NEW j \in Nat, j >= i, j >= k
  PROVE  NoThree(m, r, j)
  <1>1. Len(p) \in Nat /\ k \in Nat /\ k >= 1 /\ i \in Nat /\ Len(r) = Len(p) - 1
        /\ \A h \in k .. Len(p) - 1 : r[h] = p[h + 1]
    BY LenProperties DEF Removes
  <1>. SUFFICES ASSUME NEW h \in j .. Len(r), LabelAt(m, r[h]), PlainAt(m, Nth(r, h + 1))
                PROVE  ~PlainAt(m, Nth(r, h + 2))
    BY DEF NoThree
  <1>a. PICK g : g = h + 1
    OBVIOUS
  <1>2. /\ g \in i .. Len(p) /\ h \in k .. Len(p) - 1 /\ g + 1 = (h + 1) + 1 /\ g + 2 = (h + 2) + 1
        /\ h + 1 \in Nat /\ h + 2 \in Nat /\ h + 1 >= k /\ h + 2 >= k
    BY <1>1, <1>a
  <1>3. r[h] = p[g] /\ Nth(r, h + 1) = Nth(p, g + 1) /\ Nth(r, h + 2) = Nth(p, g + 2)
    BY <1>1, <1>2, <1>a, NthDel
  <1>. QED
    BY <1>2, <1>3 DEF NoThree

(***************************************************************************)
(* del_label, of the label at k in a memory that differs by its links, and *)
(* the loop goes on at i.                                                  *)
(***************************************************************************)
LEMMA DelLabelStep ==
  ASSUME Typed, NEW p \in Seq(Node), NEW q \in Seq(Node), Lists(mem, head, list, p, q), phase = "labels",
         Whole(p), Slotted(mem, blocks, Elems(p)), split = <<>>,
         NEW k \in 1 .. Len(p), mem[p[k]].code = "label", NEW m, Sound(m), Relinks(mem, m),
         NEW a, a = Before(p, k), DelLabel(m, a, p[k]),
         NEW i \in Nat \ {0}, i >= k, i =< Len(p), mem[p[k]].next = Nth(p, i + 1),
         LabelsFrom(mem, Del(p, k), i, prev)
  PROVE  Typed' /\ \E r, s \in Seq(Node) : ListsInv(r, s)' /\ (phase' = "labels" => Elems(r) = Elems(p) \ {p[k]})
  <1>a. PICK x : x = p[k]
    OBVIOUS
  <1>1. CASE Stop("failed")
    <2>1. phase' = "failed" /\ UNCHANGED <<mem, head, tail, list, blocks, prev, node, split, meant, tame>>
      BY <1>1 DEF Stop
    <2>2. Typed' /\ Lists(mem', head', list', p, q)
      BY <2>1 DEF Typed
    <2>3. blocks' \in Seq(0 .. N) /\ split' \in Seq(0 .. N)
      BY <2>1 DEF Slotted
    <2>4. ListsInv(p, q)'
      BY <2>1, <2>2, <2>3 DEF ListsInv
    <2>5. phase' # "labels"
      BY <2>1
    <2>. QED
      BY <2>2, <2>4, <2>5
  <1>2. CASE ~Stop("failed")
    <2>1. /\ blocks[mem[x].slot + 1] = x /\ Delete(m, a, x)
          /\ blocks' = [blocks EXCEPT ![mem[x].slot + 1] = NULL] /\ node' = mem[x].next
          /\ UNCHANGED <<tail, phase, prev, split, meant, tame>>
      BY <1>2, <1>a DEF DelLabel
    <2>2. /\ Once(p) /\ Path(mem, head, p) /\ Len(p) \in Nat /\ k \in Nat /\ k >= 1 /\ Sound(mem) /\ list \in 0 .. N
          /\ blocks \in Seq(0 .. N) /\ split \in Seq(0 .. N) /\ x \in Node /\ x \in Elems(p) /\ mem[x].code = "label"
      BY <1>a, LenProperties, ElemsOf DEF Lists, Path, Typed, Slotted
    <2>3. x # PrologNode /\ x # EpilogNode
      BY <2>2 DEF Sound
    <2>4. a \in Node /\ (a = x <=> k = 1)
      <3>1. 1 \in 1 .. Len(p) /\ (k # 1 => k - 1 \in 1 .. Len(p))
        BY <2>2
      <3>2. CASE k = 1
        BY <1>a, <2>2, <3>2 DEF Before
      <3>3. CASE k # 1
        <4>1. a = p[k - 1] /\ p[k - 1] \in Node /\ k - 1 # k
          BY <2>2, <3>1, <3>3, ElemsOf DEF Before
        <4>. QED
          BY <1>a, <2>2, <3>1, <3>3, <4>1 DEF Once
      <3>. QED
        BY <3>2, <3>3
    <2>5. mem' = Without(m, a, x) /\ head' = (IF a = x THEN m[x].next ELSE head) /\ list' = x
      BY <2>1 DEF Delete
    <2>6. m[x].next = mem[x].next /\ mem[x].next \in 0 .. N /\ m \in [Node -> Fields]
      BY <2>2 DEF Relinks, Sound, Fields
    <2>7. Sound(mem') /\ FreedIn(m, a, x, mem')
      BY <2>2, <2>3, <2>4, <2>5, WithoutIs
    <2>b. PICK r : r = Del(p, k)
      OBVIOUS
    <2>c. PICK s : s = Ins(q, 1, x)
      OBVIOUS
    <2>8. /\ Removes(p, k, r) /\ Whole(r) /\ s \in Seq(Node)
          /\ Lists(mem', head', x, r, s) /\ Spares(mem, mem', x)
      <3>1. p[k] # PrologNode /\ p[k] # EpilogNode
        BY <1>a, <2>3
      <3>2. Keeps(Without(m, Before(p, k), p[k]), mem')
        <4>1. mem' = Without(m, Before(p, k), p[k])
          BY <1>a, <2>5
        <4>. QED
          BY <4>1 DEF Keeps
      <3>3. /\ Removes(p, k, Del(p, k)) /\ Whole(Del(p, k))
            /\ Ins(q, 1, p[k]) \in Seq(Node) /\ Elems(Ins(q, 1, p[k])) = Elems(q) \cup {p[k]}
            /\ Lists(mem', IF k = 1 THEN mem[p[k]].next ELSE head, p[k], Del(p, k), Ins(q, 1, p[k]))
            /\ Spares(mem, mem', p[k])
        BY <2>2, <3>1, <3>2, Freeing
      <3>4. head' = IF k = 1 THEN mem[p[k]].next ELSE head
        BY <1>a, <2>4, <2>5, <2>6
      <3>. QED
        BY <1>a, <2>b, <2>c, <3>3, <3>4
    <2>9. r \in Seq(Node) /\ Len(r) = Len(p) - 1 /\ Elems(r) = Elems(p) \ {x} /\ Elems(r) \subseteq Node
      BY <1>a, <2>8, ElemsOf DEF Removes
    <2>d. PICK c : c = mem[x].slot + 1
      OBVIOUS
    <2>10. c \in 1 .. Len(blocks) /\ blocks[c] = x
      <3>1. InSlot(mem, blocks, x)
        BY <2>2, Codes DEF Slotted
      <3>. QED
        BY <3>1, <2>d DEF InSlot
    <2>11. /\ blocks' \in Seq(0 .. N) /\ Len(blocks') = Len(blocks)
           /\ \A j \in 1 .. Len(blocks) : j # c => blocks'[j] = blocks[j]
      <3>1. NULL \in 0 .. N /\ blocks' = [blocks EXCEPT ![c] = NULL]
        BY <2>1, <2>d, Numbers
      <3>. QED
        BY <2>2, <2>10, <3>1, ExceptSeq
    <2>12. Slotted(mem', blocks', Elems(r))
      <3>1. ASSUME NEW n \in Elems(r), mem'[n].code \in Heads PROVE InSlot(mem', blocks', n)
        <4>1. n \in Elems(p) /\ n # x /\ n \in Node
          BY <2>9
        <4>2. mem[n].code \in Heads /\ mem'[n].slot = mem[n].slot
          BY <2>8, <3>1, <4>1 DEF Spares
        <4>3. mem[n].slot + 1 \in 1 .. Len(blocks) /\ blocks[mem[n].slot + 1] = n
          BY <4>1, <4>2 DEF Slotted, InSlot
        <4>4. mem[n].slot + 1 # c
          BY <2>10, <4>1, <4>3
        <4>. QED
          BY <2>11, <4>2, <4>3, <4>4 DEF InSlot
      <3>. QED
        BY <2>11, <3>1 DEF Slotted
    <2>13. i \in 1 .. Len(r) + 1 /\ node' = Nth(r, i)
      <3>1. Nth(r, i) = Nth(p, i + 1)
        BY <2>2, <2>8, NthDel
      <3>2. i \in 1 .. Len(r) + 1
        BY <2>2, <2>9
      <3>. QED
        BY <1>a, <2>1, <2>6, <3>1, <3>2
    <2>14. LabelsAt(mem', r, i, prev')
      <3>1. \A n \in Elems(r) : mem'[n].code = mem[n].code /\ mem'[n].flag = mem[n].flag
        <4>. SUFFICES ASSUME NEW n \in Elems(r) PROVE mem'[n].code = mem[n].code /\ mem'[n].flag = mem[n].flag
          OBVIOUS
        <4>1. n \in Node /\ n # x
          BY <2>9
        <4>2. mem'[n] = IF n = a THEN [m[n] EXCEPT !.next = m[x].next] ELSE m[n]
          BY <2>7, <4>1 DEF FreedIn
        <4>3. m[n] \in Fields /\ m[n].code = mem[n].code /\ m[n].flag = mem[n].flag
          BY <2>6, <4>1 DEF Relinks
        <4>. QED
          BY <4>2, <4>3 DEF Fields
      <3>2. LabelsFrom(mem, r, i, prev) /\ prev' = prev
        BY <2>1, <2>b
      <3>3. LabelsAt(mem', r, i, prev)
        BY <2>9, <2>13, <3>1, <3>2, LabelsMoved
      <3>. QED
        BY <3>2, <3>3
    <2>15. LabelsInv(r, i)'
      <3>1. split' = <<>>
        BY <2>1
      <3>. QED
        BY <2>8, <2>12, <2>13, <2>14, <3>1 DEF LabelsInv
    <2>16. ListsInv(r, s)'
      <3>1. phase' = "labels" /\ split' \in Seq(0 .. N)
        BY <2>1, <2>2
      <3>2. \E j \in 1 .. Len(r) + 1 : LabelsInv(r, j)'
        BY <2>13, <2>15
      <3>. QED
        BY <2>5, <2>8, <2>11, <3>1, <3>2 DEF ListsInv
    <2>17. Typed'
      <3>1. head' \in 0 .. N /\ list' \in 0 .. N /\ node' \in 0 .. N /\ tail' = tail /\ prev' = prev /\ phase' = phase
        BY <2>1, <2>2, <2>5, <2>6, Numbers DEF Typed
      <3>. QED
        BY <2>7, <3>1 DEF Typed
    <2>. QED
      BY <1>a, <2>8, <2>9, <2>16, <2>17
  <1>. QED
    BY <1>1, <1>2

\* DropLabel: a label that nothing uses is deleted.
LEMMA DropStep ==
  ASSUME Typed, NEW p \in Seq(Node), NEW q \in Seq(Node), ListsInv(p, q), DropLabel
  PROVE  Typed' /\ \E r, s \in Seq(Node) : ListsInv(r, s)' /\ (phase' = "labels" => Elems(r) = Elems(p) \ {node})
  <1>1. /\ phase = "labels" /\ node # NULL /\ DelLabel(mem, prev, node)
        /\ mem[node].code = "label" /\ mem[node].flag = {} /\ mem[node].link = NULL
    BY DEF DropLabel, Labelling, Idle, Plain, IsLabel
  <1>2. Lists(mem, head, list, p, q) /\ Once(p) /\ Path(mem, head, p) /\ Sound(mem)
    BY DEF ListsInv, Lists, Path, Typed
  <1>3. PICK k \in 1 .. Len(p) + 1 : LabelsInv(p, k)
    BY <1>1 DEF ListsInv
  <1>4. /\ Whole(p) /\ Slotted(mem, blocks, Elems(p)) /\ split = <<>>
        /\ node = Nth(p, k) /\ LabelsAt(mem, p, k, prev)
    BY <1>3 DEF LabelsInv
  <1>5. k \in 1 .. Len(p) /\ node = p[k] /\ Len(p) \in Nat /\ k \in Nat /\ k >= 1
    BY <1>1, <1>4, LenProperties DEF Nth
  <1>6. PlainAt(mem, p[k])
    BY <1>1, <1>5 DEF PlainAt, LabelAt
  <1>7. \/ k = 1 /\ prev = p[1]
        \/ k > 1 /\ prev = p[k - 1] /\ ~LabelAt(mem, prev)
    BY <1>4, <1>5, <1>6 DEF LabelsAt
  <1>8. prev = Before(p, k)
    BY <1>7 DEF Before
  <1>9. mem[p[k]].next = Nth(p, k + 1)
    BY <1>2, <1>5 DEF Path
  <1>10. Relinks(mem, mem)
    BY DEF Relinks
  <1>a. PICK r : r = Del(p, k)
    OBVIOUS
  <1>11. Removes(p, k, r)
    BY <1>2, <1>5, <1>a, DelRemoves
  <1>12. Len(r) = Len(p) - 1 /\ (\A j \in 1 .. k - 1 : r[j] = p[j]) /\ \A j \in k .. Len(p) - 1 : r[j] = p[j + 1]
    BY <1>11 DEF Removes
  <1>13. LabelsFrom(mem, r, k, prev)
    <2>1. Nth(r, k) = Nth(p, k + 1)
      BY <1>5, <1>11, NthDel
    <2>2. PlainAt(mem, Nth(r, k)) => k > 1 /\ prev = r[k - 1] /\ ~LabelAt(mem, prev)
      <3>1. CASE k = 1 /\ prev = p[1]
        <4>1. ~(\A j \in k .. Len(p) : prev # p[j])
          BY <1>5, <3>1
        <4>2. ~(PlainAt(mem, p[1]) /\ mem[p[1]].link = NULL /\ LabelAt(mem, Nth(p, 2)))
          BY <1>4, <4>1 DEF LabelsAt
        <4>3. ~LabelAt(mem, Nth(p, k + 1))
          BY <1>1, <1>5, <1>6, <3>1, <4>2
        <4>. QED
          BY <2>1, <4>3 DEF PlainAt
      <3>2. CASE k > 1 /\ prev = p[k - 1] /\ ~LabelAt(mem, prev)
        BY <1>5, <1>12, <3>2
      <3>. QED
        BY <1>7, <3>1, <3>2
    <2>3. ASSUME NEW j \in k .. Len(r) PROVE prev # r[j]
      <3>a. PICK i : i = j + 1
        OBVIOUS
      <3>1. j \in k .. Len(p) - 1 /\ i \in 1 .. Len(p) /\ i # 1 /\ i # k - 1 /\ r[j] = p[i]
        BY <1>5, <1>12, <2>3, <3>a
      <3>2. k > 1 => k - 1 \in 1 .. Len(p)
        BY <1>5
      <3>3. 1 \in 1 .. Len(p)
        BY <1>5
      <3>. QED
        BY <1>2, <1>7, <3>1, <3>2, <3>3 DEF Once
    <2>4. NoThree(mem, r, k)
      <3>1. NoThree(mem, p, k)
        BY <1>4 DEF LabelsAt, NoThree
      <3>. QED
        BY <1>5, <1>11, <3>1, NoThreeWithout
    <2>. QED
      BY <2>2, <2>3, <2>4 DEF LabelsFrom, NoThree
  <1>14. k \in Nat \ {0} /\ k >= k /\ k =< Len(p)
    BY <1>5
  <1>15. DelLabel(mem, prev, p[k]) /\ mem[p[k]].code = "label"
    BY <1>1, <1>5
  <1>16. Typed' /\ \E r1, s \in Seq(Node) :
                      ListsInv(r1, s)' /\ (phase' = "labels" => Elems(r1) = Elems(p) \ {p[k]})
    BY <1>1, <1>2, <1>4, <1>5, <1>8, <1>9, <1>10, <1>13, <1>14, <1>15, <1>a, DelLabelStep
  <1>. QED
    BY <1>5, <1>16

\* MergeLabel: in a tame program no label is merged into the one before it.
LEMMA MergeStep ==
  ASSUME NEW p \in Seq(Node), NEW q \in Seq(Node), ListsInv(p, q), MergeLabel
  PROVE  FALSE
  <1>1. /\ phase = "labels" /\ node # NULL /\ PlainAt(mem, node) /\ prev # node /\ LabelAt(mem, prev)
    BY DEF MergeLabel, Labelling, Merged, Plain, IsLabel, PlainAt, LabelAt
  <1>2. PICK k \in 1 .. Len(p) + 1 : LabelsInv(p, k)
    BY <1>1 DEF ListsInv
  <1>3. node = Nth(p, k) /\ LabelsAt(mem, p, k, prev)
    BY <1>2 DEF LabelsInv
  <1>4. node = p[k]
    BY <1>1, <1>3 DEF Nth
  <1>. QED
    BY <1>1, <1>3, <1>4 DEF LabelsAt

\* MergeNextLabel: the label behind node is merged into it, and deleted.
LEMMA MergeNextStep ==
  ASSUME Typed, NEW p \in Seq(Node), NEW q \in Seq(Node), ListsInv(p, q), MergeNextLabel
  PROVE  Typed' /\ \E r, s \in Seq(Node) :
                     ListsInv(r, s)' /\ (phase' = "labels" => Elems(r) = Elems(p) \ {mem[node].next})
  <1>a. PICK x : x = mem[node].next
    OBVIOUS
  <1>b. PICK m : m = Moved(x, node)
    OBVIOUS
  <1>1. /\ phase = "labels" /\ node # NULL /\ DelLabel(m, node, x)
        /\ LabelAt(mem, node) /\ PlainAt(mem, x) /\ x # NULL /\ mem[x].code = "label"
    BY <1>a, <1>b DEF MergeNextLabel, Labelling, Plain, IsLabel, PlainAt, LabelAt
  <1>2. Lists(mem, head, list, p, q) /\ Once(p) /\ Path(mem, head, p) /\ Sound(mem)
    BY DEF ListsInv, Lists, Path, Typed
  <1>3. PICK i \in 1 .. Len(p) + 1 : LabelsInv(p, i)
    BY <1>1 DEF ListsInv
  <1>4. /\ Whole(p) /\ Slotted(mem, blocks, Elems(p)) /\ split = <<>>
        /\ node = Nth(p, i) /\ LabelsAt(mem, p, i, prev)
    BY <1>3 DEF LabelsInv
  <1>5. i \in 1 .. Len(p) /\ node = p[i] /\ Len(p) \in Nat /\ i \in Nat /\ i >= 1 /\ node \in Node
    BY <1>1, <1>4, LenProperties, ElemsOf DEF Nth
  <1>c. PICK k : k = i + 1
    OBVIOUS
  <1>6. x = Nth(p, k)
    BY <1>2, <1>5, <1>a, <1>c DEF Path
  <1>7. k \in 1 .. Len(p) /\ x = p[k] /\ k >= 1 /\ k # 1 /\ k - 1 = i /\ k > i /\ k \in Nat /\ x \in Node
    <2>1. k \in 1 .. Len(p) /\ x = p[k]
      BY <1>1, <1>6 DEF Nth
    <2>. QED
      BY <1>5, <1>c, <2>1, ElemsOf
  <1>8. node = Before(p, k)
    BY <1>5, <1>7 DEF Before
  <1>9. mem[p[k]].next = Nth(p, k + 1)
    BY <1>2, <1>7 DEF Path
  <1>10. Sound(m) /\ Relinks(mem, m)
    BY <1>2, <1>5, <1>7, <1>b, MovedIs
  <1>d. PICK r : r = Del(p, k)
    OBVIOUS
  <1>11. Removes(p, k, r)
    BY <1>2, <1>7, <1>d, DelRemoves
  <1>12. Len(r) = Len(p) - 1 /\ \A j \in k .. Len(p) - 1 : r[j] = p[j + 1]
    BY <1>11 DEF Removes
  <1>13. LabelsFrom(mem, r, k, prev)
    <2>1. Nth(r, k) = Nth(p, k + 1)
      BY <1>7, <1>11, NthDel
    <2>2. ~PlainAt(mem, Nth(r, k))
      <3>1. i \in i .. Len(p) /\ k + 1 = i + 2
        BY <1>5, <1>c
      <3>2. LabelAt(mem, p[i]) /\ PlainAt(mem, Nth(p, i + 1)) => ~PlainAt(mem, Nth(p, i + 2))
        BY <1>4, <3>1 DEF LabelsAt
      <3>. QED
        BY <1>1, <1>5, <1>6, <1>c, <2>1, <3>1, <3>2
    <2>3. ASSUME NEW j \in k .. Len(r) PROVE prev # r[j]
      <3>a. PICK h : h = j + 1
        OBVIOUS
      <3>1. h \in i .. Len(p) /\ h \in 1 .. Len(p) /\ h # 1 /\ r[j] = p[h]
        BY <1>5, <1>7, <1>12, <2>3, <3>a
      <3>2. 1 \in 1 .. Len(p)
        BY <1>5
      <3>3. (\A g \in i .. Len(p) : prev # p[g]) \/ prev = p[1]
        BY <1>4 DEF LabelsAt
      <3>. QED
        BY <1>2, <3>1, <3>2, <3>3 DEF Once
    <2>4. NoThree(mem, r, k)
      <3>1. NoThree(mem, p, i)
        BY <1>4 DEF LabelsAt, NoThree
      <3>2. k >= i /\ k >= k
        BY <1>5, <1>7
      <3>. QED
        BY <1>5, <1>7, <1>11, <3>1, <3>2, NoThreeWithout
    <2>. QED
      BY <2>2, <2>3, <2>4 DEF LabelsFrom, NoThree
  <1>14. k \in Nat \ {0} /\ k >= k /\ k =< Len(p)
    BY <1>7
  <1>15. DelLabel(m, node, p[k]) /\ mem[p[k]].code = "label"
    BY <1>1, <1>7
  <1>16. Typed' /\ \E r1, s \in Seq(Node) :
                      ListsInv(r1, s)' /\ (phase' = "labels" => Elems(r1) = Elems(p) \ {p[k]})
    BY <1>1, <1>2, <1>4, <1>7, <1>8, <1>9, <1>10, <1>13, <1>14, <1>15, <1>d, DelLabelStep
  <1>. QED
    BY <1>7, <1>16, <1>a

\* NextLabel: prev follows node.
LEMMA NextLabelStep ==
  ASSUME Typed, NEW p \in Seq(Node), NEW q \in Seq(Node), ListsInv(p, q), NextLabel
  PROVE  Typed' /\ ListsInv(p, q)'
  <1>1. /\ phase = "labels" /\ node # NULL /\ prev' = node /\ node' = mem[node].next /\ phase' = "labels"
        /\ mem' = mem /\ head' = head /\ tail' = tail /\ list' = list /\ blocks' = blocks /\ split' = split
        /\ ~(LabelAt(mem, node) /\ PlainAt(mem, mem[node].next))
    BY DEF NextLabel, Labelling, Plain, IsLabel, PlainAt, LabelAt
  <1>2. /\ Lists(mem, head, list, p, q) /\ Once(p) /\ Path(mem, head, p) /\ Sound(mem)
        /\ blocks \in Seq(0 .. N) /\ split \in Seq(0 .. N)
    BY DEF ListsInv, Lists, Path, Typed
  <1>3. PICK i \in 1 .. Len(p) + 1 : LabelsInv(p, i)
    BY <1>1 DEF ListsInv
  <1>4. /\ Whole(p) /\ Slotted(mem, blocks, Elems(p)) /\ split = <<>>
        /\ node = Nth(p, i) /\ LabelsAt(mem, p, i, prev)
    BY <1>3 DEF LabelsInv
  <1>5. i \in 1 .. Len(p) /\ node = p[i] /\ Len(p) \in Nat /\ i \in Nat /\ i >= 1 /\ node \in Node
    BY <1>1, <1>4, LenProperties, ElemsOf DEF Nth
  <1>c. PICK k : k = i + 1
    OBVIOUS
  <1>6. k \in 1 .. Len(p) + 1 /\ k > 1 /\ k - 1 = i /\ mem[node].next = Nth(p, k)
    BY <1>2, <1>5, <1>c DEF Path
  <1>7. LabelsAt(mem, p, k, node)
    <2>1. PlainAt(mem, Nth(p, k)) => k > 1 /\ node = p[k - 1] /\ ~LabelAt(mem, node)
      BY <1>1, <1>5, <1>6
    <2>2. ASSUME NEW j \in k .. Len(p) PROVE node # p[j]
      <3>1. j \in 1 .. Len(p) /\ j # i
        BY <1>5, <1>6, <2>2
      <3>. QED
        BY <1>2, <1>5, <3>1 DEF Once
    <2>3. ASSUME NEW j \in k .. Len(p), LabelAt(mem, p[j]), PlainAt(mem, Nth(p, j + 1))
          PROVE  ~PlainAt(mem, Nth(p, j + 2))
      <3>1. j \in i .. Len(p)
        BY <1>5, <1>6, <2>3
      <3>. QED
        BY <1>4, <2>3, <3>1 DEF LabelsAt
    <2>. QED
      BY <2>1, <2>2, <2>3 DEF LabelsAt
  <1>8. LabelsInv(p, k)'
    <2>1. Slotted(mem', blocks', Elems(p)) /\ split' = <<>> /\ node' = Nth(p, k) /\ LabelsAt(mem', p, k, prev')
      BY <1>1, <1>4, <1>6, <1>7
    <2>. QED
      BY <1>4, <1>6, <2>1 DEF LabelsInv
  <1>9. Lists(mem', head', list', p, q)
    BY <1>1, <1>2
  <1>10. ListsInv(p, q)'
    <2>1. \E j \in 1 .. Len(p) + 1 : LabelsInv(p, j)'
      BY <1>6, <1>8
    <2>. QED
      BY <1>1, <1>2, <1>9, <2>1 DEF ListsInv
  <1>11. Typed'
    <2>1. mem[node].next \in 0 .. N
      BY <1>2, <1>5 DEF Sound, Fields
    <2>. QED
      BY <1>1, <1>5, <2>1, Numbers DEF Typed
  <1>. QED
    BY <1>10, <1>11

\* EndLabelling: p has the prolog before the epilog, so that its head is not the epilog.
LEMMA EndLabellingStep ==
  ASSUME Typed, NEW p \in Seq(Node), NEW q \in Seq(Node), ListsInv(p, q), EndLabelling
  PROVE  Typed' /\ ListsInv(p, q)'
  <1>1. /\ phase = "labels" /\ phase' = "split" /\ node' = head /\ prev' = prev
        /\ head' = head /\ tail' = tail /\ list' = list /\ blocks' = blocks
        /\ IF mem[head].code \in {"label", "prolog"}
           THEN split' = <<BlockOf(head)>> /\ mem' = [mem EXCEPT ![head].slot = 0]
           ELSE split' = <<>> /\ mem' = mem
    BY DEF EndLabelling
  <1>2. /\ Lists(mem, head, list, p, q) /\ Once(p) /\ Path(mem, head, p) /\ Sound(mem) /\ head = Nth(p, 1)
        /\ blocks \in Seq(0 .. N)
    BY DEF ListsInv, Lists, Path, Typed
  <1>3. Whole(p) /\ Slotted(mem, blocks, Elems(p))
    BY <1>1 DEF ListsInv, LabelsInv
  <1>4. 1 \in 1 .. Len(p) /\ Len(p) \in Nat /\ head = p[1] /\ head \in Node /\ head \in Elems(p) /\ head # EpilogNode
    <2>1. PICK i \in 1 .. Len(p) : p[i] = PrologNode
      BY <1>3, ElemsOf DEF Whole
    <2>2. 1 \in 1 .. Len(p) /\ Len(p) \in Nat /\ Len(p) \in 1 .. Len(p)
      BY <2>1, LenProperties
    <2>3. head = p[1] /\ head \in Node /\ head \in Elems(p)
      BY <1>2, <2>2, ElemsOf DEF Nth
    <2>4. head # EpilogNode
      <3>. SUFFICES ASSUME head = EpilogNode PROVE FALSE
        OBVIOUS
      <3>1. p[1] = p[Len(p)]
        BY <1>3, <2>3 DEF Whole
      <3>2. Len(p) = 1
        BY <1>2, <2>2, <3>1 DEF Once
      <3>3. i = 1
        BY <2>1, <3>2
      <3>. QED
        BY <2>1, <2>3, <3>3, Numbers
    <2>. QED
      BY <2>2, <2>3, <2>4
  <1>5. mem[head].code # "epilog"
    BY <1>2, <1>4 DEF Sound
  <1>6. Upto(p, 1) = {head}
    BY <1>4 DEF Upto
  <1>7. head \notin Behind(p, 1) /\ Behind(p, 1) \subseteq Elems(p) /\ Elems(p) \subseteq Node
    <2>1. ASSUME NEW j \in 1 + 1 .. Len(p) PROVE p[j] # head /\ p[j] \in Elems(p)
      <3>1. j \in 1 .. Len(p) /\ j # 1
        BY <1>4
      <3>. QED
        BY <1>2, <1>4, <3>1, ElemsOf DEF Once
    <2>. QED
      BY <2>1, ElemsOf DEF Behind
  <1>8. /\ Sound(mem') /\ Lists(mem', head', list', p, q)
        /\ \A n \in Node : mem'[n].code = mem[n].code /\ (n # head => mem'[n].slot = mem[n].slot)
        /\ split' \in Seq(0 .. N)
        /\ Slotted(mem', split', Upto(p, 1)) /\ Filled(mem', split', Upto(p, 1))
    <2>1. CASE mem[head].code \in {"label", "prolog"}
      <3>1. split' = <<BlockOf(head)>> /\ mem' = [mem EXCEPT ![head].slot = 0]
        BY <1>1, <2>1
      <3>2. BlockOf(head) = head
        <4>1. mem[head].code \in Heads
          BY <2>1, Codes
        <4>. QED
          BY <1>3, <1>4, <4>1 DEF Slotted, InSlot, BlockOf
      <3>a. PICK rec : rec = [mem[head] EXCEPT !.slot = 0]
        OBVIOUS
      <3>3. mem \in [Node -> Fields] /\ mem[head] \in Fields
        BY <1>2, <1>4 DEF Sound
      <3>4. /\ rec \in Fields /\ rec.slot = 0 /\ rec.code = mem[head].code /\ rec.flag = mem[head].flag
            /\ rec.to = mem[head].to /\ rec.next = mem[head].next
        <4>1. 0 \in 0 .. N
          BY Numbers
        <4>. QED
          BY <3>3, <3>a, <4>1 DEF Fields
      <3>5. mem' = [mem EXCEPT ![head] = rec]
        BY <1>4, <3>1, <3>3, <3>a
      <3>6. Sound([mem EXCEPT ![head] = rec])
        <4>1. /\ "node" \in rec.flag => rec.to \in Node
              /\ rec.code = "epilog" <=> head = EpilogNode
              /\ head = PrologNode => rec.code = "prolog"
          BY <1>2, <1>4, <3>4 DEF Sound
        <4>. QED
          BY <1>2, <1>4, <3>4, <4>1, SoundWith
      <3>7. mem'[head] = rec /\ \A n \in Node : n # head => mem'[n] = mem[n]
        BY <1>4, <3>3, <3>5
      <3>8. Lists(mem', head, list, p, q)
        <4>1. /\ \A n \in Node : mem'[n].next = mem[n].next
              /\ \A n \in Node : mem[n].code = "data" => mem'[n].code = "data" /\ mem'[n].flag = mem[n].flag
          BY <3>4, <3>7
        <4>. QED
          BY <1>2, <4>1, ListsStay
      <3>9. split' = <<head>> /\ head \in 0 .. N
        BY <1>4, <3>1, <3>2, Numbers
      <3>10. split' \in Seq(0 .. N) /\ Len(split') = 1 /\ split'[1] = head
        BY <3>9
      <3>11. mem'[head].slot = 0
        BY <3>4, <3>7
      <3>12. Slotted(mem', split', Upto(p, 1)) /\ Filled(mem', split', Upto(p, 1))
        BY <1>6, <3>10, <3>11 DEF Slotted, InSlot, Filled
      <3>. QED
        BY <1>1, <3>4, <3>5, <3>6, <3>7, <3>8, <3>10, <3>12
    <2>2. CASE mem[head].code \notin {"label", "prolog"}
      <3>1. split' = <<>> /\ mem' = mem
        BY <1>1, <2>2
      <3>2. mem[head].code \notin Heads
        BY <1>5, <2>2 DEF Heads, Ends
      <3>3. Slotted(mem', split', Upto(p, 1)) /\ Filled(mem', split', Upto(p, 1)) /\ split' \in Seq(0 .. N)
        BY <1>6, <3>1, <3>2 DEF Slotted, Filled
      <3>. QED
        BY <1>1, <1>2, <3>1, <3>3
    <2>. QED
      BY <2>1, <2>2
  <1>9. Slotted(mem', blocks', Behind(p, 1))
    <2>1. ASSUME NEW n \in Behind(p, 1), mem'[n].code \in Heads PROVE InSlot(mem', blocks', n)
      <3>1. n \in Elems(p) /\ n \in Node /\ n # head
        BY <1>7
      <3>2. mem[n].code \in Heads /\ mem'[n].slot = mem[n].slot
        BY <1>8, <2>1, <3>1
      <3>. QED
        BY <1>1, <1>3, <3>1, <3>2 DEF Slotted, InSlot
    <2>. QED
      BY <1>1, <1>2, <2>1 DEF Slotted
  <1>10. InOrder(mem', p, 1)
    BY DEF InOrder
  <1>11. SplitInv(p, 1)'
    BY <1>1, <1>3, <1>4, <1>8, <1>9, <1>10, Numbers DEF SplitInv
  <1>12. ListsInv(p, q)'
    <2>1. \E i \in 1 .. Len(p) : SplitInv(p, i)'
      BY <1>4, <1>11
    <2>. QED
      BY <1>1, <1>2, <1>8, <2>1 DEF ListsInv
  <1>13. Typed'
    BY <1>1, <1>8 DEF Typed
  <1>. QED
    BY <1>12, <1>13

-----------------------------------------------------------------------------
(***************************************************************************)
(* split_branches: one node more, which begins a block or does not.        *)
(***************************************************************************)
Ordered(m, v, r, i) ==
  Slotted(m, v, Upto(r, i)) /\ Filled(m, v, Upto(r, i)) /\ InOrder(m, r, i)

\* The next node begins a block, and gets the next slot.
LEMMA OrderedHead ==
  ASSUME NEW m \in [Node -> Fields], NEW m2 \in [Node -> Fields], NEW v \in Seq(0 .. N),
         NEW r \in Seq(Node), NEW i \in Nat \ {0}, i + 1 =< Len(r), Ordered(m, v, r, i),
         \A n \in Upto(r, i) : m2[n].code = m[n].code /\ m2[n].slot = m[n].slot,
         m2[r[i + 1]].code \in Heads, m2[r[i + 1]].slot = Len(v)
  PROVE  Ordered(m2, Append(v, r[i + 1]), r, i + 1)
  <1>1. /\ i + 1 \in 1 .. Len(r) /\ Len(r) \in Nat /\ r[i + 1] \in Node /\ Len(v) \in Nat
        /\ \A j \in 1 .. i : r[j] \in Upto(r, i) /\ r[j] \in Node
    <2>1. Len(r) \in Nat /\ Len(v) \in Nat /\ \A j \in 1 .. Len(r) : r[j] \in Node
      BY LenProperties, ElementOfSeq
    <2>. QED
      BY <2>1 DEF Upto
  <1>2. DEFINE w == Append(v, r[i + 1])
  <1>3. /\ w \in Seq(0 .. N) /\ Len(w) = Len(v) + 1 /\ w[Len(v) + 1] = r[i + 1]
        /\ \A k \in 1 .. Len(v) : w[k] = v[k]
    BY <1>1, Numbers, AppendProperties
  <1>. HIDE DEF w
  <1>4. Upto(r, i + 1) = Upto(r, i) \cup {r[i + 1]}
    BY <1>1 DEF Upto
  <1>5. Slotted(m2, w, Upto(r, i + 1))
    <2>1. ASSUME NEW n \in Upto(r, i), m2[n].code \in Heads PROVE InSlot(m2, w, n)
      <3>1. m[n].code \in Heads /\ m2[n].slot = m[n].slot
        BY <2>1
      <3>2. m[n].slot + 1 \in 1 .. Len(v) /\ v[m[n].slot + 1] = n
        BY <3>1 DEF Ordered, Slotted, InSlot
      <3>. QED
        BY <1>1, <1>3, <3>1, <3>2 DEF InSlot
    <2>2. InSlot(m2, w, r[i + 1])
      BY <1>1, <1>3 DEF InSlot
    <2>. QED
      BY <1>3, <1>4, <2>1, <2>2 DEF Slotted
  <1>6. Filled(m2, w, Upto(r, i + 1))
    <2>1. ASSUME NEW k \in 1 .. Len(w) PROVE w[k] \in Upto(r, i + 1) /\ m2[w[k]].slot = k - 1
      <3>1. CASE k = Len(v) + 1
        BY <1>1, <1>3, <1>4, <3>1
      <3>2. CASE k \in 1 .. Len(v)
        BY <1>3, <1>4, <3>2, SMTT(20) DEF Ordered, Filled
      <3>. QED
        BY <1>1, <1>3, <3>1, <3>2
    <2>. QED
      BY <2>1 DEF Filled
  <1>7. InOrder(m2, r, i + 1)
    <2>1. ASSUME NEW j \in 1 .. i + 1, NEW k \in 1 .. i + 1, j < k,
                 m2[r[j]].code \in Heads, m2[r[k]].code \in Heads
          PROVE  m2[r[j]].slot < m2[r[k]].slot
      <3>1. j \in 1 .. i /\ r[j] \in Upto(r, i) /\ m[r[j]].code \in Heads /\ m2[r[j]].slot = m[r[j]].slot
        BY <1>1, <2>1
      <3>2. CASE k = i + 1
        <4>1. m[r[j]].slot + 1 \in 1 .. Len(v)
          BY <3>1 DEF Ordered, Slotted, InSlot
        <4>2. m[r[j]].slot \in 0 .. N
          BY <1>1, <3>1 DEF Fields
        <4>3. \A s \in 0 .. N : s + 1 \in 1 .. Len(v) => s < Len(v)
          BY <1>1, Numbers
        <4>4. m[r[j]].slot < Len(v)
          BY <4>1, <4>2, <4>3
        <4>. QED
          BY <3>1, <3>2, <4>4
      <3>3. CASE k \in 1 .. i
        <4>1. m[r[k]].code \in Heads /\ m2[r[k]].slot = m[r[k]].slot
          BY <1>1, <2>1, <3>3
        <4>. QED
          BY <2>1, <3>1, <3>3, <4>1 DEF Ordered, InOrder
      <3>. QED
        BY <3>2, <3>3
    <2>2. ASSUME NEW j \in 1 .. (i + 1) - 1, m2[r[j]].code \in Jump PROVE m2[r[j + 1]].code \in Heads
      <3>1. j \in 1 .. i /\ m[r[j]].code \in Jump
        BY <1>1, <2>2
      <3>2. CASE j = i
        BY <3>2
      <3>3. CASE j # i
        <4>1. j \in 1 .. i - 1 /\ j + 1 \in 1 .. i
          BY <3>1, <3>3
        <4>2. m[r[j + 1]].code \in Heads
          BY <3>1, <4>1 DEF Ordered, InOrder
        <4>. QED
          BY <1>1, <4>1, <4>2
      <3>. QED
        BY <3>2, <3>3
    <2>. QED
      BY <2>1, <2>2 DEF InOrder
  <1>. QED
    BY <1>5, <1>6, <1>7 DEF Ordered, w

\* The next node does not begin a block, and the one before it is no jump.
LEMMA OrderedOther ==
  ASSUME NEW m, NEW v, NEW r \in Seq(Node), NEW i \in Nat \ {0}, i + 1 =< Len(r), Ordered(m, v, r, i),
         m[r[i + 1]].code \notin Heads, m[r[i]].code \notin Jump
  PROVE  Ordered(m, v, r, i + 1)
  <1>1. Upto(r, i + 1) = Upto(r, i) \cup {r[i + 1]}
    BY DEF Upto
  <1>2. Slotted(m, v, Upto(r, i + 1))
    BY <1>1 DEF Ordered, Slotted
  <1>3. Filled(m, v, Upto(r, i + 1))
    BY <1>1 DEF Ordered, Filled
  <1>4. InOrder(m, r, i + 1)
    <2>1. ASSUME NEW j \in 1 .. i + 1, NEW k \in 1 .. i + 1, j < k,
                 m[r[j]].code \in Heads, m[r[k]].code \in Heads
          PROVE  m[r[j]].slot < m[r[k]].slot
      <3>1. j # i + 1 /\ k # i + 1
        BY <2>1
      <3>2. j \in 1 .. i /\ k \in 1 .. i
        BY <3>1
      <3>. QED
        BY <2>1, <3>2 DEF Ordered, InOrder
    <2>2. ASSUME NEW j \in 1 .. (i + 1) - 1, m[r[j]].code \in Jump PROVE m[r[j + 1]].code \in Heads
      <3>1. j # i
        BY <2>2
      <3>2. j \in 1 .. i - 1
        BY <3>1
      <3>. QED
        BY <2>2, <3>2 DEF Ordered, InOrder
    <2>. QED
      BY <2>1, <2>2 DEF InOrder
  <1>. QED
    BY <1>2, <1>3, <1>4 DEF Ordered

\* Where split_branches is.
LEMMA AheadIs ==
  ASSUME Typed, NEW p \in Seq(Node), Path(mem, head, p), NEW i \in 1 .. Len(p), SplitInv(p, i), node # NULL
  PROVE  /\ node = p[i] /\ node \in Node /\ Ahead = Nth(p, i + 1) /\ Ahead \in 0 .. N
         /\ Upto(p, i) \subseteq Elems(p) /\ Behind(p, i) \subseteq Elems(p) /\ Elems(p) \subseteq Node
         /\ Ahead = NULL => i = Len(p)
         /\ Ahead # NULL => /\ i + 1 \in 1 .. Len(p) /\ Ahead = p[i + 1] /\ Ahead \in Node
                            /\ Ahead \in Behind(p, i) /\ Ahead \notin Upto(p, i) /\ Ahead \notin Behind(p, i + 1)
                            /\ Behind(p, i + 1) \subseteq Behind(p, i)
  <1>1. node = p[i] /\ Len(p) \in Nat /\ i \in Nat \ {0} /\ i + 1 \in Nat \ {0}
    BY LenProperties DEF SplitInv
  <1>2. node \in Node /\ Ahead = Nth(p, i + 1)
    BY <1>1, ElemsOf DEF Path, Ahead
  <1>3. Upto(p, i) \subseteq Elems(p) /\ Behind(p, i) \subseteq Elems(p) /\ Elems(p) \subseteq Node
    BY <1>1, ElemsOf DEF Upto, Behind, Elems
  <1>4. Ahead \in 0 .. N /\ (Ahead = NULL => i + 1 \notin 1 .. Len(p))
        /\ (Ahead # NULL => i + 1 \in 1 .. Len(p) /\ Ahead = p[i + 1] /\ Ahead \in Node)
    BY <1>1, <1>2, NthOf, Numbers, SMTT(20)
  <1>5. Ahead = NULL => i = Len(p)
    BY <1>1, <1>4
  <1>6. ASSUME Ahead # NULL
        PROVE  /\ Ahead \in Behind(p, i) /\ Ahead \notin Upto(p, i) /\ Ahead \notin Behind(p, i + 1)
               /\ Behind(p, i + 1) \subseteq Behind(p, i)
    <2>1. i + 1 \in 1 .. Len(p) /\ Ahead = p[i + 1]
      BY <1>4, <1>6
    <2>2. Ahead \in Behind(p, i) /\ Behind(p, i + 1) \subseteq Behind(p, i)
      BY <1>1, <2>1 DEF Behind
    <2>3. \A j \in 1 .. Len(p) : p[j] = Ahead => j = i + 1
      BY <2>1 DEF Path, Once
    <2>4. Ahead \notin Upto(p, i)
      BY <1>1, <2>1, <2>3 DEF Upto
    <2>5. Ahead \notin Behind(p, i + 1)
      BY <1>1, <2>1, <2>3 DEF Behind
    <2>. QED
      BY <2>2, <2>4, <2>5
  <1>. QED
    BY <1>1, <1>2, <1>3, <1>4, <1>5, <1>6

\* NextBlock: nothing is done at this node.
LEMMA NextBlockStep ==
  ASSUME Typed, NEW p \in Seq(Node), NEW q \in Seq(Node), ListsInv(p, q), NextBlock
  PROVE  Typed' /\ ListsInv(p, q)'
  <1>1. /\ phase = "split" /\ node # NULL /\ ~AtHead /\ ~AtBranch /\ node' = Ahead
        /\ UNCHANGED <<mem, head, tail, list, blocks, phase, prev, split>>
    BY DEF NextBlock, Splitting
  <1>2. PICK i \in 1 .. Len(p) : SplitInv(p, i)
    BY <1>1 DEF ListsInv
  <1>3. Path(mem, head, p)
    BY DEF ListsInv, Lists
  <1>4. /\ node = p[i] /\ Ahead \in 0 .. N
        /\ Ahead = NULL => i = Len(p)
        /\ Ahead # NULL => /\ i + 1 \in 1 .. Len(p) /\ Ahead = p[i + 1]
                           /\ Behind(p, i + 1) \subseteq Behind(p, i)
    BY <1>1, <1>2, <1>3, AheadIs
  <1>5. Ordered(mem, split, p, i) /\ Slotted(mem, blocks, Behind(p, i)) /\ Whole(p)
    BY <1>2 DEF SplitInv, Ordered
  <1>6. \E k \in 1 .. Len(p) : SplitInv(p, k)'
    <2>1. CASE Ahead = NULL
      <3>1. SplitInv(p, i)'
        BY <1>1, <1>2, <1>4, <2>1 DEF SplitInv
      <3>. QED
        BY <3>1
    <2>2. CASE Ahead # NULL
      <3>1. mem[p[i + 1]].code \notin Heads /\ mem[p[i]].code \notin Jump
        BY <1>1, <1>4, <2>2 DEF AtHead, AtBranch
      <3>2. Ordered(mem, split, p, i + 1)
        BY <1>4, <1>5, <2>2, <3>1, OrderedOther
      <3>3. Slotted(mem, blocks, Behind(p, i + 1))
        BY <1>4, <1>5, <2>2 DEF Slotted
      <3>4. SplitInv(p, i + 1)'
        BY <1>1, <1>4, <1>5, <2>2, <3>2, <3>3 DEF SplitInv, Ordered
      <3>. QED
        BY <1>4, <2>2, <3>4
    <2>. QED
      BY <2>1, <2>2
  <1>7. ListsInv(p, q)'
    BY <1>1, <1>6 DEF ListsInv
  <1>8. Typed'
    BY <1>1, <1>4 DEF Typed
  <1>. QED
    BY <1>7, <1>8

\* KeepBlock: the block ahead gets the next slot.
LEMMA KeepBlockStep ==
  ASSUME Typed, NEW p \in Seq(Node), NEW q \in Seq(Node), ListsInv(p, q), KeepBlock
  PROVE  Typed' /\ ListsInv(p, q)'
  <1>1. /\ phase = "split" /\ node # NULL /\ Ahead # NULL /\ mem[Ahead].code \in Heads
        /\ split' = Append(split, BlockOf(Ahead)) /\ mem' = [mem EXCEPT ![Ahead].slot = Len(split)]
        /\ node' = Ahead /\ UNCHANGED <<head, tail, list, blocks, phase, prev>>
    BY DEF KeepBlock, Splitting, AtHead
  <1>2. PICK i \in 1 .. Len(p) : SplitInv(p, i)
    BY <1>1 DEF ListsInv
  <1>3. Lists(mem, head, list, p, q) /\ Path(mem, head, p) /\ Sound(mem) /\ mem \in [Node -> Fields]
    BY DEF ListsInv, Lists, Typed, Sound
  <1>4. /\ i + 1 \in 1 .. Len(p) /\ Ahead = p[i + 1] /\ Ahead \in Node
        /\ Ahead \in Behind(p, i) /\ Ahead \notin Upto(p, i) /\ Ahead \notin Behind(p, i + 1)
        /\ Behind(p, i + 1) \subseteq Behind(p, i)
        /\ Upto(p, i) \subseteq Node /\ Behind(p, i) \subseteq Node
    BY <1>1, <1>2, <1>3, AheadIs
  <1>. HIDE DEF Ahead
  <1>5. Ordered(mem, split, p, i) /\ Slotted(mem, blocks, Behind(p, i)) /\ Whole(p)
    BY <1>2 DEF SplitInv, Ordered
  <1>6. BlockOf(Ahead) = Ahead
    BY <1>1, <1>4, <1>5 DEF Slotted, InSlot, BlockOf
  <1>7. split \in Seq(0 .. N) /\ Len(split) \in 0 .. N
    <2>1. split \in Seq(0 .. N) /\ Filled(mem, split, Upto(p, i))
      BY <1>5 DEF Ordered, Slotted
    <2>. QED
      BY <1>3, <1>4, <2>1, SlotsFit
  <1>a. PICK rec : rec = [mem[Ahead] EXCEPT !.slot = Len(split)]
    OBVIOUS
  <1>8. /\ rec \in Fields /\ rec.slot = Len(split) /\ rec.next = mem[Ahead].next
        /\ rec.code = mem[Ahead].code /\ rec.flag = mem[Ahead].flag /\ rec.to = mem[Ahead].to
    <2>1. mem[Ahead] \in Fields
      BY <1>3, <1>4
    <2>. QED
      BY <1>7, <1>a, <2>1 DEF Fields
  <1>9. mem' = [mem EXCEPT ![Ahead] = rec]
    BY <1>1, <1>3, <1>4, <1>a
  <1>10. mem'[Ahead] = rec /\ \A n \in Node : n # Ahead => mem'[n] = mem[n]
    BY <1>3, <1>4, <1>9
  <1>11. Sound(mem')
    <2>1. /\ "node" \in rec.flag => rec.to \in Node
          /\ rec.code = "epilog" <=> Ahead = EpilogNode
          /\ Ahead = PrologNode => rec.code = "prolog"
      BY <1>3, <1>4, <1>8 DEF Sound
    <2>2. Sound([mem EXCEPT ![Ahead] = rec])
      BY <1>3, <1>4, <1>8, <2>1, SoundWith
    <2>. QED
      BY <1>9, <2>2
  <1>12. Lists(mem', head', list', p, q)
    <2>1. /\ \A n \in Node : mem'[n].next = mem[n].next
          /\ \A n \in Node : mem[n].code = "data" => mem'[n].code = "data" /\ mem'[n].flag = mem[n].flag
      BY <1>8, <1>10
    <2>2. Lists(mem', head, list, p, q)
      BY <1>3, <2>1, ListsStay
    <2>. QED
      BY <1>1, <2>2
  <1>13. Ordered(mem', split', p, i + 1)
    <2>1. \A n \in Upto(p, i) : mem'[n].code = mem[n].code /\ mem'[n].slot = mem[n].slot
      BY <1>4, <1>10
    <2>2. mem'[p[i + 1]].code \in Heads /\ mem'[p[i + 1]].slot = Len(split) /\ mem' \in [Node -> Fields]
      BY <1>1, <1>4, <1>8, <1>10, <1>11 DEF Sound
    <2>3. i \in Nat \ {0} /\ i + 1 =< Len(p)
      BY <1>4, LenProperties
    <2>4. Ordered(mem', Append(split, p[i + 1]), p, i + 1)
      BY <1>3, <1>5, <1>7, <2>1, <2>2, <2>3, OrderedHead
    <2>. QED
      BY <1>1, <1>4, <1>6, <2>4
  <1>14. Slotted(mem', blocks', Behind(p, i + 1))
    <2>1. ASSUME NEW n \in Behind(p, i + 1), mem'[n].code \in Heads PROVE InSlot(mem', blocks', n)
      <3>1. n \in Behind(p, i) /\ mem'[n] = mem[n]
        BY <1>4, <1>10
      <3>. QED
        BY <1>1, <1>5, <2>1, <3>1 DEF Slotted, InSlot
    <2>. QED
      BY <1>1, <1>5, <2>1 DEF Slotted
  <1>15. SplitInv(p, i + 1)'
    BY <1>1, <1>4, <1>5, <1>13, <1>14 DEF SplitInv, Ordered
  <1>16. ListsInv(p, q)'
    <2>1. split' \in Seq(0 .. N) /\ blocks' \in Seq(0 .. N)
      BY <1>13, <1>14 DEF Ordered, Slotted
    <2>. QED
      BY <1>1, <1>4, <1>12, <1>15, <2>1 DEF ListsInv
  <1>17. Typed'
    BY <1>1, <1>4, <1>11, Numbers DEF Typed
  <1>. QED
    BY <1>16, <1>17

\* EndSplitting: all nodes have been looked at.
LEMMA EndSplittingStep ==
  ASSUME Typed, NEW p \in Seq(Node), NEW q \in Seq(Node), ListsInv(p, q), EndSplitting
  PROVE  Typed' /\ ListsInv(p, q)'
  <1>1. /\ phase = "split" /\ node = NULL /\ phase' = "done" /\ blocks' = split
        /\ UNCHANGED <<mem, head, tail, list, prev, node, split>>
    BY DEF EndSplitting
  <1>2. PICK i \in 1 .. Len(p) : SplitInv(p, i)
    BY <1>1 DEF ListsInv
  <1>3. /\ i = Len(p) /\ Whole(p) /\ Slotted(mem, split, Upto(p, i)) /\ InOrder(mem, p, i)
    BY <1>1, <1>2 DEF SplitInv
  <1>4. Upto(p, i) = Elems(p)
    BY <1>3 DEF Upto, Elems
  <1>5. DoneInv(p)'
    BY <1>1, <1>3, <1>4 DEF DoneInv
  <1>6. ListsInv(p, q)'
    BY <1>1, <1>5 DEF ListsInv
  <1>7. Typed'
    BY <1>1 DEF Typed
  <1>. QED
    BY <1>6, <1>7

\* SplitBlock: a free node becomes the label of a new block between node and Ahead.
LEMMA SplitBlockStep ==
  ASSUME Typed, NEW p \in Seq(Node), NEW q \in Seq(Node), ListsInv(p, q), SplitBlock
  PROVE  /\ Typed' /\ \E r, s \in Seq(Node) : ListsInv(r, s)' /\ Elems(r) = Elems(p) \cup {list}
         /\ node \in Elems(p) /\ list \in Node \ Elems(p) /\ Ahead \in Elems(p) /\ list # EpilogNode
         /\ \A n \in Elems(p) : mem[n].next = Ahead <=> n = node
         /\ mem'[list].code = "label" /\ mem'[list].flag = {} /\ mem'[list].next = Ahead
         /\ \A n \in Node \ {list} : /\ mem'[n].code = mem[n].code /\ mem'[n].flag = mem[n].flag
                                     /\ mem'[n].to = mem[n].to
                                     /\ mem'[n].next = IF n = node THEN list ELSE mem[n].next
  <1>1. /\ phase = "split" /\ node # NULL /\ Ahead # NULL /\ mem[Ahead].code \notin Heads
        /\ mem[node].code \in Jump /\ list # NULL
        /\ mem' = [mem EXCEPT ![list].code = "label", ![list].next = Ahead,
                              ![node].next = list, ![list].slot = Len(split)]
        /\ list' = mem[list].next /\ split' = Append(split, list)
        /\ node' = Ahead /\ UNCHANGED <<head, tail, blocks, phase, prev>>
    BY DEF SplitBlock, Splitting, AtBranch, AtHead
  <1>2. PICK i \in 1 .. Len(p) : SplitInv(p, i)
    BY <1>1 DEF ListsInv
  <1>3. /\ Lists(mem, head, list, p, q) /\ Path(mem, head, p) /\ Path(mem, list, q) /\ Apart(p, q)
        /\ Sound(mem) /\ mem \in [Node -> Fields]
        /\ \A n \in Elems(q) : mem[n].code = "data" /\ mem[n].flag = {}
    BY DEF ListsInv, Lists, Typed, Sound
  <1>4. /\ node = p[i] /\ node \in Node /\ i + 1 \in 1 .. Len(p) /\ Ahead = p[i + 1] /\ Ahead \in Node
        /\ Ahead = Nth(p, i + 1) /\ Ahead \in Behind(p, i) /\ Behind(p, i + 1) \subseteq Behind(p, i)
        /\ Upto(p, i) \subseteq Elems(p) /\ Behind(p, i) \subseteq Elems(p) /\ Elems(p) \subseteq Node
        /\ Ahead \notin Upto(p, i)
    BY <1>1, <1>2, <1>3, AheadIs
  <1>. HIDE DEF Ahead
  <1>5. Ordered(mem, split, p, i) /\ Slotted(mem, blocks, Behind(p, i)) /\ Whole(p)
    BY <1>2 DEF SplitInv, Ordered
  <1>6. /\ Len(q) > 0 /\ list = q[1] /\ list \in Node /\ list \in Elems(q) /\ list \notin Elems(p)
        /\ mem[list].code = "data" /\ mem[list].flag = {} /\ list # node /\ list # Ahead
        /\ list # EpilogNode /\ list # PrologNode
    <2>1. list = Nth(q, 1)
      BY <1>3 DEF Path
    <2>2. 1 \in 1 .. Len(q) /\ list = q[1]
      BY <1>1, <2>1 DEF Nth
    <2>3. list \in Node /\ list \in Elems(q)
      BY <2>2, ElemsOf
    <2>4. list \notin Elems(p)
      BY <1>3, <2>3 DEF Apart
    <2>5. node \in Elems(p) /\ Ahead \in Elems(p)
      BY <1>4, ElemsOf
    <2>6. EpilogNode \in Elems(p) /\ PrologNode \in Elems(p)
      BY <1>5 DEF Whole
    <2>. QED
      BY <1>3, <2>2, <2>3, <2>4, <2>5, <2>6, LenProperties
  <1>7. split \in Seq(0 .. N) /\ Len(split) \in 0 .. N
    <2>1. split \in Seq(0 .. N) /\ Filled(mem, split, Upto(p, i)) /\ Upto(p, i) \in SUBSET Node
      BY <1>4, <1>5 DEF Ordered, Slotted
    <2>. QED
      BY <1>3, <2>1, SlotsFit
  <1>a. PICK rec : rec = [mem[list] EXCEPT !.code = "label", !.next = Ahead, !.slot = Len(split)]
    OBVIOUS
  <1>b. PICK jump : jump = [mem[node] EXCEPT !.next = list]
    OBVIOUS
  <1>8. /\ rec \in Fields /\ rec.slot = Len(split) /\ rec.next = Ahead
        /\ rec.code = "label" /\ rec.flag = {}
    <2>1. mem[list] \in Fields /\ Ahead \in 0 .. N /\ "label" \in Code
      BY <1>3, <1>4, <1>6, Codes, Numbers
    <2>. QED
      BY <1>6, <1>7, <1>a, <2>1 DEF Fields
  <1>9. /\ jump \in Fields /\ jump.slot = mem[node].slot /\ jump.next = list
        /\ jump.code = mem[node].code /\ jump.flag = mem[node].flag /\ jump.to = mem[node].to
    <2>1. mem[node] \in Fields /\ list \in 0 .. N
      BY <1>3, <1>4, <1>6, Numbers
    <2>. QED
      BY <1>b, <2>1 DEF Fields
  <1>10. mem' = [[mem EXCEPT ![list] = rec] EXCEPT ![node] = jump]
    BY <1>1, <1>3, <1>4, <1>6, <1>a, <1>b
  <1>11. mem'[list] = rec /\ mem'[node] = jump /\ \A n \in Node : n # list /\ n # node => mem'[n] = mem[n]
    BY <1>3, <1>4, <1>6, <1>10
  <1>12. Sound(mem')
    <2>1. Sound([mem EXCEPT ![list] = rec])
      BY <1>3, <1>6, <1>8, SoundWith
    <2>2. /\ "node" \in jump.flag => jump.to \in Node
          /\ jump.code = "epilog" <=> node = EpilogNode
          /\ node = PrologNode => jump.code = "prolog"
      BY <1>3, <1>4, <1>9 DEF Sound
    <2>3. PICK m : m = [mem EXCEPT ![list] = rec]
      OBVIOUS
    <2>4. Sound([m EXCEPT ![node] = jump])
      BY <1>4, <1>9, <2>1, <2>2, <2>3, SoundWith
    <2>. QED
      BY <1>10, <2>3, <2>4
  <1>13. PICK r : r = Ins(p, i + 1, list)
    OBVIOUS
  <1>14. PICK s : s = Del(q, 1)
    OBVIOUS
  <1>15. Inserts(p, i + 1, list, r) /\ Freed(q, list, s) /\ Lists(mem', head', list', r, s)
    <2>1. Joins(mem, mem', p, i + 1, list)
      <3>1. /\ i + 1 \in 1 .. Len(p) + 1 /\ i + 1 > 1 /\ (i + 1) - 1 = i /\ i + 1 # 1
        BY <1>4, LenProperties
      <3>2. mem'[list].next = Nth(p, i + 1)
        BY <1>4, <1>8, <1>11
      <3>3. ASSUME NEW n \in Node, n # list
            PROVE  /\ mem'[n].next = IF i + 1 > 1 /\ n = p[(i + 1) - 1] THEN list ELSE mem[n].next
                   /\ mem[n].code = "data" => mem'[n].code = "data" /\ mem'[n].flag = mem[n].flag
        BY <1>4, <1>9, <1>11, <3>1, <3>3
      <3>. QED
        BY <1>6, <3>1, <3>2, <3>3 DEF Joins
    <2>2. FromFree(mem, list, list', q, s, list)
      BY <1>1, <1>6, <1>14 DEF FromFree
    <2>3. i + 1 # 1
      BY <1>4
    <2>4. /\ Inserts(p, i + 1, list, r) /\ Freed(q, list, s)
          /\ Lists(mem', IF i + 1 = 1 THEN list ELSE head, list', r, s)
      BY <1>3, <1>13, <2>1, <2>2, ListsWith
    <2>. QED
      BY <1>1, <2>3, <2>4
  <1>16. /\ r \in Seq(Node) /\ s \in Seq(Node) /\ Len(r) = Len(p) + 1 /\ Len(p) \in Nat /\ i \in Nat \ {0}
         /\ i + 2 \in 1 .. Len(r) /\ r[i + 1] = list /\ r[i + 2] = Ahead /\ r[i] = node
         /\ \A j \in 1 .. i : r[j] = p[j]
         /\ Elems(r) = Elems(p) \cup {list}
    <2>1. /\ Len(p) \in Nat /\ r \in Seq(Node) /\ s \in Seq(Node) /\ Len(r) = Len(p) + 1
          /\ Elems(r) = Elems(p) \cup {list} /\ r[i + 1] = list
          /\ \A j \in 1 .. (i + 1) - 1 : r[j] = p[j]
          /\ \A j \in (i + 1) + 1 .. Len(p) + 1 : r[j] = p[j - 1]
      BY <1>15, LenProperties DEF Inserts, Freed
    <2>2. i \in 1 .. (i + 1) - 1 /\ i + 2 \in (i + 1) + 1 .. Len(p) + 1 /\ (i + 2) - 1 = i + 1
      BY <1>4, <2>1
    <2>3. r[i + 2] = Ahead /\ r[i] = node
      BY <1>4, <2>1, <2>2
    <2>. QED
      BY <1>4, <2>1, <2>2, <2>3
  <1>17. Upto(r, i) = Upto(p, i) /\ Behind(r, i + 2) = Behind(p, i + 1)
    <2>1. Upto(r, i) = Upto(p, i)
      BY <1>16 DEF Upto
    <2>2. ASSUME NEW j \in (i + 2) + 1 .. Len(r) PROVE r[j] \in Behind(p, i + 1)
      <3>1. PICK k : k = j - 1
        OBVIOUS
      <3>2. k \in (i + 1) + 1 .. Len(p) /\ r[j] = p[k]
        BY <1>15, <1>16, <3>1 DEF Inserts
      <3>. QED
        BY <3>2 DEF Behind
    <2>3. ASSUME NEW k \in (i + 1) + 1 .. Len(p) PROVE p[k] \in Behind(r, i + 2)
      <3>1. PICK j : j = k + 1
        OBVIOUS
      <3>2. j \in (i + 2) + 1 .. Len(r) /\ j - 1 = k /\ j \in (i + 1) + 1 .. Len(p) + 1
        BY <1>16, <3>1
      <3>3. r[j] = p[k]
        BY <1>15, <3>2 DEF Inserts
      <3>. QED
        BY <3>2, <3>3 DEF Behind
    <2>4. Behind(r, i + 2) \subseteq Behind(p, i + 1)
      BY <2>2 DEF Behind
    <2>5. Behind(p, i + 1) \subseteq Behind(r, i + 2)
      BY <2>3 DEF Behind
    <2>. QED
      BY <2>1, <2>4, <2>5
  <1>18. Ordered(mem', split', r, i + 2)
    <2>1. Ordered(mem, split, r, i)
      <3>1. InOrder(mem, p, i)
        BY <1>5 DEF Ordered
      <3>2. \A j \in 1 .. i - 1 : j \in 1 .. i /\ j + 1 \in 1 .. i
        BY <1>16
      <3>3. InOrder(mem, r, i)
        BY <1>16, <3>1, <3>2 DEF InOrder
      <3>. QED
        BY <1>5, <1>17, <3>3 DEF Ordered
    <2>2. \A n \in Upto(r, i) : mem'[n].code = mem[n].code /\ mem'[n].slot = mem[n].slot
      BY <1>4, <1>6, <1>9, <1>11, <1>17
    <2>3. mem'[r[i + 1]].code \in Heads /\ mem'[r[i + 1]].slot = Len(split) /\ mem' \in [Node -> Fields]
      BY <1>8, <1>11, <1>12, <1>16, Codes DEF Sound
    <2>4. i + 1 =< Len(r) /\ i + 1 \in Nat \ {0} /\ (i + 1) + 1 =< Len(r) /\ (i + 1) + 1 = i + 2
      BY <1>16
    <2>5. Ordered(mem', Append(split, r[i + 1]), r, i + 1)
      BY <1>3, <1>7, <1>16, <2>1, <2>2, <2>3, <2>4, OrderedHead
    <2>6. Ordered(mem', split', r, i + 1)
      BY <1>1, <1>16, <2>5
    <2>7. mem'[r[i + 2]].code \notin Heads /\ mem'[r[i + 1]].code \notin Jump
      <3>1. Ahead # node
        BY <1>4, <1>16 DEF Upto
      <3>. QED
        BY <1>1, <1>4, <1>6, <1>8, <1>11, <1>16, <3>1 DEF Jump
    <2>8. Ordered(mem', split', r, (i + 1) + 1)
      BY <1>16, <2>4, <2>6, <2>7, OrderedOther
    <2>. QED
      BY <2>4, <2>8
  <1>19. Slotted(mem', blocks', Behind(r, i + 2))
    <2>1. ASSUME NEW n \in Behind(p, i + 1), mem'[n].code \in Heads PROVE InSlot(mem', blocks', n)
      <3>1. n \in Behind(p, i) /\ n # list /\ n \in Node
        BY <1>4, <1>6
      <3>2. mem'[n].slot = mem[n].slot /\ mem'[n].code = mem[n].code
        BY <1>9, <1>11, <3>1
      <3>. QED
        BY <1>1, <1>5, <2>1, <3>1, <3>2 DEF Slotted, InSlot
    <2>. QED
      BY <1>1, <1>5, <1>17, <2>1 DEF Slotted
  <1>20. Whole(r)
    <2>1. r[Len(r)] = p[Len(p)]
      <3>1. Len(r) \in (i + 1) + 1 .. Len(p) + 1 /\ Len(r) - 1 = Len(p)
        BY <1>16
      <3>. QED
        BY <1>15, <3>1 DEF Inserts
    <2>. QED
      BY <1>5, <1>16, <2>1 DEF Whole
  <1>21. SplitInv(r, i + 2)'
    <2>1. node' # NULL
      BY <1>1
    <2>. QED
      BY <1>1, <1>16, <1>18, <1>19, <1>20, <2>1 DEF SplitInv, Ordered
  <1>22. ListsInv(r, s)'
    <2>1. split' \in Seq(0 .. N) /\ blocks' \in Seq(0 .. N)
      BY <1>18, <1>19 DEF Ordered, Slotted
    <2>. QED
      BY <1>1, <1>15, <1>16, <1>21, <2>1 DEF ListsInv
  <1>23. Typed'
    <2>1. mem[list].next \in 0 .. N
      BY <1>3, <1>6 DEF Fields
    <2>. QED
      BY <1>1, <1>4, <1>12, <2>1, Numbers DEF Typed
  <1>24. \A n \in Node \ {list} : /\ mem'[n].code = mem[n].code /\ mem'[n].flag = mem[n].flag
                                   /\ mem'[n].to = mem[n].to
                                   /\ mem'[n].next = IF n = node THEN list ELSE mem[n].next
    BY <1>4, <1>9, <1>11
  <1>25. \A n \in Elems(p) : mem[n].next = Ahead <=> n = node
    <2>1. \A n \in Elems(p) : \E j \in 1 .. Len(p) : n = p[j] /\ mem[n].next = Nth(p, j + 1)
      BY <1>3 DEF Path, Elems
    <2>. SUFFICES ASSUME NEW j \in 1 .. Len(p), mem[p[j]].next = Nth(p, j + 1)
                  PROVE  mem[p[j]].next = Ahead <=> p[j] = node
      BY <2>1
    <2>2. Once(p) /\ i \in 1 .. Len(p) /\ Len(p) \in Nat /\ (j + 1 = i + 1 <=> j = i)
      BY <1>3, <1>16 DEF Path
    <2>3. Nth(p, j + 1) = Nth(p, i + 1) => j = i
      <3>1. CASE j + 1 \in 1 .. Len(p)
        <4>1. Nth(p, j + 1) = p[j + 1]
          BY <3>1 DEF Nth
        <4>. QED
          BY <1>4, <2>2, <3>1, <4>1 DEF Once
      <3>2. CASE j + 1 \notin 1 .. Len(p)
        BY <1>1, <1>4, <3>2 DEF Nth
      <3>. QED
        BY <3>1, <3>2
    <2>. QED
      BY <1>4, <2>2, <2>3 DEF Once
  <1>26. /\ node \in Elems(p) /\ Ahead \in Elems(p)
         /\ mem'[list].code = "label" /\ mem'[list].flag = {} /\ mem'[list].next = Ahead
    BY <1>4, <1>8, <1>11, ElemsOf
  <1>. QED
    BY <1>6, <1>16, <1>22, <1>23, <1>24, <1>25, <1>26

-----------------------------------------------------------------------------
(***************************************************************************)
(* The invariant.                                                          *)
(***************************************************************************)
LEMMA PassesStep ==
  ASSUME Typed, NEW p \in Seq(Node), NEW q \in Seq(Node), ListsInv(p, q), Passes,
         EndThreading => Tame
  PROVE  Typed' /\ \E r, s \in Seq(Node) : ListsInv(r, s)'
  <1>1. CASE RedundantJump
    BY <1>1, RedundantStep
  <1>2. CASE ReverseJump
    BY <1>2, ReverseStep
  <1>3. CASE ShortcutJump
    BY <1>3, ShortcutStep
  <1>4. CASE ShortcutToRegister
    BY <1>4, ShortcutToRegisterStep
  <1>5. CASE NextNode
    BY <1>5, NextNodeStep
  <1>6. CASE EndThreading
    BY <1>6, EndThreadingStep
  <1>7. CASE DropLabel
    BY <1>7, DropStep
  <1>8. CASE MergeLabel
    BY <1>8, MergeStep
  <1>9. CASE MergeNextLabel
    BY <1>9, MergeNextStep
  <1>10. CASE NextLabel
    BY <1>10, NextLabelStep
  <1>11. CASE EndLabelling
    BY <1>11, EndLabellingStep
  <1>12. CASE KeepBlock
    BY <1>12, KeepBlockStep
  <1>13. CASE SplitBlock
    BY <1>13, SplitBlockStep
  <1>14. CASE NextBlock
    BY <1>14, NextBlockStep
  <1>15. CASE EndSplitting
    BY <1>15, EndSplittingStep
  <1>. QED
    BY <1>1, <1>2, <1>3, <1>4, <1>5, <1>6, <1>7, <1>8, <1>9, <1>10, <1>11, <1>12, <1>13, <1>14, <1>15
    DEF Passes

\* Nodes are only given in the first phase.
LEMMA BuildFirst == Build => phase = "build"
  BY DEF Build, Insn, Prolog, Forward, Epilog, Label, PatchAt, Building

\* Whether a program is tame is found out when thread_jumps begins, and when it ends.
LEMMA TameStep ==
  ASSUME Next, phase' \notin {"build", "thread"}, tame'
  PROVE  (tame \/ phase \in {"build", "thread"}) /\ (EndThreading => Tame)
  <1>1. CASE Build
    <2>1. phase = "build"
      BY <1>1, BuildFirst
    <2>2. ~EndThreading
      BY <2>1 DEF EndThreading
    <2>. QED
      BY <2>1, <2>2
  <1>2. CASE Optimize
    BY <1>2 DEF Optimize
  <1>3. CASE EndThreading
    BY <1>3 DEF EndThreading
  <1>4. CASE Passes /\ ~EndThreading
    <2>1. tame' = tame
      BY <1>4 DEF Passes, RedundantJump, ReverseJump, ShortcutJump, ShortcutToRegister, NextNode,
                  DropLabel, MergeLabel, MergeNextLabel, NextLabel, EndLabelling,
                  KeepBlock, SplitBlock, NextBlock, EndSplitting, DelLabel, Stop
    <2>. QED
      BY <1>4, <2>1
  <1>. QED
    BY <1>1, <1>2, <1>3, <1>4 DEF Next

\* While the nodes are given or thread_jumps is at work, all programs are alike.
LEMMA EarlyStep ==
  ASSUME Next, phase' \in {"build", "thread"}
  PROVE  phase \in {"build", "thread"} /\ ~EndThreading
  <1>1. ~EndThreading
    <2>1. EndThreading => phase' = "labels"
      BY DEF EndThreading
    <2>. QED
      BY <2>1
  <1>2. CASE Build
    BY <1>1, <1>2, BuildFirst
  <1>3. CASE Optimize
    <2>1. phase = "build"
      BY <1>3 DEF Optimize
    <2>. QED
      BY <1>1, <2>1
  <1>4. CASE Passes
    BY <1>1, <1>4 DEF Passes, RedundantJump, ReverseJump, ShortcutJump, ShortcutToRegister, NextNode,
                Threading, DropLabel, MergeLabel, MergeNextLabel, NextLabel, Labelling, EndLabelling,
                KeepBlock, SplitBlock, NextBlock, Splitting, EndSplitting, DelLabel, Stop
  <1>. QED
    BY <1>1, <1>2, <1>3, <1>4 DEF Next

\* Each step keeps the invariant.
LEMMA JumpsStep ==
  ASSUME JumpsInv, [Next]_vars
  PROVE  JumpsInv'
  <1>1. CASE UNCHANGED vars
    <2>1. UNCHANGED <<mem, head, tail, list, blocks, phase, prev, node, split, tame>>
      BY <1>1 DEF vars
    <2>2. Typed' <=> Typed
      BY <2>1 DEF Typed
    <2>3. \A p, q : ListsInv(p, q)' <=> ListsInv(p, q)
      BY <2>1 DEF ListsInv, Lists, BuildInv, ThreadInv, LabelsInv, SplitInv, DoneInv
    <2>. QED
      BY <2>1, <2>2, <2>3 DEF JumpsInv
  <1>2. CASE Next
    <2>. SUFFICES ASSUME tame' \/ phase' \in {"build", "thread"}
                  PROVE  Typed' /\ \E r, s \in Seq(Node) : ListsInv(r, s)'
      BY DEF JumpsInv
    <2>1. (tame \/ phase \in {"build", "thread"}) /\ (EndThreading => Tame)
      BY <1>2, TameStep, EarlyStep
    <2>2. PICK p \in Seq(Node), q \in Seq(Node) : Typed /\ ListsInv(p, q)
      BY <2>1 DEF JumpsInv
    <2>3. CASE Build
      BY <2>2, <2>3, BuildStep
    <2>4. CASE Optimize
      BY <2>2, <2>4, OptimizeStep
    <2>5. CASE Passes
      BY <2>1, <2>2, <2>5, PassesStep
    <2>. QED
      BY <1>2, <2>3, <2>4, <2>5 DEF Next
  <1>. QED
    BY <1>1, <1>2

(***************************************************************************)
(* While the nodes are given, all through thread_jumps, and from then on   *)
(* if the program is tame, head and list lead each along a list that ends, *)
(* the two have no node in common, and the loop of each pass is where its  *)
(* next step is safe.                                                      *)
(***************************************************************************)
THEOREM JumpsInvariant == Spec => []JumpsInv
  <1>1. Init => JumpsInv
    BY InitLists DEF JumpsInv
  <1>2. JumpsInv /\ [Next]_vars => JumpsInv'
    BY JumpsStep
  <1>. QED
    BY <1>1, <1>2, PTL DEF Spec

(***************************************************************************)
(* The nodes have the types that the three passes take for granted.        *)
(***************************************************************************)
THEOREM JumpsTyped == Spec => [](tame \/ phase \in {"build", "thread"} => TypeOK)
  <1>1. JumpsInv => (tame \/ phase \in {"build", "thread"} => TypeOK)
    <2>. SUFFICES ASSUME JumpsInv, tame \/ phase \in {"build", "thread"} PROVE TypeOK
      OBVIOUS
    <2>1. PICK p \in Seq(Node), q \in Seq(Node) : Typed /\ ListsInv(p, q)
      BY DEF JumpsInv
    <2>2. blocks \in Seq(0 .. N) /\ split \in Seq(0 .. N)
      BY <2>1 DEF ListsInv
    <2>. QED
      BY <2>1, <2>2 DEF Typed, Sound, Fields, TypeOK, Flagged
  <1>. QED
    BY <1>1, JumpsInvariant, PTL

(***************************************************************************)
(* A label that split_branches takes from the free nodes is none of those  *)
(* of the program: del_node gives back each node once, and none that is    *)
(* still there.                                                            *)
(***************************************************************************)
THEOREM FreeNodesApart == Spec => []FreeApart
  <1>1. JumpsInv => FreeApart
    <2>. SUFFICES ASSUME JumpsInv, tame PROVE Program \cap Reached(NextOf, list) = {}
      BY DEF FreeApart
    <2>1. PICK p \in Seq(Node), q \in Seq(Node) : Typed /\ ListsInv(p, q)
      BY DEF JumpsInv
    <2>2. Path(mem, head, p) /\ Path(mem, list, q) /\ Apart(p, q) /\ mem \in [Node -> Fields]
      BY <2>1 DEF ListsInv, Lists, Typed, Sound
    <2>3. Program = Elems(p) /\ Reached(NextOf, list) = Elems(q)
      BY <2>2, ReachedIs DEF Program
    <2>. QED
      BY <2>2, <2>3 DEF Apart
  <1>. QED
    BY <1>1, JumpsInvariant, PTL

\* What comes after a node of a list.
LEMMA AfterOf ==
  ASSUME mem \in [Node -> Fields], NEW h, NEW p, Path(mem, h, p), NEW j \in 1 .. Len(p)
  PROVE  \A m \in After(p[j], Code) : \E k \in j + 1 .. Len(p) : m = p[k]
  <1>1. /\ p \in Seq(Node) /\ Once(p) /\ Len(p) \in Nat /\ j \in Nat \ {0}
        /\ \A i \in 1 .. Len(p) : p[i] \in Node /\ mem[p[i]].next = Nth(p, i + 1)
    BY ElementOfSeq, LenProperties DEF Path
  <1>2. DEFINE onward == [m \in 0 .. N |-> IF m # NULL /\ mem[m].code \in Code THEN mem[m].next ELSE NULL]
               rest == [k \in 1 .. Len(p) - j |-> p[j + k]]
  <1>3. \A k \in 1 .. Len(p) - j : j + k \in 1 .. Len(p)
    BY <1>1
  <1>4. rest \in Seq(Node) /\ Len(rest) = Len(p) - j /\ \A k \in 1 .. Len(p) - j : rest[k] = p[j + k]
    <2>1. Len(p) - j \in Nat
      BY <1>1
    <2>. QED
      BY <1>1, <1>3, <2>1
  <1>5. /\ onward \in [0 .. N -> 0 .. N] /\ onward[NULL] = NULL
        /\ \A n \in Node : onward[n] = mem[n].next
    <2>1. \A n \in Node : mem[n].code \in Code /\ mem[n].next \in 0 .. N
      BY DEF Fields
    <2>2. \A n \in 0 .. N : n # NULL => n \in Node
      BY DEF Node, NULL
    <2>. QED
      BY <2>1, <2>2, Numbers
  <1>6. After(p[j], Code) = Reached(onward, mem[p[j]].next)
    BY DEF After
  <1>. HIDE DEF onward, rest
  <1>7. \A k \in Nat \ {0} : Nth(rest, k) = Nth(p, j + k)
    <2>. SUFFICES ASSUME NEW k \in Nat \ {0} PROVE Nth(rest, k) = Nth(p, j + k)
      OBVIOUS
    <2>1. k \in 1 .. Len(rest) <=> j + k \in 1 .. Len(p)
      BY <1>1, <1>4
    <2>. QED
      BY <1>4, <2>1 DEF Nth
  <1>8. Once(rest)
    <2>. SUFFICES ASSUME NEW a \in 1 .. Len(rest), NEW b \in 1 .. Len(rest), rest[a] = rest[b] PROVE a = b
      BY DEF Once
    <2>1. j + a = j + b
      BY <1>1, <1>3, <1>4 DEF Once
    <2>. QED
      BY <1>1, <1>4, <2>1
  <1>9. ASSUME NEW k \in 1 .. Len(rest) PROVE onward[rest[k]] = Nth(rest, k + 1)
    <2>1. j + k \in 1 .. Len(p) /\ rest[k] = p[j + k] /\ p[j + k] \in Node
      BY <1>1, <1>3, <1>4
    <2>2. onward[rest[k]] = Nth(p, (j + k) + 1)
      BY <1>1, <1>5, <2>1
    <2>3. k + 1 \in Nat \ {0} /\ j + (k + 1) = (j + k) + 1
      BY <1>1, <1>4
    <2>. QED
      BY <1>7, <2>2, <2>3
  <1>10. Reached(onward, Nth(rest, 1)) = Elems(rest)
    BY <1>4, <1>5, <1>8, <1>9, ReachedOfList
  <1>11. Nth(rest, 1) = mem[p[j]].next
    BY <1>1, <1>7, SMTT(20)
  <1>12. ASSUME NEW m \in Elems(rest) PROVE \E k \in j + 1 .. Len(p) : m = p[k]
    <2>1. PICK k \in 1 .. Len(rest) : m = rest[k]
      BY DEF Elems
    <2>2. j + k \in j + 1 .. Len(p) /\ m = p[j + k]
      BY <1>1, <1>4, <2>1
    <2>. QED
      BY <2>2
  <1>. QED
    BY <1>6, <1>10, <1>11, <1>12

(***************************************************************************)
(* When split_branches is done with a tame program, each block is in the   *)
(* slot of its label, the slots are in the order of the program, and what  *)
(* follows a jump begins a block: the vector with which jit_optimize goes  *)
(* on describes the program.                                               *)
(***************************************************************************)
THEOREM BlocksComeInOrder == Spec => []BlocksInOrder
  <1>1. JumpsInv => BlocksInOrder
    <2>. SUFFICES ASSUME JumpsInv, phase = "done", tame, NEW n \in Program
                  PROVE  /\ mem[n].code \in Heads =>
                              /\ BlockOf(n) = n
                              /\ \A m \in After(n, Code) : mem[m].code \in Heads => mem[m].slot > mem[n].slot
                         /\ mem[n].code \in Jump => mem[mem[n].next].code \in Heads
      BY DEF BlocksInOrder
    <2>1. PICK p \in Seq(Node), q \in Seq(Node) : Typed /\ ListsInv(p, q)
      BY DEF JumpsInv
    <2>2. Path(mem, head, p) /\ Sound(mem) /\ mem \in [Node -> Fields] /\ DoneInv(p)
      BY <2>1 DEF ListsInv, Lists, Typed, Sound
    <2>3. n \in Elems(p)
      BY <2>2, ReachedIs DEF Program
    <2>4. PICK j \in 1 .. Len(p) : n = p[j]
      BY <2>3 DEF Elems
    <2>5. Len(p) \in Nat /\ \A i \in 1 .. Len(p) : p[i] \in Node
      BY LenProperties, ElementOfSeq
    <2>6. ASSUME mem[n].code \in Heads PROVE BlockOf(n) = n
      BY <2>2, <2>3, <2>6 DEF DoneInv, Slotted, InSlot, BlockOf
    <2>7. ASSUME mem[n].code \in Heads, NEW m \in After(n, Code), mem[m].code \in Heads
          PROVE  mem[m].slot > mem[n].slot
      <3>1. PICK k \in j + 1 .. Len(p) : m = p[k]
        BY <2>2, <2>4, <2>7, AfterOf
      <3>2. k \in 1 .. Len(p) /\ j < k
        BY <2>4, <2>5
      <3>3. mem[n].slot < mem[m].slot
        BY <2>2, <2>4, <2>7, <3>1, <3>2 DEF DoneInv, InOrder
      <3>4. n \in Node /\ m \in Node
        BY <2>4, <2>5, <3>1, <3>2
      <3>5. mem[n].slot \in 0 .. N /\ mem[m].slot \in 0 .. N
        BY <2>2, <3>4 DEF Fields
      <3>. QED
        BY <3>3, <3>5, Numbers
    <2>8. ASSUME mem[n].code \in Jump PROVE mem[mem[n].next].code \in Heads
      <3>1. j # Len(p)
        <4>1. p[Len(p)] = EpilogNode /\ mem[EpilogNode].code = "epilog"
          BY <2>2, Numbers DEF DoneInv, Whole, Sound
        <4>. QED
          BY <2>4, <2>8, <4>1 DEF Jump
      <3>2. j \in 1 .. Len(p) - 1 /\ j + 1 \in 1 .. Len(p)
        BY <2>5, <3>1
      <3>3. mem[n].next = p[j + 1]
        BY <2>2, <2>4, <3>2 DEF Path, Nth
      <3>4. mem[p[j + 1]].code \in Heads
        BY <2>2, <2>4, <2>8, <3>2 DEF DoneInv, InOrder
      <3>. QED
        BY <3>3, <3>4
    <2>. QED
      BY <2>6, <2>7, <2>8
  <1>. QED
    BY <1>1, JumpsInvariant, PTL

-----------------------------------------------------------------------------
(***************************************************************************)
(* The users of a label: the list that starts at its link has the nodes    *)
(* that are patched to it, unless it is cut: then it has some of them, and *)
(* at its end a node of G, which is no user any more.  That is a jump that *)
(* was freed when a branch was turned round, or made one to a register.    *)
(***************************************************************************)
UsersOf(m, U, l) == {n \in U : "node" \in m[n].flag /\ m[n].to = l}

\* As a list linked by next.
Linking(m)     == [n \in Node |-> [next |-> m[n].link]]
\* u is the list that starts at h and is linked by link.
Chain(m, h, u) == Path(Linking(m), h, u)

\* The nodes E of a list cover the users V; if nodes G were cut off, it may have one of those instead.
Covers(E, V, G)       == E = V \/ (E \cap G # {} /\ E \subseteq V \cup G)
\* The list of label l covers those of U that are patched to it; so do all those of S.
Listed(m, U, l, G)    == \E u \in Seq(Node) : Chain(m, m[l].link, u) /\ Covers(Elems(u), UsersOf(m, U, l), G)
AllListed(m, S, U, G) == \A l \in S : m[l].code \in Ends => Listed(m, U, l, G)

\* G are nodes cut off from the lists: a list that comes to one ends there.
Cut(m, S, G) == G \subseteq Node /\ \A e \in G : m[e].link = NULL /\ (e \notin S \/ m[e].code = "jmpr")

\* What is patched to a node jumps, or is a movi, and the node is an end of the program.
Targets(m, S) ==
  \A n \in S : "node" \in m[n].flag =>
    m[n].code \in {"movi", "jmpi", "branch", "reversed"} /\ m[n].to \in S /\ m[m[n].to].code \in Ends

\* No branch is turned round twice, since no jump is behind it.
Turns(m, S)    == \A n \in S : m[n].code = "reversed" /\ m[n].next # NULL => m[m[n].next].code # "jmpi"
\* No branch was turned round, and no jump made one to a register.
Unturned(m, S) == \A n \in S : m[n].code \notin {"reversed", "jmpr"}

\* The nodes that are not given yet.
Untouched(m, S) ==
  /\ \A n \in Node : m[n].code # "reversed"
  /\ \A n \in Node \ S : m[n].link = NULL /\ m[n].flag = {} /\ m[n].code \in {"data", "prolog", "epilog"}

\* What is so of the nodes S of the program.
UsersInv(S) ==
  /\ Targets(mem, S) /\ Turns(mem, S)
  /\ \E G \in SUBSET Node :
       Cut(mem, S, G) /\ AllListed(mem, S, S, G) /\ (phase = "build" \/ Unturned(mem, S) => G = {})
  /\ phase = "build" => Untouched(mem, S)

\* No end of the program is on a list, and nothing that is patched has been cut off.
LEMMA NoEnds ==
  ASSUME NEW m, NEW S, NEW G, Cut(m, S, G), Targets(m, S), NEW U \in SUBSET S
  PROVE  /\ \A l \in S : m[l].code \in Ends => l \notin G /\ \A x : l \notin UsersOf(m, U, x)
         /\ \A n \in S : "node" \in m[n].flag => n \notin G /\ m[n].code \notin Ends
  BY DEF Cut, Targets, UsersOf, Ends

\* Its next is the link.
LEMMA LinkingIs ==
  ASSUME NEW m
  PROVE  \A n \in Node : Linking(m)[n].next = m[n].link
  BY DEF Linking

\* A list whose links stay.
LEMMA ChainStays ==
  ASSUME NEW m, NEW m2, NEW h, NEW u, Chain(m, h, u), \A n \in Elems(u) : m2[n].link = m[n].link
  PROVE  Chain(m2, h, u)
  <1>1. u \in Seq(Node)
    BY DEF Chain, Path
  <1>2. \A i \in 1 .. Len(u) : u[i] \in Node /\ u[i] \in Elems(u)
    BY <1>1, ElemsOf
  <1>3. \A i \in 1 .. Len(u) : Linking(m2)[u[i]].next = Linking(m)[u[i]].next
    BY <1>2, LinkingIs
  <1>. QED
    BY <1>3 DEF Chain, Path

\* The model's Users follows the same list.
LEMMA UsersAre ==
  ASSUME mem \in [Node -> Fields], NEW l \in Node, NEW u, Chain(mem, mem[l].link, u)
  PROVE  Users(l) = Elems(u)
  <1>1. u \in Seq(Node) /\ Once(u) /\ mem[l].link = Nth(u, 1)
    BY DEF Chain, Path
  <1>2. LinkOf \in [0 .. N -> 0 .. N] /\ LinkOf[NULL] = NULL /\ \A n \in Node : LinkOf[n] = mem[n].link
    <2>1. \A n \in Node : mem[n].link \in 0 .. N
      BY DEF Fields
    <2>2. \A n \in 0 .. N : n # NULL => n \in Node
      BY DEF Node, NULL
    <2>. QED
      BY <2>1, <2>2, Numbers DEF LinkOf
  <1>3. \A i \in 1 .. Len(u) : LinkOf[u[i]] = Nth(u, i + 1)
    <2>1. \A i \in 1 .. Len(u) : u[i] \in Node
      BY <1>1, ElemsOf
    <2>. QED
      BY <1>2, <2>1, LinkingIs DEF Chain, Path
  <1>4. Reached(LinkOf, Nth(u, 1)) = Elems(u)
    BY <1>1, <1>2, <1>3, ReachedOfList
  <1>. QED
    BY <1>1, <1>4 DEF Users

\* All lists stay if links, targets and flags do.
LEMMA AllListedStay ==
  ASSUME NEW m, NEW m2, NEW S \in SUBSET Node, NEW T \in SUBSET S, NEW U \in SUBSET T, NEW G, AllListed(m, S, U, G),
         \A n \in T \cup G : Alike(m, m2, n)
  PROVE  AllListed(m2, T, U, G)
  <1>. SUFFICES ASSUME NEW l \in T, m2[l].code \in Ends PROVE Listed(m2, U, l, G)
    BY DEF AllListed
  <1>1. m[l].code \in Ends /\ m2[l].link = m[l].link
    BY DEF Alike
  <1>2. PICK u \in Seq(Node) : Chain(m, m[l].link, u) /\ Covers(Elems(u), UsersOf(m, U, l), G)
    BY <1>1 DEF AllListed, Listed
  <1>3. Elems(u) \subseteq T \cup G
    BY <1>2 DEF UsersOf, Covers
  <1>4. \A n \in Elems(u) : m2[n].link = m[n].link
    BY <1>3 DEF Alike
  <1>5. Chain(m2, m2[l].link, u)
    BY <1>1, <1>2, <1>4, ChainStays
  <1>6. UsersOf(m2, U, l) = UsersOf(m, U, l)
    BY DEF UsersOf, Alike
  <1>. QED
    BY <1>2, <1>5, <1>6 DEF Listed

\* Node j is patched to l, and becomes the first of its users.
Points(m, m2, j, l) ==
  /\ m2[j].code \notin Ends /\ "node" \in m2[j].flag /\ m2[j].to = l /\ m2[j].link = m[l].link
  /\ m2[l].code = m[l].code /\ m2[l].flag = m[l].flag /\ m2[l].to = m[l].to /\ m2[l].link = j
  /\ \A n \in Node : n # j /\ n # l => Alike(m, m2, n)

\* The list of l then has j, and the others are as before.
LEMMA Pointing ==
  ASSUME NEW m, NEW m2, NEW S \in SUBSET Node, NEW j \in S, NEW l \in S, NEW G, AllListed(m, S, S \ {j}, G),
         Cut(m, S, G), Targets(m, S), m[l].code \in Ends, m[j].code \notin Ends \cup {"jmpr"}, Points(m, m2, j, l)
  PROVE  AllListed(m2, S, S, G) /\ Cut(m2, S, G)
  <1>0. /\ \A x \in S : m[x].code \in Ends => x \notin G /\ \A y : x \notin UsersOf(m, S \ {j}, y)
        /\ j \notin G
    <2>1. PICK U \in SUBSET S : U = S \ {j}
      OBVIOUS
    <2>2. \A x \in S : m[x].code \in Ends => x \notin G /\ \A y : x \notin UsersOf(m, U, y)
      BY NoEnds
    <2>. QED
      BY <2>1, <2>2 DEF Cut
  <1>10. Cut(m2, S, G)
    <2>1. \A e \in G : e \in Node /\ e # j /\ e # l
      BY <1>0 DEF Cut
    <2>. QED
      BY <2>1 DEF Cut, Points, Alike
  <1>. SUFFICES ASSUME NEW l2 \in S, m2[l2].code \in Ends PROVE Listed(m2, S, l2, G)
    BY <1>10 DEF AllListed
  <1>1. j # l /\ l2 # j /\ m[l2].code \in Ends
    BY DEF Points, Alike
  <1>2. PICK u \in Seq(Node) : Chain(m, m[l2].link, u) /\ Covers(Elems(u), UsersOf(m, S \ {j}, l2), G)
    BY <1>1 DEF AllListed, Listed
  <1>3. j \notin Elems(u) /\ l \notin Elems(u) /\ Elems(u) \subseteq Node
    <2>1. j \notin UsersOf(m, S \ {j}, l2)
      BY DEF UsersOf
    <2>2. Elems(u) \subseteq UsersOf(m, S \ {j}, l2) \cup G
      BY <1>2 DEF Covers
    <2>. QED
      BY <1>0, <2>1, <2>2, ElemsOf
  <1>4. \A n \in Elems(u) : m2[n].link = m[n].link
    BY <1>3 DEF Points, Alike
  <1>5. CASE l2 # l
    <2>1. m2[l2].link = m[l2].link
      BY <1>1, <1>5 DEF Points, Alike
    <2>2. Chain(m2, m2[l2].link, u)
      BY <1>2, <1>4, <2>1, ChainStays
    <2>3. UsersOf(m2, S, l2) = UsersOf(m, S \ {j}, l2)
      <3>1. ASSUME NEW n \in S PROVE n \in UsersOf(m2, S, l2) <=> n \in UsersOf(m, S \ {j}, l2)
        <4>1. CASE n = j
          BY <1>5, <4>1 DEF Points, UsersOf
        <4>2. CASE n # j
          <5>1. m2[n].flag = m[n].flag /\ m2[n].to = m[n].to
            BY <4>2 DEF Points, Alike
          <5>. QED
            BY <4>2, <5>1 DEF UsersOf
        <4>. QED
          BY <4>1, <4>2
      <3>. QED
        BY <3>1 DEF UsersOf
    <2>. QED
      BY <1>2, <2>2, <2>3 DEF Listed, Covers
  <1>6. CASE l2 = l
    <2>a. PICK r : r = Ins(u, 1, j)
      OBVIOUS
    <2>1. Path(Linking(m), m[l].link, u) /\ Once(u) /\ m[l].link = Nth(u, 1)
      BY <1>2, <1>6 DEF Chain, Path
    <2>2. 1 \in 1 .. Len(u) + 1 /\ j \in Node
      BY LenProperties
    <2>3. Inserts(u, 1, j, r)
      BY <1>3, <2>1, <2>2, <2>a, InsInserts
    <2>4. Linking(m2)[j].next = Nth(u, 1)
      BY <2>1, <2>2, LinkingIs DEF Points
    <2>5. ASSUME NEW i \in 1 .. Len(u)
          PROVE  Linking(m2)[u[i]].next = IF i = 1 - 1 THEN j ELSE Linking(m)[u[i]].next
      <3>1. u[i] \in Node /\ u[i] \in Elems(u) /\ i # 1 - 1
        BY ElemsOf
      <3>. QED
        BY <1>4, <3>1, LinkingIs
    <2>6. Path(Linking(m2), IF 1 = 1 THEN j ELSE m[l].link, r)
      BY <2>1, <2>2, <2>3, <2>4, <2>5, PathWith
    <2>7. Chain(m2, m2[l2].link, r) /\ r \in Seq(Node)
      BY <1>6, <2>3, <2>6 DEF Chain, Points, Inserts
    <2>8. Elems(r) = Elems(u) \cup {j}
      BY <2>3 DEF Inserts
    <2>9. UsersOf(m2, S, l2) = UsersOf(m, S \ {j}, l2) \cup {j}
      <3>2. ASSUME NEW n \in S PROVE n \in UsersOf(m2, S, l) <=> n \in UsersOf(m, S \ {j}, l) \/ n = j
        <4>1. CASE n = j
          BY <4>1 DEF Points, UsersOf
        <4>2. CASE n # j
          <5>1. m2[n].flag = m[n].flag /\ m2[n].to = m[n].to
            BY <4>2 DEF Points, Alike
          <5>. QED
            BY <4>2, <5>1 DEF UsersOf
        <4>. QED
          BY <4>1, <4>2
      <3>. QED
        BY <1>6, <3>2 DEF UsersOf
    <2>10. Covers(Elems(r), UsersOf(m2, S, l2), G)
      BY <1>2, <2>8, <2>9 DEF Covers
    <2>. QED
      BY <2>7, <2>10 DEF Listed
  <1>. QED
    BY <1>5, <1>6

\* Off changes one link: whatever is there, the nodes are as before otherwise.
Relinked(m, m2) ==
  \A n \in Node : /\ m2[n].code = m[n].code /\ m2[n].flag = m[n].flag
                  /\ m2[n].to = m[n].to /\ m2[n].next = m[n].next

\* So does Off, whether it finds the node or not.
LEMMA OffRelinks ==
  ASSUME Sound(mem), NEW l, NEW n \in Node
  PROVE  Relinked(mem, Off(l, n))
  <1>a. PICK x : x = CHOOSE y \in {l} \cup Users(l) : mem[y].link = n
    OBVIOUS
  <1>1. mem \in [Node -> Fields]
    BY DEF Sound
  <1>2. Off(l, n) = [mem EXCEPT ![x].link = mem[n].link]
    BY <1>a DEF Off
  <1>3. CASE x \notin Node
    BY <1>1, <1>2, <1>3 DEF Relinked
  <1>4. CASE x \in Node
    <2>a. PICK rec : rec = [mem[x] EXCEPT !.link = mem[n].link]
      OBVIOUS
    <2>1. rec.code = mem[x].code /\ rec.flag = mem[x].flag /\ rec.to = mem[x].to /\ rec.next = mem[x].next
      BY <1>1, <1>4, <2>a DEF Fields
    <2>2. Off(l, n) = [mem EXCEPT ![x] = rec]
      BY <1>1, <1>2, <1>4, <2>a
    <2>. QED
      BY <1>1, <1>4, <2>1, <2>2 DEF Relinked
  <1>. QED
    BY <1>3, <1>4

\* The node before n = u[k] on the list of l, or l itself, is the one that Off changes.
HeldBy(l, n, u, k, x) ==
  /\ Off(l, n) = [mem EXCEPT ![x].link = mem[n].link]
  /\ IF k = 1 THEN x = l ELSE x = u[k - 1]

\* There is such a node.
LEMMA HolderIs ==
  ASSUME Sound(mem), NEW l \in Node, NEW n \in Node, NEW u \in Seq(Node), Chain(mem, mem[l].link, u),
         l \notin Elems(u), NEW k \in 1 .. Len(u), n = u[k]
  PROVE  \E x \in Node : HeldBy(l, n, u, k, x)
  <1>a. PICK x : x = CHOOSE y \in {l} \cup Users(l) : mem[y].link = n
    OBVIOUS
  <1>1. mem \in [Node -> Fields] /\ Once(u) /\ Len(u) \in Nat /\ k \in Nat \ {0}
    BY LenProperties DEF Sound, Chain, Path
  <1>2. Users(l) = Elems(u)
    BY <1>1, UsersAre
  <1>3. mem[l].link = Nth(u, 1) /\ \A i \in 1 .. Len(u) : mem[u[i]].link = Nth(u, i + 1)
    <2>1. \A i \in 1 .. Len(u) : u[i] \in Node
      BY ElemsOf
    <2>. QED
      BY <2>1, LinkingIs DEF Chain, Path
  <1>4. \E y \in {l} \cup Users(l) : mem[y].link = n
    <2>1. CASE k = 1
      BY <1>1, <1>3, <2>1 DEF Nth
    <2>2. CASE k # 1
      <3>a. PICK i : i = k - 1
        OBVIOUS
      <3>1. i \in 1 .. Len(u) /\ i + 1 = k
        BY <1>1, <2>2, <3>a
      <3>2. mem[u[i]].link = n /\ u[i] \in Elems(u)
        BY <1>3, <3>1, ElemsOf DEF Nth
      <3>. QED
        BY <1>2, <3>2
    <2>. QED
      BY <2>1, <2>2
  <1>5. x \in {l} \cup Elems(u) /\ mem[x].link = n
    BY <1>2, <1>4, <1>a
  <1>6. CASE x = l
    <2>1. 1 \in 1 .. Len(u)
      BY <1>1
    <2>2. u[1] = u[k]
      BY <1>3, <1>5, <1>6, <2>1 DEF Nth
    <2>3. k = 1
      BY <1>1, <2>1, <2>2 DEF Once
    <2>. QED
      BY <1>6, <1>a, <2>3 DEF Off, HeldBy
  <1>7. CASE x # l
    <2>1. PICK i \in 1 .. Len(u) : x = u[i]
      BY <1>5, <1>7, ElemsOf
    <2>2. Nth(u, i + 1) = n /\ n # NULL
      BY <1>3, <1>5, <2>1, Numbers
    <2>a. PICK j : j = i + 1
      OBVIOUS
    <2>3. j \in 1 .. Len(u) /\ u[j] = u[k]
      BY <2>2, <2>a DEF Nth
    <2>4. j = k
      BY <1>1, <2>3 DEF Once
    <2>5. k # 1 /\ i = k - 1 /\ x \in Node
      BY <2>1, <2>4, <2>a, ElemsOf
    <2>. QED
      BY <1>a, <2>1, <2>5 DEF Off, HeldBy
  <1>. QED
    BY <1>6, <1>7

\* Off takes n off the list of the label it is patched to, and off no other.
LEMMA OffUsers ==
  ASSUME Sound(mem), NEW S \in SUBSET Node, NEW G, AllListed(mem, S, S, G), Cut(mem, S, G), Targets(mem, S),
         NEW n \in S, Flagged(n), n \in Users(mem[n].to)
  PROVE  AllListed(Off(mem[n].to, n), S, S \ {n}, G) /\ Cut(Off(mem[n].to, n), S, G)
  <1>a. PICK l : l = mem[n].to
    OBVIOUS
  <1>b. PICK m : m = Off(l, n)
    OBVIOUS
  <1>1. mem \in [Node -> Fields] /\ l \in S /\ mem[l].code \in Ends /\ n \in Node /\ l \in Node
    BY <1>a DEF Sound, Targets, Flagged
  <1>2. Relinked(mem, m)
    BY <1>1, <1>b, OffRelinks
  <1>3. /\ \A x \in S : mem[x].code \in Ends => x \notin G /\ \A y : x \notin UsersOf(mem, S, y)
        /\ n \notin G /\ mem[n].code \notin Ends
    BY NoEnds DEF Flagged
  <1>4. PICK u \in Seq(Node) : Chain(mem, mem[l].link, u) /\ Covers(Elems(u), UsersOf(mem, S, l), G)
    BY <1>1 DEF AllListed, Listed
  <1>5. l \notin Elems(u) /\ n \in Elems(u) /\ Once(u)
    <2>1. Elems(u) \subseteq UsersOf(mem, S, l) \cup G
      BY <1>4 DEF Covers
    <2>2. Users(l) = Elems(u)
      BY <1>1, <1>4, UsersAre
    <2>. QED
      BY <1>1, <1>3, <1>4, <1>a, <2>1, <2>2 DEF Chain, Path
  <1>6. PICK k \in 1 .. Len(u) : n = u[k]
    BY <1>5, ElemsOf
  <1>7. PICK x \in Node : /\ m = [mem EXCEPT ![x].link = mem[n].link]
                          /\ IF k = 1 THEN x = l ELSE x = u[k - 1]
    <2>1. \E x \in Node : HeldBy(l, n, u, k, x)
      BY <1>1, <1>4, <1>5, <1>6, HolderIs
    <2>. QED
      BY <1>b, <2>1 DEF HeldBy
  <1>8. m[x].link = mem[n].link /\ \A y \in Node : y # x => m[y].link = mem[y].link
    <2>1. mem[x] \in Fields
      BY <1>1
    <2>. QED
      BY <1>1, <1>7, <2>1 DEF Fields
  <1>9. x = l \/ x \in UsersOf(mem, S, l)
    <2>. SUFFICES ASSUME x # l PROVE x \in UsersOf(mem, S, l)
      OBVIOUS
    <2>a. PICK i : i = k - 1
      OBVIOUS
    <2>1. i \in 1 .. Len(u) /\ i + 1 = k /\ x = u[i]
      BY <1>7, <2>a, LenProperties
    <2>2. x \in Elems(u) /\ mem[x].link = n
      <3>1. Linking(mem)[u[i]].next = Nth(u, i + 1)
        BY <1>4, <2>1 DEF Chain, Path
      <3>. QED
        BY <1>6, <2>1, <3>1, LinkingIs, ElemsOf DEF Nth
    <2>3. x \notin G
      BY <1>1, <2>2, Numbers DEF Cut
    <2>. QED
      BY <1>4, <2>2, <2>3 DEF Covers
  <1>14. Cut(m, S, G)
    <2>1. x \notin G
      BY <1>1, <1>3, <1>9 DEF Cut, UsersOf, Targets
    <2>. QED
      BY <1>2, <1>8, <2>1 DEF Cut, Relinked
  <1>. SUFFICES ASSUME NEW l2 \in S, m[l2].code \in Ends PROVE Listed(m, S \ {n}, l2, G)
    BY <1>14, <1>a, <1>b DEF AllListed
  <1>10. mem[l2].code \in Ends /\ l2 \in Node
    BY <1>2 DEF Relinked
  <1>11. \A y \in S : m[y].flag = mem[y].flag /\ m[y].to = mem[y].to
    BY <1>2 DEF Relinked
  <1>12. CASE l2 # l
    <2>1. PICK v \in Seq(Node) : Chain(mem, mem[l2].link, v) /\ Covers(Elems(v), UsersOf(mem, S, l2), G)
      BY <1>10 DEF AllListed, Listed
    <2>2. x # l2 /\ x \notin Elems(v)
      <3>1. Elems(v) \subseteq UsersOf(mem, S, l2) \cup G
        BY <2>1 DEF Covers
      <3>2. x = l => x # l2 /\ x \notin Elems(v)
        BY <1>1, <1>3, <1>12, <3>1
      <3>3. x \in UsersOf(mem, S, l) => x # l2 /\ x \notin UsersOf(mem, S, l2)
        BY <1>3, <1>10, <1>12 DEF UsersOf
      <3>4. x \in UsersOf(mem, S, l) => x \notin G
        BY NoEnds DEF UsersOf
      <3>. QED
        BY <1>9, <3>1, <3>2, <3>3, <3>4
    <2>3. m[l2].link = mem[l2].link /\ \A y \in Elems(v) : m[y].link = mem[y].link
      BY <1>8, <1>10, <2>1, <2>2, ElemsOf
    <2>4. Chain(m, m[l2].link, v)
      BY <2>1, <2>3, ChainStays
    <2>5. UsersOf(m, S \ {n}, l2) = UsersOf(mem, S, l2)
      BY <1>11, <1>12, <1>a DEF UsersOf
    <2>. QED
      BY <2>1, <2>4, <2>5 DEF Listed, Covers
  <1>13. CASE l2 = l
    <2>a. PICK r : r = Del(u, k)
      OBVIOUS
    <2>1. Removes(u, k, r)
      BY <1>5, <1>6, <2>a, DelRemoves
    <2>2. ASSUME NEW i \in 1 .. Len(u), i # k
          PROVE  Linking(m)[u[i]].next =
                   IF i = k - 1 THEN Linking(mem)[u[k]].next ELSE Linking(mem)[u[i]].next
      <3>1. u[i] \in Node /\ u[k] \in Node /\ u[i] \in Elems(u) /\ k - 1 \in Int
        BY ElemsOf
      <3>2. CASE i = k - 1
        <4>1. k # 1
          BY <3>2
        <4>2. m[u[i]].link = mem[n].link
          BY <1>7, <1>8, <3>2, <4>1
        <4>. QED
          BY <1>6, <3>1, <3>2, <4>2, LinkingIs
      <3>3. CASE i # k - 1
        <4>1. u[i] # x
          <5>1. CASE k = 1
            BY <1>5, <1>7, <3>1, <5>1
          <5>2. CASE k # 1
            <6>1. k - 1 \in 1 .. Len(u)
              BY <5>2, LenProperties
            <6>. QED
              BY <1>5, <1>7, <3>3, <5>2, <6>1 DEF Once
          <5>. QED
            BY <5>1, <5>2
        <4>2. m[u[i]].link = mem[u[i]].link
          BY <1>8, <3>1, <4>1
        <4>. QED
          BY <3>1, <3>3, <4>2, LinkingIs
      <3>. QED
        BY <3>2, <3>3
    <2>3. Path(Linking(m), IF k = 1 THEN Linking(mem)[u[k]].next ELSE mem[l].link, r)
      BY <1>4, <2>1, <2>2, PathWithout DEF Chain
    <2>4. m[l].link = IF k = 1 THEN Linking(mem)[u[k]].next ELSE mem[l].link
      <3>1. CASE k = 1
        BY <1>1, <1>6, <1>7, <1>8, <3>1, LinkingIs
      <3>2. CASE k # 1
        <4>1. k - 1 \in 1 .. Len(u)
          BY <3>2, LenProperties
        <4>2. x # l
          BY <1>5, <1>7, <3>2, <4>1, ElemsOf
        <4>. QED
          BY <1>1, <1>8, <3>2, <4>2
      <3>. QED
        BY <3>1, <3>2
    <2>5. Chain(m, m[l2].link, r) /\ r \in Seq(Node)
      BY <1>13, <2>1, <2>3, <2>4 DEF Chain, Removes
    <2>6. Elems(r) = Elems(u) \ {n}
      BY <1>6, <2>1 DEF Removes
    <2>7. UsersOf(m, S \ {n}, l) = UsersOf(mem, S, l) \ {n}
      BY <1>11 DEF UsersOf
    <2>8. Covers(Elems(r), UsersOf(m, S \ {n}, l2), G)
      BY <1>3, <1>4, <1>13, <2>6, <2>7 DEF Covers
    <2>. QED
      BY <2>5, <2>8 DEF Listed
  <1>. QED
    BY <1>12, <1>13


\* A jump that becomes the end of a list is no user any more, nor are those behind it on that list.
LEMMA CuttingOff ==
  ASSUME NEW m, NEW m2, NEW S \in SUBSET Node, NEW U \in SUBSET S, NEW G, AllListed(m, S, U, G), Cut(m, S, G),
         NEW x \in S, m[x].code \notin Ends, x \notin G, NEW T \in SUBSET S, S \ {x} \subseteq T,
         m2[x].link = NULL, m2[x].code = "jmpr" \/ x \notin T, \A n \in Node : n # x => Alike(m, m2, n)
  PROVE  AllListed(m2, T, U \ {x}, G \cup {x}) /\ Cut(m2, T, G \cup {x})
  <1>1. Cut(m2, T, G \cup {x})
    BY DEF Cut, Alike
  <1>. SUFFICES ASSUME NEW l \in T, m2[l].code \in Ends PROVE Listed(m2, U \ {x}, l, G \cup {x})
    BY <1>1 DEF AllListed
  <1>2. l # x /\ m[l].code \in Ends /\ m2[l].link = m[l].link
    BY DEF Ends, Alike
  <1>3. PICK u \in Seq(Node) : Chain(m, m[l].link, u) /\ Covers(Elems(u), UsersOf(m, U, l), G)
    BY <1>2 DEF AllListed, Listed
  <1>4. \A n \in Elems(u) : n \in Node /\ (n # x => m2[n].link = m[n].link)
    BY <1>3, ElemsOf DEF Alike
  <1>5. UsersOf(m2, U \ {x}, l) = UsersOf(m, U, l) \ {x}
    BY DEF UsersOf, Alike
  <1>6. CASE x \notin Elems(u)
    <2>1. Chain(m2, m2[l].link, u)
      BY <1>2, <1>3, <1>4, <1>6, ChainStays
    <2>2. Covers(Elems(u), UsersOf(m2, U \ {x}, l), G \cup {x})
      BY <1>3, <1>5, <1>6 DEF Covers
    <2>. QED
      BY <2>1, <2>2 DEF Listed
  <1>7. CASE x \in Elems(u)
    <2>1. PICK k \in 1 .. Len(u) : x = u[k]
      BY <1>7, ElemsOf
    <2>a. PICK r : r = [i \in 1 .. k |-> u[i]]
      OBVIOUS
    <2>2. r \in Seq(Node) /\ Len(r) = k /\ \A i \in 1 .. k : i \in 1 .. Len(u) /\ r[i] = u[i]
      <3>1. k \in Nat /\ \A i \in 1 .. k : i \in 1 .. Len(u) /\ u[i] \in Node
        BY LenProperties, ElementOfSeq
      <3>. QED
        BY <2>a, <3>1
    <2>3. Elems(r) \subseteq Elems(u) /\ x \in Elems(r)
      BY <2>1, <2>2 DEF Elems
    <2>4. Chain(m2, m2[l].link, r)
      <3>1. Once(u) /\ m[l].link = Nth(u, 1) /\ \A i \in 1 .. Len(u) : Linking(m)[u[i]].next = Nth(u, i + 1)
        BY <1>3 DEF Chain, Path
      <3>2. Once(r) /\ m2[l].link = Nth(r, 1)
        BY <1>2, <2>2, <3>1 DEF Once, Nth
      <3>3. ASSUME NEW i \in 1 .. Len(r) PROVE Linking(m2)[r[i]].next = Nth(r, i + 1)
        <4>1. r[i] = u[i] /\ u[i] \in Node /\ u[i] \in Elems(u) /\ i \in 1 .. Len(u)
          BY <2>2, ElemsOf
        <4>2. CASE i = k
          BY <2>1, <2>2, <4>1, <4>2, LinkingIs DEF Nth
        <4>3. CASE i # k
          <5>1. i + 1 \in 1 .. k /\ u[i] # x
            BY <2>1, <2>2, <3>1, <4>1, <4>3 DEF Once
          <5>2. Nth(r, i + 1) = Nth(u, i + 1)
            BY <2>2, <5>1 DEF Nth
          <5>3. m2[u[i]].link = m[u[i]].link
            BY <1>4, <4>1, <5>1
          <5>. QED
            BY <3>1, <4>1, <5>2, <5>3, LinkingIs
        <4>. QED
          BY <4>2, <4>3
      <3>. QED
        BY <2>2, <3>2, <3>3 DEF Chain, Path
    <2>5. Covers(Elems(r), UsersOf(m2, U \ {x}, l), G \cup {x})
      BY <1>3, <1>5, <2>3 DEF Covers
    <2>. QED
      BY <2>2, <2>4, <2>5 DEF Listed
  <1>. QED
    BY <1>6, <1>7

\* A node is added: no label uses it, and if it is a label it has no users.
LEMMA GrowUsers ==
  ASSUME Typed, Typed', phase = "build", NEW S \in SUBSET Node, UsersInv(S),
         NEW x \in Node \ S, NEW T, T = S \cup {x},
         Newly(mem, mem', x), \A n \in Node : n # x => Alike(mem, mem', n)
  PROVE  UsersInv(T)'
  <1>1. /\ Targets(mem, S) /\ Untouched(mem, S) /\ AllListed(mem, S, S, {})
        /\ \A n \in S : n # x /\ n \in Node /\ Alike(mem, mem', n)
    BY DEF UsersInv
  <1>2. mem'[x].link = NULL /\ "node" \notin mem'[x].flag /\ mem'[x].code # "reversed"
    BY <1>1 DEF Untouched, Newly
  <1>3. Targets(mem', T)
    BY <1>1, <1>2 DEF Targets, Alike
  <1>4. Untouched(mem', T)
    BY <1>1, <1>2 DEF Untouched, Alike
  <1>5. Turns(mem', T)
    BY <1>4 DEF Untouched, Turns
  <1>6. AllListed(mem', T, T, {})
    <2>3. AllListed(mem', S, S, {})
      BY <1>1, AllListedStay
    <2>4. ASSUME NEW l \in S, mem'[l].code \in Ends PROVE Listed(mem', T, l, {})
      <3>1. UsersOf(mem', T, l) = UsersOf(mem', S, l)
        BY <1>2 DEF UsersOf
      <3>. QED
        BY <2>3, <2>4, <3>1 DEF AllListed, Listed
    <2>5. Listed(mem', T, x, {})
      <3>a. PICK u : u = <<>>
        OBVIOUS
      <3>1. u \in Seq(Node) /\ Len(u) = 0
        BY <3>a
      <3>2. Chain(mem', mem'[x].link, u) /\ Elems(u) = {}
        BY <1>2, <3>1 DEF Chain, Path, Once, Nth, Elems
      <3>3. UsersOf(mem', T, x) = {}
        <4>1. \A n \in S : "node" \in mem'[n].flag => mem'[n].to # x
          BY <1>1 DEF Targets, Alike
        <4>. QED
          BY <1>2, <4>1 DEF UsersOf
      <3>. QED
        BY <3>1, <3>2, <3>3 DEF Listed, Covers
    <2>. QED
      BY <2>4, <2>5 DEF AllListed
  <1>7. Cut(mem', T, {})
    BY DEF Cut
  <1>. QED
    BY <1>3, <1>4, <1>5, <1>6, <1>7 DEF UsersInv

\* jit_indirect marks a label: that makes it no user.
LEMMA MarkUsers ==
  ASSUME phase = "build", NEW S \in SUBSET Node, UsersInv(S), SameUse(mem, mem')
  PROVE  UsersInv(S)'
  <1>1. Targets(mem, S) /\ Untouched(mem, S) /\ AllListed(mem, S, S, {})
    BY DEF UsersInv
  <1>2. Targets(mem', S)
    <2>1. ASSUME NEW n \in S, "node" \in mem'[n].flag
          PROVE  /\ mem'[n].code \in {"movi", "jmpi", "branch", "reversed"} /\ mem'[n].to \in S
                 /\ mem'[mem'[n].to].code \in Ends
      <3>1. mem[n].code \in {"movi", "jmpi", "branch", "reversed"} /\ mem[n].to \in S /\ mem[mem[n].to].code \in Ends
        BY <1>1, <2>1 DEF Targets, SameUse
      <3>. QED
        BY <3>1 DEF SameUse
    <2>. QED
      BY <2>1 DEF Targets
  <1>3. Untouched(mem', S)
    BY <1>1 DEF Untouched, SameUse
  <1>4. Turns(mem', S)
    BY <1>3 DEF Untouched, Turns
  <1>5. AllListed(mem', S, S, {})
    <2>2. ASSUME NEW l \in S, mem'[l].code \in Ends PROVE Listed(mem', S, l, {})
      <3>1. mem[l].code \in Ends /\ mem'[l].link = mem[l].link
        BY <2>2 DEF SameUse
      <3>2. PICK u \in Seq(Node) : Chain(mem, mem[l].link, u) /\ Covers(Elems(u), UsersOf(mem, S, l), {})
        BY <1>1, <3>1 DEF AllListed, Listed
      <3>3. Chain(mem', mem'[l].link, u)
        <4>1. \A n \in Elems(u) : mem'[n].link = mem[n].link
          BY ElemsOf DEF SameUse
        <4>. QED
          BY <3>1, <3>2, <4>1, ChainStays
      <3>4. UsersOf(mem', S, l) = UsersOf(mem, S, l)
        BY DEF UsersOf, SameUse
      <3>. QED
        BY <3>2, <3>3, <3>4 DEF Listed
    <2>. QED
      BY <2>2 DEF AllListed
  <1>6. Cut(mem', S, {})
    BY DEF Cut
  <1>. QED
    BY <1>2, <1>3, <1>4, <1>5, <1>6 DEF UsersInv

\* jit_patch_at puts a jump that was on no list in front of that of its label.
LEMMA PatchUsers ==
  ASSUME Typed, NEW S \in SUBSET Node, UsersInv(S), EpilogNode \in S, NEW j \in Node, NEW l \in Node, PatchAt(j, l)
  PROVE  UsersInv(S)'
  <1>1. /\ mem' = [mem EXCEPT ![j].flag = {"node"}, ![j].to = l, ![j].link = mem[l].link, ![l].link = j]
        /\ phase = "build" /\ phase' = "build"
        /\ mem[j].code \in {"movi", "branch", "jmpi"} /\ "node" \notin mem[j].flag
        /\ mem[l].code \in Ends
    BY DEF PatchAt, Unpatched, Ends
  <1>2. mem \in [Node -> Fields] /\ mem[j] \in Fields /\ mem[l] \in Fields /\ Sound(mem)
    BY DEF Typed, Sound
  <1>3. Targets(mem, S) /\ Untouched(mem, S) /\ AllListed(mem, S, S, {})
    BY <1>1 DEF UsersInv
  <1>4. j \in S /\ l \in S /\ j # l
    <2>1. mem[l].code = "epilog" => l = EpilogNode
      BY <1>2 DEF Sound
    <2>. QED
      BY <1>1, <1>3, <2>1 DEF Untouched, Ends
  <1>a. PICK rec : rec = [mem[j] EXCEPT !.flag = {"node"}, !.to = l, !.link = mem[l].link]
    OBVIOUS
  <1>b. PICK end : end = [mem[l] EXCEPT !.link = j]
    OBVIOUS
  <1>5. /\ rec.code = mem[j].code /\ "node" \in rec.flag /\ rec.to = l /\ rec.link = mem[l].link
        /\ end.code = mem[l].code /\ end.flag = mem[l].flag /\ end.to = mem[l].to /\ end.link = j
    BY <1>2, <1>a, <1>b DEF Fields
  <1>6. mem' = [[mem EXCEPT ![j] = rec] EXCEPT ![l] = end]
    BY <1>1, <1>2, <1>4, <1>a, <1>b
  <1>7. mem'[j] = rec /\ mem'[l] = end /\ \A n \in Node : n # j /\ n # l => mem'[n] = mem[n]
    BY <1>2, <1>4, <1>6
  <1>8. Points(mem, mem', j, l)
    BY <1>1, <1>5, <1>7 DEF Points, Alike, Ends
  <1>9. \A n \in Node : mem'[n].code = mem[n].code
    BY <1>5, <1>7
  <1>10. Targets(mem', S)
    <2>1. ASSUME NEW n \in S, "node" \in mem'[n].flag
          PROVE  /\ mem'[n].code \in {"movi", "jmpi", "branch", "reversed"} /\ mem'[n].to \in S
                 /\ mem'[mem'[n].to].code \in Ends
      <3>1. CASE n = j
        <4>1. mem'[n].code = mem[j].code /\ mem'[n].to = l /\ mem'[l].code = mem[l].code
          BY <1>4, <1>5, <1>7, <1>9, <3>1
        <4>. QED
          BY <1>1, <1>4, <4>1
      <3>2. CASE n # j
        <4>1. mem'[n].to = mem[n].to /\ "node" \in mem[n].flag
          BY <1>5, <1>7, <2>1, <3>2
        <4>. QED
          BY <1>3, <1>9, <4>1 DEF Targets
      <3>. QED
        BY <3>1, <3>2
    <2>. QED
      BY <2>1 DEF Targets
  <1>11. Untouched(mem', S)
    BY <1>3, <1>4, <1>7, <1>9 DEF Untouched
  <1>12. Turns(mem', S)
    BY <1>11 DEF Untouched, Turns
  <1>13. AllListed(mem', S, S, {}) /\ Cut(mem', S, {})
    <2>1. \A x : UsersOf(mem, S \ {j}, x) = UsersOf(mem, S, x)
      BY <1>1 DEF UsersOf
    <2>2. AllListed(mem, S, S \ {j}, {}) /\ Cut(mem, S, {})
      BY <1>3, <2>1 DEF AllListed, Listed, Cut
    <2>3. mem[j].code \notin Ends \cup {"jmpr"}
      BY <1>1 DEF Ends
    <2>. QED
      BY <1>1, <1>3, <1>4, <1>8, <2>2, <2>3, Pointing
  <1>. QED
    BY <1>10, <1>11, <1>12, <1>13 DEF UsersInv

-----------------------------------------------------------------------------
(***************************************************************************)
(* What is reached stays where the field leads.                            *)
(***************************************************************************)
LEMMA ReachedWithin ==
  ASSUME NEW f \in [0 .. N -> 0 .. N], NEW T \in SUBSET (0 .. N), NEW h \in T, \A x \in T : f[x] \in T
  PROVE  Reached(f, h) \subseteq T
  <1>a. PICK s : s = Steps(f, h)
    OBVIOUS
  <1>1. N \in Nat
    BY Numbers
  <1>2. s[0] = h /\ \A i \in 1 .. N : s[i] = f[s[i - 1]]
    BY <1>a, StepsAre DEF Follows
  <1>. DEFINE K == {k \in Nat : k =< N => s[k] \in T}
  <1>3. 0 \in K
    BY <1>2
  <1>4. ASSUME NEW k \in Nat, k \in K PROVE k + 1 \in K
    <2>. SUFFICES ASSUME k + 1 =< N PROVE s[k + 1] \in T
      OBVIOUS
    <2>a. PICK j : j = k + 1
      OBVIOUS
    <2>1. j \in 1 .. N /\ j - 1 = k /\ s[k] \in T
      BY <1>1, <1>4, <2>a
    <2>2. s[j] = f[s[k]]
      BY <1>2, <2>1
    <2>. QED
      BY <2>1, <2>2, <2>a
  <1>5. Nat \subseteq K
    <2>. HIDE DEF K
    <2>. QED
      BY <1>3, <1>4, SetInduction
  <1>6. \A k \in 0 .. N : s[k] \in T
    BY <1>1, <1>5
  <1>. QED
    BY <1>6, <1>a DEF Reached

\* The nodes that come after one of the program are of the program.
LEMMA AfterWithin ==
  ASSUME mem \in [Node -> Fields], NEW h, NEW p, Path(mem, h, p), NEW n \in Elems(p), NEW codes
  PROVE  After(n, codes) \subseteq Elems(p)
  <1>a. PICK onward : onward = [m \in 0 .. N |-> IF m # NULL /\ mem[m].code \in codes THEN mem[m].next ELSE NULL]
    OBVIOUS
  <1>b. PICK T : T = Elems(p) \cup {NULL}
    OBVIOUS
  <1>1. p \in Seq(Node) /\ Elems(p) \subseteq Node
    BY ElemsOf DEF Path
  <1>2. \A x \in Elems(p) : mem[x].next \in T
    <2>. SUFFICES ASSUME NEW x \in Elems(p) PROVE mem[x].next \in T
      OBVIOUS
    <2>1. PICK i \in 1 .. Len(p) : p[i] = x
      BY <1>1, ElemsOf
    <2>2. mem[x].next = Nth(p, i + 1)
      BY <2>1 DEF Path
    <2>. QED
      BY <1>1, <1>b, <2>2, ElemsOf DEF Nth
  <1>3. \A m \in 0 .. N : m # NULL => m \in Node /\ mem[m].next \in 0 .. N
    BY Numbers DEF Fields
  <1>4. onward \in [0 .. N -> 0 .. N] /\ T \in SUBSET (0 .. N)
    BY <1>1, <1>3, <1>a, <1>b, Numbers
  <1>5. \A x \in T : onward[x] \in T
    BY <1>2, <1>4, <1>a, <1>b
  <1>6. mem[n].next \in T
    BY <1>2
  <1>7. Reached(onward, mem[n].next) \subseteq T
    BY <1>4, <1>5, <1>6, ReachedWithin
  <1>8. After(n, codes) = Reached(onward, mem[n].next)
    BY <1>a DEF After
  <1>. QED
    BY <1>7, <1>8, <1>b DEF Reached

\* Nothing comes after a node that ends the search but it.
LEMMA AfterEnd ==
  ASSUME mem \in [Node -> Fields], NEW n \in Node, NEW codes, NEW x \in Node, x = mem[n].next, mem[x].code \notin codes
  PROVE  After(n, codes) \subseteq {x}
  <1>a. PICK onward : onward = [m \in 0 .. N |-> IF m # NULL /\ mem[m].code \in codes THEN mem[m].next ELSE NULL]
    OBVIOUS
  <1>1. \A m \in 0 .. N : m # NULL => m \in Node /\ mem[m].next \in 0 .. N
    BY Numbers DEF Fields
  <1>2. onward \in [0 .. N -> 0 .. N] /\ {x, NULL} \in SUBSET (0 .. N)
    BY <1>1, <1>a, Numbers
  <1>3. \A y \in {x, NULL} : onward[y] \in {x, NULL}
    BY <1>2, <1>a
  <1>4. Reached(onward, x) \subseteq {x, NULL}
    BY <1>2, <1>3, ReachedWithin
  <1>. QED
    BY <1>4, <1>a DEF After, Reached

-----------------------------------------------------------------------------
(***************************************************************************)
(* The steps of thread_jumps and the users of labels.                      *)
(***************************************************************************)
Dropped(m, w, a, x) ==
  /\ w[x].code = "data" /\ w[x].flag = {}
  /\ \A n \in Node : n # x => /\ Alike(m, w, n)
                              /\ w[n].next = IF n = a THEN m[x].next ELSE m[n].next

\* What Without does to users and targets.
LEMMA FreedDrops ==
  ASSUME NEW m, Sound(m), NEW a \in Node, NEW x \in Node, list \in 0 .. N, x # PrologNode, x # EpilogNode
  PROVE  Dropped(m, Without(m, a, x), a, x)
  <1>a. PICK w : w = Without(m, a, x)
    OBVIOUS
  <1>1. FreedIn(m, a, x, w)
    BY <1>a, WithoutIs
  <1>2. w[x].code = "data" /\ w[x].flag = {}
    BY <1>1 DEF FreedIn, Zeroed
  <1>3. ASSUME NEW n \in Node, n # x
        PROVE  Alike(m, w, n) /\ w[n].next = IF n = a THEN m[x].next ELSE m[n].next
    <2>1. m[n] \in Fields
      BY DEF Sound
    <2>2. w[n] = IF n = a THEN [m[n] EXCEPT !.next = m[x].next] ELSE m[n]
      BY <1>1, <1>3 DEF FreedIn
    <2>. QED
      BY <2>1, <2>2 DEF Alike, Fields
  <1>. QED
    BY <1>2, <1>3, <1>a DEF Dropped

\* A jump that goes where execution goes anyway is taken off its list and out of the program.
LEMMA RedundantIs ==
  ASSUME Typed, RedundantJump, phase' = "thread", NEW S \in SUBSET Node, node \in S, prev \in Node,
         NEW m, m = Off(mem[node].to, node)
  PROVE  /\ mem[node].code = "jmpi" /\ Flagged(node) /\ node \in Node
         /\ Sound(mem) /\ Relinked(mem, m) /\ mem \in [Node -> Fields]
         /\ Dropped(m, mem', prev, node)
         /\ \A n \in Node : n # node => /\ mem'[n].code = mem[n].code /\ mem'[n].flag = mem[n].flag
                                        /\ mem'[n].to = mem[n].to
                                        /\ mem'[n].next = IF n = prev THEN mem[node].next ELSE mem[n].next
  <1>1. /\ mem[node].code = "jmpi" /\ Flagged(node) /\ mem' = Without(m, prev, node) /\ node \in Node
    BY DEF RedundantJump, Redundant, Stop, Delete
  <1>2. Sound(mem) /\ Sound(m) /\ Relinked(mem, m) /\ list \in 0 .. N /\ mem \in [Node -> Fields]
    <2>1. Sound(mem) /\ list \in 0 .. N /\ mem \in [Node -> Fields]
      BY DEF Typed, Sound
    <2>. QED
      BY <1>1, <2>1, OffIs, OffRelinks
  <1>3. node # PrologNode /\ node # EpilogNode
    BY <1>1, <1>2 DEF Sound
  <1>4. Dropped(m, mem', prev, node)
    BY <1>1, <1>2, <1>3, FreedDrops
  <1>5. \A n \in Node : n # node => /\ mem'[n].code = mem[n].code /\ mem'[n].flag = mem[n].flag
                                    /\ mem'[n].to = mem[n].to
                                    /\ mem'[n].next = IF n = prev THEN mem[node].next ELSE mem[n].next
    BY <1>1, <1>2, <1>4 DEF Dropped, Alike, Relinked
  <1>. QED
    BY <1>1, <1>2, <1>4, <1>5

\* The user of the label is off its list.
LEMMA RedundantUsers ==
  ASSUME Typed, NEW S \in SUBSET Node, UsersInv(S), RedundantJump, phase' = "thread",
         node \in S, prev \in Node, prev = node \/ mem[prev].next = node, NEW T, T = S \ {node}
  PROVE  UsersInv(T)'
  <1>a. PICK m : m = Off(mem[node].to, node)
    OBVIOUS
  <1>1. mem[node].code = "jmpi" /\ Flagged(node) /\ node \in Node
    BY RedundantIs
  <1>2. Sound(mem) /\ Relinked(mem, m) /\ mem \in [Node -> Fields]
    BY <1>a, RedundantIs
  <1>4. Dropped(m, mem', prev, node)
    BY <1>a, RedundantIs
  <1>5. \A n \in Node : n # node => /\ mem'[n].code = mem[n].code /\ mem'[n].flag = mem[n].flag
                                    /\ mem'[n].to = mem[n].to
                                    /\ mem'[n].next = IF n = prev THEN mem[node].next ELSE mem[n].next
    BY RedundantIs
  <1>6. Targets(mem, S) /\ Turns(mem, S)
    BY DEF UsersInv
  <1>7. Targets(mem', T)
    <2>1. ASSUME NEW n \in T, "node" \in mem'[n].flag
          PROVE  /\ mem'[n].code \in {"movi", "jmpi", "branch", "reversed"} /\ mem'[n].to \in T
                 /\ mem'[mem'[n].to].code \in Ends
      <3>1. n \in S /\ n # node /\ n \in Node
        OBVIOUS
      <3>2. /\ mem[n].code \in {"movi", "jmpi", "branch", "reversed"} /\ mem[n].to \in S
            /\ mem[mem[n].to].code \in Ends
        BY <1>5, <1>6, <2>1, <3>1 DEF Targets
      <3>3. mem[n].to # node
        BY <1>1, <3>2 DEF Ends
      <3>. QED
        BY <1>5, <3>1, <3>2, <3>3
    <2>. QED
      BY <2>1 DEF Targets
  <1>8. Turns(mem', T)
    <2>1. ASSUME NEW n \in T, mem'[n].code = "reversed", mem'[n].next # NULL PROVE mem'[mem'[n].next].code # "jmpi"
      <3>1. n \in S /\ n # node /\ n \in Node /\ mem[n].code = "reversed"
        BY <1>5, <2>1
      <3>2. n # prev
        BY <1>1, <1>6, <3>1, Numbers DEF Turns
      <3>3. mem'[n].next = mem[n].next /\ mem[n].next \in Node /\ mem[mem[n].next].code # "jmpi"
        <4>1. mem'[n].next = mem[n].next
          BY <1>5, <3>1, <3>2
        <4>2. mem[n].next \in 0 .. N
          BY <1>2, <3>1 DEF Fields
        <4>. QED
          BY <1>6, <2>1, <3>1, <4>1, <4>2, Numbers DEF Turns
      <3>. QED
        BY <1>4, <1>5, <3>3 DEF Dropped
    <2>. QED
      BY <2>1 DEF Turns
  <1>9. PICK G \in SUBSET Node : Cut(mem, S, G) /\ AllListed(mem, S, S, G) /\ (Unturned(mem, S) => G = {})
    BY DEF UsersInv
  <1>10. AllListed(m, S, T, G) /\ Cut(m, S, G)
    <2>1. node \in Users(mem[node].to)
      BY DEF RedundantJump, Stop
    <2>. QED
      BY <1>1, <1>2, <1>6, <1>9, <1>a, <2>1, OffUsers
  <1>11. AllListed(mem', T, T, G) /\ Cut(mem', T, G)
    <2>1. node \notin G
      BY <1>1, <1>6, <1>9, NoEnds DEF Flagged
    <2>2. \A n \in T \cup G : n # node /\ n \in Node
      BY <1>9, <2>1
    <2>3. \A n \in T \cup G : Alike(m, mem', n)
      BY <1>4, <2>2 DEF Dropped
    <2>4. Cut(mem', T, G)
      BY <1>10, <2>3 DEF Cut, Alike
    <2>. QED
      BY <1>10, <2>3, <2>4, AllListedStay
  <1>12. Unturned(mem', T) => Unturned(mem, S)
    BY <1>1, <1>5 DEF Unturned
  <1>. QED
    BY <1>7, <1>8, <1>9, <1>11, <1>12 DEF UsersInv

\* Two nodes change.
LEMMA TwoChange ==
  ASSUME NEW m \in [Node -> Fields], NEW a \in Node, NEW b \in Node, a # b, NEW rec, NEW end, NEW w,
         w = [[m EXCEPT ![a] = rec] EXCEPT ![b] = end]
  PROVE  w[a] = rec /\ w[b] = end /\ \A n \in Node : n # a /\ n # b => w[n] = m[n]
  OBVIOUS

\* Only where x goes, and the links, change.
Redirects(m, m2, x) ==
  \A n \in Node : /\ m2[n].code = m[n].code /\ m2[n].flag = m[n].flag /\ m2[n].next = m[n].next
                  /\ n # x => m2[n].to = m[n].to

\* A jump that goes where the one behind it goes is patched anew.
LEMMA ShortcutIs ==
  ASSUME Typed, NEW S \in SUBSET Node, Targets(mem, S), ShortcutJump, phase' = "thread",
         node \in S, Second(node) \in S, NEW jump, jump = mem[Second(node)].to, NEW m, m = Off(mem[node].to, node)
  PROVE  /\ node \in Node /\ Flagged(node) /\ mem[node].code \in {"jmpi", "branch", "reversed"}
         /\ Second(node) # NULL /\ mem[Second(node)].code = "jmpi"
         /\ jump \in S /\ jump \in Node /\ mem[jump].code \in Ends /\ jump # node
         /\ Sound(mem) /\ Relinked(mem, m) /\ Points(m, mem', node, jump) /\ mem'[node].to = jump
         /\ Redirects(mem, mem', node)
  <1>f. mem' = [m EXCEPT ![node].to = jump, ![node].link = m[jump].link, ![jump].link = node]
    BY DEF ShortcutJump, Stop
  <1>1. Short(node) /\ mem[Second(node)].code = "jmpi" /\ node \in Node
    BY DEF ShortcutJump
  <1>2. Flagged(node) /\ mem[node].code \in {"jmpi", "branch", "reversed"} /\ Second(node) # NULL
    BY <1>1 DEF Short, Conditional
  <1>3. Flagged(Second(node))
    <2>1. PICK there : there = {s \in After(mem[node].to, {"note", "label"}) :
                                  \/ mem[s].code = "jmpi" /\ Flagged(s)
                                  \/ mem[s].code = "jmpr" /\ mem[node].code = "jmpi"}
      OBVIOUS
    <2>2. Second(node) \in there
      BY <1>2, <2>1 DEF Second
    <2>. QED
      BY <1>1, <2>1, <2>2
  <1>4. Sound(mem) /\ Sound(m) /\ Relinked(mem, m) /\ m \in [Node -> Fields]
    <2>1. Sound(mem)
      BY DEF Typed
    <2>2. Sound(m) /\ Relinked(mem, m)
      BY <1>1, <2>1, OffIs, OffRelinks
    <2>. QED
      BY <2>1, <2>2 DEF Sound
  <1>6. jump \in S /\ jump \in Node /\ mem[jump].code \in Ends /\ jump # node
    <2>1. jump \in S /\ mem[jump].code \in Ends
      BY <1>3 DEF Targets, Flagged
    <2>. QED
      BY <1>2, <2>1 DEF Ends
  <1>c. PICK rec : rec = [m[node] EXCEPT !.to = jump, !.link = m[jump].link]
    OBVIOUS
  <1>d. PICK end : end = [m[jump] EXCEPT !.link = node]
    OBVIOUS
  <1>7. m[node] \in Fields /\ m[jump] \in Fields
    BY <1>1, <1>4, <1>6
  <1>8. /\ rec.code = m[node].code /\ rec.flag = m[node].flag /\ rec.to = jump /\ rec.link = m[jump].link
        /\ rec.next = m[node].next
        /\ end.code = m[jump].code /\ end.flag = m[jump].flag /\ end.to = m[jump].to /\ end.link = node
        /\ end.next = m[jump].next
    BY <1>7, <1>c, <1>d DEF Fields
  <1>9. mem' = [[m EXCEPT ![node] = rec] EXCEPT ![jump] = end]
    BY <1>1, <1>f, <1>4, <1>6, <1>c, <1>d
  <1>10. mem'[node] = rec /\ mem'[jump] = end /\ \A n \in Node : n # node /\ n # jump => mem'[n] = m[n]
    BY <1>1, <1>4, <1>6, <1>9, TwoChange
  <1>11. Flagged(node) /\ m[node].flag = mem[node].flag
    BY <1>1, <1>2, <1>4 DEF Relinked
  <1>12. Points(m, mem', node, jump)
    <2>1. rec.code \notin Ends
      BY <1>1, <1>2, <1>4, <1>8 DEF Relinked, Ends
    <2>. QED
      BY <1>8, <1>10, <1>11, <2>1 DEF Points, Alike, Flagged
  <1>13. \A n \in Node : /\ mem'[n].code = mem[n].code /\ mem'[n].flag = mem[n].flag /\ mem'[n].next = mem[n].next
                         /\ n # node => mem'[n].to = mem[n].to
    <2>1. \A n \in Node : /\ mem'[n].code = m[n].code /\ mem'[n].flag = m[n].flag /\ mem'[n].next = m[n].next
                          /\ n # node => mem'[n].to = m[n].to
      BY <1>8, <1>10
    <2>. QED
      BY <1>4, <2>1 DEF Relinked
  <1>14. mem'[node].to = jump
    BY <1>8, <1>10
  <1>15. Redirects(mem, mem', node)
    BY <1>13 DEF Redirects
  <1>. QED
    BY <1>1, <1>2, <1>3, <1>4, <1>6, <1>12, <1>14, <1>15

\* The jump is off one list and on the other.
LEMMA ShortcutUsers ==
  ASSUME Typed, NEW S \in SUBSET Node, UsersInv(S), ShortcutJump, phase' = "thread",
         node \in S, Second(node) \in S
  PROVE  UsersInv(S)'
  <1>a. PICK jump : jump = mem[Second(node)].to
    OBVIOUS
  <1>b. PICK m : m = Off(mem[node].to, node)
    OBVIOUS
  <1>5. Targets(mem, S) /\ Turns(mem, S)
    BY DEF UsersInv
  <1>2. Flagged(node) /\ mem[node].code \in {"jmpi", "branch", "reversed"} /\ node \in Node
    BY <1>5, ShortcutIs
  <1>4. Sound(mem) /\ Relinked(mem, m)
    BY <1>5, <1>a, <1>b, ShortcutIs
  <1>6. jump \in S /\ jump \in Node /\ mem[jump].code \in Ends /\ jump # node
    BY <1>5, <1>a, ShortcutIs
  <1>12. Points(m, mem', node, jump) /\ mem'[node].to = jump
    BY <1>5, <1>a, <1>b, ShortcutIs
  <1>13. \A n \in Node : /\ mem'[n].code = mem[n].code /\ mem'[n].flag = mem[n].flag /\ mem'[n].next = mem[n].next
                         /\ n # node => mem'[n].to = mem[n].to
    <2>1. Redirects(mem, mem', node)
      BY <1>5, ShortcutIs
    <2>. QED
      BY <2>1 DEF Redirects
  <1>14. Targets(mem', S)
    <2>1. ASSUME NEW n \in S, "node" \in mem'[n].flag
          PROVE  /\ mem'[n].code \in {"movi", "jmpi", "branch", "reversed"} /\ mem'[n].to \in S
                 /\ mem'[mem'[n].to].code \in Ends
      <3>1. CASE n = node
        BY <1>2, <1>6, <1>12, <1>13, <3>1
      <3>2. CASE n # node
        BY <1>5, <1>13, <2>1, <3>2 DEF Targets
      <3>. QED
        BY <3>1, <3>2
    <2>. QED
      BY <2>1 DEF Targets
  <1>15. Turns(mem', S)
    <2>1. ASSUME NEW n \in S, mem'[n].code = "reversed", mem'[n].next # NULL PROVE mem'[mem'[n].next].code # "jmpi"
      <3>1. mem[n].next \in Node
        <4>1. n \in Node /\ mem[n].next \in 0 .. N
          BY <1>4 DEF Sound, Fields
        <4>. QED
          BY <1>13, <2>1, <4>1, Numbers
      <3>. QED
        BY <1>5, <1>13, <2>1, <3>1 DEF Turns
    <2>. QED
      BY <2>1 DEF Turns
  <1>16. PICK G \in SUBSET Node : Cut(mem, S, G) /\ AllListed(mem, S, S, G) /\ (Unturned(mem, S) => G = {})
    BY DEF UsersInv
  <1>17. AllListed(m, S, S \ {node}, G) /\ Cut(m, S, G)
    <2>1. node \in Users(mem[node].to)
      BY DEF ShortcutJump, Stop
    <2>. QED
      BY <1>2, <1>4, <1>5, <1>16, <1>b, <2>1, OffUsers
  <1>18. AllListed(mem', S, S, G) /\ Cut(mem', S, G)
    <2>1. m[jump].code \in Ends /\ m[node].code \notin Ends \cup {"jmpr"}
      BY <1>2, <1>4, <1>6 DEF Relinked, Ends
    <2>2. Targets(m, S)
      BY <1>4, <1>5 DEF Relinked, Targets
    <2>. QED
      BY <1>6, <1>12, <1>17, <2>1, <2>2, Pointing
  <1>19. Unturned(mem', S) => Unturned(mem, S)
    BY <1>13 DEF Unturned
  <1>. QED
    BY <1>14, <1>15, <1>16, <1>18, <1>19 DEF UsersInv

\* A jump made one to a register: the lists of users are no longer looked after.
LEMMA ToRegisterIs ==
  ASSUME Typed, NEW S \in SUBSET Node, ShortcutToRegister, node \in S
  PROVE  /\ node \in Node /\ Short(node) /\ mem[Second(node)].code = "jmpr" /\ mem \in [Node -> Fields]
         /\ mem[node] \in Fields /\ mem[node].code \notin Ends
         /\ mem'[node].code = "jmpr" /\ "node" \notin mem'[node].flag /\ mem'[node].next = mem[node].next
         /\ mem'[node].to = mem[Second(node)].to /\ mem'[node].link = NULL
         /\ \A n \in Node : n # node => mem'[n] = mem[n]
  <1>a. PICK reg : reg = mem[Second(node)].to
    OBVIOUS
  <1>1. /\ Short(node) /\ mem[Second(node)].code = "jmpr" /\ node \in Node
        /\ mem' = [mem EXCEPT ![node].code = "jmpr", ![node].to = reg, ![node].link = NULL, ![node].flag = @ \ {"node"}]
    BY <1>a DEF ShortcutToRegister
  <1>2. mem \in [Node -> Fields] /\ mem[node] \in Fields /\ mem[node].code \notin Ends
    BY <1>1 DEF Typed, Sound, Short, Conditional, Ends
  <1>b. PICK rec : rec = [mem[node] EXCEPT !.code = "jmpr", !.to = reg, !.link = NULL, !.flag = @ \ {"node"}]
    OBVIOUS
  <1>3. rec.code = "jmpr" /\ "node" \notin rec.flag /\ rec.next = mem[node].next /\ rec.to = reg /\ rec.link = NULL
    BY <1>2, <1>b DEF Fields
  <1>4. mem' = [mem EXCEPT ![node] = rec]
    BY <1>1, <1>2, <1>b
  <1>5. mem'[node] = rec /\ \A n \in Node : n # node => mem'[n] = mem[n]
    BY <1>1, <1>2, <1>4
  <1>. QED
    BY <1>1, <1>2, <1>3, <1>5, <1>a

\* From now on no list counts.
LEMMA ToRegisterUsers ==
  ASSUME Typed, NEW S \in SUBSET Node, UsersInv(S), ShortcutToRegister, phase' = "thread", node \in S
  PROVE  UsersInv(S)'
  <1>2. mem \in [Node -> Fields] /\ mem[node] \in Fields /\ mem[node].code \notin Ends /\ node \in Node
    BY ToRegisterIs
  <1>5. /\ mem'[node].code = "jmpr" /\ "node" \notin mem'[node].flag /\ mem'[node].next = mem[node].next
        /\ \A n \in Node : n # node => mem'[n] = mem[n]
    BY ToRegisterIs
  <1>6. Targets(mem, S) /\ Turns(mem, S)
    BY DEF UsersInv
  <1>7. Targets(mem', S)
    <2>1. ASSUME NEW n \in S, "node" \in mem'[n].flag
          PROVE  /\ mem'[n].code \in {"movi", "jmpi", "branch", "reversed"} /\ mem'[n].to \in S
                 /\ mem'[mem'[n].to].code \in Ends
      <3>1. n # node /\ mem'[n] = mem[n]
        BY <1>5, <2>1
      <3>2. mem[n].to \in S /\ mem[n].to # node
        BY <1>2, <1>6, <2>1, <3>1 DEF Targets
      <3>. QED
        BY <1>5, <1>6, <2>1, <3>1, <3>2 DEF Targets
    <2>. QED
      BY <2>1 DEF Targets
  <1>8. Turns(mem', S)
    <2>1. ASSUME NEW n \in S, mem'[n].code = "reversed", mem'[n].next # NULL PROVE mem'[mem'[n].next].code # "jmpi"
      <3>1. n # node /\ mem'[n] = mem[n]
        BY <1>5, <2>1
      <3>2. mem[n].next \in Node /\ mem[mem[n].next].code # "jmpi"
        <4>1. mem[n].next \in 0 .. N
          BY <1>2 DEF Fields
        <4>. QED
          BY <1>6, <2>1, <3>1, <4>1, Numbers DEF Turns
      <3>3. mem'[mem[n].next].code # "jmpi"
        BY <1>5, <3>2
      <3>. QED
        BY <3>1, <3>3
    <2>. QED
      BY <2>1 DEF Turns
  <1>9. ~Unturned(mem', S)
    BY <1>5 DEF Unturned
  <1>10. PICK G \in SUBSET Node : Cut(mem, S, G) /\ AllListed(mem, S, S, G)
    BY DEF UsersInv
  <1>11. AllListed(mem', S, S \ {node}, G \cup {node}) /\ Cut(mem', S, G \cup {node})
    <2>1. Flagged(node) /\ mem'[node].link = NULL
      BY ToRegisterIs DEF Short
    <2>2. node \notin G
      BY <1>6, <1>10, <2>1, NoEnds DEF Flagged
    <2>3. \A n \in Node : n # node => Alike(mem, mem', n)
      BY <1>5 DEF Alike
    <2>. QED
      BY <1>2, <1>5, <1>10, <2>1, <2>2, <2>3, CuttingOff
  <1>12. AllListed(mem', S, S, G \cup {node})
    <2>1. \A l : UsersOf(mem', S \ {node}, l) = UsersOf(mem', S, l)
      BY <1>5 DEF UsersOf
    <2>. QED
      BY <1>11, <2>1 DEF AllListed, Listed
  <1>. QED
    BY <1>7, <1>8, <1>9, <1>11, <1>12 DEF UsersInv

\* A branch over a jump is turned round, only once, and its jump freed.
LEMMA ReverseLinks ==
  ASSUME Typed, NEW S \in SUBSET Node, Targets(mem, S), Turns(mem, S), ReverseJump, phase' = "thread",
         node \in S, NEW next, next = mem[node].next, next \in S, next # node, NEW jump, jump = mem[next].to,
         NEW o, o = Off(mem[node].to, node), NEW m, m = Without(o, node, next)
  PROVE  /\ node \in Node /\ next \in Node /\ Sound(mem) /\ mem \in [Node -> Fields]
         /\ mem[node].code = "branch" /\ Flagged(node) /\ node \in Users(mem[node].to)
         /\ mem[next].code = "jmpi" /\ Flagged(next)
         /\ jump \in S /\ jump \in Node /\ mem[jump].code \in Ends /\ jump # node /\ jump # next
         /\ Relinked(mem, o) /\ Dropped(o, m, node, next) /\ m[next].link = NULL
         /\ Points(m, mem', node, jump) /\ mem'[node].code = "reversed" /\ mem'[node].flag = m[node].flag
         /\ \A n \in Node : n # node => mem'[n].code = m[n].code /\ mem'[n].flag = m[n].flag /\ mem'[n].to = m[n].to
         /\ \A n \in Node : mem'[n].next = m[n].next
  <1>0. ~Stop("crashed")
    BY DEF ReverseJump, Threading, Stop
  <1>1. phase = "thread" /\ Reversible(node) /\ node \in Node /\ next \in Node /\ node \in Users(mem[node].to)
    BY <1>0 DEF ReverseJump, Threading
  <1>f. mem' = [m EXCEPT ![node].code = Turned(@), ![node].to = jump, ![node].link = m[jump].link,
                         ![jump].link = node]
    BY <1>0 DEF ReverseJump, Threading
  <1>2. /\ mem[node].code \in {"branch", "reversed"} /\ Flagged(node)
        /\ next # NULL /\ mem[next].code = "jmpi" /\ Flagged(next)
    BY <1>1 DEF Reversible, Conditional
  <1>4. mem[node].code = "branch"
    BY <1>2 DEF Turns
  <1>5. jump \in S /\ jump \in Node /\ mem[jump].code \in Ends /\ jump # node /\ jump # next
    <2>1. jump \in S /\ mem[jump].code \in Ends
      BY <1>2 DEF Targets, Flagged
    <2>. QED
      BY <1>2, <1>4, <2>1 DEF Ends
  <1>6. Sound(mem) /\ mem \in [Node -> Fields] /\ Sound(o) /\ Relinked(mem, o) /\ list \in 0 .. N
    <2>1. Sound(mem) /\ list \in 0 .. N
      BY DEF Typed
    <2>2. Sound(o) /\ Relinked(mem, o)
      BY <1>1, <2>1, OffIs, OffRelinks
    <2>. QED
      BY <2>1, <2>2 DEF Sound
  <1>7. next # PrologNode /\ next # EpilogNode
    BY <1>1, <1>2, <1>6 DEF Sound
  <1>8. Dropped(o, m, node, next) /\ m \in [Node -> Fields] /\ m[node] \in Fields /\ m[jump] \in Fields
    <2>1. Sound(m)
      BY <1>1, <1>6, <1>7, WithoutIs
    <2>2. Dropped(o, m, node, next)
      BY <1>1, <1>6, <1>7, FreedDrops
    <2>. QED
      BY <1>1, <1>5, <2>1, <2>2 DEF Sound
  <1>3. m[next].link = NULL
    <2>1. FreedIn(o, node, next, m)
      BY <1>1, <1>6, <1>7, WithoutIs
    <2>2. m[next] = Zeroed(list)
      BY <2>1 DEF FreedIn
    <2>. QED
      BY <2>2 DEF Zeroed
  <1>9. m[node].code = "branch" /\ m[node].flag = mem[node].flag /\ m[jump].code = mem[jump].code
    <2>1. o[node].code = "branch" /\ o[node].flag = mem[node].flag /\ o[jump].code = mem[jump].code
      BY <1>1, <1>4, <1>5, <1>6 DEF Relinked
    <2>2. node # next /\ jump # next
      BY <1>2, <1>4, <1>5
    <2>. QED
      BY <1>1, <1>5, <1>8, <2>1, <2>2 DEF Dropped, Alike
  <1>d. PICK rec : rec = [m[node] EXCEPT !.code = Turned(@), !.to = jump, !.link = m[jump].link]
    OBVIOUS
  <1>e. PICK end : end = [m[jump] EXCEPT !.link = node]
    OBVIOUS
  <1>10. /\ rec.code = "reversed" /\ rec.to = jump /\ rec.flag = m[node].flag /\ rec.next = m[node].next
         /\ rec.link = m[jump].link /\ end.link = node
         /\ end.code = m[jump].code /\ end.flag = m[jump].flag /\ end.to = m[jump].to /\ end.next = m[jump].next
    BY <1>8, <1>9, <1>d, <1>e DEF Fields, Turned
  <1>11. mem' = [[m EXCEPT ![node] = rec] EXCEPT ![jump] = end]
    BY <1>1, <1>f, <1>5, <1>8, <1>d, <1>e
  <1>12. mem'[node] = rec /\ mem'[jump] = end /\ \A n \in Node : n # node /\ n # jump => mem'[n] = m[n]
    BY <1>1, <1>5, <1>8, <1>11, TwoChange
  <1>13. Points(m, mem', node, jump)
    <2>1. mem'[node].code \notin Ends
      BY <1>10, <1>12 DEF Ends
    <2>2. "node" \in mem'[node].flag
      <3>1. mem'[node].flag = mem[node].flag
        BY <1>9, <1>10, <1>12
      <3>. QED
        BY <1>2, <3>1 DEF Flagged
    <2>3. mem'[node].to = jump /\ mem'[node].link = m[jump].link
      BY <1>10, <1>12
    <2>4. mem'[jump].code = m[jump].code /\ mem'[jump].flag = m[jump].flag /\ mem'[jump].to = m[jump].to
          /\ mem'[jump].link = node
      BY <1>10, <1>12
    <2>5. \A n \in Node : n # node /\ n # jump => Alike(m, mem', n)
      BY <1>12 DEF Alike
    <2>. QED
      BY <2>1, <2>2, <2>3, <2>4, <2>5 DEF Points
  <1>14. /\ mem'[node].code = "reversed" /\ mem'[node].flag = m[node].flag
         /\ \A n \in Node : n # node => mem'[n].code = m[n].code /\ mem'[n].flag = m[n].flag /\ mem'[n].to = m[n].to
         /\ \A n \in Node : mem'[n].next = m[n].next
    <2>1. mem'[node].code = "reversed" /\ mem'[node].flag = m[node].flag /\ mem'[node].next = m[node].next
      BY <1>10, <1>12
    <2>2. /\ mem'[jump].code = m[jump].code /\ mem'[jump].flag = m[jump].flag /\ mem'[jump].to = m[jump].to
          /\ mem'[jump].next = m[jump].next
      BY <1>10, <1>12
    <2>. QED
      BY <1>12, <2>1, <2>2
  <1>. QED
    BY <1>1, <1>2, <1>3, <1>4, <1>5, <1>6, <1>8, <1>13, <1>14

\* What that does to the nodes.
LEMMA ReverseIs ==
  ASSUME Typed, NEW S \in SUBSET Node, Targets(mem, S), Turns(mem, S), ReverseJump, phase' = "thread",
         node \in S, NEW next, next = mem[node].next, next \in S, next # node, NEW jump, jump = mem[next].to
  PROVE  /\ node \in Node /\ next \in Node /\ mem \in [Node -> Fields]
         /\ mem[node].code = "branch" /\ Flagged(node)
         /\ mem[next].code = "jmpi" /\ Flagged(next)
         /\ jump \in S /\ jump \in Node /\ mem[jump].code \in Ends /\ jump # node /\ jump # next
         /\ mem'[node].code = "reversed" /\ mem'[node].to = jump /\ mem'[node].next = mem[next].next
         /\ mem'[node].flag = mem[node].flag /\ mem'[next].code = "data"
         /\ \A n \in Node \ {node, next} : /\ mem'[n].code = mem[n].code /\ mem'[n].flag = mem[n].flag
                                            /\ mem'[n].to = mem[n].to /\ mem'[n].next = mem[n].next
  <1>b. PICK o : o = Off(mem[node].to, node)
    OBVIOUS
  <1>c. PICK m : m = Without(o, node, next)
    OBVIOUS
  <1>1. /\ node \in Node /\ next \in Node /\ mem \in [Node -> Fields]
        /\ mem[node].code = "branch" /\ Flagged(node)
        /\ mem[next].code = "jmpi" /\ Flagged(next)
        /\ jump \in S /\ jump \in Node /\ mem[jump].code \in Ends /\ jump # node /\ jump # next
        /\ Relinked(mem, o) /\ Dropped(o, m, node, next)
        /\ Points(m, mem', node, jump) /\ mem'[node].code = "reversed" /\ mem'[node].flag = m[node].flag
        /\ \A n \in Node : n # node => mem'[n].code = m[n].code /\ mem'[n].flag = m[n].flag /\ mem'[n].to = m[n].to
        /\ \A n \in Node : mem'[n].next = m[n].next
    BY <1>b, <1>c, ReverseLinks
  <1>2. /\ m[node].next = mem[next].next /\ m[node].flag = mem[node].flag /\ m[next].code = "data"
        /\ \A n \in Node : n # next => m[n].code = mem[n].code /\ m[n].flag = mem[n].flag /\ m[n].to = mem[n].to
        /\ \A n \in Node : n # next /\ n # node => m[n].next = mem[n].next
    BY <1>1 DEF Dropped, Alike, Relinked
  <1>3. mem'[node].to = jump
    BY <1>1 DEF Points
  <1>. QED
    BY <1>1, <1>2, <1>3

\* From now on no list counts.
LEMMA ReverseUsers ==
  ASSUME Typed, NEW S \in SUBSET Node, UsersInv(S), ReverseJump, phase' = "thread",
         node \in S, NEW next, next = mem[node].next, next \in S, next # node, NEW T, T = S \ {next}
  PROVE  UsersInv(T)'
  <1>a. PICK jump : jump = mem[next].to
    OBVIOUS
  <1>3. Targets(mem, S) /\ Turns(mem, S)
    BY DEF UsersInv
  <1>1. node \in Node /\ next \in Node
    OBVIOUS
  <1>2. Flagged(node) /\ mem[next].code = "jmpi" /\ mem[node].to \in After(next, Ends \cup {"note"})
    <2>1. Flagged(node)
      BY <1>3, <1>a, ReverseIs
    <2>2. mem[next].code = "jmpi"
      BY <1>3, <1>a, ReverseIs
    <2>3. mem[node].to \in After(next, Ends \cup {"note"})
      BY DEF ReverseJump, Reversible
    <2>. QED
      BY <2>1, <2>2, <2>3
  <1>4. mem[node].code = "branch"
    BY <1>3, ReverseIs
  <1>5. jump \in S /\ jump \in Node /\ mem[jump].code \in Ends /\ jump # node /\ jump # next
    BY <1>3, <1>a, ReverseIs
  <1>6. mem \in [Node -> Fields]
    BY <1>3, ReverseIs
  <1>13. /\ mem'[node].code = "reversed" /\ mem'[node].to = jump /\ mem'[node].next = mem[next].next
         /\ mem'[next].code = "data"
         /\ \A n \in Node \ {node, next} : /\ mem'[n].code = mem[n].code /\ mem'[n].flag = mem[n].flag
                                           /\ mem'[n].to = mem[n].to /\ mem'[n].next = mem[n].next
    BY <1>3, <1>a, ReverseIs
  <1>14. Targets(mem', T)
    <2>1. ASSUME NEW l \in S, mem[l].code \in Ends PROVE l \in T /\ mem'[l].code \in Ends
      BY <1>2, <1>4, <1>13, <2>1 DEF Ends
    <2>2. ASSUME NEW n \in T, "node" \in mem'[n].flag
          PROVE  /\ mem'[n].code \in {"movi", "jmpi", "branch", "reversed"} /\ mem'[n].to \in S
                 /\ mem[mem'[n].to].code \in Ends
      <3>1. CASE n = node
        BY <1>5, <1>13, <3>1
      <3>2. CASE n # node
        <4>1. n \in Node \ {node, next} /\ n \in S
          BY <3>2
        <4>. QED
          BY <1>3, <1>13, <2>2, <4>1 DEF Targets
      <3>. QED
        BY <3>1, <3>2
    <2>. QED
      BY <2>1, <2>2 DEF Targets
  <1>15. mem'[node].next # NULL => mem'[mem'[node].next].code # "jmpi"
    <2>a. PICK x : x = mem[next].next
      OBVIOUS
    <2>. SUFFICES ASSUME x # NULL, mem'[x].code = "jmpi" PROVE FALSE
      BY <1>13, <2>a
    <2>1. x \in Node
      <3>1. x \in 0 .. N
        BY <1>1, <1>6, <2>a DEF Fields
      <3>. QED
        BY <3>1, Numbers
    <2>2. x \in Node \ {node, next} /\ mem[x].code = "jmpi"
      BY <1>13, <2>1
    <2>3. After(next, Ends \cup {"note"}) \subseteq {x}
      <3>1. "jmpi" \notin Ends \cup {"note"}
        BY DEF Ends
      <3>. QED
        BY <1>1, <1>6, <2>1, <2>2, <2>a, <3>1, AfterEnd
    <2>4. mem[mem[node].to].code \in Ends
      BY <1>2, <1>3 DEF Targets, Flagged
    <2>. QED
      BY <1>2, <2>2, <2>3, <2>4 DEF Ends
  <1>16. Turns(mem', T)
    <2>1. ASSUME NEW n \in T, n # node, mem'[n].code = "reversed", mem'[n].next # NULL
          PROVE  mem'[mem'[n].next].code # "jmpi"
      <3>1. n \in Node \ {node, next} /\ n \in S /\ mem[n].code = "reversed" /\ mem'[n].next = mem[n].next
        BY <1>13, <2>1
      <3>2. mem[n].next \in Node /\ mem[mem[n].next].code # "jmpi"
        <4>1. mem[n].next \in 0 .. N
          BY <1>6, <3>1 DEF Fields
        <4>. QED
          BY <1>3, <2>1, <3>1, <4>1, Numbers DEF Turns
      <3>3. mem'[mem[n].next].code # "jmpi"
        BY <1>13, <3>2
      <3>. QED
        BY <3>1, <3>3
    <2>. QED
      BY <1>15, <2>1 DEF Turns
  <1>17. ~Unturned(mem', T)
    BY <1>13 DEF Unturned
  <1>b. PICK o : o = Off(mem[node].to, node)
    OBVIOUS
  <1>c. PICK m : m = Without(o, node, next)
    OBVIOUS
  <1>18. /\ Sound(mem) /\ Flagged(node) /\ Flagged(next) /\ node \in Users(mem[node].to)
         /\ Relinked(mem, o) /\ Dropped(o, m, node, next) /\ m[next].link = NULL /\ Points(m, mem', node, jump)
    BY <1>3, <1>a, <1>b, <1>c, ReverseLinks
  <1>19. PICK G \in SUBSET Node : Cut(mem, S, G) /\ AllListed(mem, S, S, G)
    BY DEF UsersInv
  <1>20. AllListed(o, S, S \ {node}, G) /\ Cut(o, S, G)
    BY <1>3, <1>18, <1>19, <1>b, OffUsers
  <1>21. next \notin G /\ o[next].code \notin Ends
    <2>1. o[next].code = "jmpi"
      BY <1>1, <1>2, <1>18 DEF Relinked
    <2>. QED
      BY <1>3, <1>18, <1>19, <2>1, NoEnds DEF Flagged, Ends
  <1>22. AllListed(m, T, T \ {node}, G \cup {next}) /\ Cut(m, T, G \cup {next})
    <2>1. PICK U \in SUBSET S : U = S \ {node}
      OBVIOUS
    <2>2. \A n \in Node : n # next => Alike(o, m, n)
      BY <1>18 DEF Dropped
    <2>3. AllListed(o, S, U, G)
      BY <1>20, <2>1
    <2>4. AllListed(m, T, U \ {next}, G \cup {next}) /\ Cut(m, T, G \cup {next})
      BY <1>1, <1>18, <1>20, <1>21, <2>2, <2>3, CuttingOff
    <2>5. U \ {next} = T \ {node}
      BY <2>1
    <2>. QED
      BY <2>4, <2>5
  <1>23. Targets(m, T) /\ m[jump].code \in Ends /\ m[node].code \notin Ends \cup {"jmpr"}
    <2>1. \A n \in Node : n # next => m[n].code = mem[n].code /\ m[n].flag = mem[n].flag /\ m[n].to = mem[n].to
      BY <1>18 DEF Dropped, Alike, Relinked
    <2>2. ASSUME NEW n \in T, "node" \in m[n].flag
          PROVE  m[n].code \in {"movi", "jmpi", "branch", "reversed"} /\ m[n].to \in T /\ m[m[n].to].code \in Ends
      <3>1. n \in S /\ n \in Node /\ n # next
        OBVIOUS
      <3>2. mem[n].code \in {"movi", "jmpi", "branch", "reversed"} /\ mem[n].to \in S /\ mem[mem[n].to].code \in Ends
        BY <1>3, <2>1, <2>2, <3>1 DEF Targets
      <3>3. mem[n].to # next
        BY <1>2, <3>2 DEF Ends
      <3>. QED
        BY <2>1, <3>1, <3>2, <3>3
    <2>3. m[jump].code = mem[jump].code /\ m[node].code = mem[node].code
      BY <1>1, <1>5, <2>1
    <2>. QED
      BY <1>4, <1>5, <2>2, <2>3 DEF Targets, Ends
  <1>24. AllListed(mem', T, T, G \cup {next}) /\ Cut(mem', T, G \cup {next})
    BY <1>1, <1>5, <1>18, <1>22, <1>23, Pointing
  <1>. QED
    BY <1>14, <1>16, <1>17, <1>24 DEF UsersInv

-----------------------------------------------------------------------------
(***************************************************************************)
(* Where the execution lands.  What it goes on with after what is not a    *)
(* node, and after the prolog, is settled: it does not move on from there, *)
(* so that N steps are enough to see whether it lands.                     *)
(***************************************************************************)
Place == 0 .. Loop

\* f goes on from places to places, and no further from those that are no nodes and from the prolog.
Settled(f) ==
  /\ f \in [Place -> Place] /\ f[NULL] = Lost /\ f[Reg] = Reg /\ f[Lost] = Lost /\ f[Loop] = Loop
  /\ f[PrologNode] = PrologNode

\* Every number that next or to can have is a place.
LEMMA Places ==
  /\ Node \subseteq Place /\ 0 .. N \subseteq Place /\ {NULL, Reg, Lost, Loop} \subseteq Place
  /\ \A y \in Place : y \notin Node => y \in {NULL, Reg, Lost, Loop}
  /\ Reg \notin Node /\ Lost \notin Node /\ Loop \notin Node /\ 0 .. Reg \subseteq Place
  /\ Lost # Loop /\ Reg # Loop /\ NULL # Lost
  BY Numbers DEF Place, Node, NULL, Reg, Lost, Loop

\* A landing is a place that is gone on from no further, or Loop.
LEMMA LandingIs ==
  ASSUME NEW f, Settled(f), NEW n \in Place, NEW s, s = Steps(f, n)
  PROVE  /\ s \in [0 .. N -> Place] /\ s[0] = n /\ \A i \in 1 .. N : s[i] = f[s[i - 1]]
         /\ Landing(n, f) = IF f[s[N]] = s[N] THEN s[N] ELSE Loop
  <1>1. f \in [Place -> Place]
    BY DEF Settled
  <1>2. s \in [0 .. N -> Place] /\ Follows(f, n, s)
    BY <1>1, StepsIn
  <1>. QED
    BY <1>2 DEF Follows, Landing

\* Once it does not move on, it stays.
LEMMA Stays ==
  ASSUME NEW f, NEW s, \A i \in 1 .. N : s[i] = f[s[i - 1]], NEW i \in 0 .. N, f[s[i]] = s[i]
  PROVE  \A j \in i .. N : s[j] = s[i]
  <1>0. N \in Nat
    BY Numbers
  <1>. DEFINE K == {k \in Nat : i + k =< N => s[i + k] = s[i]}
  <1>1. 0 \in K
    OBVIOUS
  <1>2. ASSUME NEW k \in Nat, k \in K PROVE k + 1 \in K
    <2>. SUFFICES ASSUME i + (k + 1) =< N PROVE s[i + (k + 1)] = s[i]
      OBVIOUS
    <2>a. PICK j : j = i + (k + 1)
      OBVIOUS
    <2>1. j \in 1 .. N /\ j - 1 = i + k /\ i + k =< N
      BY <1>0, <2>a
    <2>2. s[j] = f[s[j - 1]] /\ s[i + k] = s[i]
      BY <1>2, <2>1
    <2>. QED
      BY <2>1, <2>2, <2>a
  <1>3. Nat \subseteq K
    <2>. HIDE DEF K
    <2>. QED
      BY <1>1, <1>2, SetInduction
  <1>. SUFFICES ASSUME NEW j \in i .. N PROVE s[j] = s[i]
    OBVIOUS
  <1>a. PICK k : k = j - i
    OBVIOUS
  <1>4. k \in Nat /\ i + k = j /\ j =< N
    BY <1>0, <1>a
  <1>. QED
    BY <1>3, <1>4

\* If it comes twice to the same place, it does so again and again.
LEMMA Again ==
  ASSUME NEW f, NEW s, \A i \in 1 .. N : s[i] = f[s[i - 1]], NEW i \in 0 .. N, NEW j \in i .. N, s[i] = s[j]
  PROVE  s[N - (j - i)] = s[N]
  <1>0. N \in Nat /\ i \in Nat /\ j \in Nat
    BY Numbers
  <1>. DEFINE K == {k \in Nat : j + k =< N => s[i + k] = s[j + k]}
  <1>1. 0 \in K
    BY <1>0
  <1>2. ASSUME NEW k \in Nat, k \in K PROVE k + 1 \in K
    <2>. SUFFICES ASSUME j + (k + 1) =< N PROVE s[i + (k + 1)] = s[j + (k + 1)]
      OBVIOUS
    <2>a. PICK a : a = i + (k + 1)
      OBVIOUS
    <2>b. PICK b : b = j + (k + 1)
      OBVIOUS
    <2>1. a \in 1 .. N /\ a - 1 = i + k /\ b \in 1 .. N /\ b - 1 = j + k /\ j + k =< N
      BY <1>0, <2>a, <2>b
    <2>2. s[a] = f[s[a - 1]] /\ s[b] = f[s[b - 1]] /\ s[i + k] = s[j + k]
      BY <1>2, <2>1
    <2>. QED
      BY <2>1, <2>2, <2>a, <2>b
  <1>3. Nat \subseteq K
    <2>. HIDE DEF K
    <2>. QED
      BY <1>1, <1>2, SetInduction
  <1>a. PICK k : k = N - j
    OBVIOUS
  <1>4. k \in Nat /\ j + k =< N /\ j + k = N /\ i + k = N - (j - i)
    BY <1>0, <1>a
  <1>. QED
    BY <1>3, <1>4

\* There is no walk of N steps that does not come to rest, and then does.
LEMMA NoLate ==
  ASSUME NEW f, Settled(f), NEW s \in [0 .. N -> Place], \A i \in 1 .. N : s[i] = f[s[i - 1]],
         f[s[N]] # s[N]
  PROVE  f[f[s[N]]] # f[s[N]]
  <1>. SUFFICES ASSUME f[f[s[N]]] = f[s[N]] PROVE FALSE
    OBVIOUS
  <1>0. N \in Nat /\ N > 2
    BY Numbers
  <1>1. ASSUME NEW i \in 0 .. N PROVE f[s[i]] # s[i]
    <2>1. N \in i .. N
      BY <1>0
    <2>. QED
      BY <2>1, Stays
  <1>2. ASSUME NEW i \in 0 .. N - 1 PROVE s[i] \in Node /\ s[i] # PrologNode
    <2>1. i \in 0 .. N /\ i + 1 \in 1 .. N /\ i + 1 \in 0 .. N /\ (i + 1) - 1 = i
      BY <1>0
    <2>2. f[s[i]] # s[i] /\ s[i] \in Place
      BY <1>1, <2>1
    <2>3. s[i + 1] = f[s[i]] /\ f[s[i + 1]] # s[i + 1]
      BY <1>1, <2>1
    <2>4. s[i] # NULL
      BY <2>3 DEF Settled
    <2>. QED
      BY <2>2, <2>4, Places DEF Settled
  <1>3. ASSUME NEW i \in 0 .. N - 1, NEW j \in 0 .. N - 1, i < j PROVE s[i] # s[j]
    <2>. SUFFICES ASSUME s[i] = s[j] PROVE FALSE
      OBVIOUS
    <2>a. PICK a : a = N - (j - i)
      OBVIOUS
    <2>1. i \in 0 .. N /\ j \in i .. N /\ a \in 0 .. N /\ a + 1 \in 1 .. N /\ a + 1 \in 0 .. N /\ (a + 1) - 1 = a
      BY <1>0, <1>3, <2>a
    <2>2. s[a] = s[N]
      <3>1. s[N - (j - i)] = s[N]
        BY <2>1, Again, Zenon
      <3>. QED
        BY <2>a, <3>1
    <2>3. s[a + 1] = f[s[N]]
      BY <2>1, <2>2
    <2>. QED
      BY <1>1, <2>1, <2>3
  <1>a. PICK p : p = [i \in 1 .. N |-> s[i - 1]]
    OBVIOUS
  <1>4. ASSUME NEW i \in 1 .. N PROVE p[i] = s[i - 1] /\ i - 1 \in 0 .. N - 1
    BY <1>0, <1>a
  <1>5. \A i \in 1 .. N : p[i] \in Node /\ p[i] # PrologNode
    BY <1>2, <1>4
  <1>6. ASSUME NEW i \in 1 .. N, NEW j \in 1 .. N, p[i] = p[j] PROVE i = j
    <2>1. s[i - 1] = s[j - 1] /\ i - 1 \in 0 .. N - 1 /\ j - 1 \in 0 .. N - 1
      BY <1>4, <1>6
    <2>2. ~(i - 1 < j - 1) /\ ~(j - 1 < i - 1)
      BY <1>3, <2>1
    <2>. QED
      BY <1>0, <2>2
  <1>7. N < N
    <2>1. \E x \in Node : \A i \in 1 .. N : p[i] # x
      BY <1>5, Numbers
    <2>2. (\E x \in Node : \A i \in 1 .. N : p[i] # x) => N < N
      BY <1>0, <1>5, <1>6, NoLonger, Zenon
    <2>. QED
      BY <2>1, <2>2
  <1>. QED
    BY <1>0, <1>7

(***************************************************************************)
(* What the proofs use of Landing: it is a place, where execution rests if *)
(* it does anywhere; it is the same one step on; and what holds of it and  *)
(* goes backward holds of all that land there.                             *)
(***************************************************************************)
LEMMA LandsAt ==
  ASSUME NEW f, Settled(f), NEW n \in Place
  PROVE  /\ Landing(n, f) \in Place /\ f[Landing(n, f)] = Landing(n, f)
         /\ f[n] = n => Landing(n, f) = n
  <1>a. PICK s : s = Steps(f, n)
    OBVIOUS
  <1>1. /\ s \in [0 .. N -> Place] /\ s[0] = n /\ \A i \in 1 .. N : s[i] = f[s[i - 1]]
        /\ Landing(n, f) = IF f[s[N]] = s[N] THEN s[N] ELSE Loop
    BY <1>a, LandingIs
  <1>2. N \in 0 .. N /\ 0 \in 0 .. N
    BY Numbers
  <1>3. Landing(n, f) \in Place /\ f[Landing(n, f)] = Landing(n, f)
    BY <1>1, <1>2, Places DEF Settled
  <1>4. ASSUME f[n] = n PROVE Landing(n, f) = n
    <2>1. s[N] = n
      BY <1>1, <1>2, <1>4, Stays
    <2>. QED
      BY <1>1, <1>4, <2>1
  <1>. QED
    BY <1>3, <1>4

\* One step on, it lands where it did.
LEMMA LandsOn ==
  ASSUME NEW f, Settled(f), NEW n \in Place
  PROVE  f[n] \in Place /\ Landing(f[n], f) = Landing(n, f)
  <1>a. PICK s : s = Steps(f, n)
    OBVIOUS
  <1>c. PICK n2 : n2 = f[n]
    OBVIOUS
  <1>b. PICK t : t = Steps(f, n2)
    OBVIOUS
  <1>0. N \in Nat /\ N > 2 /\ n2 \in Place
    BY <1>c, Numbers DEF Settled
  <1>1. /\ s \in [0 .. N -> Place] /\ s[0] = n /\ \A i \in 1 .. N : s[i] = f[s[i - 1]]
        /\ Landing(n, f) = IF f[s[N]] = s[N] THEN s[N] ELSE Loop
    BY <1>a, LandingIs
  <1>2. /\ t \in [0 .. N -> Place] /\ t[0] = n2 /\ \A i \in 1 .. N : t[i] = f[t[i - 1]]
        /\ Landing(n2, f) = IF f[t[N]] = t[N] THEN t[N] ELSE Loop
    BY <1>0, <1>b, LandingIs
  <1>. DEFINE K == {k \in Nat : k =< N => t[k] = f[s[k]]}
  <1>3. 0 \in K
    BY <1>1, <1>2, <1>c
  <1>4. ASSUME NEW k \in Nat, k \in K PROVE k + 1 \in K
    <2>. SUFFICES ASSUME k + 1 =< N PROVE t[k + 1] = f[s[k + 1]]
      OBVIOUS
    <2>a. PICK j : j = k + 1
      OBVIOUS
    <2>1. j \in 1 .. N /\ j - 1 = k /\ k =< N
      BY <1>0, <2>a
    <2>2. t[j] = f[t[k]] /\ s[j] = f[s[k]] /\ t[k] = f[s[k]]
      BY <1>1, <1>2, <1>4, <2>1
    <2>. QED
      BY <2>2, <2>a
  <1>5. t[N] = f[s[N]]
    <2>1. Nat \subseteq K
      <3>. HIDE DEF K
      <3>. QED
        BY <1>3, <1>4, SetInduction
    <2>. QED
      BY <1>0, <2>1
  <1>6. CASE f[s[N]] = s[N]
    <2>1. t[N] = s[N] /\ f[t[N]] = t[N]
      BY <1>5, <1>6
    <2>2. Landing(n, f) = s[N] /\ Landing(n2, f) = t[N]
      BY <1>1, <1>2, <1>6, <2>1
    <2>. QED
      BY <2>1, <2>2, <1>0, <1>c
  <1>7. CASE f[s[N]] # s[N]
    <2>1. f[t[N]] # t[N]
      BY <1>1, <1>5, <1>7, NoLate
    <2>2. Landing(n, f) = Loop /\ Landing(n2, f) = Loop
      BY <1>1, <1>2, <1>7, <2>1
    <2>. QED
      BY <2>2, <1>0, <1>c
  <1>. QED
    BY <1>0, <1>6, <1>7, <1>c

\* What holds where it lands, and of all that go on to where it holds, holds of it.
LEMMA LandsBack ==
  ASSUME NEW f, Settled(f), NEW n \in Place, Landing(n, f) # Loop, NEW T, Landing(n, f) \in T,
         \A y \in Place : f[y] \in T => y \in T
  PROVE  n \in T
  <1>a. PICK s : s = Steps(f, n)
    OBVIOUS
  <1>0. N \in Nat /\ N > 2
    BY Numbers
  <1>1. /\ s \in [0 .. N -> Place] /\ s[0] = n /\ \A i \in 1 .. N : s[i] = f[s[i - 1]]
        /\ Landing(n, f) = IF f[s[N]] = s[N] THEN s[N] ELSE Loop
    BY <1>a, LandingIs
  <1>. DEFINE K == {k \in Nat : k =< N => s[N - k] \in T}
  <1>2. 0 \in K
    BY <1>0, <1>1
  <1>3. ASSUME NEW k \in Nat, k \in K PROVE k + 1 \in K
    <2>. SUFFICES ASSUME k + 1 =< N PROVE s[N - (k + 1)] \in T
      OBVIOUS
    <2>a. PICK j : j = N - k
      OBVIOUS
    <2>1. j \in 1 .. N /\ j - 1 = N - (k + 1) /\ k =< N /\ j - 1 \in 0 .. N
      BY <1>0, <2>a
    <2>2. s[j] \in T /\ s[j] = f[s[j - 1]] /\ s[j - 1] \in Place
      BY <1>1, <1>3, <2>1, <2>a
    <2>. QED
      BY <2>1, <2>2
  <1>4. Nat \subseteq K
    <2>. HIDE DEF K
    <2>. QED
      BY <1>2, <1>3, SetInduction
  <1>5. N \in K /\ N - N = 0
    BY <1>0, <1>4
  <1>. QED
    BY <1>1, <1>5

(***************************************************************************)
(* Two ways to go on, f and g, and for each place n of the one, h[n] of    *)
(* the other: if a step of f is none for where h[n] lands with g, then     *)
(* both land at the same place; and not at all if neither does.            *)
(***************************************************************************)
Mimics(f, g, h) ==
  /\ h \in [Place -> Place] /\ \A y \in Place : Landing(h[f[y]], g) = Landing(h[y], g)
  /\ \A y \in Place : f[y] = y => Landing(h[y], g) = y

\* Where f lands, g lands too, from where h takes it.
LEMMA MimicLands ==
  ASSUME NEW f, NEW g, NEW h, Settled(f), Mimics(f, g, h), NEW n \in Place, Landing(n, f) # Loop
  PROVE  Landing(h[n], g) = Landing(n, f)
  <1>a. PICK x : x = Landing(n, f)
    OBVIOUS
  <1>. DEFINE T == {y \in Place : Landing(h[y], g) = x}
  <1>1. x \in T
    BY <1>a, LandsAt DEF Mimics
  <1>2. \A y \in Place : f[y] \in T => y \in T
    BY DEF Mimics
  <1>3. n \in T
    <2>. HIDE DEF T
    <2>. QED
      BY <1>1, <1>2, <1>a, LandsBack
  <1>. QED
    BY <1>3, <1>a

\* When each does what the other does, both land in one place.
LEMMA BothLand ==
  ASSUME NEW f, NEW g, NEW h, NEW k, Settled(f), Settled(g), Mimics(f, g, h), Mimics(g, f, k),
         \A y \in Place : Landing(k[h[y]], f) = Landing(y, f)
  PROVE  \A n \in Place : Landing(h[n], g) = Landing(n, f)
  <1>. SUFFICES ASSUME NEW n \in Place PROVE Landing(h[n], g) = Landing(n, f)
    OBVIOUS
  <1>1. CASE Landing(n, f) # Loop
    BY <1>1, MimicLands
  <1>2. CASE Landing(n, f) = Loop /\ Landing(h[n], g) # Loop
    <2>1. h[n] \in Place
      BY DEF Mimics
    <2>2. Landing(k[h[n]], f) = Landing(h[n], g)
      BY <1>2, <2>1, MimicLands
    <2>. QED
      BY <1>2, <2>2
  <1>. QED
    BY <1>1, <1>2

(***************************************************************************)
(* Some places are gone on from differently, but so that both ways are the *)
(* same to both f and g: then all lands where it did.                      *)
(***************************************************************************)
Rerouted(f, g) ==
  \A y \in Place : \/ f[y] = g[y]
                   \/ /\ f[y] # y /\ g[y] # y
                      /\ Landing(f[y], f) = Landing(g[y], f) /\ Landing(f[y], g) = Landing(g[y], g)

\* Of two such ways, each does what the other does.
LEMMA RerouteMimics ==
  ASSUME NEW f, NEW g, NEW h, Settled(f), Settled(g), Rerouted(f, g), h = [y \in Place |-> y]
  PROVE  Mimics(f, g, h)
  <1>1. ASSUME NEW y \in Place PROVE Landing(h[f[y]], g) = Landing(h[y], g)
    <2>1. f[y] \in Place /\ g[y] \in Place
      BY DEF Settled
    <2>2. h[f[y]] = f[y] /\ h[y] = y
      BY <2>1
    <2>3. Landing(f[y], g) = Landing(g[y], g)
      BY DEF Rerouted
    <2>4. Landing(g[y], g) = Landing(y, g)
      BY LandsOn
    <2>. QED
      BY <2>2, <2>3, <2>4
  <1>2. ASSUME NEW y \in Place, f[y] = y PROVE Landing(h[y], g) = y
    <2>1. g[y] = y /\ h[y] = y
      BY <1>2 DEF Rerouted
    <2>. QED
      BY <2>1, LandsAt
  <1>3. h \in [Place -> Place]
    OBVIOUS
  <1>. QED
    BY <1>1, <1>2, <1>3 DEF Mimics

\* Whatever is gone on from, it lands where it did.
LEMMA RerouteLands ==
  ASSUME NEW f, NEW g, Settled(f), Settled(g), Rerouted(f, g)
  PROVE  \A n \in Place : Landing(n, g) = Landing(n, f)
  <1>a. PICK h : h = [y \in Place |-> y]
    OBVIOUS
  <1>1. Rerouted(g, f)
    BY DEF Rerouted
  <1>2. Mimics(f, g, h) /\ Mimics(g, f, h)
    BY <1>1, <1>a, RerouteMimics
  <1>3. \A y \in Place : h[y] = y /\ h[h[y]] = y
    BY <1>a
  <1>4. \A y \in Place : Landing(h[h[y]], f) = Landing(y, f)
    BY <1>3
  <1>5. \A n \in Place : Landing(h[n], g) = Landing(n, f)
    BY <1>2, <1>4, BothLand
  <1>. QED
    BY <1>3, <1>5

(***************************************************************************)
(* Place x is taken out: what went to x goes to v, where it came anyway.   *)
(***************************************************************************)
Bypassed(f, g, x, v) ==
  /\ x \in Node /\ v \in Place /\ v # x /\ f[x] # x /\ g[x] = Lost /\ f[v] # x
  /\ Landing(v, f) = Landing(x, f) /\ Landing(f[x], g) = Landing(v, g)
  /\ \A y \in Place : y # x => g[y] = IF f[y] = x THEN v ELSE f[y]

\* What landed in x lands where v does; from all else it lands where it did.
LEMMA BypassLands ==
  ASSUME NEW f, NEW g, NEW x, NEW v, Settled(f), Settled(g), Bypassed(f, g, x, v)
  PROVE  /\ Landing(v, g) = Landing(x, f)
         /\ \A n \in Place : n # x => Landing(n, g) = Landing(n, f)
  <1>a. PICK h : h = [y \in Place |-> IF y = x THEN v ELSE y]
    OBVIOUS
  <1>b. PICK k : k = [y \in Place |-> IF y = x THEN Lost ELSE y]
    OBVIOUS
  <1>0. /\ x \in Place /\ x \in Node /\ v \in Place /\ v # x /\ f[x] # x /\ g[x] = Lost /\ f[v] # x
        /\ Landing(v, f) = Landing(x, f) /\ Landing(f[x], g) = Landing(v, g)
        /\ \A y \in Place : y # x => g[y] = IF f[y] = x THEN v ELSE f[y]
    BY Places DEF Bypassed
  <1>1. \A y \in Place : f[y] \in Place /\ g[y] \in Place
    BY DEF Settled
  <1>2. h \in [Place -> Place] /\ h[x] = v /\ \A y \in Place : y # x => h[y] = y
    BY <1>0, <1>a
  <1>3. k \in [Place -> Place] /\ k[x] = Lost /\ Lost \in Place /\ Lost # x /\ \A y \in Place : y # x => k[y] = y
    BY <1>0, <1>b, Places
  <1>4. Mimics(f, g, h)
    <2>1. ASSUME NEW y \in Place PROVE Landing(h[f[y]], g) = Landing(h[y], g)
      <3>1. CASE y = x
        <4>1. h[f[y]] = f[x] /\ h[y] = v
          BY <1>0, <1>1, <1>2, <3>1
        <4>. QED
          BY <1>0, <4>1
      <3>2. CASE y # x
        <4>1. h[f[y]] = g[y] /\ h[y] = y
          BY <1>0, <1>1, <1>2, <3>2
        <4>2. Landing(g[y], g) = Landing(y, g)
          BY LandsOn
        <4>. QED
          BY <4>1, <4>2
      <3>. QED
        BY <3>1, <3>2
    <2>2. ASSUME NEW y \in Place, f[y] = y PROVE Landing(h[y], g) = y
      <3>1. y # x /\ h[y] = y /\ g[y] = y
        BY <1>0, <1>2, <2>2
      <3>. QED
        BY <3>1, LandsAt
    <2>. QED
      BY <1>2, <2>1, <2>2 DEF Mimics
  <1>5. Mimics(g, f, k)
    <2>1. ASSUME NEW y \in Place PROVE Landing(k[g[y]], f) = Landing(k[y], f)
      <3>1. CASE y = x
        <4>1. k[g[y]] = Lost /\ k[y] = Lost
          BY <1>0, <1>3, <3>1
        <4>. QED
          BY <4>1
      <3>2. CASE y # x /\ f[y] = x
        <4>1. k[g[y]] = v /\ k[y] = y
          BY <1>0, <1>3, <3>2
        <4>2. Landing(f[y], f) = Landing(y, f)
          BY LandsOn
        <4>3. Landing(x, f) = Landing(y, f)
          BY <3>2, <4>2
        <4>. QED
          BY <1>0, <4>1, <4>3
      <3>3. CASE y # x /\ f[y] # x
        <4>1. k[g[y]] = f[y] /\ k[y] = y
          BY <1>0, <1>1, <1>3, <3>3
        <4>2. Landing(f[y], f) = Landing(y, f)
          BY LandsOn
        <4>. QED
          BY <4>1, <4>2
      <3>. QED
        BY <3>1, <3>2, <3>3
    <2>2. ASSUME NEW y \in Place, g[y] = y PROVE Landing(k[y], f) = y
      <3>1. y # x
        BY <1>0, <1>3, <2>2
      <3>2. f[y] # x
        BY <1>0, <2>2, <3>1
      <3>3. f[y] = y /\ k[y] = y
        BY <1>0, <1>3, <2>2, <3>1, <3>2
      <3>. QED
        BY <3>3, LandsAt
    <2>. QED
      BY <1>3, <2>1, <2>2 DEF Mimics
  <1>6. ASSUME NEW y \in Place PROVE Landing(k[h[y]], f) = Landing(y, f)
    <2>1. CASE y = x
      <3>1. k[h[y]] = v
        BY <1>0, <1>2, <1>3, <2>1
      <3>. QED
        BY <1>0, <2>1, <3>1
    <2>2. CASE y # x
      <3>1. k[h[y]] = y
        BY <1>2, <1>3, <2>2
      <3>. QED
        BY <3>1
    <2>. QED
      BY <2>1, <2>2
  <1>7. \A n \in Place : Landing(h[n], g) = Landing(n, f)
    BY <1>4, <1>5, <1>6, BothLand
  <1>8. Landing(v, g) = Landing(x, f)
    <2>1. Landing(h[x], g) = Landing(x, f)
      BY <1>0, <1>7
    <2>. QED
      BY <1>2, <2>1
  <1>9. ASSUME NEW n \in Place, n # x PROVE Landing(n, g) = Landing(n, f)
    <2>1. Landing(h[n], g) = Landing(n, f) /\ h[n] = n
      BY <1>2, <1>7, <1>9
    <2>. QED
      BY <2>1
  <1>. QED
    BY <1>8, <1>9

-----------------------------------------------------------------------------
(***************************************************************************)
(* The meaning of the program in memory m with the nodes S, from hd on.    *)
(***************************************************************************)
OnwardAt(m, S) ==
  [n \in Place |->
     IF n \notin Node THEN IF n = NULL THEN Lost ELSE n
     ELSE IF n \notin S THEN Lost
     ELSE CASE m[n].code \in {"label", "note", "data"} -> m[n].next
            [] m[n].code = "jmpi" -> m[n].to
            [] m[n].code = "jmpr" -> IF m[n].to = Reg THEN Reg ELSE Lost
            [] OTHER -> n]

\* What node n is to the program when f goes on.
MeansAt(m, S, f, n) ==
  LET through == Landing(m[n].next, f)
      there   == Landing(m[n].to, f)
  IN  IF n \notin S THEN <<>>
      ELSE CASE m[n].code \in {"prolog", "insn"} -> <<through>>
             [] m[n].code \in {"movi", "branch"} -> <<through, there>>
             [] m[n].code = "reversed" -> <<there, through>>
             [] m[n].code = "label" /\ "use" \in m[n].flag -> <<Landing(n, f)>>
             [] OTHER -> <<>>

\* All nodes, and at 0 the start.
MeaningAt(m, S, hd) ==
  [n \in 0 .. N |-> IF n = 0 THEN <<Landing(hd, OnwardAt(m, S))>> ELSE MeansAt(m, S, OnwardAt(m, S), n)]

\* Meaning is that of the nodes of the program.
LEMMA MeaningIs == Meaning = MeaningAt(mem, Program, head)
  <1>1. Onward(Program) = OnwardAt(mem, Program)
    BY DEF Onward, OnwardAt, Place
  <1>a. PICK f : f = Onward(Program)
    OBVIOUS
  <1>b. PICK S : S = Program
    OBVIOUS
  <1>2. MeaningAt(mem, S, head) = [n \in 0 .. N |-> IF n = 0 THEN <<Landing(head, f)>> ELSE MeansAt(mem, S, f, n)]
    BY <1>1, <1>a, <1>b DEF MeaningAt
  <1>. QED
    BY <1>2, <1>a, <1>b DEF Meaning, MeansAt

\* Where it goes on from each kind of node.
Continuing == {"label", "note", "data"}

\* The cases of f one by one.
Going(m, S, f) ==
  /\ f \in [Place -> Place] /\ \A y \in Place : y \notin Node => f[y] = IF y = NULL THEN Lost ELSE y
  /\ \A n \in Node : n \notin S => f[n] = Lost
  /\ \A n \in S : /\ m[n].code \in Continuing => f[n] = m[n].next
                  /\ m[n].code = "jmpi" => f[n] = m[n].to
                  /\ m[n].code = "jmpr" => f[n] = IF m[n].to = Reg THEN Reg ELSE Lost
                  /\ m[n].code \notin Continuing \cup {"jmpi", "jmpr"} => f[n] = n

\* Onward goes on as Going says, and knows the places that are no nodes.
LEMMA OnwardIs ==
  ASSUME NEW m, Sound(m), NEW S \in SUBSET Node, PrologNode \in S
  PROVE  Settled(OnwardAt(m, S)) /\ Going(m, S, OnwardAt(m, S))
  <1>a. PICK f : f = OnwardAt(m, S)
    OBVIOUS
  <1>1. \A n \in Node : m[n].next \in Place /\ m[n].to \in Place
    <2>1. \A n \in Node : m[n].next \in 0 .. N /\ m[n].to \in 0 .. Reg
      BY DEF Sound, Fields
    <2>. QED
      BY <2>1, Places
  <1>2. \A y \in Place : y \notin Node => f[y] = IF y = NULL THEN Lost ELSE y
    BY <1>a DEF OnwardAt
  <1>3. \A n \in Node : n \notin S => f[n] = Lost
    BY <1>a, Places DEF OnwardAt
  <1>4. ASSUME NEW n \in S
        PROVE  /\ m[n].code \in Continuing => f[n] = m[n].next
               /\ m[n].code = "jmpi" => f[n] = m[n].to
               /\ m[n].code = "jmpr" => f[n] = IF m[n].to = Reg THEN Reg ELSE Lost
               /\ m[n].code \notin Continuing \cup {"jmpi", "jmpr"} => f[n] = n
    <2>1. n \in Place /\ n \in Node
      BY Places
    <2>2. f[n] = CASE m[n].code \in {"label", "note", "data"} -> m[n].next
                   [] m[n].code = "jmpi" -> m[n].to
                   [] m[n].code = "jmpr" -> IF m[n].to = Reg THEN Reg ELSE Lost
                   [] OTHER -> n
      BY <1>a, <2>1 DEF OnwardAt
    <2>. QED
      BY <2>2 DEF Continuing
  <1>5. f \in [Place -> Place]
    <2>1. DOMAIN f = Place /\ f = [y \in Place |-> f[y]]
      BY <1>a DEF OnwardAt
    <2>2. ASSUME NEW y \in Place PROVE f[y] \in Place
      <3>1. CASE y \notin S
        BY <1>2, <1>3, <3>1, Places
      <3>2. CASE y \in S
        BY <1>1, <1>4, <3>2, Places
      <3>. QED
        BY <3>1, <3>2
    <2>. QED
      BY <2>1, <2>2
  <1>6. Going(m, S, f)
    BY <1>2, <1>3, <1>4, <1>5 DEF Going
  <1>7. f[PrologNode] = PrologNode
    <2>1. m[PrologNode].code = "prolog"
      BY DEF Sound
    <2>. QED
      BY <1>4, <2>1 DEF Continuing
  <1>8. f[NULL] = Lost /\ f[Reg] = Reg /\ f[Lost] = Lost /\ f[Loop] = Loop
    <2>1. NULL \notin Node
      BY Numbers
    <2>2. Reg # NULL /\ Loop # NULL
      BY Numbers DEF Reg, Loop
    <2>. QED
      BY <1>2, <2>1, <2>2, Places
  <1>. QED
    BY <1>5, <1>6, <1>7, <1>8, <1>a DEF Settled

\* A node means the same as before.
Same(m, m2, f, g, n) ==
  /\ m2[n].code = m[n].code /\ ("use" \in m2[n].flag <=> "use" \in m[n].flag)
  /\ m[n].code \in {"prolog", "insn", "movi", "branch", "reversed"} => Landing(m2[n].next, g) = Landing(m[n].next, f)
  /\ m[n].code \in {"movi", "branch", "reversed"} => Landing(m2[n].to, g) = Landing(m[n].to, f)
  /\ m[n].code = "label" => Landing(n, g) = Landing(n, f)

\* A node that is as before means what it meant.
LEMMA MeansSame ==
  ASSUME NEW m, NEW m2, NEW S, NEW T, NEW f, NEW g, NEW n \in S, n \in T, Same(m, m2, f, g, n)
  PROVE  MeansAt(m2, T, g, n) = MeansAt(m, S, f, n)
  <1>1. CASE m[n].code \in {"prolog", "insn"}
    BY <1>1 DEF MeansAt, Same
  <1>2. CASE m[n].code \in {"movi", "branch"}
    BY <1>2 DEF MeansAt, Same
  <1>3. CASE m[n].code = "reversed"
    BY <1>3 DEF MeansAt, Same
  <1>4. CASE m[n].code = "label"
    BY <1>4 DEF MeansAt, Same
  <1>5. CASE m[n].code \notin {"prolog", "insn", "movi", "branch", "reversed", "label"}
    BY <1>5 DEF MeansAt, Same
  <1>. QED
    BY <1>1, <1>2, <1>3, <1>4, <1>5

\* The meaning is that of all nodes, and of the start.
LEMMA MeaningSame ==
  ASSUME NEW m, NEW m2, NEW S, NEW T, NEW hd, NEW hd2, NEW f, NEW g, f = OnwardAt(m, S), g = OnwardAt(m2, T),
         Landing(hd2, g) = Landing(hd, f), \A n \in Node : MeansAt(m2, T, g, n) = MeansAt(m, S, f, n)
  PROVE  MeaningAt(m2, T, hd2) = MeaningAt(m, S, hd)
  <1>1. \A n \in 0 .. N : n # 0 => n \in Node
    BY Numbers
  <1>2. ASSUME NEW n \in 0 .. N
        PROVE  (IF n = 0 THEN <<Landing(hd2, g)>> ELSE MeansAt(m2, T, g, n))
                 = (IF n = 0 THEN <<Landing(hd, f)>> ELSE MeansAt(m, S, f, n))
    BY <1>1
  <1>3. MeaningAt(m2, T, hd2) = [n \in 0 .. N |-> IF n = 0 THEN <<Landing(hd2, g)>> ELSE MeansAt(m2, T, g, n)]
    BY DEF MeaningAt
  <1>4. MeaningAt(m, S, hd) = [n \in 0 .. N |-> IF n = 0 THEN <<Landing(hd, f)>> ELSE MeansAt(m, S, f, n)]
    BY DEF MeaningAt
  <1>. QED
    BY <1>2, <1>3, <1>4, Zenon

(***************************************************************************)
(* The nodes that a search by After comes to land where its start does.    *)
(***************************************************************************)
Closed(m, R) == R \subseteq Node /\ \A y \in R : m[y].next \in R \cup {NULL}

\* What After steps over does not change where it lands.
LEMMA AfterLands ==
  ASSUME mem \in [Node -> Fields], NEW n \in Node, NEW codes, NEW g, Settled(g), NEW R, Closed(mem, R),
         mem[n].next \in R \cup {NULL},
         \A y \in R : mem[y].code \in codes => g[y] = mem[y].next \/ mem[y].next = NULL
  PROVE  \A s \in After(n, codes) : s \in R /\ Landing(s, g) = Landing(mem[n].next, g)
  <1>a. PICK onward : onward = [m \in 0 .. N |-> IF m # NULL /\ mem[m].code \in codes THEN mem[m].next ELSE NULL]
    OBVIOUS
  <1>b. PICK h : h = mem[n].next
    OBVIOUS
  <1>c. PICK T : T = {y \in R : Landing(y, g) = Landing(h, g)} \cup {NULL}
    OBVIOUS
  <1>1. R \subseteq Node /\ \A y \in R : mem[y].next \in R \cup {NULL}
    BY DEF Closed
  <1>2. \A m \in 0 .. N : m # NULL => m \in Node /\ mem[m].next \in 0 .. N
    BY Numbers DEF Fields
  <1>3. onward \in [0 .. N -> 0 .. N] /\ T \in SUBSET (0 .. N)
    <2>1. NULL \in 0 .. N /\ Node \subseteq 0 .. N
      BY Numbers
    <2>2. T \subseteq R \cup {NULL}
      BY <1>c
    <2>3. onward \in [0 .. N -> 0 .. N]
      BY <1>2, <1>a, <2>1
    <2>. QED
      BY <1>1, <2>1, <2>2, <2>3
  <1>4. ASSUME NEW x \in T PROVE onward[x] \in T
    <2>1. CASE x = NULL \/ mem[x].code \notin codes \/ mem[x].next = NULL
      BY <1>3, <1>a, <1>c, <2>1
    <2>2. CASE x # NULL /\ mem[x].code \in codes /\ mem[x].next # NULL
      <3>1. x \in R /\ Landing(x, g) = Landing(h, g) /\ x \in Place /\ x \in 0 .. N
        BY <1>1, <1>c, <2>2, Places, Numbers
      <3>2. onward[x] = mem[x].next /\ g[x] = mem[x].next /\ mem[x].next \in R
        BY <1>1, <1>a, <2>2, <3>1
      <3>3. Landing(g[x], g) = Landing(x, g)
        BY <3>1, LandsOn
      <3>. QED
        BY <1>c, <3>1, <3>2, <3>3
    <2>. QED
      BY <2>1, <2>2
  <1>5. h \in T
    BY <1>b, <1>c
  <1>6. Reached(onward, h) \subseteq T
    BY <1>3, <1>4, <1>5, ReachedWithin
  <1>7. After(n, codes) = Reached(onward, h)
    BY <1>a, <1>b DEF After
  <1>8. \A s \in After(n, codes) : s \in T /\ s # NULL
    BY <1>6, <1>7 DEF Reached
  <1>. QED
    BY <1>8, <1>b, <1>c

\* What a list says of its nodes one by one.
LEMMA PathNodes ==
  ASSUME NEW m, NEW h, NEW p, Path(m, h, p)
  PROVE  /\ Closed(m, Elems(p)) /\ h \in Elems(p) \cup {NULL}
         /\ \A a \in Elems(p) : m[a].next # a /\ (m[a].next # NULL => m[m[a].next].next # a)
         /\ \A k \in 1 .. Len(p), a \in Elems(p) : m[a].next = p[k] <=> k > 1 /\ a = p[k - 1]
  <1>1. p \in Seq(Node) /\ Len(p) \in Nat /\ Once(p) /\ h = Nth(p, 1)
        /\ \A i \in 1 .. Len(p) : m[p[i]].next = Nth(p, i + 1)
    BY LenProperties DEF Path
  <1>2. Elems(p) \subseteq Node /\ \A i \in 1 .. Len(p) : p[i] \in Elems(p) /\ p[i] # NULL
    BY <1>1, ElemsOf, Numbers
  <1>3. Closed(m, Elems(p)) /\ h \in Elems(p) \cup {NULL}
    <2>1. ASSUME NEW a \in Elems(p) PROVE m[a].next \in Elems(p) \cup {NULL}
      <3>1. PICK i \in 1 .. Len(p) : p[i] = a
        BY <1>1, ElemsOf
      <3>2. m[a].next = Nth(p, i + 1)
        BY <1>1, <3>1
      <3>. QED
        BY <1>2, <3>2 DEF Nth
    <2>2. h \in Elems(p) \cup {NULL}
      BY <1>1, <1>2 DEF Nth
    <2>. QED
      BY <1>2, <2>1, <2>2 DEF Closed
  <1>4. ASSUME NEW a \in Elems(p) PROVE m[a].next # a /\ (m[a].next # NULL => m[m[a].next].next # a)
    <2>1. PICK i \in 1 .. Len(p) : p[i] = a
      BY <1>1, ElemsOf
    <2>2. m[a].next = Nth(p, i + 1) /\ i + 1 # i /\ i + 1 + 1 # i
      BY <1>1, <2>1
    <2>3. m[a].next # a
      <3>1. CASE i + 1 \in 1 .. Len(p)
        BY <1>1, <2>1, <2>2, <3>1 DEF Nth, Once
      <3>2. CASE i + 1 \notin 1 .. Len(p)
        BY <1>2, <2>1, <2>2, <3>2 DEF Nth
      <3>. QED
        BY <3>1, <3>2
    <2>4. ASSUME m[a].next # NULL PROVE m[m[a].next].next # a
      <3>a. PICK j : j = i + 1
        OBVIOUS
      <3>1. j \in 1 .. Len(p) /\ m[a].next = p[j]
        BY <2>2, <2>4, <3>a DEF Nth
      <3>2. m[p[j]].next = Nth(p, j + 1) /\ j + 1 # i
        BY <1>1, <2>2, <3>1, <3>a
      <3>3. CASE j + 1 \in 1 .. Len(p)
        BY <1>1, <2>1, <3>1, <3>2, <3>3 DEF Nth, Once
      <3>4. CASE j + 1 \notin 1 .. Len(p)
        BY <1>2, <2>1, <3>1, <3>2, <3>4 DEF Nth
      <3>. QED
        BY <3>3, <3>4
    <2>. QED
      BY <2>3, <2>4
  <1>5. ASSUME NEW k \in 1 .. Len(p), NEW a \in Elems(p)
        PROVE  m[a].next = p[k] <=> k > 1 /\ a = p[k - 1]
    <2>1. PICK i \in 1 .. Len(p) : p[i] = a
      BY <1>1, ElemsOf
    <2>2. m[a].next = Nth(p, i + 1)
      BY <1>1, <2>1
    <2>3. ASSUME m[a].next = p[k] PROVE k > 1 /\ a = p[k - 1]
      <3>a. PICK j : j = i + 1
        OBVIOUS
      <3>1. j \in 1 .. Len(p) /\ p[j] = p[k]
        BY <1>2, <2>2, <2>3, <3>a DEF Nth
      <3>2. j = k
        BY <1>1, <3>1 DEF Once
      <3>3. k > 1 /\ k - 1 = i
        BY <1>1, <3>2, <3>a
      <3>. QED
        BY <2>1, <3>3
    <2>4. ASSUME k > 1, a = p[k - 1] PROVE m[a].next = p[k]
      <3>a. PICK j : j = k - 1
        OBVIOUS
      <3>1. j \in 1 .. Len(p) /\ j + 1 = k /\ p[j] = a
        BY <1>1, <2>4, <3>a
      <3>2. m[p[j]].next = Nth(p, k)
        BY <1>1, <3>1
      <3>. QED
        BY <3>1, <3>2 DEF Nth
    <2>. QED
      BY <2>3, <2>4
  <1>. QED
    BY <1>3, <1>4, <1>5

\* The nodes behind one.
LEMMA BehindNodes ==
  ASSUME NEW m, NEW h, NEW p, Path(m, h, p), NEW k \in 1 .. Len(p)
  PROVE  /\ Closed(m, Behind(p, k)) /\ m[p[k]].next \in Behind(p, k) \cup {NULL} /\ Behind(p, k) \subseteq Elems(p)
         /\ \A i \in 1 .. k : p[i] \notin Behind(p, k)
  <1>1. p \in Seq(Node) /\ Len(p) \in Nat /\ Once(p) /\ \A i \in 1 .. Len(p) : m[p[i]].next = Nth(p, i + 1)
    BY LenProperties DEF Path
  <1>2. \A i \in k + 1 .. Len(p) : i \in 1 .. Len(p) /\ p[i] \in Node /\ p[i] \in Elems(p)
    <2>1. \A i \in k + 1 .. Len(p) : i \in 1 .. Len(p)
      BY <1>1
    <2>. QED
      BY <1>1, <2>1, ElemsOf
  <1>3. Behind(p, k) \subseteq Elems(p) /\ Behind(p, k) \subseteq Node
    BY <1>2 DEF Behind
  <1>4. ASSUME NEW i \in k .. Len(p) PROVE m[p[i]].next \in Behind(p, k) \cup {NULL}
    <2>1. i \in 1 .. Len(p) /\ (i + 1 \in 1 .. Len(p) => i + 1 \in k + 1 .. Len(p))
      BY <1>1
    <2>2. m[p[i]].next = Nth(p, i + 1)
      BY <1>1, <2>1
    <2>. QED
      BY <2>1, <2>2 DEF Nth, Behind
  <1>5. Closed(m, Behind(p, k))
    <2>1. ASSUME NEW y \in Behind(p, k) PROVE m[y].next \in Behind(p, k) \cup {NULL}
      <3>1. PICK i \in k + 1 .. Len(p) : y = p[i]
        BY DEF Behind
      <3>2. i \in k .. Len(p)
        BY <1>1, <3>1
      <3>. QED
        BY <1>4, <3>1, <3>2
    <2>. QED
      BY <1>3, <2>1 DEF Closed
  <1>6. k \in k .. Len(p)
    BY <1>1
  <1>7. ASSUME NEW i \in 1 .. k, p[i] \in Behind(p, k) PROVE FALSE
    <2>1. PICK j \in k + 1 .. Len(p) : p[i] = p[j]
      BY <1>7 DEF Behind
    <2>2. i \in 1 .. Len(p) /\ j \in 1 .. Len(p) /\ i # j
      BY <1>1, <2>1
    <2>. QED
      BY <1>1, <2>1, <2>2 DEF Once
  <1>. QED
    BY <1>3, <1>4, <1>5, <1>6, <1>7

(***************************************************************************)
(* A label, or a jump that goes where execution goes anyway, is taken out  *)
(* of the program S.                                                       *)
(***************************************************************************)
Aims == {"movi", "jmpi", "branch", "reversed"}

\* m2 is m without x: what went to x goes on to where x went.
Skips(m, m2, S, x) ==
  \A n \in S : n # x =>
    /\ m2[n].code = m[n].code /\ m2[n].flag = m[n].flag /\ m2[n].to = m[n].to
    /\ m2[n].next = IF m[n].next = x THEN m[x].next ELSE m[n].next

\* x is no place to jump to, and does nothing but go on.
Skippable(m, S, x) ==
  /\ x \in S /\ m[x].code \in {"jmpi", "label"} /\ (m[x].code = "label" => "use" \notin m[x].flag)
  /\ m[x].next \in S \cup {NULL} /\ m[x].next # x /\ (m[x].next # NULL => m[m[x].next].next # x)
  /\ \A n \in S : m[n].code \in Aims => m[n].to # x

\* A node that is skipped is bypassed.
LEMMA SkipBypasses ==
  ASSUME NEW m, NEW m2, Sound(m), Sound(m2), NEW S \in SUBSET Node, NEW x, Skippable(m, S, x),
         PrologNode \in S, Skips(m, m2, S, x), NEW T, T = S \ {x}, NEW f, NEW g, Going(m, S, f), Going(m2, T, g),
         Settled(f), Settled(g),
         NEW v, v = m[x].next, Landing(v, f) = Landing(f[x], f), Landing(v, g) = Landing(f[x], g)
  PROVE  Bypassed(f, g, x, v)
  <1>1. /\ x \in S /\ x \in Node /\ x \in Place /\ m[x].code \in {"jmpi", "label"} /\ v # x
        /\ v \in S \cup {NULL} /\ v \in Place
        /\ \A n \in S : m[n].code \in Aims => m[n].to # x
        /\ v # NULL => m[v].next # x
    BY Places DEF Skippable
  <1>2. f[x] # x
    <2>1. m[x].code = "jmpi" => f[x] = m[x].to /\ m[x].to # x
      BY <1>1 DEF Going, Aims
    <2>2. m[x].code = "label" => f[x] = v
      BY <1>1 DEF Going, Continuing
    <2>. QED
      BY <1>1, <2>1, <2>2
  <1>3. g[x] = Lost
    BY <1>1 DEF Going
  <1>4. ASSUME NEW y \in S, m[y].code \notin Continuing PROVE f[y] # x \/ y = x
    <2>1. m[y].code = "jmpi" => f[y] # x
      BY <1>1 DEF Going, Aims
    <2>2. m[y].code = "jmpr" => f[y] # x
      BY <1>1, Places DEF Going
    <2>3. m[y].code \notin {"jmpi", "jmpr"} => f[y] = y
      BY <1>4 DEF Going
    <2>. QED
      BY <2>1, <2>2, <2>3
  <1>5. f[v] # x
    <2>1. CASE v = NULL
      BY <1>1, <2>1, Places DEF Settled
    <2>2. CASE v # NULL /\ m[v].code \in Continuing
      <3>1. f[v] = m[v].next
        BY <1>1, <2>2 DEF Going
      <3>. QED
        BY <1>1, <2>2, <3>1
    <2>3. CASE v # NULL /\ m[v].code \notin Continuing
      BY <1>1, <1>4, <2>3
    <2>. QED
      BY <2>1, <2>2, <2>3
  <1>6. Landing(v, f) = Landing(x, f)
    BY <1>1, LandsOn
  <1>7. ASSUME NEW y \in Place, y # x PROVE g[y] = IF f[y] = x THEN v ELSE f[y]
    <2>1. CASE y \notin Node
      BY <1>1, <1>7, <2>1, Places DEF Going
    <2>2. CASE y \in Node /\ y \notin S
      BY <1>1, <2>2, Places DEF Going
    <2>3. CASE y \in S
      <3>1. /\ y \in T /\ m2[y].code = m[y].code /\ m2[y].to = m[y].to
            /\ m2[y].next = IF m[y].next = x THEN v ELSE m[y].next
        BY <1>7, <2>3 DEF Skips
      <3>2. CASE m[y].code \in Continuing
        <4>1. f[y] = m[y].next /\ g[y] = m2[y].next
          BY <2>3, <3>1, <3>2 DEF Going
        <4>. QED
          BY <3>1, <4>1
      <3>3. CASE m[y].code \notin Continuing
        <4>1. f[y] # x
          BY <1>4, <1>7, <2>3, <3>3
        <4>2. m[y].code = "jmpi" => f[y] = m[y].to /\ g[y] = m2[y].to
          BY <2>3, <3>1 DEF Going
        <4>3. m[y].code = "jmpr" => f[y] = (IF m[y].to = Reg THEN Reg ELSE Lost)
                                    /\ g[y] = (IF m2[y].to = Reg THEN Reg ELSE Lost)
          BY <2>3, <3>1 DEF Going
        <4>4. m[y].code \notin Continuing \cup {"jmpi", "jmpr"} => f[y] = y /\ g[y] = y
          BY <2>3, <3>1 DEF Going
        <4>. QED
          BY <3>1, <3>3, <4>1, <4>2, <4>3, <4>4
      <3>. QED
        BY <3>2, <3>3
    <2>. QED
      BY <2>1, <2>2, <2>3
  <1>. QED
    BY <1>1, <1>2, <1>3, <1>5, <1>6, <1>7 DEF Bypassed

\* When a node is skipped that did nothing, the meaning stays.
LEMMA SkipMeans ==
  ASSUME NEW m, NEW m2, Sound(m), Sound(m2), NEW S \in SUBSET Node, NEW x, Skippable(m, S, x),
         PrologNode \in S, Skips(m, m2, S, x), NEW T, T = S \ {x},
         NEW f, NEW g, f = OnwardAt(m, S), g = OnwardAt(m2, T),
         NEW v, v = m[x].next, Landing(v, f) = Landing(f[x], f), Landing(v, g) = Landing(f[x], g),
         NEW hd \in 0 .. N, NEW hd2, hd2 = IF hd = x THEN v ELSE hd
  PROVE  MeaningAt(m2, T, hd2) = MeaningAt(m, S, hd)
  <1>1. /\ x \in S /\ m[x].code \in {"jmpi", "label"} /\ (m[x].code = "label" => "use" \notin m[x].flag)
        /\ \A n \in S : m[n].code \in Aims => m[n].to # x
    BY DEF Skippable
  <1>2. PrologNode \in T
    BY <1>1 DEF Sound
  <1>3. Settled(f) /\ Settled(g) /\ Going(m, S, f) /\ Going(m2, T, g)
    BY <1>2, OnwardIs
  <1>4. Bypassed(f, g, x, v)
    BY <1>3, SkipBypasses
  <1>5. Landing(v, g) = Landing(x, f) /\ \A n \in Place : n # x => Landing(n, g) = Landing(n, f)
    BY <1>3, <1>4, BypassLands
  <1>6. Landing(hd2, g) = Landing(hd, f)
    BY <1>5, Places
  <1>7. ASSUME NEW n \in Node PROVE MeansAt(m2, T, g, n) = MeansAt(m, S, f, n)
    <2>1. CASE n \notin S
      BY <2>1 DEF MeansAt
    <2>2. CASE n = x
      <3>1. MeansAt(m2, T, g, n) = <<>>
        BY <2>2 DEF MeansAt
      <3>2. MeansAt(m, S, f, n) = <<>>
        BY <1>1, <2>2 DEF MeansAt
      <3>. QED
        BY <3>1, <3>2
    <2>3. CASE n \in S /\ n # x
      <3>1. /\ n \in T /\ n \in Place /\ m2[n].code = m[n].code /\ m2[n].flag = m[n].flag /\ m2[n].to = m[n].to
            /\ m2[n].next = IF m[n].next = x THEN v ELSE m[n].next
        BY <2>3, Places DEF Skips
      <3>2. m[n].next \in Place /\ m[n].to \in Place
        <4>1. m[n].next \in 0 .. N /\ m[n].to \in 0 .. Reg
          BY DEF Sound, Fields
        <4>. QED
          BY <4>1, Places
      <3>3. Landing(m2[n].next, g) = Landing(m[n].next, f)
        BY <1>5, <3>1, <3>2
      <3>4. m[n].code \in Aims => Landing(m2[n].to, g) = Landing(m[n].to, f)
        BY <1>1, <1>5, <2>3, <3>1, <3>2
      <3>5. Landing(n, g) = Landing(n, f)
        BY <1>5, <2>3, <3>1
      <3>6. Same(m, m2, f, g, n)
        BY <3>1, <3>3, <3>4, <3>5 DEF Same, Aims
      <3>. QED
        BY <2>3, <3>1, <3>6, MeansSame
    <2>. QED
      BY <2>1, <2>2, <2>3
  <1>. QED
    BY <1>6, <1>7, MeaningSame

(***************************************************************************)
(* Some jumps are made to go elsewhere, where they come anyway.            *)
(***************************************************************************)
Repoints(m, m2, S) ==
  \A n \in S : /\ m2[n].next = m[n].next
               /\ \/ m2[n].code = m[n].code /\ ("use" \in m2[n].flag <=> "use" \in m[n].flag)
                     /\ (m2[n].to # m[n].to => m[n].code \in Aims)
                  \/ m[n].code = "jmpi" /\ m2[n].code = "jmpr"

\* a and b come to the same, for f and for g.
Alias(f, g, a, b) == Landing(a, f) = Landing(b, f) /\ Landing(a, g) = Landing(b, g)

\* When jumps are changed so, the meaning stays.
LEMMA RepointMeans ==
  ASSUME NEW m, NEW m2, Sound(m), Sound(m2), NEW S \in SUBSET Node, PrologNode \in S, Repoints(m, m2, S),
         NEW f, NEW g, f = OnwardAt(m, S), g = OnwardAt(m2, S),
         \A n \in S : m[n].code \in Aims /\ m2[n].code \in Aims => Alias(f, g, m[n].to, m2[n].to),
         \A n \in S : f[n] # g[n] => f[n] # n /\ g[n] # n /\ Alias(f, g, f[n], g[n]),
         NEW hd \in 0 .. N
  PROVE  MeaningAt(m2, S, hd) = MeaningAt(m, S, hd)
  <1>1. Settled(f) /\ Settled(g) /\ Going(m, S, f) /\ Going(m2, S, g)
    BY OnwardIs
  <1>2. Rerouted(f, g)
    <2>1. ASSUME NEW y \in Place, y \notin S PROVE f[y] = g[y]
      BY <1>1, <2>1 DEF Going
    <2>. QED
      BY <2>1 DEF Rerouted, Alias
  <1>3. \A n \in Place : Landing(n, g) = Landing(n, f)
    BY <1>1, <1>2, RerouteLands
  <1>4. Landing(hd, g) = Landing(hd, f)
    BY <1>3, Places
  <1>5. ASSUME NEW n \in Node PROVE MeansAt(m2, S, g, n) = MeansAt(m, S, f, n)
    <2>1. CASE n \notin S
      BY <2>1 DEF MeansAt
    <2>2. CASE n \in S /\ m[n].code = "jmpi" /\ m2[n].code = "jmpr"
      <3>1. MeansAt(m2, S, g, n) = <<>> /\ MeansAt(m, S, f, n) = <<>>
        BY <2>2 DEF MeansAt
      <3>. QED
        BY <3>1
    <2>3. CASE n \in S /\ ~(m[n].code = "jmpi" /\ m2[n].code = "jmpr")
      <3>1. /\ m2[n].next = m[n].next /\ m2[n].code = m[n].code /\ ("use" \in m2[n].flag <=> "use" \in m[n].flag)
            /\ n \in Place
        BY <2>3, Places DEF Repoints
      <3>2. m[n].next \in Place /\ m[n].to \in Place
        <4>1. m[n].next \in 0 .. N /\ m[n].to \in 0 .. Reg
          BY DEF Sound, Fields
        <4>. QED
          BY <4>1, Places
      <3>3. Landing(m2[n].next, g) = Landing(m[n].next, f) /\ Landing(n, g) = Landing(n, f)
        BY <1>3, <3>1, <3>2
      <3>4. m[n].code \in Aims => Landing(m2[n].to, g) = Landing(m[n].to, f)
        <4>1. m[n].code \in Aims => Landing(m2[n].to, g) = Landing(m[n].to, g)
          BY <2>3, <3>1 DEF Alias
        <4>. QED
          BY <1>3, <3>2, <4>1
      <3>5. Same(m, m2, f, g, n)
        BY <3>1, <3>3, <3>4 DEF Same, Aims
      <3>. QED
        BY <2>3, <3>5, MeansSame
    <2>. QED
      BY <2>1, <2>2, <2>3
  <1>. QED
    BY <1>4, <1>5, MeaningSame

-----------------------------------------------------------------------------
(***************************************************************************)
(* In thread_jumps all that goes somewhere is patched, and the program S   *)
(* means what it meant when jit_optimize was called.                       *)
(***************************************************************************)
Aimed(m, S) == \A n \in S : m[n].code \in Aims => "node" \in m[n].flag
\* In thread_jumps only.
MeantInv(S) == phase = "thread" => Aimed(mem, S) /\ meant = MeaningAt(mem, S, head)

\* Nothing goes to what does not end anything.
LEMMA NotAimed ==
  ASSUME NEW m, NEW S, Targets(m, S), Aimed(m, S), NEW x, m[x].code \notin Ends
  PROVE  \A n \in S : m[n].code \in Aims => m[n].to # x
  BY DEF Targets, Aimed

\* The epilog comes last.
LEMMA LastNext ==
  ASSUME NEW m, Sound(m), NEW h, NEW p, Path(m, h, p), Whole(p)
  PROVE  \A y \in Elems(p) : m[y].code = "epilog" => m[y].next = NULL
  <1>1. p \in Seq(Node) /\ Len(p) \in Nat /\ EpilogNode \in Elems(p) /\ p[Len(p)] = EpilogNode
    BY LenProperties DEF Path, Whole
  <1>2. Len(p) \in 1 .. Len(p)
    <2>1. \E i \in 1 .. Len(p) : p[i] = EpilogNode
      BY <1>1, ElemsOf
    <2>. QED
      BY <1>1, <2>1
  <1>3. m[EpilogNode].next = Nth(p, Len(p) + 1)
    BY <1>1, <1>2 DEF Path
  <1>4. Nth(p, Len(p) + 1) = NULL
    BY <1>1 DEF Nth
  <1>. QED
    BY <1>1, <1>3, <1>4, ElemsOf DEF Sound

\* What a search for the label of a jump steps over.
Passing == Ends \cup {"note"}

\* A search for the label of a jump lands where the jump lands.
LEMMA SearchLands ==
  ASSUME Sound(mem), NEW p \in Seq(Node), Path(mem, head, p), Whole(p), NEW k \in 1 .. Len(p),
         NEW g, Settled(g), \A y \in Behind(p, k) : mem[y].code \in {"label", "note"} => g[y] = mem[y].next,
         NEW x, x = p[k], NEW s, s \in After(x, Passing)
  PROVE  Landing(s, g) = Landing(mem[x].next, g)
  <1>a. PICK R : R = Behind(p, k)
    OBVIOUS
  <1>1. Closed(mem, R) /\ mem[x].next \in R \cup {NULL} /\ R \subseteq Elems(p)
    BY <1>a, BehindNodes
  <1>2. ASSUME NEW y \in R, mem[y].code \in Passing PROVE g[y] = mem[y].next \/ mem[y].next = NULL
    <2>1. mem[y].code = "epilog" => mem[y].next = NULL
      BY <1>1, LastNext
    <2>. QED
      BY <1>2, <1>a, <2>1 DEF Ends, Passing
  <1>3. x \in Node /\ mem \in [Node -> Fields]
    BY ElemsOf DEF Sound
  <1>4. \A y \in After(x, Passing) : y \in R /\ Landing(y, g) = Landing(mem[x].next, g)
    BY <1>1, <1>2, <1>3, AfterLands
  <1>. QED
    BY <1>4

\* And a search for a second jump lands where the first jump lands.
LEMMA SecondLands ==
  ASSUME Sound(mem), NEW p \in Seq(Node), Path(mem, head, p), Whole(p), NEW t \in Elems(p), mem[t].code \in Ends,
         NEW g, Settled(g), \A y \in Elems(p) : mem[y].code \in {"label", "note"} => g[y] = mem[y].next,
         NEW s, s \in After(t, {"note", "label"})
  PROVE  s \in Elems(p) /\ Landing(s, g) = Landing(t, g)
  <1>1. Closed(mem, Elems(p)) /\ Closed(mem, {}) /\ t \in Node /\ mem[t].next \in Elems(p) \cup {NULL}
    <2>1. Closed(mem, Elems(p))
      BY PathNodes
    <2>. QED
      BY <2>1 DEF Closed
  <1>2. mem \in [Node -> Fields]
    BY DEF Sound
  <1>3. CASE mem[t].code = "epilog"
    <2>1. mem[t].next \in {} \cup {NULL}
      BY <1>3, LastNext
    <2>2. \A x \in After(t, {"note", "label"}) : x \in {} /\ Landing(x, g) = Landing(mem[t].next, g)
      BY <1>1, <1>2, <2>1, AfterLands
    <2>. QED
      BY <2>2
  <1>4. CASE mem[t].code = "label"
    <2>1. \A x \in After(t, {"note", "label"}) : x \in Elems(p) /\ Landing(x, g) = Landing(mem[t].next, g)
      BY <1>1, <1>2, AfterLands
    <2>2. g[t] = mem[t].next
      BY <1>4
    <2>3. Landing(g[t], g) = Landing(t, g)
      BY <1>1, LandsOn, Places
    <2>. QED
      BY <2>1, <2>2, <2>3
  <1>. QED
    BY <1>3, <1>4 DEF Ends

\* RedundantJump.
LEMMA RedundantMeans ==
  ASSUME Typed, NEW p \in Seq(Node), NEW q \in Seq(Node), ListsInv(p, q), UsersInv(Elems(p)), MeantInv(Elems(p)),
         Typed', RedundantJump, phase' = "thread", prev \in Node, NEW T, T = Elems(p) \ {node}
  PROVE  MeantInv(T)'
  <1>a. PICK S : S = Elems(p)
    OBVIOUS
  <1>b. PICK v : v = mem[node].next
    OBVIOUS
  <1>c. PICK f : f = OnwardAt(mem, S)
    OBVIOUS
  <1>d. PICK g : g = OnwardAt(mem', T)
    OBVIOUS
  <1>1. /\ phase = "thread" /\ node # NULL /\ mem[node].code = "jmpi"
        /\ mem[node].to \in After(node, Ends \cup {"note"}) /\ ~NotAtHead(prev, node)
        /\ head' = (IF prev = node THEN Off(mem[node].to, node)[node].next ELSE head)
        /\ meant' = meant
    BY DEF RedundantJump, Threading, Redundant, Stop, Delete
  <1>2. /\ Lists(mem, head, list, p, q) /\ ThreadInv(p, q) /\ Path(mem, head, p) /\ Whole(p)
        /\ head = Nth(p, 1) /\ Once(p)
    BY <1>1 DEF ListsInv, Lists, ThreadInv, Path
  <1>3. PICK k \in 1 .. Len(p) : node = p[k] /\ node \in Node /\ (prev = node \/ (k > 1 /\ prev = p[k - 1]))
    BY <1>1, <1>2, AtNode
  <1>4. /\ S \in SUBSET Node /\ node \in S /\ PrologNode \in S /\ Len(p) \in Nat /\ 1 \in 1 .. Len(p)
        /\ (k > 1 => k - 1 \in 1 .. Len(p)) /\ k - 1 # k /\ ~(1 > 1)
    BY <1>2, <1>3, <1>a, ElemsOf, LenProperties DEF Whole
  <1>5. /\ Flagged(node) /\ Sound(mem) /\ Relinked(mem, Off(mem[node].to, node)) /\ mem \in [Node -> Fields]
        /\ \A n \in Node : n # node => /\ mem'[n].code = mem[n].code /\ mem'[n].flag = mem[n].flag
                                       /\ mem'[n].to = mem[n].to
                                       /\ mem'[n].next = IF n = prev THEN mem[node].next ELSE mem[n].next
    BY <1>4, RedundantIs
  <1>6. Targets(mem, S) /\ Aimed(mem, S) /\ meant = MeaningAt(mem, S, head)
    BY <1>1, <1>a DEF UsersInv, MeantInv
  <1>7. (prev = node <=> k = 1) /\ (head = node <=> k = 1)
    <2>1. head = p[1] /\ (head = node => k = 1) /\ (k = 1 => head = node)
      BY <1>2, <1>3, <1>4 DEF Nth, Once
    <2>2. prev = node => head = node
      BY <1>1 DEF NotAtHead
    <2>. QED
      BY <1>3, <1>4, <2>1, <2>2
  <1>8. head' = IF head = node THEN v ELSE head
    BY <1>1, <1>3, <1>5, <1>7, <1>b DEF Relinked
  <1>9. Skips(mem, mem', S, node)
    <2>1. ASSUME NEW n \in S, n # node PROVE n = prev <=> mem[n].next = node
      <3>1. mem[n].next = node <=> k > 1 /\ n = p[k - 1]
        BY <1>2, <1>3, <1>a, PathNodes
      <3>. QED
        BY <1>3, <1>4, <1>7, <2>1, <3>1
    <2>. QED
      BY <1>4, <1>5, <2>1 DEF Skips
  <1>10. \A n \in S : mem[n].code \in Aims => mem[n].to # node
    <2>1. mem[node].code \notin Ends
      BY <1>1 DEF Ends
    <2>. QED
      BY <1>6, <2>1, NotAimed
  <1>11. Skippable(mem, S, node)
    <2>1. mem[node].next \in S \cup {NULL} /\ mem[node].next # node
          /\ (mem[node].next # NULL => mem[mem[node].next].next # node)
      BY <1>2, <1>4, <1>a, PathNodes DEF Closed
    <2>. QED
      BY <1>1, <1>4, <1>10, <2>1 DEF Skippable
  <1>12. PrologNode \in T /\ Sound(mem')
    <2>1. node # PrologNode
      BY <1>1, <1>5 DEF Sound
    <2>. QED
      BY <1>4, <1>a, <2>1 DEF Typed
  <1>13. Settled(f) /\ Settled(g) /\ Going(mem, S, f) /\ Going(mem', T, g)
    <2>1. T \in SUBSET Node
      BY <1>4, <1>a
    <2>. QED
      BY <1>4, <1>5, <1>12, <1>c, <1>d, <2>1, OnwardIs
  <1>14. Behind(p, k) \subseteq S /\ node \notin Behind(p, k) /\ prev \notin Behind(p, k)
    <2>1. Behind(p, k) \subseteq S /\ \A i \in 1 .. k : p[i] \notin Behind(p, k)
      BY <1>2, <1>a, BehindNodes
    <2>2. k \in 1 .. k /\ (k > 1 => k - 1 \in 1 .. k)
      BY <1>4
    <2>. QED
      BY <1>3, <2>1, <2>2
  <1>e. PICK t : t = mem[node].to
    OBVIOUS
  <1>15. f[node] = t /\ t \in After(node, Passing) /\ v = mem[node].next
    BY <1>1, <1>4, <1>13, <1>b, <1>e DEF Going, Passing
  <1>16. Landing(v, f) = Landing(f[node], f)
    <2>1. \A y \in Behind(p, k) : mem[y].code \in {"label", "note"} => f[y] = mem[y].next
      BY <1>13, <1>14 DEF Going, Continuing
    <2>. QED
      BY <1>2, <1>3, <1>5, <1>13, <1>15, <2>1, SearchLands
  <1>17. Landing(v, g) = Landing(f[node], g)
    <2>1. ASSUME NEW y \in Behind(p, k), mem[y].code \in {"label", "note"} PROVE g[y] = mem[y].next
      <3>1. y \in T /\ y \in Node /\ y # node /\ y # prev
        BY <1>4, <1>14, <1>a
      <3>2. mem'[y].code = mem[y].code /\ mem'[y].next = mem[y].next
        BY <1>5, <3>1
      <3>. QED
        BY <1>13, <2>1, <3>1, <3>2 DEF Going, Continuing
    <2>. QED
      BY <1>2, <1>3, <1>5, <1>13, <1>15, <2>1, SearchLands
  <1>18. MeaningAt(mem', T, head') = MeaningAt(mem, S, head)
    <2>1. head \in 0 .. N /\ T = S \ {node}
      BY <1>a DEF Typed
    <2>. QED
      BY <1>4, <1>5, <1>8, <1>9, <1>11, <1>12, <1>16, <1>17, <1>b, <1>c, <1>d, <2>1, SkipMeans
  <1>19. Aimed(mem', T)
    <2>1. \A n \in T : n \in S /\ n \in Node /\ n # node
      BY <1>4, <1>a
    <2>. QED
      BY <1>5, <1>6, <2>1 DEF Aimed
  <1>. QED
    BY <1>1, <1>6, <1>18, <1>19 DEF MeantInv

\* ShortcutJump.
LEMMA ShortcutMeans ==
  ASSUME Typed, NEW p \in Seq(Node), NEW q \in Seq(Node), ListsInv(p, q), UsersInv(Elems(p)), MeantInv(Elems(p)),
         Typed', ShortcutJump, phase' = "thread", node \in Elems(p), Second(node) \in Elems(p)
  PROVE  MeantInv(Elems(p))'
  <1>a. PICK S : S = Elems(p)
    OBVIOUS
  <1>b. PICK s : s = Second(node)
    OBVIOUS
  <1>c. PICK f : f = OnwardAt(mem, S)
    OBVIOUS
  <1>d. PICK g : g = OnwardAt(mem', S)
    OBVIOUS
  <1>e. PICK t : t = mem[node].to
    OBVIOUS
  <1>f. PICK jump : jump = mem[s].to
    OBVIOUS
  <1>1. phase = "thread" /\ head' = head /\ meant' = meant
    BY DEF ShortcutJump, Threading, Stop
  <1>2. Path(mem, head, p) /\ Whole(p)
    BY <1>1 DEF ListsInv, Lists, ThreadInv
  <1>3. Targets(mem, S) /\ Aimed(mem, S) /\ meant = MeaningAt(mem, S, head)
    BY <1>1, <1>a DEF UsersInv, MeantInv
  <1>4. S \in SUBSET Node /\ PrologNode \in S /\ node \in S /\ s \in S /\ Sound(mem) /\ Sound(mem') /\ head \in 0 .. N
    BY <1>2, <1>a, <1>b, ElemsOf DEF Whole, Typed
  <1>5. /\ Flagged(node) /\ mem[node].code \in {"jmpi", "branch", "reversed"}
        /\ s # NULL /\ mem[s].code = "jmpi"
        /\ jump \in S /\ mem[jump].code \in Ends /\ jump # node /\ mem'[node].to = jump
    BY <1>3, <1>4, <1>b, <1>f, ShortcutIs
  <1>6. \A n \in S : /\ mem'[n].code = mem[n].code /\ mem'[n].flag = mem[n].flag /\ mem'[n].next = mem[n].next
                     /\ n # node => mem'[n].to = mem[n].to
    <2>1. Redirects(mem, mem', node)
      BY <1>3, <1>4, <1>b, ShortcutIs
    <2>. QED
      BY <1>4, <2>1 DEF Redirects
  <1>7. Settled(f) /\ Settled(g) /\ Going(mem, S, f) /\ Going(mem', S, g)
    BY <1>4, <1>c, <1>d, OnwardIs
  <1>8. t \in S /\ mem[t].code \in Ends /\ t # node
    <2>1. t \in S /\ mem[t].code \in Ends
      BY <1>3, <1>4, <1>5, <1>e DEF Targets, Flagged
    <2>. QED
      BY <1>5, <2>1 DEF Ends
  <1>9. s \in After(t, {"note", "label"})
    <2>1. PICK there : there = {x \in After(mem[node].to, {"note", "label"}) :
                                  \/ mem[x].code = "jmpi" /\ Flagged(x)
                                  \/ mem[x].code = "jmpr" /\ mem[node].code = "jmpi"}
      OBVIOUS
    <2>2. Second(node) \in there
      BY <1>5, <1>b, <2>1 DEF Second
    <2>. QED
      BY <1>b, <1>e, <2>1, <2>2
  <1>10. Landing(s, f) = Landing(t, f) /\ Landing(s, g) = Landing(t, g)
    <2>1. \A y \in S : mem[y].code \in {"label", "note"} => f[y] = mem[y].next
      BY <1>7 DEF Going, Continuing
    <2>2. \A y \in S : mem[y].code \in {"label", "note"} => g[y] = mem[y].next
      BY <1>6, <1>7 DEF Going, Continuing
    <2>3. Landing(s, f) = Landing(t, f)
      BY <1>2, <1>4, <1>7, <1>8, <1>9, <1>a, <2>1, SecondLands
    <2>4. Landing(s, g) = Landing(t, g)
      BY <1>2, <1>4, <1>7, <1>8, <1>9, <1>a, <2>2, SecondLands
    <2>. QED
      BY <2>3, <2>4
  <1>11. Alias(f, g, t, jump)
    <2>1. CASE s = node
      BY <1>e, <1>f, <2>1 DEF Alias
    <2>2. CASE s # node
      <3>1. s \in Place /\ f[s] = jump /\ g[s] = jump
        BY <1>4, <1>5, <1>6, <1>7, <1>f, <2>2, Places DEF Going
      <3>2. Landing(f[s], f) = Landing(s, f) /\ Landing(g[s], g) = Landing(s, g)
        BY <1>7, <3>1, LandsOn
      <3>. QED
        BY <1>10, <3>1, <3>2 DEF Alias
    <2>. QED
      BY <2>1, <2>2
  <1>12. Repoints(mem, mem', S)
    BY <1>5, <1>6 DEF Repoints, Aims
  <1>13. \A n \in S : mem[n].code \in Aims /\ mem'[n].code \in Aims => Alias(f, g, mem[n].to, mem'[n].to)
    <2>1. Alias(f, g, mem[node].to, mem'[node].to)
      BY <1>5, <1>11, <1>e
    <2>2. \A n \in S : n # node => Alias(f, g, mem[n].to, mem'[n].to)
      BY <1>6 DEF Alias
    <2>. QED
      BY <2>1, <2>2
  <1>14. ASSUME NEW n \in S, f[n] # g[n] PROVE f[n] # n /\ g[n] # n /\ Alias(f, g, f[n], g[n])
    <2>1. n = node
      BY <1>6, <1>7, <1>14 DEF Going
    <2>3. mem[n].code = "jmpi"
      BY <1>5, <1>6, <1>7, <1>14, <2>1 DEF Going, Continuing
    <2>2. f[n] = t /\ g[n] = jump
      BY <1>5, <1>6, <1>7, <1>e, <2>1, <2>3 DEF Going
    <2>. QED
      BY <1>5, <1>8, <1>11, <2>1, <2>2
  <1>15. MeaningAt(mem', S, head) = MeaningAt(mem, S, head)
    BY <1>4, <1>12, <1>13, <1>14, <1>c, <1>d, RepointMeans
  <1>16. Aimed(mem', S)
    BY <1>3, <1>6 DEF Aimed
  <1>. QED
    BY <1>1, <1>3, <1>15, <1>16, <1>a DEF MeantInv

\* ShortcutToRegister.
LEMMA ToRegisterMeans ==
  ASSUME Typed, NEW p \in Seq(Node), NEW q \in Seq(Node), ListsInv(p, q), UsersInv(Elems(p)), MeantInv(Elems(p)),
         Typed', ShortcutToRegister, phase' = "thread", node \in Elems(p), Second(node) \in Elems(p)
  PROVE  MeantInv(Elems(p))'
  <1>a. PICK S : S = Elems(p)
    OBVIOUS
  <1>b. PICK s : s = Second(node)
    OBVIOUS
  <1>c. PICK f : f = OnwardAt(mem, S)
    OBVIOUS
  <1>d. PICK g : g = OnwardAt(mem', S)
    OBVIOUS
  <1>e. PICK t : t = mem[node].to
    OBVIOUS
  <1>1. phase = "thread" /\ head' = head /\ meant' = meant
    BY DEF ShortcutToRegister, Threading
  <1>2. Path(mem, head, p) /\ Whole(p)
    BY <1>1 DEF ListsInv, Lists, ThreadInv
  <1>3. Targets(mem, S) /\ Aimed(mem, S) /\ meant = MeaningAt(mem, S, head)
    BY <1>1, <1>a DEF UsersInv, MeantInv
  <1>4. S \in SUBSET Node /\ PrologNode \in S /\ node \in S /\ s \in S /\ Sound(mem) /\ Sound(mem') /\ head \in 0 .. N
    BY <1>2, <1>a, <1>b, ElemsOf DEF Whole, Typed
  <1>5. /\ Short(node) /\ mem[s].code = "jmpr" /\ mem'[node].code = "jmpr" /\ mem'[node].next = mem[node].next
        /\ mem'[node].to = mem[s].to /\ \A n \in S : n # node => mem'[n] = mem[n]
    BY <1>4, <1>b, ToRegisterIs
  <1>6. Flagged(node) /\ s # NULL
    BY <1>5, <1>b DEF Short
  <1>7. s \in After(t, {"note", "label"}) /\ mem[node].code = "jmpi" /\ s # node
    <2>1. PICK there : there = {x \in After(mem[node].to, {"note", "label"}) :
                                  \/ mem[x].code = "jmpi" /\ Flagged(x)
                                  \/ mem[x].code = "jmpr" /\ mem[node].code = "jmpi"}
      OBVIOUS
    <2>2. s \in there
      BY <1>6, <1>b, <2>1 DEF Second
    <2>. QED
      BY <1>5, <1>e, <2>1, <2>2
  <1>8. t \in S /\ mem[t].code \in Ends /\ t # node
    <2>1. t \in S /\ mem[t].code \in Ends
      BY <1>3, <1>4, <1>6, <1>e DEF Targets, Flagged
    <2>. QED
      BY <1>7, <2>1 DEF Ends
  <1>9. Settled(f) /\ Settled(g) /\ Going(mem, S, f) /\ Going(mem', S, g)
    BY <1>4, <1>c, <1>d, OnwardIs
  <1>10. Landing(s, f) = Landing(t, f) /\ Landing(s, g) = Landing(t, g)
    <2>1. \A y \in S : mem[y].code \in {"label", "note"} => f[y] = mem[y].next
      BY <1>9 DEF Going, Continuing
    <2>2. \A y \in S : mem[y].code \in {"label", "note"} => g[y] = mem[y].next
      BY <1>5, <1>7, <1>9 DEF Going, Continuing
    <2>3. Landing(s, f) = Landing(t, f)
      BY <1>2, <1>4, <1>7, <1>8, <1>9, <1>a, <2>1, SecondLands
    <2>4. Landing(s, g) = Landing(t, g)
      BY <1>2, <1>4, <1>7, <1>8, <1>9, <1>a, <2>2, SecondLands
    <2>. QED
      BY <2>3, <2>4
  <1>f. PICK r : r = IF mem[s].to = Reg THEN Reg ELSE Lost
    OBVIOUS
  <1>11. f[s] = r /\ g[s] = r /\ f[node] = t /\ g[node] = r /\ r # node /\ s \in Place
    <2>1. f[s] = r /\ f[node] = t
      BY <1>4, <1>5, <1>7, <1>9, <1>e, <1>f DEF Going
    <2>2. g[s] = r /\ g[node] = r
      BY <1>4, <1>5, <1>7, <1>9, <1>f DEF Going
    <2>. QED
      BY <1>4, <1>f, <2>1, <2>2, Places
  <1>12. Alias(f, g, t, r)
    <2>1. Landing(f[s], f) = Landing(s, f) /\ Landing(g[s], g) = Landing(s, g)
      BY <1>9, <1>11, LandsOn
    <2>. QED
      BY <1>10, <1>11, <2>1 DEF Alias
  <1>13. Repoints(mem, mem', S)
    BY <1>5, <1>7 DEF Repoints
  <1>14. \A n \in S : mem[n].code \in Aims /\ mem'[n].code \in Aims => Alias(f, g, mem[n].to, mem'[n].to)
    <2>1. mem'[node].code \notin Aims
      BY <1>5 DEF Aims
    <2>2. \A n \in S : n # node => Alias(f, g, mem[n].to, mem'[n].to)
      BY <1>5 DEF Alias
    <2>. QED
      BY <2>1, <2>2
  <1>15. ASSUME NEW n \in S, f[n] # g[n] PROVE f[n] # n /\ g[n] # n /\ Alias(f, g, f[n], g[n])
    <2>1. n = node
      BY <1>5, <1>9, <1>15 DEF Going
    <2>. QED
      BY <1>8, <1>11, <1>12, <2>1
  <1>16. MeaningAt(mem', S, head) = MeaningAt(mem, S, head)
    BY <1>4, <1>13, <1>14, <1>15, <1>c, <1>d, RepointMeans
  <1>17. Aimed(mem', S)
    BY <1>3, <1>5 DEF Aimed, Aims
  <1>. QED
    BY <1>1, <1>3, <1>16, <1>17, <1>a DEF MeantInv

\* ReverseJump: the jump is taken out, and what it did is done by the branch.
LEMMA ReverseMeans ==
  ASSUME Typed, NEW p \in Seq(Node), NEW q \in Seq(Node), ListsInv(p, q), UsersInv(Elems(p)), MeantInv(Elems(p)),
         Typed', ReverseJump, phase' = "thread",
         node \in Elems(p), NEW x, x = mem[node].next, x \in Elems(p), x # node, NEW T, T = Elems(p) \ {x}
  PROVE  MeantInv(T)'
  <1>a. PICK S : S = Elems(p)
    OBVIOUS
  <1>b. PICK jump : jump = mem[x].to
    OBVIOUS
  <1>c. PICK f : f = OnwardAt(mem, S)
    OBVIOUS
  <1>d. PICK g : g = OnwardAt(mem', T)
    OBVIOUS
  <1>e. PICK t : t = mem[node].to
    OBVIOUS
  <1>1. phase = "thread" /\ head' = head /\ meant' = meant /\ t \in After(x, Passing)
    BY <1>e DEF ReverseJump, Threading, Stop, Reversible, Passing
  <1>2. Path(mem, head, p) /\ Whole(p) /\ head \in 0 .. N
    BY <1>1 DEF ListsInv, Lists, ThreadInv, Typed
  <1>3. Targets(mem, S) /\ Turns(mem, S) /\ Aimed(mem, S) /\ meant = MeaningAt(mem, S, head)
    BY <1>1, <1>a DEF UsersInv, MeantInv
  <1>4. /\ S \in SUBSET Node /\ PrologNode \in S /\ node \in S /\ x \in S /\ x \in Node
        /\ Sound(mem) /\ Sound(mem') /\ T = S \ {x}
    BY <1>2, <1>a, ElemsOf DEF Whole, Typed
  <1>5. /\ mem[node].code = "branch" /\ Flagged(node) /\ mem[x].code = "jmpi"
        /\ jump \in S /\ mem[jump].code \in Ends /\ jump # node /\ jump # x
    BY <1>3, <1>4, <1>b, ReverseIs
  <1>6. /\ mem'[node].code = "reversed" /\ mem'[node].to = jump /\ mem'[node].next = mem[x].next
        /\ mem'[node].flag = mem[node].flag
    BY <1>3, <1>4, <1>b, ReverseIs
  <1>7. \A n \in T : n # node => /\ mem'[n].code = mem[n].code /\ mem'[n].flag = mem[n].flag
                                 /\ mem'[n].to = mem[n].to /\ mem'[n].next = mem[n].next
    <2>1. \A n \in Node \ {node, x} : /\ mem'[n].code = mem[n].code /\ mem'[n].flag = mem[n].flag
                                      /\ mem'[n].to = mem[n].to /\ mem'[n].next = mem[n].next
      BY <1>3, <1>4, <1>b, ReverseIs
    <2>. QED
      BY <1>4, <2>1
  <1>8. PrologNode \in T /\ T \in SUBSET Node
    BY <1>4, <1>5 DEF Sound
  <1>9. Settled(f) /\ Settled(g) /\ Going(mem, S, f) /\ Going(mem', T, g)
    BY <1>4, <1>8, <1>c, <1>d, OnwardIs
  <1>10. PICK k \in 1 .. Len(p) : x = p[k]
    BY <1>4, <1>a, ElemsOf
  <1>before. \A n \in S : mem[n].next = x <=> k > 1 /\ n = p[k - 1]
    <2>1. \A i \in 1 .. Len(p), n \in Elems(p) : mem[n].next = p[i] <=> i > 1 /\ n = p[i - 1]
      BY <1>2, PathNodes
    <2>2. \A n \in Elems(p) : mem[n].next = p[k] <=> k > 1 /\ n = p[k - 1]
      BY <1>10, <2>1
    <2>. QED
      BY <1>10, <1>a, <2>2
  <1>just. k > 1 /\ node = p[k - 1]
    <2>1. mem[node].next = x
      OBVIOUS
    <2>. QED
      BY <1>4, <1>before, <2>1
  <1>11. ASSUME NEW n \in S, mem[n].next = x PROVE n = node
    BY <1>before, <1>just, <1>11
  <1>12. \A n \in S : mem[n].code \in Aims => mem[n].to # x
    BY <1>3, <1>5, NotAimed DEF Ends
  <1>13. f[x] = jump /\ g[x] = Lost /\ f[node] = node /\ g[node] = node
    <2>1. f[x] = jump /\ f[node] = node
      BY <1>4, <1>5, <1>9, <1>b DEF Going, Continuing
    <2>2. g[x] = Lost
      BY <1>4, <1>9 DEF Going
    <2>3. node \in T
      BY <1>4
    <2>4. g[node] = node
      BY <1>6, <1>9, <2>3 DEF Going, Continuing
    <2>. QED
      BY <2>1, <2>2, <2>4
  <1>14. ASSUME NEW y \in S, y # x, y # node PROVE f[y] # x /\ g[y] = f[y]
    <2>1. /\ y \in T /\ mem'[y].code = mem[y].code /\ mem'[y].to = mem[y].to /\ mem'[y].next = mem[y].next
          /\ mem[y].next # x
      BY <1>4, <1>7, <1>11, <1>14
    <2>2. mem[y].code \in Continuing => f[y] = mem[y].next /\ g[y] = mem'[y].next
      BY <1>9, <2>1 DEF Going
    <2>3. mem[y].code = "jmpi" => f[y] = mem[y].to /\ g[y] = mem'[y].to /\ mem[y].to # x
      BY <1>9, <1>12, <2>1 DEF Going, Aims
    <2>4. mem[y].code = "jmpr" => /\ f[y] = (IF mem[y].to = Reg THEN Reg ELSE Lost)
                                  /\ g[y] = (IF mem'[y].to = Reg THEN Reg ELSE Lost)
      BY <1>9, <2>1 DEF Going
    <2>5. mem[y].code \notin Continuing \cup {"jmpi", "jmpr"} => f[y] = y /\ g[y] = y
      BY <1>9, <2>1 DEF Going
    <2>. QED
      BY <1>4, <1>14, <2>1, <2>2, <2>3, <2>4, <2>5, Places
  <1>15. Bypassed(f, g, x, jump)
    <2>1. x \in Place /\ jump \in Place
      BY <1>4, <1>5, Places
    <2>2. Landing(jump, f) = Landing(x, f)
      <3>1. Landing(f[x], f) = Landing(x, f)
        BY <1>9, <2>1, LandsOn
      <3>. QED
        BY <1>13, <3>1
    <2>3. f[jump] # x
      BY <1>5, <1>14
    <2>4. ASSUME NEW y \in Place, y # x PROVE g[y] = IF f[y] = x THEN jump ELSE f[y]
      <3>1. CASE y \notin Node
        BY <1>4, <1>9, <2>4, <3>1, Places DEF Going
      <3>2. CASE y \in Node /\ y \notin S
        BY <1>4, <1>9, <3>2, Places DEF Going
      <3>3. CASE y = node
        BY <1>13, <2>4, <3>3
      <3>4. CASE y \in S /\ y # node
        BY <1>14, <2>4, <3>4
      <3>. QED
        BY <3>1, <3>2, <3>3, <3>4
    <2>. QED
      BY <1>4, <1>5, <1>13, <2>1, <2>2, <2>3, <2>4 DEF Bypassed
  <1>16. Landing(jump, g) = Landing(x, f) /\ \A n \in Place : n # x => Landing(n, g) = Landing(n, f)
    BY <1>9, <1>15, BypassLands
  <1>17. Landing(t, g) = Landing(mem[x].next, g)
    <2>1. node \notin Behind(p, k) /\ x \notin Behind(p, k) /\ Behind(p, k) \subseteq S
      <3>1. Behind(p, k) \subseteq Elems(p) /\ \A i \in 1 .. k : p[i] \notin Behind(p, k)
        BY <1>2, BehindNodes
      <3>2. k \in 1 .. k /\ k - 1 \in 1 .. k
        BY <1>10, <1>just, LenProperties
      <3>. QED
        BY <1>10, <1>just, <1>a, <3>1, <3>2
    <2>2. ASSUME NEW y \in Behind(p, k), mem[y].code \in {"label", "note"} PROVE g[y] = mem[y].next
      <3>1. y \in T /\ y # node
        BY <1>4, <2>1
      <3>2. mem'[y].code = mem[y].code /\ mem'[y].next = mem[y].next
        BY <1>7, <3>1
      <3>. QED
        BY <1>9, <2>2, <3>1, <3>2 DEF Going, Continuing
    <2>. QED
      BY <1>1, <1>2, <1>4, <1>9, <1>10, <2>2, SearchLands
  <1>18. t \in Place /\ t # x
    <2>1. t \in S /\ mem[t].code \in Ends
      BY <1>3, <1>4, <1>5, <1>e DEF Targets, Flagged
    <2>. QED
      BY <1>4, <1>5, <2>1, Places DEF Ends
  <1>19. MeansAt(mem', T, g, node) = MeansAt(mem, S, f, node)
    <2>1. MeansAt(mem, S, f, node) = <<Landing(x, f), Landing(t, f)>>
      BY <1>4, <1>5, <1>e DEF MeansAt
    <2>2. MeansAt(mem', T, g, node) = <<Landing(jump, g), Landing(mem[x].next, g)>>
      BY <1>4, <1>6 DEF MeansAt
    <2>3. Landing(jump, g) = Landing(x, f) /\ Landing(mem[x].next, g) = Landing(t, f)
      BY <1>16, <1>17, <1>18
    <2>. QED
      BY <2>1, <2>2, <2>3
  <1>20. ASSUME NEW n \in Node PROVE MeansAt(mem', T, g, n) = MeansAt(mem, S, f, n)
    <2>1. CASE n \notin S
      BY <1>4, <2>1 DEF MeansAt
    <2>2. CASE n = x
      <3>1. MeansAt(mem', T, g, n) = <<>>
        BY <1>4, <2>2 DEF MeansAt
      <3>2. MeansAt(mem, S, f, n) = <<>>
        BY <1>5, <2>2 DEF MeansAt
      <3>. QED
        BY <3>1, <3>2
    <2>3. CASE n = node
      BY <1>19, <2>3
    <2>4. CASE n \in S /\ n # x /\ n # node
      <3>1. /\ n \in T /\ n \in Place /\ mem'[n].code = mem[n].code /\ mem'[n].flag = mem[n].flag
            /\ mem'[n].to = mem[n].to /\ mem'[n].next = mem[n].next /\ mem[n].next # x
        BY <1>4, <1>7, <1>11, <2>4, Places
      <3>2. mem[n].next \in Place /\ mem[n].to \in Place
        <4>1. mem[n].next \in 0 .. N /\ mem[n].to \in 0 .. Reg
          BY <1>4 DEF Sound, Fields
        <4>. QED
          BY <4>1, Places
      <3>3. Landing(mem'[n].next, g) = Landing(mem[n].next, f) /\ Landing(n, g) = Landing(n, f)
        BY <1>16, <2>4, <3>1, <3>2
      <3>4. mem[n].code \in Aims => Landing(mem'[n].to, g) = Landing(mem[n].to, f)
        BY <1>12, <1>16, <2>4, <3>1, <3>2
      <3>5. Same(mem, mem', f, g, n)
        BY <3>1, <3>3, <3>4 DEF Same, Aims
      <3>. QED
        BY <2>4, <3>1, <3>5, MeansSame
    <2>. QED
      BY <2>1, <2>2, <2>3, <2>4
  <1>21. Landing(head, g) = Landing(head, f)
    <2>1. head # x
      <3>1. head = Nth(p, 1) /\ Once(p) /\ Len(p) \in Nat
        BY <1>2, LenProperties DEF Path
      <3>2. 1 \in 1 .. Len(p) /\ k # 1
        BY <1>10, <1>just, <3>1
      <3>. QED
        BY <1>10, <3>1, <3>2 DEF Nth, Once
    <2>. QED
      BY <1>2, <1>16, <2>1, Places
  <1>22. MeaningAt(mem', T, head) = MeaningAt(mem, S, head)
    <2>1. \A n \in Node : MeansAt(mem', T, g, n) = MeansAt(mem, S, f, n)
      BY <1>20
    <2>2. MeaningAt(mem', T, head) = [n \in 0 .. N |-> IF n = 0 THEN <<Landing(head, g)>> ELSE MeansAt(mem', T, g, n)]
      BY <1>d DEF MeaningAt
    <2>3. MeaningAt(mem, S, head) = [n \in 0 .. N |-> IF n = 0 THEN <<Landing(head, f)>> ELSE MeansAt(mem, S, f, n)]
      BY <1>c DEF MeaningAt
    <2>4. \A n \in 0 .. N : n # 0 => n \in Node
      BY Numbers
    <2>5. \A n \in 0 .. N : (IF n = 0 THEN <<Landing(head, g)>> ELSE MeansAt(mem', T, g, n))
                             = (IF n = 0 THEN <<Landing(head, f)>> ELSE MeansAt(mem, S, f, n))
      BY <1>21, <2>1, <2>4
    <2>. QED
      BY <2>2, <2>3, <2>5, Zenon
  <1>23. Aimed(mem', T)
    BY <1>3, <1>4, <1>5, <1>6, <1>7 DEF Aimed, Flagged
  <1>. QED
    BY <1>1, <1>3, <1>22, <1>23 DEF MeantInv

(***************************************************************************)
(* The lists of users and the meaning of the program, as the nodes are     *)
(* given and in thread_jumps.                                              *)
(***************************************************************************)
ThreadOK ==
  phase \in {"build", "thread"} =>
    Typed /\ \E p, q \in Seq(Node) : ListsInv(p, q) /\ UsersInv(Elems(p)) /\ MeantInv(Elems(p))

\* A step that adds a node.
LEMMA GrownUsers ==
  ASSUME Typed, Typed', phase = "build", NEW p \in Seq(Node), UsersInv(Elems(p)), NEW r \in Seq(Node), Grows(p, r)
  PROVE  UsersInv(Elems(r))'
  <1>1. PICK x \in Node \ Elems(p) : /\ Elems(r) = Elems(p) \cup {x} /\ Newly(mem, mem', x)
                                    /\ \A n \in Node : n # x => Alike(mem, mem', n)
    BY DEF Grows
  <1>2. Elems(p) \in SUBSET Node
    BY ElemsOf
  <1>. QED
    BY <1>1, <1>2, GrowUsers

\* All steps that build the program.
LEMMA BuildUsers ==
  ASSUME Typed, NEW p \in Seq(Node), NEW q \in Seq(Node), ListsInv(p, q), UsersInv(Elems(p)), Build
  PROVE  Typed' /\ \E r, s \in Seq(Node) : ListsInv(r, s)' /\ UsersInv(Elems(r))'
  <1>1. phase = "build" /\ Elems(p) \in SUBSET Node
    BY BuildFirst, ElemsOf
  <1>2. ASSUME Typed', \E r, s \in Seq(Node) : ListsInv(r, s)' /\ Grows(p, r)
        PROVE  Typed' /\ \E r, s \in Seq(Node) : ListsInv(r, s)' /\ UsersInv(Elems(r))'
    <2>1. PICK r \in Seq(Node), s \in Seq(Node) : ListsInv(r, s)' /\ Grows(p, r)
      BY <1>2
    <2>2. UsersInv(Elems(r))'
      BY <1>1, <1>2, <2>1, GrownUsers
    <2>. QED
      BY <1>2, <2>1, <2>2
  <1>3. ASSUME NEW kind \in Kinds, Insn(kind)
        PROVE  Typed' /\ \E r, s \in Seq(Node) : ListsInv(r, s)' /\ UsersInv(Elems(r))'
    BY <1>2, <1>3, InsnStep
  <1>4. ASSUME NEW flag \in {{}, {"use"}}, Label(flag)
        PROVE  Typed' /\ \E r, s \in Seq(Node) : ListsInv(r, s)' /\ UsersInv(Elems(r))'
    <2>1. Typed'
      BY <1>4, LabelStep
    <2>2. PICK r \in Seq(Node), s \in Seq(Node) : ListsInv(r, s)' /\ (Grows(p, r) \/ (r = p /\ SameUse(mem, mem')))
      BY <1>4, LabelStep
    <2>3. UsersInv(Elems(r))'
      <3>1. CASE Grows(p, r)
        BY <1>1, <2>1, <3>1, GrownUsers
      <3>2. CASE r = p /\ SameUse(mem, mem')
        BY <1>1, <3>2, MarkUsers
      <3>. QED
        BY <2>2, <3>1, <3>2
    <2>. QED
      BY <2>1, <2>2, <2>3
  <1>5. ASSUME NEW j \in Node, NEW l \in Node, PatchAt(j, l)
        PROVE  Typed' /\ \E r, s \in Seq(Node) : ListsInv(r, s)' /\ UsersInv(Elems(r))'
    <2>1. Typed' /\ ListsInv(p, q)'
      BY <1>5, PatchAtStep
    <2>2. EpilogNode \in Elems(p)
      <3>1. tail = EpilogNode /\ EpilogNode # NULL /\ tail = Nth(p, Len(p))
        BY <1>1, <1>5, Numbers DEF PatchAt, ListsInv, BuildInv
      <3>. QED
        BY <3>1 DEF Nth, Elems
    <2>3. UsersInv(Elems(p))'
      BY <1>1, <1>5, <2>2, PatchUsers
    <2>. QED
      BY <2>1, <2>3
  <1>6. Prolog \/ Forward \/ Epilog => Typed' /\ \E r, s \in Seq(Node) : ListsInv(r, s)' /\ UsersInv(Elems(r))'
    BY <1>2, PrologStep, ForwardStep, EpilogStep
  <1>. QED
    BY <1>3, <1>4, <1>5, <1>6 DEF Build

\* Nodes are given before jit_optimize.
LEMMA BuildStays ==
  ASSUME Build
  PROVE  phase' # "thread"
  <1>1. phase = "build"
    BY BuildFirst
  <1>2. phase' = phase
    BY DEF Build, Insn, Prolog, Forward, Epilog, Label, PatchAt
  <1>. QED
    BY <1>1, <1>2

\* Where jit_optimize starts, all that goes somewhere is patched.
LEMMA OptimizeMeans ==
  ASSUME Typed, NEW p \in Seq(Node), NEW q \in Seq(Node), ListsInv(p, q), UsersInv(Elems(p)), Optimize
  PROVE  MeantInv(Elems(p))'
  <1>1. phase = "build" /\ Unpatched = {} /\ meant' = Meaning /\ mem' = mem /\ head' = head
    BY DEF Optimize
  <1>2. Path(mem, head, p) /\ mem \in [Node -> Fields] /\ Elems(p) \subseteq Node
    BY ElemsOf DEF ListsInv, Lists, Typed, Sound
  <1>3. Program = Elems(p)
    BY <1>2, ReachedIs DEF Program
  <1>4. meant' = MeaningAt(mem, Elems(p), head)
    BY <1>1, <1>3, MeaningIs
  <1>5. Aimed(mem, Elems(p))
    <2>1. Untouched(mem, Elems(p))
      BY <1>1 DEF UsersInv
    <2>2. ASSUME NEW n \in Elems(p), mem[n].code \in Aims PROVE "node" \in mem[n].flag
      <3>1. n \in Node /\ n \notin Unpatched
        BY <1>1, <1>2
      <3>2. mem[n].code \in {"movi", "branch", "jmpi"}
        BY <2>1, <2>2, <3>1 DEF Untouched, Aims
      <3>. QED
        BY <3>1, <3>2 DEF Unpatched
    <2>. QED
      BY <2>2 DEF Aimed
  <1>. QED
    BY <1>1, <1>4, <1>5 DEF MeantInv

\* A step that leaves the nodes alone.
LEMMA SameUsers ==
  ASSUME NEW S, UsersInv(S), mem' = mem, phase' = phase \/ phase' = "thread"
  PROVE  UsersInv(S)'
  BY DEF UsersInv

\* Neither has the memory, nor the meaning.
LEMMA SameMeant ==
  ASSUME NEW S, MeantInv(S), mem' = mem, phase' = phase, head' = head, meant' = meant
  PROVE  MeantInv(S)'
  BY DEF MeantInv

\* All steps of thread_jumps.
LEMMA ThreadUsers ==
  ASSUME Typed, NEW p \in Seq(Node), NEW q \in Seq(Node), ListsInv(p, q), UsersInv(Elems(p)), MeantInv(Elems(p)),
         phase = "thread", phase' = "thread", Passes
  PROVE  Typed' /\ \E r, s \in Seq(Node) : ListsInv(r, s)' /\ UsersInv(Elems(r))' /\ MeantInv(Elems(r))'
  <1>1. /\ Lists(mem, head, list, p, q) /\ ThreadInv(p, q) /\ Path(mem, head, p) /\ mem \in [Node -> Fields]
        /\ Elems(p) \in SUBSET Node
    BY ElemsOf DEF ListsInv, Lists, Typed, Sound
  <1>2. CASE RedundantJump
    <2>1. /\ node \in Elems(p) /\ prev \in Node /\ (prev = node \/ mem[prev].next = node) /\ Typed'
      BY <1>2, RedundantStep
    <2>2. PICK r \in Seq(Node), s \in Seq(Node) : ListsInv(r, s)' /\ Elems(r) = Elems(p) \ {node}
      BY <1>2, RedundantStep
    <2>3. UsersInv(Elems(r))'
      BY <1>1, <1>2, <2>1, <2>2, RedundantUsers
    <2>4. MeantInv(Elems(r))'
      BY <1>1, <1>2, <2>1, <2>2, RedundantMeans
    <2>. QED
      BY <2>1, <2>2, <2>3, <2>4
  <1>3. CASE ReverseJump
    <2>a. PICK next : next = mem[node].next
      OBVIOUS
    <2>1. node \in Elems(p) /\ next \in Elems(p) /\ next # node /\ Typed'
      BY <1>3, <2>a, ReverseStep
    <2>2. PICK r \in Seq(Node), s \in Seq(Node) : ListsInv(r, s)' /\ Elems(r) = Elems(p) \ {next}
      BY <1>3, <2>a, ReverseStep
    <2>3. UsersInv(Elems(r))'
      BY <1>1, <1>3, <2>1, <2>2, <2>a, ReverseUsers
    <2>4. MeantInv(Elems(r))'
      BY <1>1, <1>3, <2>1, <2>2, <2>a, ReverseMeans
    <2>. QED
      BY <2>1, <2>2, <2>3, <2>4
  <1>4. ASSUME Threading, Short(node) PROVE node \in Elems(p) /\ Second(node) \in Elems(p)
    <2>1. /\ node # NULL /\ Flagged(node) /\ Second(node) # NULL /\ mem[node].code \in {"jmpi", "branch", "reversed"}
      BY <1>4 DEF Threading, Short, Conditional
    <2>2. \E k \in 1 .. Len(p) : node = p[k]
      BY <1>1, <2>1, AtNode
    <2>3. node \in Elems(p)
      BY <2>2, ElemsOf
    <2>4. mem[node].to \in Elems(p)
      BY <2>1, <2>3 DEF UsersInv, Targets, Flagged
    <2>5. After(mem[node].to, {"note", "label"}) \subseteq Elems(p)
      BY <1>1, <2>4, AfterWithin
    <2>6. PICK there : there = {s \in After(mem[node].to, {"note", "label"}) :
                                  \/ mem[s].code = "jmpi" /\ Flagged(s)
                                  \/ mem[s].code = "jmpr" /\ mem[node].code = "jmpi"}
      OBVIOUS
    <2>7. Second(node) \in there
      BY <2>1, <2>6 DEF Second
    <2>. QED
      BY <2>3, <2>5, <2>6, <2>7
  <1>5. CASE ShortcutJump
    <2>1. Typed' /\ ListsInv(p, q)'
      BY <1>5, ShortcutStep
    <2>2. node \in Elems(p) /\ Second(node) \in Elems(p)
      BY <1>4, <1>5 DEF ShortcutJump
    <2>3. UsersInv(Elems(p))'
      BY <1>1, <1>5, <2>2, ShortcutUsers
    <2>4. MeantInv(Elems(p))'
      BY <1>1, <1>5, <2>1, <2>2, ShortcutMeans
    <2>. QED
      BY <2>1, <2>3, <2>4
  <1>6. CASE ShortcutToRegister
    <2>1. Typed' /\ ListsInv(p, q)'
      BY <1>6, ShortcutToRegisterStep
    <2>2. node \in Elems(p) /\ Second(node) \in Elems(p)
      BY <1>4, <1>6 DEF ShortcutToRegister
    <2>3. UsersInv(Elems(p))'
      BY <1>1, <1>6, <2>2, ToRegisterUsers
    <2>4. MeantInv(Elems(p))'
      BY <1>1, <1>6, <2>1, <2>2, ToRegisterMeans
    <2>. QED
      BY <2>1, <2>3, <2>4
  <1>7. CASE NextNode
    <2>1. Typed' /\ ListsInv(p, q)'
      BY <1>7, NextNodeStep
    <2>2. UsersInv(Elems(p))'
      BY <1>7, SameUsers DEF NextNode
    <2>3. MeantInv(Elems(p))'
      BY <1>7, SameMeant DEF NextNode
    <2>. QED
      BY <2>1, <2>2, <2>3
  <1>8. RedundantJump \/ ReverseJump \/ ShortcutJump \/ ShortcutToRegister \/ NextNode
    BY DEF Passes, EndThreading, DropLabel, MergeLabel, MergeNextLabel, NextLabel, Labelling, EndLabelling,
           KeepBlock, SplitBlock, NextBlock, Splitting, EndSplitting
  <1>. QED
    BY <1>2, <1>3, <1>5, <1>6, <1>7, <1>8

\* The pool before anything is built has no users.
LEMMA InitUsers ==
  ASSUME Init
  PROVE  ThreadOK
  <1>1. Typed
    BY InitLists
  <1>2. PICK p \in Seq(Node), q \in Seq(Node) : ListsInv(p, q)
    BY InitLists
  <1>3. Elems(p) = {}
    <2>1. Nth(p, 1) = NULL
      BY <1>2 DEF ListsInv, Lists, Path, Init
    <2>2. Len(p) = 0
      <3>1. Len(p) \in Nat /\ (1 \in 1 .. Len(p) => Nth(p, 1) \in Node)
        BY LenProperties, ElementOfSeq DEF Nth
      <3>2. 1 \notin 1 .. Len(p)
        BY <2>1, <3>1, Numbers
      <3>. QED
        BY <3>1, <3>2
    <2>. QED
      BY <2>2 DEF Elems
  <1>4. ASSUME NEW n \in Node
        PROVE  mem[n].link = NULL /\ mem[n].flag = {} /\ mem[n].code \in {"data", "prolog", "epilog"}
    <2>1. mem[n] \in {[Zeroed(NULL) EXCEPT !.code = "prolog"], [Zeroed(NULL) EXCEPT !.code = "epilog"],
                      Zeroed(IF n = N - 2 THEN NULL ELSE n + 1)}
      BY DEF Init
    <2>. QED
      BY <2>1 DEF Zeroed
  <1>5. UsersInv(Elems(p))
    <2>1. PICK G \in SUBSET Node : G = {}
      OBVIOUS
    <2>2. Cut(mem, Elems(p), G) /\ AllListed(mem, Elems(p), Elems(p), G)
      BY <1>3, <2>1 DEF Cut, AllListed
    <2>3. Targets(mem, Elems(p)) /\ Turns(mem, Elems(p)) /\ Untouched(mem, Elems(p))
      BY <1>3, <1>4 DEF Targets, Turns, Untouched
    <2>. QED
      BY <2>1, <2>2, <2>3 DEF UsersInv
  <1>6. MeantInv(Elems(p))
    BY DEF MeantInv, Init
  <1>. QED
    BY <1>1, <1>2, <1>5, <1>6 DEF ThreadOK

\* Each step keeps the lists of users.
LEMMA UsersStep ==
  ASSUME ThreadOK, [Next]_vars
  PROVE  ThreadOK'
  <1>. SUFFICES ASSUME phase' \in {"build", "thread"}
                PROVE  Typed' /\ \E r, s \in Seq(Node) : ListsInv(r, s)' /\ UsersInv(Elems(r))' /\ MeantInv(Elems(r))'
    BY DEF ThreadOK
  <1>1. CASE UNCHANGED vars
    <2>1. UNCHANGED <<mem, head, tail, list, blocks, phase, prev, node, split, meant, tame>>
      BY <1>1 DEF vars
    <2>2. PICK p \in Seq(Node), q \in Seq(Node) : Typed /\ ListsInv(p, q) /\ UsersInv(Elems(p)) /\ MeantInv(Elems(p))
      BY <2>1 DEF ThreadOK
    <2>3. Typed'
      BY <2>1, <2>2 DEF Typed
    <2>4. ListsInv(p, q)'
      BY <2>1, <2>2 DEF ListsInv, Lists, BuildInv, ThreadInv, LabelsInv, SplitInv, DoneInv
    <2>5. UsersInv(Elems(p))'
      BY <2>1, <2>2, SameUsers
    <2>6. MeantInv(Elems(p))'
      BY <2>1, <2>2, SameMeant
    <2>. QED
      BY <2>3, <2>4, <2>5, <2>6
  <1>2. CASE Next
    <2>1. phase \in {"build", "thread"}
      BY <1>2, EarlyStep
    <2>2. PICK p \in Seq(Node), q \in Seq(Node) : Typed /\ ListsInv(p, q) /\ UsersInv(Elems(p)) /\ MeantInv(Elems(p))
      BY <2>1 DEF ThreadOK
    <2>3. CASE Build
      <3>1. PICK r \in Seq(Node), s \in Seq(Node) : Typed' /\ ListsInv(r, s)' /\ UsersInv(Elems(r))'
        BY <2>2, <2>3, BuildUsers
      <3>2. MeantInv(Elems(r))'
        BY <2>3, BuildStays DEF MeantInv
      <3>. QED
        BY <3>1, <3>2
    <2>4. CASE Optimize
      <3>1. Typed' /\ ListsInv(p, q)'
        BY <2>2, <2>4, OptimizeStep
      <3>2. UsersInv(Elems(p))'
        BY <2>2, <2>4, SameUsers DEF Optimize
      <3>3. MeantInv(Elems(p))'
        BY <2>2, <2>4, OptimizeMeans
      <3>. QED
        BY <3>1, <3>2, <3>3
    <2>5. CASE Passes
      <3>1. phase = "thread" /\ phase' = "thread"
        <4>1. phase # "build"
          BY <2>5 DEF Passes, RedundantJump, ReverseJump, ShortcutJump, ShortcutToRegister, NextNode,
               Threading, EndThreading, DropLabel, MergeLabel, MergeNextLabel, NextLabel, Labelling, EndLabelling,
               KeepBlock, SplitBlock, NextBlock, Splitting, EndSplitting
        <4>2. phase' # "build"
          BY <2>1, <2>5, <4>1 DEF Passes, RedundantJump, ReverseJump, ShortcutJump, ShortcutToRegister, NextNode,
               EndThreading, DropLabel, MergeLabel, MergeNextLabel, NextLabel, Labelling, EndLabelling,
               KeepBlock, SplitBlock, NextBlock, Splitting, EndSplitting, Stop
        <4>. QED
          BY <2>1, <4>1, <4>2
      <3>. QED
        BY <2>2, <2>5, <3>1, ThreadUsers
    <2>. QED
      BY <1>2, <2>3, <2>4, <2>5 DEF Next
  <1>. QED
    BY <1>1, <1>2

(***************************************************************************)
(* All through thread_jumps, the list at the link of a label has just the  *)
(* nodes patched to it, as the comment in jit_patch_at says, until a       *)
(* branch has been turned round or a jump made one to a register.          *)
(***************************************************************************)
THEOREM LinksAreUsers == Spec => []LinksAgreeIfPlain
  <1>1. Init => ThreadOK
    BY InitUsers
  <1>2. ThreadOK /\ [Next]_vars => ThreadOK'
    BY UsersStep
  <1>3. ThreadOK => LinksAgreeIfPlain
    <2>. SUFFICES ASSUME ThreadOK, \A n \in Program : mem[n].code \notin {"reversed", "jmpr"}, phase = "thread",
                         NEW l \in Program, mem[l].code \in Ends
                  PROVE  ListedUsers(l)
      BY DEF LinksAgreeIfPlain, LinksAgree
    <2>1. PICK p \in Seq(Node), q \in Seq(Node) : Typed /\ ListsInv(p, q) /\ UsersInv(Elems(p)) /\ MeantInv(Elems(p))
      BY DEF ThreadOK
    <2>2. Path(mem, head, p) /\ mem \in [Node -> Fields]
      BY <2>1 DEF ListsInv, Lists, Typed, Sound
    <2>3. Program = Elems(p) /\ Elems(p) \subseteq Node
      BY <2>2, ReachedIs, ElemsOf DEF Program
    <2>4. Unturned(mem, Elems(p))
      BY <2>3 DEF Unturned
    <2>5. PICK u \in Seq(Node) : Chain(mem, mem[l].link, u) /\ Elems(u) = UsersOf(mem, Elems(p), l)
      <3>1. PICK G \in SUBSET Node : AllListed(mem, Elems(p), Elems(p), G) /\ G = {}
        BY <2>1, <2>4 DEF UsersInv
      <3>2. Listed(mem, Elems(p), l, G)
        BY <2>3, <3>1 DEF AllListed
      <3>. QED
        BY <3>1, <3>2 DEF Listed, Covers
    <2>6. Users(l) = Elems(u)
      BY <2>2, <2>3, <2>5, UsersAre
    <2>. QED
      BY <2>3, <2>5, <2>6 DEF ListedUsers, UsersOf, Patched
  <1>. QED
    BY <1>1, <1>2, <1>3, PTL DEF Spec

(***************************************************************************)
(* thread_jumps leaves the program with the meaning it had: a jump that    *)
(* went nowhere is taken out, one to a jump goes on to where that goes,    *)
(* and a branch round a jump is turned round, and from every node and      *)
(* from every label that is used the program comes where it came before.   *)
(***************************************************************************)
THEOREM ThreadingMeansTheSame == Spec => []ThreadingKeepsMeaning
  <1>1. Init => ThreadOK
    BY InitUsers
  <1>2. ThreadOK /\ [Next]_vars => ThreadOK'
    BY UsersStep
  <1>3. ThreadOK => ThreadingKeepsMeaning
    <2>. SUFFICES ASSUME ThreadOK, phase = "thread"
                  PROVE  meant = Meaning
      BY DEF ThreadingKeepsMeaning
    <2>1. PICK p \in Seq(Node), q \in Seq(Node) : Typed /\ ListsInv(p, q) /\ MeantInv(Elems(p))
      BY DEF ThreadOK
    <2>2. Path(mem, head, p) /\ mem \in [Node -> Fields]
      BY <2>1 DEF ListsInv, Lists, Typed, Sound
    <2>3. Program = Elems(p)
      BY <2>2, ReachedIs DEF Program
    <2>. QED
      BY <2>1, <2>3, MeaningIs DEF MeantInv
  <1>. QED
    BY <1>1, <1>2, <1>3, PTL DEF Spec

-----------------------------------------------------------------------------
(***************************************************************************)
(* sequential_labels.  The nodes on the list of a label that is merged are *)
(* all patched to the other label, which has them first on its list.       *)
(***************************************************************************)
LEMMA LastPlace ==
  ASSUME NEW f \in [0 .. N -> 0 .. N], f[NULL] = NULL, NEW h \in 0 .. N, NEW last, last = Cardinality(Reached(f, h))
  PROVE  last \in 0 .. N /\ (last = 0 => Reached(f, h) = {}) /\ (last > 0 => Steps(f, h)[last - 1] # NULL)
  <1>a. PICK R : R = Reached(f, h)
    OBVIOUS
  <1>b. PICK s : s = Steps(f, h)
    OBVIOUS
  <1>c. last = Cardinality(R)
    BY <1>a
  <1>1. R \subseteq Node /\ N \in Nat
    BY <1>a, ReachedNodes, Numbers
  <1>2. IsFiniteSet(R) /\ last \in 0 .. N
    <2>1. IsFiniteSet(Node) /\ Cardinality(Node) = N
      BY <1>1, FS_Interval DEF Node
    <2>2. IsFiniteSet(R) /\ Cardinality(R) =< Cardinality(Node)
      BY <1>1, <2>1, FS_Subset
    <2>. QED
      BY <1>1, <1>c, <2>1, <2>2, FS_CardinalityType
  <1>3. last = 0 => R = {}
    BY <1>2, <1>c, FS_EmptySet
  <1>4. ASSUME last > 0, s[last - 1] = NULL PROVE FALSE
    <2>a. PICK D : D = 0 .. last - 2
      OBVIOUS
    <2>b. PICK V : V = {s[i] : i \in D}
      OBVIOUS
    <2>c. PICK g : g = [i \in D |-> s[i]]
      OBVIOUS
    <2>1. ASSUME NEW x \in R PROVE x \in V
      <3>1. PICK i \in 0 .. last - 1 : s[i] = x
        <4>1. x \in Reached(f, h)
          BY <1>a, <2>1
        <4>2. \E i \in 0 .. Cardinality(Reached(f, h)) - 1 : Steps(f, h)[i] = x
          BY <4>1, PlaceFound
        <4>. QED
          BY <1>a, <1>b, <1>c, <4>2
      <3>2. x # NULL
        BY <1>1, Numbers
      <3>3. i \in D
        BY <1>2, <1>4, <2>a, <3>1, <3>2
      <3>. QED
        BY <2>b, <3>1, <3>3
    <2>2. g \in Surjection(D, V)
      BY <2>b, <2>c DEF Surjection
    <2>3. IsFiniteSet(D) /\ Cardinality(D) = last - 1
      <3>1. 0 \in Int /\ last - 2 \in Int /\ ((last - 2) - 0) + 1 = last - 1 /\ (0 > last - 2 => last - 1 = 0)
        BY <1>2, <1>4
      <3>. QED
        BY <2>a, <3>1, FS_Interval
    <2>4. IsFiniteSet(V) /\ Cardinality(V) =< last - 1
      BY <2>2, <2>3, FS_Surjection
    <2>5. last =< Cardinality(V) /\ Cardinality(V) \in Nat
      <3>1. R \subseteq V
        BY <2>1
      <3>. QED
        BY <1>c, <2>4, <3>1, FS_Subset, FS_CardinalityType
    <2>. QED
      BY <1>2, <2>4, <2>5
  <1>. QED
    BY <1>2, <1>3, <1>4, <1>a, <1>b

\* Moved makes all on the list of n go to p, and leaves the links of the others.
LEMMA MovedLinks ==
  ASSUME Sound(mem), NEW n \in Node, NEW p \in Node, n # p, n \notin Users(n), p \notin Users(n)
  PROVE  /\ Users(n) \subseteq Node /\ \A x \in Users(n) : Moved(n, p)[x].to = p
         /\ \A x \in Node \ Users(n) : /\ Moved(n, p)[x].to = mem[x].to
                                       /\ x # n /\ x # p => Moved(n, p)[x].link = mem[x].link
         /\ Moved(n, p)[p].link = NULL => Users(n) = {} /\ mem[p].link = NULL
  <1>. DEFINE user == Steps(LinkOf, mem[n].link)
              U == Users(n)
              last == Cardinality(U)
              place(x) == CHOOSE i \in 0 .. last - 1 : user[i] = x
              link(x) == IF place(x) = 0 THEN mem[p].link ELSE user[place(x) - 1]
  <1>a. user = Steps(LinkOf, mem[n].link)
    OBVIOUS
  <1>b. U = Users(n)
    OBVIOUS
  <1>c. last = Cardinality(U)
    OBVIOUS
  <1>d. PICK m : m = Moved(n, p)
    OBVIOUS
  <1>8. m = [x \in Node |->
               IF x \in U THEN [mem[x] EXCEPT !.to = p, !.link = link(x)]
               ELSE IF x = p /\ last > 0 THEN [mem[x] EXCEPT !.link = user[last - 1]]
               ELSE IF x = n THEN [mem[x] EXCEPT !.link = NULL] ELSE mem[x]]
    BY <1>d DEF Moved
  <1>. HIDE DEF user, U, last, link
  <1>1. mem \in [Node -> Fields] /\ N \in Nat
    BY Numbers DEF Sound
  <1>2. LinkOf \in [0 .. N -> 0 .. N] /\ LinkOf[NULL] = NULL /\ mem[n].link \in 0 .. N
    <2>1. \A x \in 0 .. N : x # NULL => x \in Node /\ mem[x].link \in 0 .. N
      BY <1>1, Numbers DEF Fields
    <2>. QED
      BY <2>1, Numbers DEF LinkOf
  <1>4. U \subseteq Node /\ U = Reached(LinkOf, mem[n].link)
    BY <1>2, <1>b, ReachedNodes DEF Users
  <1>5. last \in 0 .. N /\ (last = 0 => U = {}) /\ (last > 0 => user[last - 1] # NULL)
    <2>a. PICK f \in [0 .. N -> 0 .. N] : f = LinkOf
      BY <1>2
    <2>b. PICK h \in 0 .. N : h = mem[n].link
      BY <1>2
    <2>1. U = Reached(f, h) /\ user = Steps(f, h) /\ f[NULL] = NULL
      BY <1>2, <1>4, <1>a, <2>a, <2>b
    <2>2. last = Cardinality(Reached(f, h))
      BY <1>c, <2>1
    <2>3. last \in 0 .. N /\ (last = 0 => Reached(f, h) = {}) /\ (last > 0 => Steps(f, h)[last - 1] # NULL)
      BY <2>1, <2>2, LastPlace
    <2>. QED
      BY <2>1, <2>3
  <1>6. ASSUME NEW c \in Fields, NEW l, NEW d, d = [c EXCEPT !.link = l] PROVE d.to = c.to /\ d.link = l
    BY <1>6 DEF Fields
  <1>7. ASSUME NEW x \in U PROVE m[x].to = p
    <2>1. m[x] = [mem[x] EXCEPT !.to = p, !.link = link(x)]
      BY <1>4, <1>8
    <2>2. mem[x] \in Fields
      BY <1>1, <1>4
    <2>. QED
      BY <2>1, <2>2 DEF Fields
  <1>9. ASSUME NEW x \in Node \ U PROVE m[x].to = mem[x].to
    <2>1. \/ m[x] = [mem[x] EXCEPT !.link = user[last - 1]]
          \/ m[x] = [mem[x] EXCEPT !.link = NULL]
          \/ m[x] = mem[x]
      BY <1>8
    <2>2. mem[x] \in Fields
      BY <1>1
    <2>3. m[x] = [mem[x] EXCEPT !.link = user[last - 1]] => m[x].to = mem[x].to
      BY <1>6, <2>2
    <2>4. m[x] = [mem[x] EXCEPT !.link = NULL] => m[x].to = mem[x].to
      BY <1>6, <2>2
    <2>. QED
      BY <2>1, <2>3, <2>4
  <1>10. ASSUME NEW x \in Node \ U, x # n, x # p PROVE m[x].link = mem[x].link
    BY <1>8, <1>10
  <1>11. m[p].link = NULL => U = {} /\ mem[p].link = NULL
    <2>1. last > 0 => m[p] = [mem[p] EXCEPT !.link = user[last - 1]]
      BY <1>8, <1>b
    <2>2. mem[p] \in Fields
      BY <1>1
    <2>3. last > 0 => m[p].link = user[last - 1]
      <3>a. PICK l : l = user[last - 1]
        OBVIOUS
      <3>b. PICK c \in Fields : c = mem[p]
        BY <2>2
      <3>c. PICK d : d = m[p]
        OBVIOUS
      <3>1. last > 0 => d = [c EXCEPT !.link = l]
        BY <2>1, <3>a, <3>b, <3>c
      <3>2. last > 0 => d.link = l
        BY <1>6, <3>1
      <3>. QED
        BY <3>2, <3>a, <3>c
    <2>4. ~(last > 0) => m[p] = mem[p]
      BY <1>8, <1>b
    <2>5. ~(last > 0) => last = 0
      BY <1>1, <1>5
    <2>. QED
      BY <1>5, <2>3, <2>4, <2>5
  <1>. QED
    BY <1>4, <1>7, <1>9, <1>10, <1>11, <1>b, <1>d

(***************************************************************************)
(* In the passes that move labels, with a tame program: a label with no    *)
(* list has no users; and one that will be merged, since it is behind      *)
(* another, has all its users on its list.                                 *)
(***************************************************************************)
Unlinked(m, S) == \A l \in S : m[l].code = "label" /\ m[l].link = NULL => UsersOf(m, S, l) = {}
Exact(m, S, x) == \A a \in S : LabelAt(m, a) /\ PlainAt(m, m[a].next) /\ m[a].next # x => Listed(m, S, m[a].next, {})

\* What is so of the nodes S of a tame program in the last two passes.
StillMeant(S) ==
  /\ Targets(mem, S) /\ Aimed(mem, S) /\ meant = MeaningAt(mem, S, head)
  /\ phase = "labels" => Unlinked(mem, S) /\ Exact(mem, S, NULL)

\* EndThreading.
LEMMA EndThreadingMeans ==
  ASSUME Typed, NEW p \in Seq(Node), NEW q \in Seq(Node), ListsInv(p, q), UsersInv(Elems(p)), MeantInv(Elems(p)),
         EndThreading, Tame
  PROVE  StillMeant(Elems(p))'
  <1>a. PICK S : S = Elems(p)
    OBVIOUS
  <1>1. phase = "thread" /\ mem' = mem /\ head' = head /\ meant' = meant
    BY DEF EndThreading
  <1>2. Path(mem, head, p) /\ mem \in [Node -> Fields] /\ S \in SUBSET Node
    BY <1>a, ElemsOf DEF ListsInv, Lists, Typed, Sound
  <1>3. Targets(mem, S) /\ Aimed(mem, S) /\ meant = MeaningAt(mem, S, head)
    BY <1>1, <1>a DEF UsersInv, MeantInv
  <1>4. PICK G \in SUBSET Node : AllListed(mem, S, S, G)
    BY <1>a DEF UsersInv
  <1>5. ASSUME NEW l \in S, mem[l].code = "label"
        PROVE  \E u \in Seq(Node) : Chain(mem, mem[l].link, u) /\ Covers(Elems(u), UsersOf(mem, S, l), G)
    <2>1. mem[l].code \in Ends
      BY <1>5 DEF Ends
    <2>. QED
      BY <1>4, <2>1 DEF AllListed, Listed
  <1>6. Unlinked(mem, S)
    <2>. SUFFICES ASSUME NEW l \in S, mem[l].code = "label", mem[l].link = NULL
                  PROVE  UsersOf(mem, S, l) = {}
      BY DEF Unlinked
    <2>1. PICK u \in Seq(Node) : Chain(mem, mem[l].link, u) /\ Covers(Elems(u), UsersOf(mem, S, l), G)
      BY <1>5
    <2>2. Nth(u, 1) = NULL
      BY <2>1 DEF Chain, Path
    <2>3. Elems(u) = {}
      <3>1. Len(u) \in Nat /\ (1 \in 1 .. Len(u) => Nth(u, 1) \in Node)
        BY LenProperties, ElementOfSeq DEF Nth
      <3>2. 1 \notin 1 .. Len(u)
        BY <2>2, <3>1, Numbers
      <3>3. Len(u) = 0
        BY <3>1, <3>2
      <3>. QED
        BY <3>3 DEF Elems
    <2>. QED
      BY <2>1, <2>3 DEF Covers
  <1>7. Exact(mem, S, NULL)
    <2>. SUFFICES ASSUME NEW a \in S, LabelAt(mem, a), PlainAt(mem, mem[a].next)
                  PROVE  Listed(mem, S, mem[a].next, {})
      BY DEF Exact
    <2>a. PICK l : l = mem[a].next
      OBVIOUS
    <2>1. l \in S /\ mem[l].code = "label"
      <3>1. l \in S \cup {NULL}
        BY <1>2, <1>a, <2>a, PathNodes DEF Closed
      <3>. QED
        BY <2>a, <3>1 DEF PlainAt, LabelAt
    <2>2. PICK u \in Seq(Node) : Chain(mem, mem[l].link, u)
      BY <1>5, <2>1
    <2>3. Users(l) = Elems(u) /\ Program = S
      <3>1. l \in Node
        BY <1>2, <2>1
      <3>. QED
        BY <1>2, <1>a, <2>2, <3>1, UsersAre, ReachedIs DEF Program
    <2>4. Users(l) = UsersOf(mem, S, l)
      <3>1. ListedUsers(l)
        BY <2>3, <2>a DEF Tame, IsLabel, Plain, LabelAt, PlainAt
      <3>. QED
        BY <2>3, <3>1 DEF ListedUsers, Patched, UsersOf
    <2>5. Covers(Elems(u), UsersOf(mem, S, l), {})
      BY <2>3, <2>4 DEF Covers
    <2>. QED
      BY <2>2, <2>5, <2>a DEF Listed
  <1>8. Targets(mem', S) /\ Aimed(mem', S) /\ meant' = MeaningAt(mem', S, head')
        /\ Unlinked(mem', S) /\ Exact(mem', S, NULL)
    BY <1>1, <1>3, <1>6, <1>7
  <1>. QED
    BY <1>8, <1>a DEF StillMeant

\* A label with no users that is deleted, where no label to be merged comes to be behind another.
LEMMA DeletedStays ==
  ASSUME NEW m, NEW m2, NEW S \in SUBSET Node, NEW x, Skippable(m, S, x), m[x].code = "label", Skips(m, m2, S, x),
         \A n \in S : n # x => m2[n].link = m[n].link, Closed(m, S),
         Targets(m, S), Aimed(m, S), Unlinked(m, S), Exact(m, S, x), UsersOf(m, S, x) = {},
         \A a \in S : LabelAt(m, a) /\ m[a].next = x => ~PlainAt(m, m[x].next), NEW T, T = S \ {x}
  PROVE  Targets(m2, T) /\ Aimed(m2, T) /\ Unlinked(m2, T) /\ Exact(m2, T, NULL)
  <1>1. ASSUME NEW n \in T
        PROVE  n \in S /\ n \in Node /\ n # x /\ m2[n].code = m[n].code /\ m2[n].flag = m[n].flag /\ m2[n].to = m[n].to
               /\ m2[n].link = m[n].link /\ m2[n].next = IF m[n].next = x THEN m[x].next ELSE m[n].next
    BY DEF Skips
  <1>2. x \in S /\ "node" \notin m[x].flag /\ m[x].next \in S \cup {NULL} /\ m[x].next # x
    BY DEF Skippable, Targets
  <1>3. \A l : UsersOf(m2, T, l) = UsersOf(m, S, l)
    <2>. SUFFICES ASSUME NEW l, NEW n \in Node PROVE n \in UsersOf(m2, T, l) <=> n \in UsersOf(m, S, l)
      BY DEF UsersOf
    <2>1. CASE n \in T
      BY <1>1, <2>1 DEF UsersOf
    <2>2. CASE n \notin T
      BY <1>2, <2>2 DEF UsersOf
    <2>. QED
      BY <2>1, <2>2
  <1>4. Targets(m2, T)
    <2>. SUFFICES ASSUME NEW n \in T, "node" \in m2[n].flag
                  PROVE  m2[n].code \in {"movi", "jmpi", "branch", "reversed"} /\ m2[n].to \in T
                         /\ m2[m2[n].to].code \in Ends
      BY DEF Targets
    <2>1. m[n].code \in {"movi", "jmpi", "branch", "reversed"} /\ m[n].to \in S /\ m[m[n].to].code \in Ends
      BY <1>1 DEF Targets
    <2>2. m[n].to # x
      BY <1>1 DEF UsersOf
    <2>. QED
      BY <1>1, <2>1, <2>2
  <1>5. Aimed(m2, T)
    BY <1>1 DEF Aimed
  <1>6. Unlinked(m2, T)
    BY <1>1, <1>3 DEF Unlinked
  <1>7. Exact(m2, T, NULL)
    <2>. SUFFICES ASSUME NEW a \in T, LabelAt(m2, a), PlainAt(m2, m2[a].next)
                  PROVE  Listed(m2, T, m2[a].next, {})
      BY DEF Exact
    <2>a. PICK l : l = m2[a].next
      OBVIOUS
    <2>1. LabelAt(m, a) /\ l # NULL
      BY <1>1, <2>a DEF LabelAt, PlainAt
    <2>2. m[a].next # x
      <3>1. ASSUME m[a].next = x PROVE FALSE
        <4>1. l = m[x].next /\ l \in T
          BY <1>1, <1>2, <2>1, <2>a, <3>1
        <4>2. PlainAt(m, l)
          BY <1>1, <2>a, <4>1 DEF PlainAt, LabelAt
        <4>. QED
          BY <1>1, <2>1, <3>1, <4>1, <4>2
      <3>. QED
        BY <3>1
    <2>3. l = m[a].next /\ l \in T
      BY <1>1, <2>1, <2>2, <2>a DEF Closed
    <2>4. PlainAt(m, l)
      BY <1>1, <2>a, <2>3 DEF PlainAt, LabelAt
    <2>5. Listed(m, S, l, {})
      BY <1>1, <2>1, <2>2, <2>3, <2>4 DEF Exact
    <2>6. PICK u \in Seq(Node) : Chain(m, m[l].link, u) /\ Elems(u) = UsersOf(m, S, l)
      BY <2>5 DEF Listed, Covers
    <2>7. \A n \in Elems(u) : m2[n].link = m[n].link
      <3>1. Elems(u) \subseteq T
        BY <1>3, <2>6 DEF UsersOf
      <3>. QED
        BY <1>1, <3>1
    <2>8. Chain(m2, m2[l].link, u)
      BY <1>1, <2>3, <2>6, <2>7, ChainStays
    <2>9. Covers(Elems(u), UsersOf(m2, T, l), {})
      BY <1>3, <2>6 DEF Covers
    <2>. QED
      BY <2>8, <2>9, <2>a DEF Listed
  <1>. QED
    BY <1>4, <1>5, <1>6, <1>7

\* Deleting the label skips it.
LEMMA DelLabelSkips ==
  ASSUME Typed, NEW p \in Seq(Node), Path(mem, head, p), NEW k \in 1 .. Len(p), NEW x, x = p[k],
         mem[x].code = "label", NEW m, Sound(m), Relinks(mem, m), NEW a, a = Before(p, k),
         DelLabel(m, a, x), phase' = "labels"
  PROVE  /\ Skips(m, mem', Elems(p), x) /\ \A n \in Elems(p) : n # x => mem'[n].link = m[n].link
         /\ head' = (IF head = x THEN mem[x].next ELSE head) /\ meant' = meant
  <1>1. Delete(m, a, x) /\ meant' = meant
    BY DEF DelLabel, Stop
  <1>2. mem' = Without(m, a, x) /\ head' = IF a = x THEN m[x].next ELSE head
    BY <1>1 DEF Delete
  <1>3. /\ Once(p) /\ Len(p) \in Nat /\ k \in Nat /\ k >= 1 /\ 1 \in 1 .. Len(p) /\ head = p[1] /\ x \in Node
        /\ (k # 1 => k - 1 \in 1 .. Len(p) /\ k > 1 /\ k - 1 # k) /\ Elems(p) \subseteq Node /\ x \in Elems(p)
    <2>1. Len(p) \in Nat /\ x \in Node /\ Elems(p) \subseteq Node /\ x \in Elems(p)
      BY LenProperties, ElemsOf
    <2>2. k \in Nat /\ k >= 1 /\ 1 \in 1 .. Len(p) /\ (k # 1 => k - 1 \in 1 .. Len(p) /\ k > 1 /\ k - 1 # k)
      BY <2>1
    <2>3. Once(p) /\ head = p[1]
      BY <2>2 DEF Path, Nth
    <2>. QED
      BY <2>1, <2>2, <2>3
  <1>4. (a = x <=> k = 1) /\ (head = x <=> k = 1) /\ (k # 1 => a = p[k - 1]) /\ a \in Node
    <2>1. k = 1 => a = x /\ head = x
      BY <1>3 DEF Before
    <2>2. k # 1 => a = p[k - 1]
      BY <1>3 DEF Before
    <2>3. k # 1 => a # x /\ head # x /\ a \in Node
      BY <1>3, <2>2, ElemsOf DEF Once
    <2>. QED
      BY <1>3, <2>1, <2>2, <2>3
  <1>5. FreedIn(m, a, x, mem')
    <2>1. x # PrologNode /\ x # EpilogNode /\ list \in 0 .. N
      BY DEF Typed, Sound
    <2>. QED
      BY <1>2, <1>3, <1>4, <2>1, WithoutIs
  <1>6. m[x].next = mem[x].next /\ m \in [Node -> Fields]
    BY <1>3 DEF Relinks, Sound
  <1>7. ASSUME NEW n \in Elems(p), n # x
        PROVE  /\ mem'[n].code = m[n].code /\ mem'[n].flag = m[n].flag /\ mem'[n].to = m[n].to
               /\ mem'[n].link = m[n].link /\ mem'[n].next = IF m[n].next = x THEN m[x].next ELSE m[n].next
    <2>1. mem'[n] = IF n = a THEN [m[n] EXCEPT !.next = m[x].next] ELSE m[n]
      BY <1>3, <1>5, <1>7 DEF FreedIn
    <2>2. m[n] \in Fields /\ m[n].next = mem[n].next
      BY <1>3, <1>6 DEF Relinks
    <2>3. m[n].next = x <=> n = a
      <3>1. mem[n].next = x <=> k > 1 /\ n = p[k - 1]
        BY PathNodes
      <3>. QED
        BY <1>3, <1>4, <1>7, <2>2, <3>1
    <2>4. CASE n = a
      <3>1. PICK c : c = m[x].next
        OBVIOUS
      <3>2. mem'[n] = [m[n] EXCEPT !.next = c]
        BY <2>1, <2>4, <3>1
      <3>3. /\ mem'[n].code = m[n].code /\ mem'[n].flag = m[n].flag /\ mem'[n].to = m[n].to
            /\ mem'[n].link = m[n].link /\ mem'[n].next = c
        BY <2>2, <3>2 DEF Fields
      <3>. QED
        BY <2>3, <2>4, <3>1, <3>3
    <2>5. CASE n # a
      BY <2>1, <2>3, <2>5
    <2>. QED
      BY <2>4, <2>5
  <1>8. Skips(m, mem', Elems(p), x)
    BY <1>7 DEF Skips
  <1>. QED
    BY <1>1, <1>2, <1>4, <1>6, <1>7, <1>8

\* DropLabel.
LEMMA DropMeans ==
  ASSUME Typed, NEW p \in Seq(Node), NEW q \in Seq(Node), ListsInv(p, q), StillMeant(Elems(p)),
         Typed', DropLabel, phase' = "labels", NEW T, T = Elems(p) \ {node}
  PROVE  StillMeant(T)'
  <1>a. PICK S : S = Elems(p)
    OBVIOUS
  <1>b. PICK v : v = mem[node].next
    OBVIOUS
  <1>c. PICK f : f = OnwardAt(mem, S)
    OBVIOUS
  <1>d. PICK g : g = OnwardAt(mem', T)
    OBVIOUS
  <1>1. /\ phase = "labels" /\ node # NULL /\ DelLabel(mem, prev, node)
        /\ mem[node].code = "label" /\ mem[node].flag = {} /\ mem[node].link = NULL
    BY DEF DropLabel, Labelling, Idle, Plain, IsLabel
  <1>2. Path(mem, head, p) /\ Sound(mem) /\ Sound(mem') /\ S \in SUBSET Node /\ head \in 0 .. N /\ T = S \ {node}
    BY <1>a, ElemsOf DEF ListsInv, Lists, Typed
  <1>3. PICK k \in 1 .. Len(p) + 1 : LabelsInv(p, k)
    BY <1>1 DEF ListsInv
  <1>4. Whole(p) /\ node = Nth(p, k) /\ LabelsAt(mem, p, k, prev)
    BY <1>3 DEF LabelsInv
  <1>5. k \in 1 .. Len(p) /\ node = p[k] /\ node \in S /\ PlainAt(mem, node)
    <2>1. k \in 1 .. Len(p) /\ node = p[k]
      BY <1>1, <1>4 DEF Nth
    <2>2. node \in S
      BY <1>a, <2>1, ElemsOf
    <2>. QED
      BY <1>1, <2>1, <2>2 DEF PlainAt, LabelAt
  <1>6. \/ k = 1 /\ prev = p[1]
        \/ k > 1 /\ prev = p[k - 1] /\ ~LabelAt(mem, prev)
    BY <1>4, <1>5 DEF LabelsAt
  <1>7. prev = Before(p, k)
    BY <1>6 DEF Before
  <1>8. /\ Skips(mem, mem', S, node) /\ \A n \in S : n # node => mem'[n].link = mem[n].link
        /\ head' = (IF head = node THEN v ELSE head) /\ meant' = meant
    <2>1. Relinks(mem, mem)
      BY DEF Relinks
    <2>. QED
      BY <1>1, <1>2, <1>5, <1>7, <1>a, <1>b, <2>1, DelLabelSkips
  <1>9. /\ Targets(mem, S) /\ Aimed(mem, S) /\ meant = MeaningAt(mem, S, head)
        /\ Unlinked(mem, S) /\ Exact(mem, S, NULL)
    BY <1>1, <1>a DEF StillMeant
  <1>10. UsersOf(mem, S, node) = {}
    BY <1>1, <1>5, <1>9 DEF Unlinked
  <1>11. Skippable(mem, S, node) /\ Closed(mem, S)
    <2>1. /\ Closed(mem, S) /\ v \in S \cup {NULL} /\ v # node /\ (v # NULL => mem[v].next # node)
      BY <1>2, <1>5, <1>a, <1>b, PathNodes DEF Closed
    <2>2. \A n \in S : mem[n].code \in Aims => mem[n].to # node
      BY <1>9, <1>10 DEF Aimed, UsersOf
    <2>. QED
      BY <1>1, <1>5, <1>b, <2>1, <2>2 DEF Skippable
  <1>12. ASSUME NEW n \in S, LabelAt(mem, n) PROVE mem[n].next # node
    <2>1. mem[n].next = node <=> k > 1 /\ n = p[k - 1]
      BY <1>2, <1>5, <1>a, PathNodes
    <2>2. ~(1 > 1)
      OBVIOUS
    <2>. QED
      BY <1>6, <1>12, <2>1, <2>2
  <1>13. PrologNode \in S /\ PrologNode \in T
    <2>1. PrologNode \in S /\ node # PrologNode
      BY <1>1, <1>2, <1>4, <1>a DEF Whole, Sound
    <2>. QED
      BY <1>2, <2>1
  <1>14. MeaningAt(mem', T, head') = MeaningAt(mem, S, head)
    <2>1. f[node] = v
      <3>1. Going(mem, S, f)
        BY <1>2, <1>13, <1>c, OnwardIs
      <3>. QED
        BY <1>1, <1>5, <1>b, <3>1 DEF Going, Continuing
    <2>. QED
      BY <1>2, <1>8, <1>11, <1>13, <1>b, <1>c, <1>d, <2>1, SkipMeans
  <1>15. Targets(mem', T) /\ Aimed(mem', T) /\ Unlinked(mem', T) /\ Exact(mem', T, NULL)
    <2>1. Exact(mem, S, node)
      BY <1>9 DEF Exact, PlainAt, LabelAt
    <2>2. \A b \in S : LabelAt(mem, b) /\ mem[b].next = node => ~PlainAt(mem, mem[node].next)
      BY <1>12
    <2>3. mem[node].code = "label" /\ \A n \in S : n # node => mem'[n].link = mem[n].link
      BY <1>1, <1>8
    <2>4. Skips(mem, mem', S, node) /\ T = S \ {node} /\ S \in SUBSET Node
      BY <1>2, <1>8
    <2>5. Targets(mem, S) /\ Aimed(mem, S) /\ Unlinked(mem, S)
      BY <1>9
    <2>. QED
      BY <1>10, <1>11, <2>1, <2>2, <2>3, <2>4, <2>5, DeletedStays
  <1>. QED
    BY <1>8, <1>9, <1>14, <1>15 DEF StillMeant

(***************************************************************************)
(* What is patched to a label x is patched to the label a before it: that  *)
(* changes no meaning, and leaves x without users.                         *)
(***************************************************************************)
LEMMA MovedMeans ==
  ASSUME Sound(mem), NEW S \in SUBSET Node, PrologNode \in S, Closed(mem, S), Targets(mem, S), Aimed(mem, S),
         Unlinked(mem, S), Exact(mem, S, NULL), NEW a \in S, mem[a].code = "label",
         NEW x \in S, x = mem[a].next, PlainAt(mem, x), x # a, \A b \in S : LabelAt(mem, b) /\ mem[b].next = a =>
         ~PlainAt(mem, a), NEW m, m = Moved(x, a), NEW hd \in 0 .. N
  PROVE  /\ Targets(m, S) /\ Aimed(m, S) /\ Unlinked(m, S) /\ Exact(m, S, x) /\ UsersOf(m, S, x) = {}
         /\ MeaningAt(m, S, hd) = MeaningAt(mem, S, hd)
  <1>a. PICK U : U = UsersOf(mem, S, x)
    OBVIOUS
  <1>b. PICK f : f = OnwardAt(mem, S)
    OBVIOUS
  <1>c. PICK g : g = OnwardAt(m, S)
    OBVIOUS
  <1>1. Users(x) = U /\ mem[x].code = "label" /\ mem[x].flag = {} /\ x \in Node /\ a \in Node
    <2>1. LabelAt(mem, a) /\ x # NULL
      BY Numbers DEF LabelAt
    <2>2. Listed(mem, S, x, {})
      BY <2>1 DEF Exact
    <2>3. PICK u \in Seq(Node) : Chain(mem, mem[x].link, u) /\ Elems(u) = U
      BY <1>a, <2>2 DEF Listed, Covers
    <2>4. mem \in [Node -> Fields]
      BY DEF Sound
    <2>5. Users(x) = Elems(u)
      BY <2>3, <2>4, UsersAre
    <2>. QED
      BY <2>3, <2>5 DEF PlainAt, LabelAt
  <1>2. ASSUME NEW n \in S, mem[n].code = "label" PROVE "node" \notin mem[n].flag
    BY <1>2 DEF Targets
  <1>3. x \notin U /\ a \notin U /\ U \subseteq S
    BY <1>1, <1>2, <1>a DEF UsersOf
  <1>4. Sound(m) /\ Relinks(mem, m)
    BY <1>1, MovedIs
  <1>5. /\ \A n \in U : m[n].to = a
        /\ \A n \in Node \ U : m[n].to = mem[n].to /\ (n # x /\ n # a => m[n].link = mem[n].link)
        /\ m[a].link = NULL => U = {} /\ mem[a].link = NULL
    BY <1>1, <1>3, MovedLinks
  <1>6. \A n \in S : n \in Node /\ m[n].code = mem[n].code /\ m[n].flag = mem[n].flag /\ m[n].next = mem[n].next
    BY <1>4 DEF Relinks
  <1>7. ASSUME NEW n \in S, "node" \in mem[n].flag
        PROVE  (mem[n].to = x /\ n \in U /\ m[n].to = a) \/ (mem[n].to # x /\ n \notin U /\ m[n].to = mem[n].to)
    <2>1. n \in U <=> mem[n].to = x
      BY <1>7, <1>a DEF UsersOf
    <2>. QED
      BY <1>5, <1>6, <2>1
  <1>8. UsersOf(m, S, x) = {}
    <2>. SUFFICES ASSUME NEW n \in S, "node" \in m[n].flag, m[n].to = x PROVE FALSE
      BY DEF UsersOf
    <2>. QED
      BY <1>6, <1>7
  <1>9. \A l : l # a /\ l # x => UsersOf(m, S, l) = UsersOf(mem, S, l)
    <2>. SUFFICES ASSUME NEW l, l # a, l # x, NEW n \in S
                  PROVE  n \in UsersOf(m, S, l) <=> n \in UsersOf(mem, S, l)
      BY DEF UsersOf
    <2>1. CASE "node" \in mem[n].flag
      BY <1>6, <1>7, <2>1 DEF UsersOf
    <2>2. CASE "node" \notin mem[n].flag
      BY <1>6, <2>2 DEF UsersOf
    <2>. QED
      BY <2>1, <2>2
  <1>10. U = {} => UsersOf(m, S, a) = UsersOf(mem, S, a)
    <2>. SUFFICES ASSUME U = {}, NEW n \in S PROVE n \in UsersOf(m, S, a) <=> n \in UsersOf(mem, S, a)
      BY DEF UsersOf
    <2>. QED
      BY <1>5, <1>6 DEF UsersOf
  <1>11. Targets(m, S)
    <2>. SUFFICES ASSUME NEW n \in S, "node" \in m[n].flag
                  PROVE  m[n].code \in {"movi", "jmpi", "branch", "reversed"} /\ m[n].to \in S
                         /\ m[m[n].to].code \in Ends
      BY DEF Targets
    <2>1. "node" \in mem[n].flag /\ m[n].code = mem[n].code
      BY <1>6
    <2>2. mem[n].code \in {"movi", "jmpi", "branch", "reversed"} /\ mem[n].to \in S /\ mem[mem[n].to].code \in Ends
      BY <2>1 DEF Targets
    <2>3. m[n].to \in {a, mem[n].to} /\ mem[a].code \in Ends
      BY <1>7, <2>1 DEF Ends
    <2>. QED
      BY <1>6, <2>1, <2>2, <2>3
  <1>12. Aimed(m, S)
    BY <1>6 DEF Aimed
  <1>13. Unlinked(m, S)
    <2>. SUFFICES ASSUME NEW l \in S, m[l].code = "label", m[l].link = NULL PROVE UsersOf(m, S, l) = {}
      BY DEF Unlinked
    <2>1. CASE l = x
      BY <1>8, <2>1
    <2>2. CASE l = a
      BY <1>5, <1>10, <2>2 DEF Unlinked
    <2>3. CASE l # x /\ l # a
      <3>1. mem[l].code = "label" /\ l \notin U
        BY <1>2, <1>6, <1>a DEF UsersOf
      <3>2. mem[l].link = NULL
        BY <1>5, <1>6, <2>3, <3>1
      <3>. QED
        BY <1>9, <2>3, <3>1, <3>2 DEF Unlinked
    <2>. QED
      BY <2>1, <2>2, <2>3
  <1>14. Exact(m, S, x)
    <2>. SUFFICES ASSUME NEW b \in S, LabelAt(m, b), PlainAt(m, m[b].next), m[b].next # x
                  PROVE  Listed(m, S, m[b].next, {})
      BY DEF Exact
    <2>a. PICK l : l = mem[b].next
      OBVIOUS
    <2>1. m[b].next = l /\ l # x /\ LabelAt(mem, b) /\ l \in S /\ l # NULL
      <3>1. m[b].next = l /\ LabelAt(mem, b)
        BY <1>6, <2>a DEF LabelAt
      <3>. QED
        BY <2>a, <3>1 DEF Closed, PlainAt, LabelAt
    <2>2. PlainAt(mem, l) /\ mem[l].code = "label"
      BY <1>6, <2>1 DEF PlainAt, LabelAt
    <2>3. l # a
      BY <2>1, <2>2, <2>a
    <2>4. Listed(mem, S, l, {})
      BY <2>1, <2>2, <2>a DEF Exact
    <2>5. PICK u \in Seq(Node) : Chain(mem, mem[l].link, u) /\ Elems(u) = UsersOf(mem, S, l)
      BY <2>4 DEF Listed, Covers
    <2>6. ASSUME NEW n \in Elems(u) PROVE m[n].link = mem[n].link
      <3>1. n \in S /\ "node" \in mem[n].flag /\ mem[n].to = l
        BY <2>5, <2>6 DEF UsersOf
      <3>2. n \notin U /\ n # x /\ n # a
        BY <1>1, <1>2, <1>7, <2>1, <3>1
      <3>. QED
        BY <1>5, <1>6, <3>1, <3>2
    <2>7. m[l].link = mem[l].link
      <3>1. l \notin U
        BY <1>2, <1>a, <2>1, <2>2 DEF UsersOf
      <3>. QED
        BY <1>5, <1>6, <2>1, <2>3, <3>1
    <2>8. Chain(m, m[l].link, u)
      BY <2>5, <2>6, <2>7, ChainStays
    <2>9. Covers(Elems(u), UsersOf(m, S, l), {})
      BY <1>9, <2>1, <2>3, <2>5 DEF Covers
    <2>. QED
      BY <2>1, <2>8, <2>9 DEF Listed
  <1>15. Settled(f) /\ Settled(g) /\ Going(mem, S, f) /\ Going(m, S, g)
    BY <1>4, <1>b, <1>c, OnwardIs
  <1>16. Alias(f, g, x, a)
    <2>1. f[a] = x /\ g[a] = x
      BY <1>6, <1>15 DEF Going, Continuing
    <2>2. a \in Place
      BY Places
    <2>. QED
      BY <1>15, <2>1, <2>2, LandsOn DEF Alias
  <1>17. \A y : Alias(f, g, y, y)
    BY DEF Alias
  <1>18. ASSUME NEW n \in S, mem[n].code \in Aims PROVE Alias(f, g, mem[n].to, m[n].to)
    <2>1. "node" \in mem[n].flag
      BY <1>18 DEF Aimed
    <2>. QED
      BY <1>7, <1>16, <1>17, <2>1
  <1>19. ASSUME NEW n \in S, m[n].to # mem[n].to PROVE n \in U /\ mem[n].code \in Aims /\ mem[n].to = x /\ m[n].to = a
    <2>1. n \in U
      BY <1>5, <1>6, <1>19
    <2>2. "node" \in mem[n].flag
      BY <1>a, <2>1 DEF UsersOf
    <2>. QED
      BY <1>7, <2>1, <2>2 DEF Targets, Aims
  <1>20. Repoints(mem, m, S)
    BY <1>6, <1>19 DEF Repoints
  <1>21. ASSUME NEW n \in S, f[n] # g[n] PROVE f[n] # n /\ g[n] # n /\ Alias(f, g, f[n], g[n])
    <2>1. mem[n].code \in {"jmpi", "jmpr"}
      BY <1>6, <1>15, <1>21 DEF Going
    <2>2. mem[n].code = "jmpi"
      <3>1. mem[n].code = "jmpr" => m[n].to = mem[n].to
        BY <1>19 DEF Aims
      <3>. QED
        BY <1>6, <1>15, <1>21, <2>1, <3>1 DEF Going
    <2>3. f[n] = mem[n].to /\ g[n] = m[n].to
      BY <1>6, <1>15, <2>2 DEF Going
    <2>4. mem[n].to = x /\ m[n].to = a
      BY <1>19, <1>21, <2>3
    <2>5. n # x /\ n # a
      BY <1>1, <2>2
    <2>. QED
      BY <1>16, <2>3, <2>4, <2>5
  <1>22. MeaningAt(m, S, hd) = MeaningAt(mem, S, hd)
    BY <1>4, <1>18, <1>20, <1>21, <1>b, <1>c, RepointMeans
  <1>. QED
    BY <1>8, <1>11, <1>12, <1>13, <1>14, <1>22

\* MergeNextLabel.
LEMMA MergeNextMeans ==
  ASSUME Typed, NEW p \in Seq(Node), NEW q \in Seq(Node), ListsInv(p, q), StillMeant(Elems(p)),
         Typed', MergeNextLabel, phase' = "labels", NEW x, x = mem[node].next, NEW T, T = Elems(p) \ {x}
  PROVE  StillMeant(T)'
  <1>a. PICK S : S = Elems(p)
    OBVIOUS
  <1>b. PICK v : v = mem[x].next
    OBVIOUS
  <1>m. PICK m : m = Moved(x, node)
    OBVIOUS
  <1>c. PICK f : f = OnwardAt(m, S)
    OBVIOUS
  <1>d. PICK g : g = OnwardAt(mem', T)
    OBVIOUS
  <1>1. /\ phase = "labels" /\ node # NULL /\ DelLabel(m, node, x)
        /\ LabelAt(mem, node) /\ PlainAt(mem, x) /\ x # NULL /\ mem[x].code = "label" /\ mem[x].flag = {}
    BY <1>m DEF MergeNextLabel, Labelling, Plain, IsLabel, PlainAt, LabelAt
  <1>2. Path(mem, head, p) /\ Sound(mem) /\ Sound(mem') /\ S \in SUBSET Node /\ head \in 0 .. N /\ T = S \ {x}
    BY <1>a, ElemsOf DEF ListsInv, Lists, Typed
  <1>3. PICK i \in 1 .. Len(p) + 1 : LabelsInv(p, i)
    BY <1>1 DEF ListsInv
  <1>4. Whole(p) /\ node = Nth(p, i) /\ LabelsAt(mem, p, i, prev)
    BY <1>3 DEF LabelsInv
  <1>5. i \in 1 .. Len(p) /\ node = p[i] /\ Len(p) \in Nat /\ i \in Nat /\ i >= 1 /\ node \in S
    <2>1. i \in 1 .. Len(p) /\ node = p[i] /\ Len(p) \in Nat
      BY <1>1, <1>4, LenProperties DEF Nth
    <2>. QED
      BY <1>a, <2>1, ElemsOf
  <1>k. PICK k : k = i + 1
    OBVIOUS
  <1>6. k \in 1 .. Len(p) /\ x = p[k] /\ k # 1 /\ k - 1 = i /\ k > 1 /\ v = Nth(p, i + 2) /\ x \in S
    <2>1. x = Nth(p, k)
      BY <1>2, <1>5, <1>k DEF Path
    <2>2. k \in 1 .. Len(p) /\ x = p[k]
      BY <1>1, <2>1 DEF Nth
    <2>3. v = Nth(p, k + 1) /\ k + 1 = i + 2
      BY <1>2, <1>5, <1>b, <1>k, <2>2 DEF Path
    <2>. QED
      BY <1>5, <1>a, <1>k, <2>2, <2>3, ElemsOf
  <1>7. node = Before(p, k) /\ node # x
    <2>1. node = Before(p, k)
      BY <1>5, <1>6 DEF Before
    <2>2. i # k
      BY <1>5, <1>6
    <2>. QED
      BY <1>2, <1>5, <1>6, <2>1, <2>2 DEF Path, Once
  <1>8. Sound(m) /\ Relinks(mem, m)
    BY <1>2, <1>5, <1>6, <1>m, MovedIs
  <1>9. \A n \in S : n \in Node /\ m[n].code = mem[n].code /\ m[n].flag = mem[n].flag /\ m[n].next = mem[n].next
    BY <1>2, <1>8 DEF Relinks
  <1>10. /\ Skips(m, mem', S, x) /\ \A n \in S : n # x => mem'[n].link = m[n].link
         /\ head' = (IF head = x THEN v ELSE head) /\ meant' = meant
    BY <1>1, <1>2, <1>6, <1>7, <1>8, <1>a, <1>b, DelLabelSkips
  <1>11. /\ Targets(mem, S) /\ Aimed(mem, S) /\ meant = MeaningAt(mem, S, head)
         /\ Unlinked(mem, S) /\ Exact(mem, S, NULL)
    BY <1>1, <1>a DEF StillMeant
  <1>12. PrologNode \in S /\ PrologNode \in T /\ Closed(mem, S) /\ mem[node].code = "label"
    <2>1. PrologNode \in S /\ x # PrologNode
      BY <1>1, <1>2, <1>4, <1>a DEF Whole, Sound
    <2>. QED
      BY <1>1, <1>2, <1>a, <2>1, PathNodes DEF LabelAt
  <1>13. ASSUME NEW b \in S, LabelAt(mem, b), mem[b].next = node PROVE ~PlainAt(mem, node)
    <2>1. i > 1 /\ b = p[i - 1]
      BY <1>2, <1>5, <1>13, <1>a, PathNodes
    <2>2. i # 1
      BY <2>1
    <2>. QED
      BY <1>4, <1>5, <1>13, <2>1, <2>2 DEF LabelsAt
  <1>14. /\ Targets(m, S) /\ Aimed(m, S) /\ Unlinked(m, S) /\ Exact(m, S, x) /\ UsersOf(m, S, x) = {}
         /\ MeaningAt(m, S, head) = MeaningAt(mem, S, head)
    <2>1. \A b \in S : LabelAt(mem, b) /\ mem[b].next = node => ~PlainAt(mem, node)
      BY <1>13
    <2>2. PlainAt(mem, x) /\ x # node /\ Sound(mem) /\ S \in SUBSET Node /\ head \in 0 .. N
      BY <1>1, <1>2, <1>7
    <2>3. Targets(mem, S) /\ Aimed(mem, S) /\ Unlinked(mem, S) /\ Exact(mem, S, NULL)
      BY <1>11
    <2>4. PICK hd \in 0 .. N : hd = head
      BY <1>2
    <2>5. PrologNode \in S /\ Closed(mem, S) /\ mem[node].code = "label" /\ node \in S /\ x \in S /\ x = mem[node].next
          /\ m = Moved(x, node)
      BY <1>5, <1>6, <1>12, <1>m
    <2>6. /\ Targets(m, S) /\ Aimed(m, S) /\ Unlinked(m, S) /\ Exact(m, S, x) /\ UsersOf(m, S, x) = {}
          /\ MeaningAt(m, S, hd) = MeaningAt(mem, S, hd)
      BY <2>1, <2>2, <2>3, <2>4, <2>5, MovedMeans
    <2>. QED
      BY <2>4, <2>6
  <1>15. Skippable(m, S, x) /\ Closed(m, S)
    <2>1. v \in S \cup {NULL} /\ v # x /\ (v # NULL => mem[v].next # x)
      BY <1>2, <1>6, <1>a, <1>b, PathNodes DEF Closed
    <2>2. m[x].next = v /\ (v # NULL => m[v].next # x) /\ m[x].code = "label" /\ m[x].flag = {}
      BY <1>1, <1>6, <1>9, <1>b, <2>1
    <2>3. \A n \in S : m[n].code \in Aims => m[n].to # x
      BY <1>14 DEF Aimed, UsersOf
    <2>4. Closed(m, S)
      BY <1>9, <1>12 DEF Closed
    <2>. QED
      BY <1>6, <2>1, <2>2, <2>3, <2>4 DEF Skippable
  <1>16. ~PlainAt(m, v)
    <2>1. i \in i .. Len(p)
      BY <1>5
    <2>2. ~PlainAt(mem, v)
      <3>1. LabelAt(mem, p[i]) /\ PlainAt(mem, Nth(p, i + 1))
        BY <1>1, <1>2, <1>5 DEF Path
      <3>. QED
        BY <1>4, <1>6, <2>1, <3>1 DEF LabelsAt
    <2>3. v # NULL => v \in S
      BY <1>6, <1>12, <1>b DEF Closed
    <2>. QED
      BY <1>9, <2>2, <2>3 DEF PlainAt, LabelAt
  <1>17. MeaningAt(mem', T, head') = MeaningAt(m, S, head)
    <2>1. m[x].next = v /\ m[x].code = "label"
      BY <1>1, <1>6, <1>9, <1>b
    <2>2. f[x] = v
      <3>1. Going(m, S, f)
        BY <1>2, <1>8, <1>12, <1>c, OnwardIs
      <3>. QED
        BY <1>6, <2>1, <3>1 DEF Going, Continuing
    <2>. QED
      BY <1>2, <1>8, <1>10, <1>12, <1>15, <1>c, <1>d, <2>1, <2>2, SkipMeans
  <1>18. Targets(mem', T) /\ Aimed(mem', T) /\ Unlinked(mem', T) /\ Exact(mem', T, NULL)
    <2>1. m[x].next = v /\ m[x].code = "label"
      BY <1>1, <1>6, <1>9, <1>b
    <2>2. \A b \in S : LabelAt(m, b) /\ m[b].next = x => ~PlainAt(m, m[x].next)
      BY <1>16, <2>1
    <2>3. Skips(m, mem', S, x) /\ \A n \in S : n # x => mem'[n].link = m[n].link
      BY <1>10
    <2>. QED
      BY <1>2, <1>14, <1>15, <2>1, <2>2, <2>3, DeletedStays
  <1>19. meant' = MeaningAt(mem', T, head')
    BY <1>10, <1>11, <1>14, <1>17
  <1>. QED
    BY <1>18, <1>19 DEF StillMeant

\* Only slots change: EndLabelling and KeepBlock; or nothing of the memory does.
LEMMA SlotsMean ==
  ASSUME Typed, Typed', NEW S \in SUBSET Node, PrologNode \in S, StillMeant(S), head' = head, meant' = meant,
         \A n \in S : /\ mem'[n].code = mem[n].code /\ mem'[n].flag = mem[n].flag
                      /\ mem'[n].to = mem[n].to /\ mem'[n].next = mem[n].next,
         phase' # "labels" \/ (phase = "labels" /\ mem' = mem)
  PROVE  StillMeant(S)'
  <1>a. PICK f : f = OnwardAt(mem, S)
    OBVIOUS
  <1>b. PICK g : g = OnwardAt(mem', S)
    OBVIOUS
  <1>1. Targets(mem, S) /\ Aimed(mem, S) /\ meant = MeaningAt(mem, S, head)
    BY DEF StillMeant
  <1>2. Sound(mem) /\ Sound(mem') /\ head \in 0 .. N
    BY DEF Typed
  <1>3. Going(mem, S, f) /\ Going(mem', S, g)
    BY <1>2, <1>a, <1>b, OnwardIs
  <1>4. \A n \in S : f[n] = g[n]
    BY <1>3 DEF Going
  <1>5. \A y : Alias(f, g, y, y)
    BY DEF Alias
  <1>6. Repoints(mem, mem', S)
    BY DEF Repoints
  <1>7. MeaningAt(mem', S, head) = MeaningAt(mem, S, head)
    BY <1>2, <1>4, <1>5, <1>6, <1>a, <1>b, RepointMeans
  <1>8. Targets(mem', S) /\ Aimed(mem', S)
    BY <1>1 DEF Targets, Aimed
  <1>9. meant' = MeaningAt(mem', S, head')
    BY <1>1, <1>7
  <1>10. phase' = "labels" => Unlinked(mem', S) /\ Exact(mem', S, NULL)
    BY DEF StillMeant
  <1>. QED
    BY <1>8, <1>9, <1>10 DEF StillMeant

\* SplitBlock: whatever came to the node behind the jump still does.
LEMMA SplitMeans ==
  ASSUME Typed, NEW p \in Seq(Node), NEW q \in Seq(Node), ListsInv(p, q), StillMeant(Elems(p)), Typed', SplitBlock,
         NEW T, T = Elems(p) \cup {list}
  PROVE  StillMeant(T)'
  <1>a. PICK S : S = Elems(p)
    OBVIOUS
  <1>b. PICK v : v = Ahead
    OBVIOUS
  <1>x. PICK x : x = list
    OBVIOUS
  <1>c. PICK f : f = OnwardAt(mem, S)
    OBVIOUS
  <1>d. PICK g : g = OnwardAt(mem', T)
    OBVIOUS
  <1>1. /\ phase = "split" /\ phase' = "split" /\ head' = head /\ meant' = meant /\ mem[node].code \in Jump
        /\ mem[node].next = v
    BY <1>b DEF SplitBlock, Splitting, AtBranch, Ahead
  <1>2. /\ node \in S /\ x \in Node /\ x \notin S /\ v \in S /\ \A n \in S : mem[n].next = v <=> n = node
        /\ mem'[x].code = "label" /\ mem'[x].flag = {} /\ mem'[x].next = v
        /\ \A n \in Node \ {x} : /\ mem'[n].code = mem[n].code /\ mem'[n].flag = mem[n].flag
                                 /\ mem'[n].to = mem[n].to
                                 /\ mem'[n].next = IF n = node THEN x ELSE mem[n].next
    BY <1>a, <1>b, <1>x, SplitBlockStep
  <1>3. /\ Path(mem, head, p) /\ Sound(mem) /\ Sound(mem') /\ S \in SUBSET Node /\ head \in 0 .. N
        /\ T = S \cup {x} /\ T \in SUBSET Node
    BY <1>2, <1>a, <1>x, ElemsOf DEF ListsInv, Lists, Typed
  <1>4. PrologNode \in S /\ Closed(mem, S) /\ head \in S \cup {NULL}
    <2>1. Whole(p)
      BY <1>1 DEF ListsInv, SplitInv
    <2>. QED
      BY <1>3, <1>a, <2>1, PathNodes DEF Whole
  <1>5. Targets(mem, S) /\ Aimed(mem, S) /\ meant = MeaningAt(mem, S, head)
    BY <1>a DEF StillMeant
  <1>6. Settled(f) /\ Settled(g) /\ Going(mem, S, f) /\ Going(mem', T, g)
    BY <1>3, <1>4, <1>c, <1>d, OnwardIs
  <1>7. ASSUME NEW n \in S, mem[n].code \in Aims PROVE mem[n].to \in S /\ mem[n].to # x
    BY <1>2, <1>5, <1>7 DEF Aimed, Targets
  <1>8. ASSUME NEW n \in S PROVE n \in Node \ {x} /\ n \in T /\ mem[n].next \in S \cup {NULL} /\ mem[n].next # x
    <2>1. mem[n].next \in S \cup {NULL} /\ x # NULL
      BY <1>2, <1>4, Numbers DEF Closed
    <2>. QED
      BY <1>2, <1>3, <2>1
  <1>9. ASSUME NEW n \in S PROVE g[n] = f[n] /\ f[n] # x
    <2>1. mem'[n].code = mem[n].code /\ mem'[n].to = mem[n].to /\ n \in T /\ n # x
      BY <1>2, <1>8
    <2>2. CASE mem[n].code \in Continuing
      <3>1. n # node
        BY <1>1, <2>2 DEF Jump, Continuing
      <3>2. mem'[n].next = mem[n].next
        BY <1>2, <1>8, <3>1
      <3>. QED
        BY <1>6, <1>8, <2>1, <2>2, <3>2 DEF Going
    <2>3. CASE mem[n].code = "jmpi"
      BY <1>6, <1>7, <2>1, <2>3 DEF Going, Aims
    <2>4. CASE mem[n].code = "jmpr"
      <3>1. f[n] \in {Reg, Lost} /\ g[n] = f[n]
        BY <1>6, <2>1, <2>4 DEF Going
      <3>. QED
        BY <1>2, <3>1, Places
    <2>5. CASE mem[n].code \notin Continuing \cup {"jmpi", "jmpr"}
      BY <1>6, <2>1, <2>5 DEF Going
    <2>. QED
      BY <2>2, <2>3, <2>4, <2>5
  <1>10. g[x] = v /\ v # x /\ f[x] = Lost /\ x \in Place /\ v \in Place
    <2>1. x \in T /\ v \in Node
      BY <1>2, <1>3
    <2>. QED
      BY <1>2, <1>3, <1>6, <2>1, Places DEF Going, Continuing
  <1>11. Bypassed(g, f, x, v)
    <2>1. ASSUME NEW y \in Place, y # x PROVE f[y] = IF g[y] = x THEN v ELSE g[y]
      <3>1. CASE y \in S
        BY <1>9, <3>1
      <3>2. CASE y \in Node /\ y \notin S
        <4>1. f[y] = Lost /\ g[y] = Lost
          BY <1>3, <1>6, <2>1, <3>2 DEF Going
        <4>. QED
          BY <1>2, <4>1, Places
      <3>3. CASE y \notin Node
        <4>1. f[y] = g[y] /\ g[y] \in {Lost, y}
          BY <1>6, <3>3 DEF Going
        <4>. QED
          BY <1>2, <2>1, <4>1, Places
      <3>. QED
        BY <3>1, <3>2, <3>3
    <2>2. g[v] # x
      BY <1>2, <1>9
    <2>3. Landing(v, g) = Landing(x, g)
      BY <1>6, <1>10, LandsOn
    <2>. QED
      BY <1>2, <1>10, <2>1, <2>2, <2>3 DEF Bypassed
  <1>12. Landing(x, g) = Landing(v, f) /\ \A n \in Place : n # x => Landing(n, g) = Landing(n, f)
    <2>1. /\ Landing(v, f) = Landing(x, g) /\ \A n \in Place : n # x => Landing(n, f) = Landing(n, g)
      BY <1>6, <1>11, BypassLands
    <2>. QED
      BY <2>1
  <1>13. ASSUME NEW n \in S \cup {NULL} PROVE Landing(n, g) = Landing(n, f)
    <2>1. n \in Place /\ n # x
      BY <1>2, <1>3, Places, Numbers
    <2>. QED
      BY <1>12, <2>1
  <1>14. ASSUME NEW n \in Node PROVE MeansAt(mem', T, g, n) = MeansAt(mem, S, f, n)
    <2>1. CASE n \in S
      <3>1. Same(mem, mem', f, g, n)
        <4>1. mem'[n].code = mem[n].code /\ mem'[n].flag = mem[n].flag /\ mem'[n].to = mem[n].to
          BY <1>2, <1>8, <2>1
        <4>2. Landing(mem'[n].next, g) = Landing(mem[n].next, f)
          <5>1. CASE n = node
            BY <1>1, <1>2, <1>8, <1>12, <2>1, <5>1
          <5>2. CASE n # node
            BY <1>2, <1>8, <1>13, <2>1, <5>2
          <5>. QED
            BY <5>1, <5>2
        <4>3. mem[n].code \in Aims => Landing(mem'[n].to, g) = Landing(mem[n].to, f)
          BY <1>7, <1>13, <2>1, <4>1
        <4>4. Landing(n, g) = Landing(n, f)
          BY <1>13, <2>1
        <4>. QED
          BY <4>1, <4>2, <4>3, <4>4 DEF Same, Aims
      <3>. QED
        BY <1>8, <2>1, <3>1, MeansSame
    <2>2. CASE n = x
      BY <1>2, <2>2 DEF MeansAt
    <2>3. CASE n \notin S /\ n # x
      BY <1>3, <2>3 DEF MeansAt
    <2>. QED
      BY <2>1, <2>2, <2>3
  <1>15. MeaningAt(mem', T, head) = MeaningAt(mem, S, head)
    <2>1. Landing(head, g) = Landing(head, f)
      BY <1>4, <1>13
    <2>a. PICK m : m = mem
      OBVIOUS
    <2>b. PICK m2 : m2 = mem'
      OBVIOUS
    <2>c. PICK h : h = head
      OBVIOUS
    <2>2. \A n \in Node : MeansAt(m2, T, g, n) = MeansAt(m, S, f, n)
      BY <1>14, <2>a, <2>b
    <2>3. f = OnwardAt(m, S) /\ g = OnwardAt(m2, T) /\ Landing(h, g) = Landing(h, f)
      BY <1>c, <1>d, <2>1, <2>a, <2>b, <2>c
    <2>4. MeaningAt(m2, T, h) = MeaningAt(m, S, h)
      <3>1. ASSUME NEW n \in 0 .. N
            PROVE  (IF n = 0 THEN <<Landing(h, g)>> ELSE MeansAt(m2, T, g, n))
                     = (IF n = 0 THEN <<Landing(h, f)>> ELSE MeansAt(m, S, f, n))
        <4>1. n # 0 => n \in Node
          BY Numbers
        <4>. QED
          BY <2>2, <2>3, <4>1
      <3>2. MeaningAt(m2, T, h) = [n \in 0 .. N |-> IF n = 0 THEN <<Landing(h, g)>> ELSE MeansAt(m2, T, g, n)]
        BY <2>3 DEF MeaningAt
      <3>3. MeaningAt(m, S, h) = [n \in 0 .. N |-> IF n = 0 THEN <<Landing(h, f)>> ELSE MeansAt(m, S, f, n)]
        BY <2>3 DEF MeaningAt
      <3>. QED
        BY <3>1, <3>2, <3>3, Zenon
    <2>. QED
      BY <2>4, <2>a, <2>b, <2>c
  <1>16. Targets(mem', T)
    <2>. SUFFICES ASSUME NEW n \in T, "node" \in mem'[n].flag
                  PROVE  mem'[n].code \in {"movi", "jmpi", "branch", "reversed"} /\ mem'[n].to \in T
                         /\ mem'[mem'[n].to].code \in Ends
      BY DEF Targets
    <2>1. n \in S
      BY <1>2, <1>3
    <2>2. mem'[n].code = mem[n].code /\ mem'[n].flag = mem[n].flag /\ mem'[n].to = mem[n].to
      BY <1>2, <1>8, <2>1
    <2>3. mem[n].code \in {"movi", "jmpi", "branch", "reversed"} /\ mem[n].to \in S /\ mem[mem[n].to].code \in Ends
      BY <1>5, <2>1, <2>2 DEF Targets
    <2>4. mem'[mem[n].to].code = mem[mem[n].to].code
      BY <1>2, <1>8, <2>3
    <2>. QED
      BY <1>3, <2>2, <2>3, <2>4
  <1>17. Aimed(mem', T)
    <2>. SUFFICES ASSUME NEW n \in T, mem'[n].code \in Aims PROVE "node" \in mem'[n].flag
      BY DEF Aimed
    <2>1. n \in S
      BY <1>2, <1>3 DEF Aims
    <2>2. mem'[n].code = mem[n].code /\ mem'[n].flag = mem[n].flag
      BY <1>2, <1>8, <2>1
    <2>. QED
      BY <1>5, <2>1, <2>2 DEF Aimed
  <1>. QED
    BY <1>1, <1>5, <1>15, <1>16, <1>17 DEF StillMeant

(***************************************************************************)
(* From the end of thread_jumps on, with a tame program, it means what it  *)
(* meant.                                                                  *)
(***************************************************************************)
LabelsOK ==
  phase \in {"labels", "split", "done"} /\ tame =>
    Typed /\ \E p, q \in Seq(Node) : ListsInv(p, q) /\ StillMeant(Elems(p))

\* A slot is given.
LEMMA SlotGiven ==
  ASSUME NEW m \in [Node -> Fields], NEW x, NEW v, NEW m2, m2 = [m EXCEPT ![x].slot = v]
  PROVE  \A n \in Node : m2[n].code = m[n].code /\ m2[n].flag = m[n].flag /\ m2[n].to = m[n].to
                         /\ m2[n].next = m[n].next
  <1>. SUFFICES ASSUME NEW n \in Node
                PROVE  m2[n].code = m[n].code /\ m2[n].flag = m[n].flag /\ m2[n].to = m[n].to
                       /\ m2[n].next = m[n].next
    OBVIOUS
  <1>1. m[n] \in Fields
    OBVIOUS
  <1>2. m2[n] = IF n = x THEN [m[n] EXCEPT !.slot = v] ELSE m[n]
    OBVIOUS
  <1>3. CASE n = x
    <2>1. m2[n] = [m[n] EXCEPT !.slot = v]
      BY <1>2, <1>3
    <2>. QED
      BY <1>1, <2>1 DEF Fields
  <1>4. CASE n # x
    BY <1>2, <1>4
  <1>. QED
    BY <1>3, <1>4

\* The steps of the two passes that delete and add no label.
LEMMA StillMeantStep ==
  ASSUME Typed, NEW p \in Seq(Node), NEW q \in Seq(Node), ListsInv(p, q), StillMeant(Elems(p)),
         NextLabel \/ EndLabelling \/ KeepBlock \/ NextBlock \/ EndSplitting
  PROVE  Typed' /\ ListsInv(p, q)' /\ StillMeant(Elems(p))'
  <1>a. PICK S : S = Elems(p)
    OBVIOUS
  <1>1. Typed' /\ ListsInv(p, q)'
    BY NextLabelStep, EndLabellingStep, KeepBlockStep, NextBlockStep, EndSplittingStep
  <1>2. mem \in [Node -> Fields] /\ S \in SUBSET Node
    BY <1>a, ElemsOf DEF Typed, Sound
  <1>3. phase \in {"labels", "split"} /\ (phase' = "labels" => phase = "labels" /\ mem' = mem)
        /\ head' = head /\ meant' = meant
    BY DEF NextLabel, EndLabelling, KeepBlock, NextBlock, EndSplitting, Labelling, Splitting
  <1>4. PrologNode \in S
    BY <1>3, <1>a DEF ListsInv, LabelsInv, SplitInv, Whole
  <1>5. mem' = mem \/ \E x, v : mem' = [mem EXCEPT ![x].slot = v]
    <2>1. KeepBlock => mem' = [mem EXCEPT ![Ahead].slot = Len(split)]
      BY DEF KeepBlock
    <2>2. EndLabelling => mem' = mem \/ mem' = [mem EXCEPT ![head].slot = 0]
      BY DEF EndLabelling
    <2>3. NextLabel \/ NextBlock \/ EndSplitting => mem' = mem
      BY DEF NextLabel, NextBlock, EndSplitting
    <2>4. KeepBlock => \E x, v : mem' = [mem EXCEPT ![x].slot = v]
      BY <2>1
    <2>5. EndLabelling => mem' = mem \/ \E x, v : mem' = [mem EXCEPT ![x].slot = v]
      BY <2>2
    <2>. QED
      BY <2>3, <2>4, <2>5
  <1>6. \A n \in Node : /\ mem'[n].code = mem[n].code /\ mem'[n].flag = mem[n].flag
                        /\ mem'[n].to = mem[n].to /\ mem'[n].next = mem[n].next
    <2>1. CASE mem' = mem
      BY <2>1
    <2>2. CASE mem' # mem
      <3>1. PICK x, v : mem' = [mem EXCEPT ![x].slot = v]
        BY <1>5, <2>2
      <3>. QED
        BY <1>2, <3>1, SlotGiven
    <2>. QED
      BY <2>1, <2>2
  <1>7. \A n \in S : /\ mem'[n].code = mem[n].code /\ mem'[n].flag = mem[n].flag
                     /\ mem'[n].to = mem[n].to /\ mem'[n].next = mem[n].next
    BY <1>2, <1>6
  <1>8. StillMeant(S)
    BY <1>a
  <1>9. StillMeant(S)'
    BY <1>1, <1>2, <1>3, <1>4, <1>7, <1>8, SlotsMean
  <1>. QED
    BY <1>1, <1>9, <1>a

\* All the steps of the two.
LEMMA LabelsPassStep ==
  ASSUME Typed, NEW p \in Seq(Node), NEW q \in Seq(Node), ListsInv(p, q), StillMeant(Elems(p)),
         phase \in {"labels", "split", "done"}, phase' \in {"labels", "split", "done"}, Passes
  PROVE  Typed' /\ \E r, s \in Seq(Node) : ListsInv(r, s)' /\ StillMeant(Elems(r))'
  <1>1. \/ DropLabel \/ MergeLabel \/ MergeNextLabel \/ SplitBlock
        \/ NextLabel \/ EndLabelling \/ KeepBlock \/ NextBlock \/ EndSplitting
    <2>1. ~Threading /\ ~EndThreading
      BY DEF Threading, EndThreading
    <2>. QED
      BY <2>1 DEF Passes, RedundantJump, ReverseJump, ShortcutJump, ShortcutToRegister, NextNode
  <1>2. CASE DropLabel
    <2>1. phase' = "labels"
      BY <1>2 DEF DropLabel, Labelling, DelLabel, Stop
    <2>2. PICK r \in Seq(Node), s \in Seq(Node) : Typed' /\ ListsInv(r, s)' /\ Elems(r) = Elems(p) \ {node}
      BY <1>2, <2>1, DropStep
    <2>a. PICK T : T = Elems(p) \ {node}
      OBVIOUS
    <2>3. StillMeant(T)'
      BY <1>2, <2>1, <2>2, <2>a, DropMeans
    <2>4. T = Elems(r)
      BY <2>2, <2>a
    <2>5. StillMeant(Elems(r))'
      BY <2>3, <2>4
    <2>. QED
      BY <2>2, <2>5
  <1>3. CASE MergeLabel
    BY <1>3, MergeStep
  <1>4. CASE MergeNextLabel
    <2>1. phase' = "labels"
      BY <1>4 DEF MergeNextLabel, Labelling, DelLabel, Stop
    <2>b. PICK x : x = mem[node].next
      OBVIOUS
    <2>2. PICK r \in Seq(Node), s \in Seq(Node) : Typed' /\ ListsInv(r, s)' /\ Elems(r) = Elems(p) \ {x}
      BY <1>4, <2>1, <2>b, MergeNextStep
    <2>a. PICK T : T = Elems(p) \ {x}
      OBVIOUS
    <2>3. StillMeant(T)'
      BY <1>4, <2>1, <2>2, <2>a, <2>b, MergeNextMeans
    <2>4. T = Elems(r)
      BY <2>2, <2>a
    <2>5. StillMeant(Elems(r))'
      BY <2>3, <2>4
    <2>. QED
      BY <2>2, <2>5
  <1>5. CASE SplitBlock
    <2>b. PICK x : x = list
      OBVIOUS
    <2>2. PICK r \in Seq(Node), s \in Seq(Node) : Typed' /\ ListsInv(r, s)' /\ Elems(r) = Elems(p) \cup {x}
      BY <1>5, <2>b, SplitBlockStep
    <2>a. PICK T : T = Elems(p) \cup {x}
      OBVIOUS
    <2>3. T = Elems(p) \cup {list}
      BY <2>a, <2>b
    <2>4. StillMeant(T)'
      BY <1>5, <2>2, <2>3, SplitMeans
    <2>5. T = Elems(r)
      BY <2>2, <2>a
    <2>6. StillMeant(Elems(r))'
      BY <2>4, <2>5
    <2>. QED
      BY <2>2, <2>6
  <1>6. CASE NextLabel \/ EndLabelling \/ KeepBlock \/ NextBlock \/ EndSplitting
    <2>1. Typed' /\ ListsInv(p, q)' /\ StillMeant(Elems(p))'
      BY <1>6, StillMeantStep
    <2>. QED
      BY <2>1
  <1>. QED
    BY <1>1, <1>2, <1>3, <1>4, <1>5, <1>6

\* Each step keeps the meaning of a tame program.
LEMMA LabelsMeantStep ==
  ASSUME ThreadOK, LabelsOK, [Next]_vars
  PROVE  LabelsOK'
  <1>. SUFFICES ASSUME phase' \in {"labels", "split", "done"}, tame'
                PROVE  Typed' /\ \E r, s \in Seq(Node) : ListsInv(r, s)' /\ StillMeant(Elems(r))'
    BY DEF LabelsOK
  <1>1. CASE UNCHANGED vars
    <2>1. UNCHANGED <<mem, head, tail, list, blocks, phase, prev, node, split, meant, tame>>
      BY <1>1 DEF vars
    <2>2. PICK p \in Seq(Node), q \in Seq(Node) : Typed /\ ListsInv(p, q) /\ StillMeant(Elems(p))
      BY <2>1 DEF LabelsOK
    <2>3. Typed'
      BY <2>1, <2>2 DEF Typed
    <2>4. ListsInv(p, q)'
      BY <2>1, <2>2 DEF ListsInv, Lists, BuildInv, ThreadInv, LabelsInv, SplitInv, DoneInv
    <2>5. StillMeant(Elems(p))'
      BY <2>1, <2>2 DEF StillMeant
    <2>. QED
      BY <2>3, <2>4, <2>5
  <1>2. CASE Next
    <2>1. phase' \notin {"build", "thread"}
      OBVIOUS
    <2>2. (tame \/ phase \in {"build", "thread"}) /\ (EndThreading => Tame)
      BY <1>2, <2>1, TameStep
    <2>3. ~Build /\ ~Optimize
      <3>1. Build => phase' = phase /\ phase = "build"
        BY BuildFirst DEF Build, Insn, Prolog, Forward, Epilog, Label, PatchAt
      <3>2. Optimize => phase' = "thread"
        BY DEF Optimize
      <3>. QED
        BY <3>1, <3>2
    <2>4. CASE EndThreading
      <3>1. phase = "thread" /\ Tame
        BY <2>2, <2>4 DEF EndThreading
      <3>2. PICK p \in Seq(Node), q \in Seq(Node) : Typed /\ ListsInv(p, q) /\ UsersInv(Elems(p)) /\ MeantInv(Elems(p))
        BY <3>1 DEF ThreadOK
      <3>3. Typed' /\ ListsInv(p, q)'
        BY <2>4, <3>1, <3>2, EndThreadingStep
      <3>4. StillMeant(Elems(p))'
        BY <2>4, <3>1, <3>2, EndThreadingMeans
      <3>. QED
        BY <3>3, <3>4
    <2>5. CASE ~EndThreading
      <3>1. Passes
        BY <1>2, <2>3 DEF Next
      <3>2. phase \in {"labels", "split", "done"}
        <4>1. Threading => phase' \notin {"labels", "split", "done"} \/ ~Passes
          BY <2>5 DEF Passes, RedundantJump, ReverseJump, ShortcutJump, ShortcutToRegister, NextNode, Threading, Stop,
               DropLabel, MergeLabel, MergeNextLabel, NextLabel, Labelling, EndLabelling,
               KeepBlock, SplitBlock, NextBlock, Splitting, EndSplitting
        <4>2. ~Threading
          BY <3>1, <4>1
        <4>. QED
          BY <2>5, <3>1, <4>2 DEF Passes, RedundantJump, ReverseJump, ShortcutJump, ShortcutToRegister, NextNode,
               DropLabel, MergeLabel, MergeNextLabel, NextLabel, Labelling, EndLabelling,
               KeepBlock, SplitBlock, NextBlock, Splitting, EndSplitting
      <3>3. tame
        BY <2>2, <3>2
      <3>4. PICK p \in Seq(Node), q \in Seq(Node) : Typed /\ ListsInv(p, q) /\ StillMeant(Elems(p))
        BY <3>2, <3>3 DEF LabelsOK
      <3>. QED
        BY <3>1, <3>2, <3>4, LabelsPassStep
    <2>. QED
      BY <2>4, <2>5
  <1>. QED
    BY <1>1, <1>2

(***************************************************************************)
(* sequential_labels and split_branches leave the program with the meaning *)
(* it had too, if thread_jumps left it tame: a label that is taken out has *)
(* no jumps to it, or they are made to go to the label before it, which    *)
(* they came to next; and the labels that begin the new blocks are on the  *)
(* way to where the jumps go on anyway.                                    *)
(***************************************************************************)
THEOREM LabelsMeanTheSame == Spec => []LabelsKeepMeaning
  <1>1. Init => ThreadOK /\ LabelsOK
    BY InitUsers DEF Init, LabelsOK
  <1>2. ThreadOK /\ LabelsOK /\ [Next]_vars => (ThreadOK /\ LabelsOK)'
    BY UsersStep, LabelsMeantStep
  <1>3. ThreadOK /\ LabelsOK => LabelsKeepMeaning
    <2>. SUFFICES ASSUME LabelsOK, phase \in {"labels", "split", "done"}, tame
                  PROVE  meant = Meaning
      BY DEF LabelsKeepMeaning
    <2>1. PICK p \in Seq(Node), q \in Seq(Node) : Typed /\ ListsInv(p, q) /\ StillMeant(Elems(p))
      BY DEF LabelsOK
    <2>2. Path(mem, head, p) /\ mem \in [Node -> Fields]
      BY <2>1 DEF ListsInv, Lists, Typed, Sound
    <2>3. Program = Elems(p)
      BY <2>2, ReachedIs DEF Program
    <2>. QED
      BY <2>1, <2>3, MeaningIs DEF StillMeant
  <1>. QED
    BY <1>1, <1>2, <1>3, PTL DEF Spec
=============================================================================
