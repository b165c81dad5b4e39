------------------------------ MODULE DataPool ------------------------------
(***************************************************************************)
(* jit_data: the constants of a program.  They lie one after another in a  *)
(* pool of bytes that grows, and are found again in a hash table.  A node  *)
(* stands for a constant; it is named by its number.  Nodes chained in the *)
(* table are a set, as at most one of them is looked for.                  *)
(***************************************************************************)
EXTENDS Integers, Sequences, FiniteSets

CONSTANTS
  Constants, \* sequences of bytes
  Length,    \* how many bytes each has
  Hash,      \* hash_data
  Page,      \* 4096
  TableSize  \* 16

ASSUME PoolAssumption ==
  /\ Length \in [Constants -> Nat \ {0}] /\ Hash \in [Constants -> Nat]
  /\ Page \in Nat /\ Page >= 16 /\ Page % 8 = 0 /\ TableSize \in Nat \ {0}

VARIABLES
  nodes,  \* the nodes of code jit_code_data: a constant and its place
  offset, \* _jitc->data.offset
  length, \* _jit->data.length, the length of the pool
  table,  \* _jitc->data.table
  size,   \* _jitc->data.size
  asked   \* constants asked for so far, with the alignment (history)

poolVars == <<nodes, offset, length, table, size, asked>>

PoolInit ==
  /\ nodes = <<>> /\ offset = 0 /\ length = 0 /\ asked = {}
  /\ size = TableSize /\ table = [b \in 0..size - 1 |-> {}]

-----------------------------------------------------------------------------
Rounded(x, n) == ((x + n - 1) \div n) * n

\* x & -4095 clears all bits of an offset in a page but the first one.
Paged(x) == ((x \div Page) * Page) + (x % 2)

(***************************************************************************)
(* There is room for one more constant behind the next multiple of 8, also *)
(* if the constant turns out to be there already.                          *)
(***************************************************************************)
BugGrown(c) == IF Rounded(offset, 8) + Length[c] > length
               THEN Paged(length + Length[c]) ELSE length

Grown(c) == IF Rounded(offset, 8) + Length[c] > length
            THEN Paged(length + Length[c] + Page) ELSE length

Bucket(c, n) == Hash[c] % n
Found(c) == {i \in table[Bucket(c, size)] : nodes[i].data = c}

\* The node that jit_data returns.
New == Len(nodes) + 1
Node(c) == IF Found(c) = {} THEN New ELSE CHOOSE i \in Found(c) : TRUE

Boundary(c, align) == LET a == IF align = 0 THEN Length[c] ELSE align IN
  IF a =< 2 THEN (IF a = 0 THEN 1 ELSE a) ELSE IF a =< 4 THEN 4 ELSE 8

BugStart(c, align) == offset
Start(c, align) == Rounded(offset, Boundary(c, align))

(***************************************************************************)
(* The table doubles when more than three quarters of it are used.         *)
(***************************************************************************)
Full == New > size \div 2 + size \div 4

Chained(c) == table' = [table EXCEPT ![Bucket(c, size)] = @ \cup {New}] /\ size' = size

BugRehashed(c) ==
  /\ size' = 2 * size
  /\ table' = [b \in 0..size' - 1 |-> IF b < size THEN table[b] \cup {New} ELSE {}]

BugForgotten(c) ==
  /\ size' = size
  /\ table' = [b \in 0..2 * size - 1 |-> {i \in DOMAIN nodes' : Bucket(nodes'[i].data, 2 * size) = b}]

Rehashed(c) ==
  /\ size' = 2 * size
  /\ LET all == {New} \cup UNION {table[b] : b \in 0..size - 1}
     IN table' = [b \in 0..size' - 1 |-> {i \in all : Bucket(nodes'[i].data, size') = b}]

Ask(c, align) == asked' = asked \cup {<<c, align>>} /\ length' = Grown(c)

Share(c, align) ==
  /\ Found(c) # {} /\ Ask(c, align)
  /\ UNCHANGED <<nodes, offset, table, size>>

Add(c, align) ==
  /\ Found(c) = {} /\ Ask(c, align)
  /\ nodes' = Append(nodes, [data |-> c, at |-> Start(c, align)])
  /\ offset' = Start(c, align) + Length[c]
  /\ IF Full THEN Rehashed(c) ELSE Chained(c)

Data(c, align) == Share(c, align) \/ Add(c, align)

\* What the library asks for: names, floats and doubles.
Alignments(c) == {1} \cup ({4, 8} \cap {Length[c]})
PoolNext == \E c \in Constants : \E align \in Alignments(c) : Data(c, align)
PoolSpec == PoolInit /\ [][PoolNext]_poolVars

-----------------------------------------------------------------------------
Places == {<<nodes[i].data, nodes[i].at>> : i \in DOMAIN nodes}

(***************************************************************************)
(* The pool implements ConstantTable: asking again finds the same place,   *)
(* through growth and rehashing, and constants do not overlap.             *)
(***************************************************************************)
Table == INSTANCE ConstantTable WITH placed <- Places
OnePlaceEach == Table!Spec

(***************************************************************************)
(* Each constant fits in the pool.  The pool may have an odd length, and   *)
(* the next multiple of 8 be behind its end, so that it grows by a few     *)
(* bytes less than asked for; but constants that are aligned are short.    *)
(***************************************************************************)
Fits == offset =< length

(***************************************************************************)
(* A constant that is asked for with one alignment only has it.  With      *)
(* more, the first one counts: a string may be found as a double.          *)
(***************************************************************************)
AlignedIfOnce == \A i \in DOMAIN nodes : \A p \in asked :
  p[1] = nodes[i].data /\ (\A q \in asked : q[1] = p[1] => q = p) => nodes[i].at % p[2] = 0
=============================================================================
