--------------------------- MODULE DataPoolProofs ---------------------------
(***************************************************************************)
(* Proofs about DataPool: for every set of constants, every hash function  *)
(* and every size of pages and of the table.                               *)
(***************************************************************************)
EXTENDS DataPool, TLAPS

Sizes == {1, 4, 8}
NodeSet == [data : Constants, at : Nat]

(***************************************************************************)
(* The types of the pool.                                                  *)
(***************************************************************************)
PoolTyped ==
  /\ nodes \in Seq(NodeSet) /\ offset \in Nat /\ length \in Nat /\ size \in Nat \ {0}
  /\ table \in [0..size - 1 -> SUBSET (1..Len(nodes))]
  /\ asked \subseteq Constants \X Sizes

(***************************************************************************)
(* Each node is in its bucket, so that a constant is never added again,    *)
(* and lies in front of offset.                                            *)
(***************************************************************************)
InBuckets == \A i \in 1..Len(nodes) : i \in table[Bucket(nodes[i].data, size)]
Distinct  == \A i, j \in 1..Len(nodes) : nodes[i].data = nodes[j].data => i = j
InFront   == \A i \in 1..Len(nodes) : nodes[i].at + Length[nodes[i].data] =< offset

(***************************************************************************)
(* A node has the alignment of the call that added it.                     *)
(***************************************************************************)
Asked == \A i \in 1..Len(nodes) :
  \E a \in Sizes : <<nodes[i].data, a>> \in asked /\ nodes[i].at % a = 0

(***************************************************************************)
(* The length of the pool, for all that & -4095 does to it.                *)
(***************************************************************************)
Long == length % Page \in {0, 1}

PoolInv == PoolTyped /\ InBuckets /\ Distinct /\ InFront /\ Asked /\ Long /\ Fits

-----------------------------------------------------------------------------
(***************************************************************************)
(* What rounding does.                                                     *)
(***************************************************************************)
LEMMA RoundedBounds ==
  ASSUME NEW x \in Nat, NEW k \in Sizes
  PROVE  /\ Rounded(x, k) \in Nat /\ Rounded(x, k) % k = 0
         /\ x =< Rounded(x, k) /\ Rounded(x, k) =< Rounded(x, 8) /\ Rounded(x, 8) =< x + 7
  BY DEF Rounded, Sizes

LEMMA RoundedToOne == ASSUME NEW x \in Nat PROVE Rounded(x, 1) = x
  BY DEF Rounded

LEMMA InTable == \A a \in Nat, n \in Nat \ {0} : a % n \in 0..n - 1
  OBVIOUS

LEMMA Division ==
  \A a \in Nat, n \in Nat \ {0} : a = n * (a \div n) + (a % n) /\ a \div n \in Nat
  OBVIOUS

LEMMA PagedBounds ==
  ASSUME NEW x \in Nat
  PROVE  Paged(x) \in Nat /\ Paged(x) % Page \in {0, 1} /\ Paged(x) > x - Page
  <1>1. Page \in Nat /\ Page >= 16 /\ Page % 8 = 0
    BY PoolAssumption
  <1>2. x = Page * (x \div Page) + (x % Page) /\ x \div Page \in Nat /\ x % Page \in 0..Page - 1
    <2>1. Page \in Nat \ {0}
      BY <1>1
    <2>. QED
      BY <2>1, InTable, Division
  <1>3. x % 2 \in {0, 1}
    OBVIOUS
  <1>4. \A q \in Nat, r \in {0, 1} : ((q * Page) + r) \in Nat /\ ((q * Page) + r) % Page = r
    BY <1>1
  <1>. QED
    BY <1>1, <1>2, <1>3, <1>4 DEF Paged

(***************************************************************************)
(* A short constant is followed by the start of the next page at least.    *)
(***************************************************************************)
LEMMA PagedIfShort ==
  ASSUME NEW n \in Nat, n % Page \in {0, 1}, NEW k \in {4, 8}
  PROVE  Paged(n + k + Page) >= n + 15
  <1>1. n = Page * (n \div Page) + (n % Page) /\ n \div Page \in Nat
    BY Division, PoolAssumption
  <1>2. n + k + Page = Page * ((n \div Page) + 1) + ((n % Page) + k)
    BY <1>1, PoolAssumption
  <1>3. (n + k + Page) \div Page = (n \div Page) + 1
    BY <1>1, <1>2, PoolAssumption
  <1>. QED
    BY <1>1, <1>3, PoolAssumption DEF Paged

(***************************************************************************)
(* What one call does to the pool: it is long enough for the constant.     *)
(***************************************************************************)
LEMMA Enough ==
  ASSUME PoolTyped, Long, Fits, NEW c \in Constants, NEW a \in Alignments(c)
  PROVE  /\ Grown(c) \in Nat /\ Grown(c) % Page \in {0, 1} /\ Grown(c) >= length
         /\ Rounded(offset, a) + Length[c] =< Grown(c)
  <1>. Length[c] \in Nat \ {0} /\ Page \in Nat
    BY PoolAssumption
  <1>. offset \in Nat /\ length \in Nat /\ offset =< length /\ a \in Sizes
    BY DEF PoolTyped, Fits, Alignments, Sizes
  <1>0. Rounded(offset, 8) \in Nat /\ Rounded(offset, a) \in Nat
        /\ Rounded(offset, a) =< Rounded(offset, 8) /\ Rounded(offset, 8) =< offset + 7
    BY RoundedBounds DEF Sizes
  <1>1. CASE Rounded(offset, 8) + Length[c] =< length
    <2>1. Grown(c) = length
      BY <1>0, <1>1 DEF Grown
    <2>. QED
      BY <1>0, <1>1, <2>1 DEF Long
  <1>2. CASE ~(Rounded(offset, 8) + Length[c] =< length)
    <2>1. Grown(c) = Paged(length + Length[c] + Page)
      BY <1>0, <1>2 DEF Grown
    <2>2. Grown(c) \in Nat /\ Grown(c) % Page \in {0, 1} /\ Grown(c) > length + Length[c]
      BY <2>1, PagedBounds
    <2>3. CASE a = 1
      BY <2>2, <2>3, RoundedToOne
    <2>4. CASE a # 1
      <3>1. Length[c] = a /\ a \in {4, 8}
        BY <2>4 DEF Alignments
      <3>2. Grown(c) >= length + 15
        BY <2>1, <3>1, PagedIfShort DEF Long
      <3>. QED
        BY <1>0, <2>2, <3>1, <3>2
    <2>. QED
      BY <2>3, <2>4
  <1>. QED
    BY <1>1, <1>2

LEMMA StartRounded ==
  ASSUME NEW c \in Constants, NEW a \in Alignments(c)
  PROVE  Start(c, a) = Rounded(offset, a)
  BY PoolAssumption DEF Start, Boundary, Alignments

-----------------------------------------------------------------------------
(***************************************************************************)
(* The node that a call adds, and what Append leaves of the others.        *)
(***************************************************************************)
LEMMA AddedNode ==
  ASSUME PoolInv, NEW c \in Constants, NEW a \in Alignments(c), Add(c, a)
  PROVE  /\ nodes' \in Seq(NodeSet) /\ Len(nodes') = New /\ New = Len(nodes) + 1
         /\ Len(nodes) \in Nat
         /\ nodes'[New].data = c /\ nodes'[New].at = Rounded(offset, a)
         /\ nodes'[New].at \in Nat
         /\ \A i \in 1..Len(nodes) : nodes'[i] = nodes[i] /\ nodes[i] \in NodeSet
         /\ offset' = nodes'[New].at + Length[c] /\ offset =< nodes'[New].at
  <1>1. Start(c, a) = Rounded(offset, a) /\ Rounded(offset, a) \in Nat /\ offset =< Rounded(offset, a)
    BY StartRounded, RoundedBounds DEF PoolInv, PoolTyped, Alignments, Sizes
  <1>2. [data |-> c, at |-> Start(c, a)] \in NodeSet
    BY <1>1 DEF NodeSet
  <1>3. nodes \in Seq(NodeSet) /\ nodes' = Append(nodes, [data |-> c, at |-> Start(c, a)])
    BY DEF Add, PoolInv, PoolTyped
  <1>4. nodes' \in Seq(NodeSet) /\ Len(nodes') = Len(nodes) + 1 /\ Len(nodes) \in Nat
        /\ nodes'[Len(nodes) + 1] = [data |-> c, at |-> Start(c, a)]
        /\ \A i \in 1..Len(nodes) : nodes'[i] = nodes[i] /\ nodes[i] \in NodeSet
    BY <1>2, <1>3
  <1>. QED
    BY <1>1, <1>4 DEF New, Add

(***************************************************************************)
(* The table after a node was added, chained or rehashed: each node is in  *)
(* its bucket.                                                             *)
(***************************************************************************)
LEMMA AddedTable ==
  ASSUME PoolInv, NEW c \in Constants, NEW a \in Alignments(c), Add(c, a)
  PROVE  /\ size' \in Nat \ {0} /\ table' \in [0..size' - 1 -> SUBSET (1..New)]
         /\ \A i \in 1..New : i \in table'[Bucket(nodes'[i].data, size')]
  <1>. DEFINE b(i, n) == Bucket(nodes'[i].data, n)
  <1>1. size \in Nat \ {0} /\ table \in [0..size - 1 -> SUBSET (1..Len(nodes))]
    BY DEF PoolInv, PoolTyped
  <1>2. /\ New \in Nat /\ New = Len(nodes) + 1 /\ nodes'[New].data = c /\ Len(nodes) \in Nat
        /\ New \in 1..New /\ 1..Len(nodes) \subseteq 1..New
    BY AddedNode
  <1>3. \A i \in 1..New : nodes'[i].data \in Constants
    <2>1. nodes' \in Seq(NodeSet) /\ Len(nodes') = New
      BY AddedNode
    <2>2. \A i \in 1..New : nodes'[i] \in NodeSet
      BY <2>1
    <2>. QED
      BY <2>2 DEF NodeSet
  <1>4. \A i \in 1..New, n \in Nat \ {0} : b(i, n) \in 0..n - 1
    BY <1>3, InTable, PoolAssumption DEF Bucket
  <1>5. \A i \in 1..Len(nodes) : i \in table[b(i, size)] /\ b(i, size) \in 0..size - 1
    <2>1. \A i \in 1..Len(nodes) : nodes'[i] = nodes[i]
      BY AddedNode
    <2>2. \A i \in 1..Len(nodes) : i \in table[b(i, size)]
      BY <2>1 DEF PoolInv, InBuckets
    <2>3. \A i \in 1..Len(nodes) : b(i, size) \in 0..size - 1
      BY <1>1, <1>2, <1>4
    <2>. QED
      BY <2>2, <2>3
  <1>6. CASE Full
    <2>1. size' = 2 * size /\ size' \in Nat \ {0}
      BY <1>1, <1>6 DEF Add, Rehashed
    <2>. DEFINE all == {New} \cup UNION {table[k] : k \in 0..size - 1}
    <2>2. table' = [k \in 0..size' - 1 |-> {i \in all : b(i, size') = k}]
      BY <1>6 DEF Add, Rehashed
    <2>3. all = 1..New
      <3>1. UNION {table[k] : k \in 0..size - 1} \subseteq 1..Len(nodes)
        BY <1>1
      <3>2. ASSUME NEW i \in 1..Len(nodes)
            PROVE  i \in UNION {table[k] : k \in 0..size - 1}
        BY <1>5
      <3>3. 1..New = {New} \cup (1..Len(nodes))
        BY <1>2
      <3>. QED
        BY <3>1, <3>2, <3>3
    <2>. HIDE DEF all
    <2>. QED
      BY <1>4, <2>1, <2>2, <2>3
  <1>7. CASE ~Full
    <2>1. size' = size /\ table' = [table EXCEPT ![Bucket(c, size)] = @ \cup {New}]
      BY <1>7 DEF Add, Chained
    <2>2. Bucket(c, size) = b(New, size) /\ b(New, size) \in 0..size - 1
      <3>1. Bucket(c, size) = b(New, size)
        BY <1>2
      <3>. QED
        BY <1>1, <1>2, <1>4, <3>1
    <2>3. table' \in [0..size - 1 -> SUBSET (1..New)]
      BY <1>1, <1>2, <2>1, <2>2
    <2>4. New \in table'[b(New, size)]
      BY <1>1, <2>1, <2>2
    <2>5. \A i \in 1..Len(nodes) : i \in table'[b(i, size)]
      BY <1>1, <1>5, <2>1, <2>2
    <2>. QED
      BY <1>1, <1>2, <2>1, <2>3, <2>4, <2>5
  <1>. QED
    BY <1>6, <1>7

-----------------------------------------------------------------------------
(***************************************************************************)
(* Asking for a constant that is there changes only asked and length.      *)
(***************************************************************************)
LEMMA ShareKeeps ==
  ASSUME PoolInv, NEW c \in Constants, NEW a \in Alignments(c), Share(c, a)
  PROVE  PoolInv'
  <1>. USE DEF PoolInv
  <1>1. /\ UNCHANGED <<nodes, offset, table, size>>
        /\ asked' = asked \cup {<<c, a>>} /\ length' = Grown(c) /\ a \in Sizes
    BY DEF Share, Ask, Alignments, Sizes
  <1>2. Grown(c) \in Nat /\ Grown(c) % Page \in {0, 1} /\ Grown(c) >= length
    BY Enough
  <1>3. PoolTyped'
    BY <1>1, <1>2 DEF PoolTyped
  <1>4. InBuckets' /\ Distinct' /\ InFront'
    BY <1>1 DEF InBuckets, Distinct, InFront, Bucket
  <1>5. Asked'
    BY <1>1 DEF Asked
  <1>6. Long' /\ Fits'
    BY <1>1, <1>2 DEF Long, Fits, PoolTyped
  <1>. QED
    BY <1>3, <1>4, <1>5, <1>6

(***************************************************************************)
(* A constant that is added was not there.                                 *)
(***************************************************************************)
LEMMA AddedIsNew ==
  ASSUME PoolInv, NEW c \in Constants, NEW a \in Alignments(c), Add(c, a)
  PROVE  \A i \in 1..Len(nodes) : nodes[i].data # c
  BY DEF PoolInv, InBuckets, Add, Found, Bucket

LEMMA AddKeeps ==
  ASSUME PoolInv, NEW c \in Constants, NEW a \in Alignments(c), Add(c, a)
  PROVE  PoolInv'
  <1>1. /\ asked' = asked \cup {<<c, a>>} /\ length' = Grown(c) /\ a \in Sizes
        /\ offset \in Nat /\ Length[c] \in Nat
    BY PoolAssumption DEF Add, Ask, Alignments, Sizes, PoolInv, PoolTyped
  <1>2. /\ nodes' \in Seq(NodeSet) /\ Len(nodes') = New /\ New = Len(nodes) + 1
        /\ nodes'[New].data = c /\ nodes'[New].at = Rounded(offset, a) /\ nodes'[New].at \in Nat
        /\ \A i \in 1..Len(nodes) : nodes'[i] = nodes[i] /\ nodes[i] \in NodeSet
        /\ offset' = nodes'[New].at + Length[c] /\ offset =< nodes'[New].at /\ Len(nodes) \in Nat
    BY AddedNode
  <1>3. \A i \in 1..New : i \in 1..Len(nodes) \/ i = New
    BY <1>2
  <1>4. PoolTyped'
    <2>1. length' \in Nat
      BY <1>1, Enough DEF PoolInv
    <2>. QED
      BY <1>1, <1>2, <2>1, AddedTable DEF PoolInv, PoolTyped
  <1>5. InBuckets'
    BY <1>2, AddedTable DEF InBuckets
  <1>6. Distinct'
    BY <1>2, <1>3, AddedIsNew DEF PoolInv, Distinct
  <1>7. InFront'
    <2>. SUFFICES ASSUME NEW i \in 1..New
                  PROVE  nodes'[i].at + Length[nodes'[i].data] =< offset'
      BY <1>2 DEF InFront
    <2>1. CASE i = New
      BY <1>1, <1>2, <2>1
    <2>2. CASE i \in 1..Len(nodes)
      <3>1. nodes[i].at + Length[nodes[i].data] =< offset
        BY <2>2 DEF PoolInv, InFront
      <3>2. nodes[i].at \in Nat /\ Length[nodes[i].data] \in Nat /\ nodes'[i] = nodes[i]
        BY <1>2, <2>2, PoolAssumption DEF NodeSet
      <3>. QED
        BY <1>1, <1>2, <3>1, <3>2
    <2>. QED
      BY <1>3, <2>1, <2>2
  <1>8. Asked'
    <2>. SUFFICES ASSUME NEW i \in 1..New
                  PROVE  \E k \in Sizes : <<nodes'[i].data, k>> \in asked' /\ nodes'[i].at % k = 0
      BY <1>2 DEF Asked
    <2>1. CASE i = New
      BY <1>1, <1>2, <2>1, RoundedBounds
    <2>2. CASE i \in 1..Len(nodes)
      BY <1>1, <1>2, <2>2 DEF PoolInv, Asked
    <2>. QED
      BY <1>3, <2>1, <2>2
  <1>9. Long' /\ Fits'
    BY <1>1, <1>2, Enough DEF PoolInv, Long, Fits
  <1>. QED
    BY <1>4, <1>5, <1>6, <1>7, <1>8, <1>9 DEF PoolInv

LEMMA PoolStart == PoolInit => PoolInv
  <1>. SUFFICES ASSUME PoolInit PROVE PoolInv
    OBVIOUS
  <1>1. nodes = <<>> /\ offset = 0 /\ length = 0 /\ asked = {} /\ size = TableSize
        /\ table = [k \in 0..size - 1 |-> {}] /\ TableSize \in Nat \ {0} /\ Page \in Nat /\ Page >= 16
    BY PoolAssumption DEF PoolInit
  <1>2. 0 % Page = 0
    BY <1>1
  <1>3. nodes \in Seq(NodeSet) /\ Len(nodes) = 0
    BY <1>1
  <1>. QED
    BY <1>1, <1>2, <1>3 DEF PoolInv, PoolTyped, InBuckets, Distinct, InFront, Asked, Long, Fits

LEMMA PoolStep ==
  ASSUME PoolInv, [PoolNext]_poolVars
  PROVE  PoolInv'
  <1>1. CASE PoolNext
    BY <1>1, ShareKeeps, AddKeeps DEF PoolNext, Data
  <1>2. CASE UNCHANGED poolVars
    BY <1>2 DEF poolVars, PoolInv, PoolTyped, InBuckets, Distinct, InFront, Asked, Long, Fits, Bucket
  <1>. QED
    BY <1>1, <1>2

THEOREM PoolInvariant == PoolSpec => []PoolInv
  BY PoolStart, PoolStep, PTL DEF PoolSpec

(***************************************************************************)
(* Each constant fits in the pool, although it may grow by too little.     *)
(***************************************************************************)
THEOREM ConstantsFit == PoolSpec => []Fits
  <1>1. PoolInv => Fits
    BY DEF PoolInv
  <1>. QED
    BY <1>1, PoolInvariant, PTL

(***************************************************************************)
(* A constant asked for with one alignment only has it.                    *)
(***************************************************************************)
LEMMA AskedOnce == PoolInv => AlignedIfOnce
  <1>. SUFFICES ASSUME PoolInv, NEW i \in DOMAIN nodes, NEW p \in asked, p[1] = nodes[i].data,
                       \A q \in asked : q[1] = p[1] => q = p
                PROVE  nodes[i].at % p[2] = 0
    BY DEF AlignedIfOnce
  <1>1. i \in 1..Len(nodes)
    BY DEF PoolInv, PoolTyped
  <1>2. PICK k \in Sizes : <<nodes[i].data, k>> \in asked /\ nodes[i].at % k = 0
    BY <1>1 DEF PoolInv, Asked
  <1>3. p = <<nodes[i].data, k>>
    BY <1>2
  <1>. QED
    BY <1>2, <1>3

THEOREM ConstantsAligned == PoolSpec => []AlignedIfOnce
  BY AskedOnce, PoolInvariant, PTL

(***************************************************************************)
(* The pool implements the table of constants: a step of it adds one       *)
(* place, behind all others, for a constant that had none, or none.        *)
(***************************************************************************)
LEMMA PlaceAdded ==
  ASSUME PoolInv, NEW c \in Constants, NEW a \in Alignments(c), Add(c, a)
  PROVE  Table!Place(c)
  <1>. DEFINE p == <<c, nodes'[New].at>>
  <1>1. /\ nodes' \in Seq(NodeSet) /\ Len(nodes') = New /\ New = Len(nodes) + 1
        /\ nodes'[New].data = c /\ Len(nodes) \in Nat
        /\ \A i \in 1..Len(nodes) : nodes'[i] = nodes[i] /\ nodes[i] \in NodeSet
        /\ offset =< nodes'[New].at /\ nodes'[New].at \in Nat /\ offset \in Nat
    BY AddedNode DEF PoolInv, PoolTyped
  <1>2. DOMAIN nodes = 1..Len(nodes) /\ DOMAIN nodes' = (1..Len(nodes)) \cup {New}
    <2>1. DOMAIN nodes = 1..Len(nodes) /\ DOMAIN nodes' = 1..Len(nodes')
      BY <1>1 DEF PoolInv, PoolTyped
    <2>. QED
      BY <1>1, <2>1
  <1>3. Places' = Places \cup {p}
    BY <1>1, <1>2 DEF Places
  <1>4. c \notin Table!Known
    BY <1>2, AddedIsNew DEF Table!Known, Places
  <1>5. ASSUME NEW q \in Places
        PROVE  q[2] + Length[q[1]] =< p[2]
    <2>1. PICK i \in 1..Len(nodes) : q = <<nodes[i].data, nodes[i].at>>
      BY <1>2 DEF Places
    <2>2. nodes[i].at + Length[nodes[i].data] =< offset /\ nodes[i].at \in Nat
          /\ Length[nodes[i].data] \in Nat
      BY <1>1, PoolAssumption DEF PoolInv, InFront, NodeSet
    <2>. QED
      BY <1>1, <2>1, <2>2
  <1>. QED
    BY <1>3, <1>4, <1>5 DEF Table!Place

THEOREM PoolRefinesTable == PoolSpec => OnePlaceEach
  <1>1. PoolInit => Table!Init
    BY DEF PoolInit, Table!Init, Places
  <1>2. ASSUME PoolInv, [PoolNext]_poolVars
        PROVE  [Table!Next]_Places
    <2>1. ASSUME NEW c \in Constants, NEW a \in Alignments(c), Add(c, a)
          PROVE  Table!Next
      BY <1>2, <2>1, PlaceAdded DEF Table!Next
    <2>2. ASSUME NEW c \in Constants, NEW a \in Alignments(c), Share(c, a)
          PROVE  UNCHANGED Places
      BY <2>2 DEF Share, Places
    <2>3. CASE UNCHANGED poolVars
      BY <2>3 DEF poolVars, Places
    <2>. QED
      BY <1>2, <2>1, <2>2, <2>3 DEF PoolNext, Data
  <1>. QED
    BY <1>1, <1>2, PoolInvariant, PTL DEF PoolSpec, OnePlaceEach, Table!Spec
=============================================================================
