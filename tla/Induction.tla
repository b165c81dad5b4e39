----------------------------- MODULE Induction -----------------------------
(***************************************************************************)
(* Induction over natural numbers in the form the proofs can use: about    *)
(* sets of numbers, not about predicates.                                  *)
(***************************************************************************)
EXTENDS Integers, FiniteSets, FiniteSetTheorems, WellFoundedInduction, TLAPS

(***************************************************************************)
(* A set of natural numbers that is not empty has a smallest member.       *)
(***************************************************************************)
LEMMA Smallest ==
  ASSUME NEW T, T \subseteq Nat, T # {}
  PROVE  \E n \in T : \A m \in T : n =< m
  <1>. DEFINE R == OpToRel(<, Nat)
  <1>1. IsWellFoundedOn(R, Nat)
    BY NatLessThanWellFounded
  <1>2. \A x, y \in Nat : x < y => <<x, y>> \in R
    BY DEF OpToRel
  <1>. HIDE DEF R
  <1>3. PICK n \in T : \A m \in T : <<m, n>> \notin R
    BY <1>1, WFMin
  <1>4. ASSUME NEW m \in T PROVE n =< m
    <2>1. ~ m < n
      BY <1>2, <1>3
    <2>. QED
      BY <2>1
  <1>. QED
    BY <1>4

(***************************************************************************)
(* A set that holds 0, and n + 1 with n, holds every natural number.       *)
(***************************************************************************)
LEMMA SetInduction ==
  ASSUME NEW S, 0 \in S, \A n \in Nat : n \in S => n + 1 \in S
  PROVE  Nat \subseteq S
  <1>. SUFFICES ASSUME Nat \ S # {} PROVE FALSE
    OBVIOUS
  <1>1. PICK n \in Nat \ S : \A m \in Nat \ S : n =< m
    BY Smallest
  <1>2. n # 0 /\ n - 1 \in Nat
    BY <1>1
  <1>3. n - 1 \in S
    BY <1>1, <1>2
  <1>. QED
    BY <1>2, <1>3

(***************************************************************************)
(* Sets of numbers up to n that grow from step to step until a step adds   *)
(* nothing: after n steps nothing is added.                                *)
(***************************************************************************)
LEMMA ChainStops ==
  ASSUME NEW n \in Nat, NEW C, \A k \in 0 .. n + 1 : C[k] \subseteq 1 .. n,
         \A k \in 0 .. n : C[k] \subseteq C[k + 1],
         \A k \in 1 .. n : C[k - 1] = C[k] => C[k] = C[k + 1]
  PROVE  C[n] = C[n + 1]
  <1>. DEFINE Grew(k) == C[k] = C[k + 1] \/ Cardinality(C[k + 1]) >= k + 1
              S == {k \in Nat : k =< n => Grew(k)}
  <1>1. ASSUME NEW k \in 0 .. n + 1
        PROVE  IsFiniteSet(C[k]) /\ Cardinality(C[k]) \in Nat /\ Cardinality(C[k]) =< n
    <2>1. IsFiniteSet(1 .. n) /\ Cardinality(1 .. n) = n
      BY FS_Interval
    <2>. QED
      BY <2>1, FS_Subset, FS_CardinalityType
  <1>2. ASSUME NEW k \in 0 .. n, C[k] # C[k + 1]
        PROVE  Cardinality(C[k + 1]) >= Cardinality(C[k]) + 1
    <2>1. k \in 0 .. n + 1 /\ k + 1 \in 0 .. n + 1 /\ C[k] \subseteq C[k + 1]
      OBVIOUS
    <2>2. IsFiniteSet(C[k + 1]) /\ Cardinality(C[k]) \in Nat /\ Cardinality(C[k + 1]) \in Nat
      BY <2>1, <1>1
    <2>3. Cardinality(C[k]) < Cardinality(C[k + 1])
      BY <1>2, <2>1, <2>2, FS_Subset
    <2>. QED
      BY <2>2, <2>3
  <1>3. 0 \in S
    <2>1. 0 \in 0 .. n /\ 0 \in 0 .. n + 1 /\ 1 \in 0 .. n + 1
      OBVIOUS
    <2>2. Cardinality(C[0]) \in Nat /\ Cardinality(C[0 + 1]) \in Nat
      BY <2>1, <1>1
    <2>. QED
      BY <1>2, <2>1, <2>2
  <1>4. ASSUME NEW k \in Nat, k \in S PROVE k + 1 \in S
    <2>. SUFFICES ASSUME k + 1 =< n PROVE Grew(k + 1)
      OBVIOUS
    <2>1. k + 1 \in 1 .. n /\ k + 1 \in 0 .. n /\ k =< n /\ k + 1 \in 0 .. n + 1 /\ k + 1 + 1 \in 0 .. n + 1
          /\ k + 1 - 1 = k
      OBVIOUS
    <2>2. CASE C[k] = C[k + 1]
      BY <2>1, <2>2
    <2>3. CASE Cardinality(C[k + 1]) >= k + 1
      <3>1. Cardinality(C[k + 1]) \in Nat /\ Cardinality(C[k + 1 + 1]) \in Nat
        BY <2>1, <1>1
      <3>2. C[k + 1] # C[k + 1 + 1] => Cardinality(C[k + 1 + 1]) >= Cardinality(C[k + 1]) + 1
        BY <2>1, <1>2
      <3>. QED
        BY <2>3, <3>1, <3>2
    <2>. QED
      BY <1>4, <2>1, <2>2, <2>3
  <1>5. n \in S
    <2>. HIDE DEF S
    <2>. QED
      BY <1>3, <1>4, SetInduction
  <1>6. n \in 0 .. n + 1 /\ n + 1 \in 0 .. n + 1
    OBVIOUS
  <1>7. Cardinality(C[n + 1]) \in Nat /\ Cardinality(C[n + 1]) =< n
    BY <1>1, <1>6
  <1>. QED
    BY <1>5, <1>7
=============================================================================
