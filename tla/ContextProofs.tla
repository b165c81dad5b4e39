---------------------------- MODULE ContextProofs ----------------------------
(***************************************************************************)
(* Proofs about Context: whatever documented sequence of calls a caller    *)
(* makes, however often jit_emit fails and whichever buffers are whose.    *)
(***************************************************************************)
EXTENDS Context, TLAPS

(***************************************************************************)
(* The type invariant is inductive by itself.                              *)
(***************************************************************************)
LEMMA Types ==
  ASSUME TypeOK, [Next]_vars
  PROVE  TypeOK'
  <1>. USE DEF TypeOK, Up, vars
  <1>1. CASE NewState
    BY <1>1 DEF NewState, Tables
  <1>2. CASE Name
    BY <1>2 DEF Name
  <1>3. CASE Float
    BY <1>3 DEF Float
  <1>4. CASE Realize
    BY <1>4 DEF Realize, Realized, Flags
  <1>5. CASE SetCode
    BY <1>5 DEF SetCode, Flags
  <1>6. CASE \E disabled \in SUBSET {"no_data", "no_note"}, ptr \in {"NULL", "user data"} :
                SetData(disabled, ptr)
    BY <1>6 DEF SetData, Flags
  <1>7. CASE Emit
    BY <1>7 DEF Emit, Dataset, DatasetNeeded, Realized, Flags, DataHome, Buffers, Maps
  <1>8. CASE EmitFails
    BY <1>8 DEF EmitFails, MayFail
  <1>9. CASE \E rest \in BOOLEAN : EmitDone(rest)
    <2>1. PICK rest \in BOOLEAN : EmitDone(rest)
      BY <1>9
    <2>. QED
      BY <2>1 DEF EmitDone, Protections, Buffers, Maps
  <1>10. CASE Protect
    BY <1>10 DEF Protect, Buffers, Maps
  <1>11. CASE Unprotect
    BY <1>11 DEF Unprotect, Buffers, Maps
  <1>12. CASE Clear
    BY <1>12 DEF Clear, Cleared
  <1>13. CASE Destroy
    BY <1>13 DEF Destroy, Unmapped, Buffers, Maps
  <1>14. CASE UNCHANGED vars
    BY <1>14
  <1>. QED
    BY <1>1, <1>2, <1>3, <1>4, <1>5, <1>6, <1>7, <1>8, <1>9, <1>10, <1>11, <1>12, <1>13, <1>14 DEF Next

(***************************************************************************)
(* The flags follow the order of the calls.                                *)
(***************************************************************************)
LEMMA OrderKept ==
  ASSUME TypeOK /\ Order, [Next]_vars
  PROVE  Order'
  <1>. USE DEF TypeOK, Order, Up, Building, vars
  <1>1. CASE NewState
    BY <1>1 DEF NewState, Tables
  <1>2. CASE Name
    BY <1>2 DEF Name, Pool
  <1>3. CASE Float
    BY <1>3 DEF Float
  <1>4. CASE Realize
    BY <1>4 DEF Realize, Realized, Pool
  <1>5. CASE SetCode
    BY <1>5 DEF SetCode
  <1>6. CASE \E disabled \in SUBSET {"no_data", "no_note"}, ptr \in {"NULL", "user data"} :
                SetData(disabled, ptr)
    BY <1>6 DEF SetData
  <1>7. CASE Emit
    BY <1>7 DEF Emit, Dataset, DatasetNeeded, Realized, Tables, Pool, Flags
  <1>8. CASE EmitFails
    BY <1>8 DEF EmitFails, MayFail
  <1>9. CASE \E rest \in BOOLEAN : EmitDone(rest)
    <2>1. PICK rest \in BOOLEAN : EmitDone(rest)
      BY <1>9
    <2>. QED
      BY <2>1 DEF EmitDone, Protections
  <1>10. CASE Protect
    BY <1>10 DEF Protect
  <1>11. CASE Unprotect
    BY <1>11 DEF Unprotect
  <1>12. CASE Clear
    BY <1>12 DEF Clear, Cleared, Tables, Pool
  <1>13. CASE Destroy
    BY <1>13 DEF Destroy, Unmapped
  <1>14. CASE UNCHANGED vars
    BY <1>14
  <1>. QED
    BY <1>1, <1>2, <1>3, <1>4, <1>5, <1>6, <1>7, <1>8, <1>9, <1>10, <1>11, <1>12, <1>13, <1>14 DEF Next

(***************************************************************************)
(* The pool stays until its constants and names have moved for good.       *)
(***************************************************************************)
LEMMA PoolKept ==
  ASSUME TypeOK /\ Order /\ PoolPlace, [Next]_vars
  PROVE  PoolPlace'
  <1>. USE DEF Order, PoolPlace, Up, Building, HasPool, DataHome, Tables, Pool, vars
  <1>1. CASE NewState
    BY <1>1 DEF NewState
  <1>2. CASE Name
    BY <1>2 DEF Name
  <1>3. CASE Float
    BY <1>3 DEF Float
  <1>4. CASE Realize
    BY <1>4 DEF Realize, Realized
  <1>5. CASE SetCode
    BY <1>5 DEF SetCode
  <1>6. CASE \E disabled \in SUBSET {"no_data", "no_note"}, ptr \in {"NULL", "user data"} :
                SetData(disabled, ptr)
    BY <1>6 DEF SetData
  <1>7. CASE Emit
    BY <1>7 DEF Emit, Dataset, DatasetNeeded, Realized
  <1>8. CASE EmitFails
    BY <1>8 DEF EmitFails, MayFail
  <1>9. CASE \E rest \in BOOLEAN : EmitDone(rest)
    <2>1. PICK rest \in BOOLEAN : EmitDone(rest)
      BY <1>9
    <2>. QED
      BY <2>1 DEF EmitDone, Protections
  <1>10. CASE Protect
    BY <1>10 DEF Protect
  <1>11. CASE Unprotect
    BY <1>11 DEF Unprotect
  <1>12. CASE Clear
    BY <1>12 DEF Clear, Cleared
  <1>13. CASE Destroy
    BY <1>13 DEF Destroy, Unmapped
  <1>14. CASE UNCHANGED vars
    BY <1>14
  <1>. QED
    BY <1>1, <1>2, <1>3, <1>4, <1>5, <1>6, <1>7, <1>8, <1>9, <1>10, <1>11, <1>12, <1>13, <1>14 DEF Next

(***************************************************************************)
(* Buffers are mapped where the context points to.                         *)
(***************************************************************************)
LEMMA MappedKept ==
  ASSUME TypeOK /\ Order /\ PoolPlace /\ Mapped, [Next]_vars
  PROVE  Mapped'
  <1>. USE DEF TypeOK, Order, Mapped, Up, Building, HasPool, PoolPlace, vars, Buffers, Maps, Callers
  <1>1. CASE NewState
    BY <1>1 DEF NewState
  <1>2. CASE Name
    BY <1>2 DEF Name
  <1>3. CASE Float
    BY <1>3 DEF Float
  <1>4. CASE Realize
    BY <1>4 DEF Realize, Realized
  <1>5. CASE SetCode
    BY <1>5 DEF SetCode
  <1>6. CASE \E disabled \in SUBSET {"no_data", "no_note"}, ptr \in {"NULL", "user data"} :
                SetData(disabled, ptr)
    BY <1>6 DEF SetData
  <1>7. CASE Emit
    <2>1. /\ life' = life /\ program' = program /\ notes' = notes
          /\ status' = "busy" /\ flags' = flags \cup {"realize", "dataset"}
          /\ life # "freed" /\ status = "ready"
          /\ code' = IF Up("user_code") THEN code ELSE "code map"
      BY <1>7 DEF Emit
    <2>2. data' = IF Up("dataset") \/ Up("user_data") THEN data ELSE "data map"
      BY <1>7 DEF Emit, Dataset, DatasetNeeded
    <2>3. /\ \A b \in Callers : memory'[b] = memory[b]
          /\ memory'["code map"] = IF Up("user_code") THEN memory["code map"] ELSE "rwx"
          /\ memory'["code tail"] = memory["code tail"]
          /\ memory'["data map"] = IF Up("dataset") \/ Up("user_data")
                                   THEN memory["data map"] ELSE "rw"
      BY <1>7 DEF Emit, DatasetNeeded
    <2>. QED
      BY <2>1, <2>2, <2>3
  <1>8. CASE EmitFails
    BY <1>8 DEF EmitFails, MayFail
  <1>9. CASE \E rest \in BOOLEAN : EmitDone(rest)
    <2>1. PICK rest \in BOOLEAN : EmitDone(rest)
      BY <1>9
    <2>. QED
      BY <2>1 DEF EmitDone, Protections
  <1>10. CASE Protect
    BY <1>10 DEF Protect
  <1>11. CASE Unprotect
    BY <1>11 DEF Unprotect
  <1>12. CASE Clear
    BY <1>12 DEF Clear, Cleared
  <1>13. CASE Destroy
    BY <1>13 DEF Destroy, Unmapped
  <1>14. CASE UNCHANGED vars
    BY <1>14
  <1>. QED
    BY <1>1, <1>2, <1>3, <1>4, <1>5, <1>6, <1>7, <1>8, <1>9, <1>10, <1>11, <1>12, <1>13, <1>14 DEF Next

(***************************************************************************)
(* Emitted code stays mapped and protected.                                *)
(***************************************************************************)
LEMMA ProtectedKept ==
  ASSUME TypeOK /\ Order /\ Mapped /\ Protected, [Next]_vars
  PROVE  Protected'
  <1>. USE DEF TypeOK, Order, Protected, Mapped, Up, Building, Alive, Tables, Pool, vars, Buffers, Maps, Callers
  <1>1. CASE NewState
    BY <1>1 DEF NewState
  <1>2. CASE Name
    BY <1>2 DEF Name
  <1>3. CASE Float
    BY <1>3 DEF Float
  <1>4. CASE Realize
    BY <1>4 DEF Realize, Realized
  <1>5. CASE SetCode
    BY <1>5 DEF SetCode
  <1>6. CASE \E disabled \in SUBSET {"no_data", "no_note"}, ptr \in {"NULL", "user data"} :
                SetData(disabled, ptr)
    BY <1>6 DEF SetData
  <1>7. CASE Emit
    BY <1>7 DEF Emit, Dataset, DatasetNeeded, Realized
  <1>8. CASE EmitFails
    BY <1>8 DEF EmitFails, MayFail
  <1>9. CASE \E rest \in BOOLEAN : EmitDone(rest)
    <2>1. PICK rest \in BOOLEAN : EmitDone(rest)
      BY <1>9
    <2>. QED
      BY <2>1 DEF EmitDone, Protections
  <1>10. CASE Protect
    BY <1>10 DEF Protect
  <1>11. CASE Unprotect
    BY <1>11 DEF Unprotect
  <1>12. CASE Clear
    BY <1>12 DEF Clear, Cleared
  <1>13. CASE Destroy
    BY <1>13 DEF Destroy, Unmapped
  <1>14. CASE UNCHANGED vars
    BY <1>14
  <1>. QED
    BY <1>1, <1>2, <1>3, <1>4, <1>5, <1>6, <1>7, <1>8, <1>9, <1>10, <1>11, <1>12, <1>13, <1>14 DEF Next

-----------------------------------------------------------------------------
(***************************************************************************)
(* The inductive invariant holds of every reachable state.                 *)
(***************************************************************************)
LEMMA Initially ==
  ASSUME Init
  PROVE  IInv
  <1>1. TypeOK
    BY DEF Init, TypeOK, Tables, Pool, Buffers, Maps, Callers, Up, Flags
  <1>2. Order /\ PoolPlace
    BY DEF Init, Order, PoolPlace, Building, HasPool, DataHome, Up
  <1>3. Mapped /\ Protected
    BY DEF Init, Mapped, Protected, Alive, Buffers, Maps, Callers, HasPool, Up
  <1>. QED
    BY <1>1, <1>2, <1>3 DEF IInv

THEOREM Inductive == Spec => []IInv
  <1>1. IInv /\ [Next]_vars => IInv'
    BY Types, OrderKept, PoolKept, MappedKept, ProtectedKept DEF IInv
  <1>. QED
    BY Initially, <1>1, PTL DEF Spec

(***************************************************************************)
(* Every variable keeps its type.                                          *)
(***************************************************************************)
THEOREM TypeCorrect == Spec => []TypeOK
  <1>1. IInv => TypeOK
    BY DEF IInv
  <1>. QED
    BY <1>1, Inductive, PTL

(***************************************************************************)
(* A context that emitted its code and was cleared and destroyed leaves    *)
(* nothing allocated and nothing mapped.                                   *)
(***************************************************************************)
THEOREM NothingLeft == Spec => []ReleasedIfEmitted
  <1>1. IInv => ReleasedIfEmitted
    BY DEF IInv, TypeOK, Order, PoolPlace, Mapped, ReleasedIfEmitted, Released, Owned
  <1>. QED
    BY <1>1, Inductive, PTL

(***************************************************************************)
(* Constants can be read wherever generation or the code reads them.       *)
(***************************************************************************)
THEOREM ConstantsStay == Spec => []ConstantsReadable
  <1>1. IInv => ConstantsReadable
    BY DEF IInv, TypeOK, Order, PoolPlace, Mapped, Protected, ConstantsReadable, HasPool,
           DataHome, Alive, Building, Buffers, Maps, Callers, Up
  <1>. QED
    BY <1>1, Inductive, PTL

(***************************************************************************)
(* Notes can be read if data is not disabled.                              *)
(***************************************************************************)
THEOREM NotesStay == Spec => []NotesReadableWithData
  <1>1. IInv => NotesReadableWithData
    BY DEF IInv, TypeOK, Order, PoolPlace, Mapped, Protected, NotesReadableWithData,
           NotesReadable, HasPool, DataHome, Alive, Buffers, Maps, Callers, Up
  <1>. QED
    BY <1>1, Inductive, PTL

(***************************************************************************)
(* Emitted code is mapped, in pages never both writable and executable.    *)
(***************************************************************************)
THEOREM CodeProtected == Spec => []Protected
  <1>1. IInv => Protected
    BY DEF IInv
  <1>. QED
    BY <1>1, Inductive, PTL

(***************************************************************************)
(* No call changes a buffer of the caller's.                               *)
(***************************************************************************)
THEOREM CallersSafe == Spec => CallersUntouched
  <1>1. TypeOK /\ Mapped /\ [Next]_vars => [\A b \in Callers : memory'[b] = memory[b]]_vars
    <2>. SUFFICES ASSUME TypeOK, Mapped, Next
                  PROVE  \A b \in Callers : memory'[b] = memory[b]
      OBVIOUS
    <2>1. CASE NewState
      BY <2>1 DEF NewState
    <2>2. CASE Name
      BY <2>2 DEF Name
    <2>3. CASE Float
      BY <2>3 DEF Float
    <2>4. CASE Realize
      BY <2>4 DEF Realize
    <2>5. CASE SetCode
      BY <2>5 DEF SetCode
    <2>6. CASE \E disabled \in SUBSET {"no_data", "no_note"}, ptr \in {"NULL", "user data"} :
                SetData(disabled, ptr)
      BY <2>6 DEF SetData
    <2>7. CASE Emit
      BY <2>7 DEF Emit, TypeOK, Buffers, Maps, Callers
    <2>8. CASE EmitFails
      BY <2>8 DEF EmitFails
    <2>9. CASE \E rest \in BOOLEAN : EmitDone(rest)
      <3>1. PICK rest \in BOOLEAN : EmitDone(rest)
        BY <2>9
      <3>. QED
        BY <3>1 DEF EmitDone, Protections, TypeOK, Buffers, Maps, Callers
    <2>10. CASE Protect
      BY <2>10 DEF Protect, TypeOK, Buffers, Maps, Callers
    <2>11. CASE Unprotect
      BY <2>11 DEF Unprotect, TypeOK, Buffers, Maps, Callers
    <2>12. CASE Clear
      BY <2>12 DEF Clear
    <2>13. CASE Destroy
      BY <2>13 DEF Destroy, Unmapped, Buffers, Maps, Callers
    <2>. QED
      BY <2>1, <2>2, <2>3, <2>4, <2>5, <2>6, <2>7, <2>8, <2>9, <2>10, <2>11, <2>12, <2>13 DEF Next
  <1>2. IInv => TypeOK /\ Mapped
    BY DEF IInv
  <1>. QED
    BY <1>1, <1>2, Inductive, PTL DEF Spec, CallersUntouched

(***************************************************************************)
(* Every step is a step of Emission or none of its business.               *)
(***************************************************************************)
THEOREM PromiseKept == Spec => KeepsPromise
  <1>1. Init => Promise!Init
    <2>. SUFFICES ASSUME Init
                  PROVE  Promise!Init
      OBVIOUS
    <2>1. ~Up("user_code")
      BY DEF Init, Up
    <2>2. Up("user_code") = FALSE
      BY <2>1, SMT DEF Up
    <2>. QED
      BY <2>2 DEF Init, Promise!Init
  <1>2. [Next]_vars => [Promise!Next]_Promise!emission
    <2>. SUFFICES ASSUME [Next]_vars
                  PROVE  [Promise!Next]_Promise!emission
      OBVIOUS
    <2>1. CASE SetCode
      BY <2>1 DEF SetCode, Promise!Next, Promise!SetCode, Up
    <2>2. CASE Emit
      <3>1. status = "ready" /\ status' = "busy"
            /\ ("user_code" \in flags' <=> "user_code" \in flags)
        BY <2>2 DEF Emit
      <3>2. ("user_code" \in flags') = ("user_code" \in flags)
        BY <3>1
      <3>3. Promise!Call
        BY <3>1, <3>2 DEF Promise!Call, Up
      <3>. QED
        BY <3>3 DEF Promise!Next
    <2>3. CASE EmitFails
      BY <2>3 DEF EmitFails, MayFail, Promise!Next, Promise!ReturnNull, Up
    <2>4. CASE \E rest \in BOOLEAN : EmitDone(rest)
      <3>1. PICK rest \in BOOLEAN : EmitDone(rest)
        BY <2>4
      <3>. QED
        BY <3>1 DEF EmitDone, Promise!Next, Promise!ReturnCode, Up
    <2>5. CASE UNCHANGED vars \/ NewState \/ Name \/ Float \/ Realize \/ Protect \/ Unprotect
                \/ Clear \/ Destroy
      <3>1. status' = status /\ ("user_code" \in flags' <=> "user_code" \in flags)
        BY <2>5 DEF vars, NewState, Name, Float, Realize, Protect, Unprotect, Clear, Destroy
      <3>. QED
        BY <3>1 DEF Promise!emission, Up
    <2>6. CASE \E disabled \in SUBSET {"no_data", "no_note"}, ptr \in {"NULL", "user data"} :
                 SetData(disabled, ptr)
      <3>1. status' = status /\ ("user_code" \in flags' <=> "user_code" \in flags)
        BY <2>6 DEF SetData
      <3>. QED
        BY <3>1 DEF Promise!emission, Up
    <2>. QED
      BY <2>1, <2>2, <2>3, <2>4, <2>5, <2>6 DEF Next
  <1>. QED
    BY <1>1, <1>2, PTL DEF Spec, KeepsPromise, Promise!Safety
=============================================================================
