---------------------------- MODULE ConstantTable ----------------------------
(***************************************************************************)
(* What jit_data promises: a constant that was asked for has one place,    *)
(* for good, and shares no byte with another one.                          *)
(***************************************************************************)
EXTENDS Integers

CONSTANTS
  Constants, \* sequences of bytes
  Length     \* how many bytes each has

VARIABLE placed \* pairs of a constant and its place

Known == {p[1] : p \in placed}

Init == placed = {}

Place(c) ==
  /\ c \notin Known
  /\ \E p \in placed' :
       /\ p[1] = c /\ placed' = placed \cup {p}
       /\ \A q \in placed : q[2] + Length[q[1]] =< p[2]

Next == \E c \in Constants : Place(c)
Spec == Init /\ [][Next]_placed
=============================================================================
