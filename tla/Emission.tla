------------------------------ MODULE Emission ------------------------------
(***************************************************************************)
(* What jit_emit promises its caller, whatever happens in between: it      *)
(* returns; it returns NULL only when the code was to go to a buffer of    *)
(* the caller's; and when it returns code, every jump of the program goes  *)
(* to the place its label ended at.                                        *)
(***************************************************************************)
CONSTANT Jump  \* the jumps a program may have

VARIABLES
  jumps,   \* the jumps of the program being emitted
  status,  \* "ready", "busy", "failed" or "done"
  user,    \* the buffer belongs to the caller
  linked   \* the jumps that go to their label

emission == <<jumps, status, user, linked>>

Init == jumps \subseteq Jump /\ status = "ready" /\ user = FALSE /\ linked = {}

SetCode ==
  /\ status \in {"ready", "failed"}
  /\ user' = TRUE /\ status' = "ready"
  /\ UNCHANGED <<jumps, linked>>

Call ==
  /\ status = "ready"
  /\ status' = "busy"
  /\ UNCHANGED <<jumps, user, linked>>

ReturnNull ==
  /\ status = "busy" /\ user
  /\ status' = "failed"
  /\ UNCHANGED <<jumps, user, linked>>

ReturnCode ==
  /\ status = "busy"
  /\ status' = "done" /\ linked' = jumps
  /\ UNCHANGED <<jumps, user>>

Next == SetCode \/ Call \/ ReturnNull \/ ReturnCode

Safety == Init /\ [][Next]_emission

Spec == Safety /\ WF_emission(ReturnNull \/ ReturnCode)
=============================================================================
