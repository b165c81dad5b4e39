---------------------------- MODULE MCInterface ----------------------------
(***************************************************************************)
(* What is recorded while nodes are added: constants and notes, and the    *)
(* arguments and blocks of a function.  The two share no state, so that    *)
(* each is explored from the initial state of the other.                   *)
(*                                                                         *)
(* Constants for Notes: a name h longer than a page, an empty string e,    *)
(* and two immediates: a float, and a double of the same bytes as file g.  *)
(* The page and the table are small, so that both grow; with h, g and e,   *)
(* in this order, a pool of odd length is full.                            *)
(***************************************************************************)
EXTENDS Notes, Frames

MCConstants == {"e", "g", "h", "one"}
MCLength == [c \in MCConstants |-> CASE c = "e" -> 1 [] c = "g" -> 8 [] c = "h" -> 19 [] OTHER -> 4]
MCHash   == [c \in MCConstants |-> CASE c = "e" -> 1 [] c = "g" -> 3 [] c = "h" -> 5 [] OTHER -> 2]
MCImmediates == {<<"one", 4>>, <<"g", 8>>}

InterfaceInit == Init /\ FrameInit
InterfaceNext == \/ FrameInit /\ Next /\ UNCHANGED frameVars
                 \/ Init /\ FrameNext /\ UNCHANGED vars
InterfaceSpec == InterfaceInit /\ [][InterfaceNext]_<<vars, frameVars>>
=============================================================================
