----------------------------- MODULE MCOptimize -----------------------------
(***************************************************************************)
(* Programs for Optimize.  Three registers: 1 and 2 are caller-save, 1 is  *)
(* the result, 3 is callee-save.                                           *)
(***************************************************************************)
EXTENDS Optimize

MCReg == 1..3
MCSaved == {3}
MCRet == {1}
MCWord == 0..1

AnyReg   == [named |-> None, nospill |-> FALSE]
NoSpill == [named |-> None, nospill |-> TRUE]
Named(r) == [named |-> r, nospill |-> FALSE]

Node(op, u, v, w) == [op |-> op, u |-> u, v |-> v, w |-> w, x |-> None, k |-> None, to |-> None, ask |-> <<>>]
Asking(n, ask) == [n EXCEPT !.ask = ask]
Plain(op) == Node(op, None, None, None)
MoviOf(r, k) == [Node("movi", r, None, None) EXCEPT !.k = k]
Jump(op, to) == [Plain(op) EXCEPT !.to = to]
Beqi(r, k, to) == [Node("beqi", None, r, None) EXCEPT !.k = k, !.to = to, !.ask = <<NoSpill>>]

(***************************************************************************)
(* Three blocks of one instruction and one end each; the second starts at  *)
(* place 4, the third at 7, the epilog is at 10.  An end that falls        *)
(* through is a node that was deleted.                                     *)
(***************************************************************************)
Program(i1, e1, i2, e2, i3, e3) ==
  <<Plain("prolog"), i1, e1, Plain("label"), i2, e2, Plain("label"), i3, e3, Plain("epilog")>>

Falls == Deleted
Ask1 == Asking(Node("addr", 1, 1, 1), <<AnyReg>>)
Ask2 == Asking(Node("addr", 1, 1, 1), <<AnyReg, AnyReg>>)
AskN == Asking(Node("addr", 1, 1, 1), <<Named(2), AnyReg>>)
Read2 == Asking(Node("addr", 1, 2, 1), <<AnyReg>>)
Read3 == Asking(Node("addr", 1, 3, 1), <<AnyReg>>)
Set2 == MoviOf(2, 0)
Set3 == MoviOf(3, 0)
Call(r) == Node("calli", None, r, None)
FarCall(r) == Asking(Call(r), <<AnyReg>>)
Boaddi(r, to) == [Node("boaddi", None, r, None) EXCEPT !.k = 1, !.to = to]
Ldxai == [Node("ldxai", 1, 2, None) EXCEPT !.k = 1]
Jmpr == Node("jmpr", 1, None, None)
Casr == [Asking(Node("casr", 1, 1, 2), <<AnyReg>>) EXCEPT !.x = 3]

Flow == {Program(i1, e1, i2, e2, i3, e3) :
  i1 \in {Set2, Set3}, e1 \in {Falls, Beqi(1, 0, 7), Jump("jmpi", 7), Call(None)},
  i2 \in {Ask1, Ask2, AskN, Read2, Set2},
  e2 \in {Falls, Beqi(1, 0, 4), Beqi(1, 0, 7), Beqi(1, 0, 10), Jump("jmpi", 4), Jump("jmpi", 10), FarCall(2)},
  i3 \in {Ask2, Read2, Read3, Set3}, e3 \in {Falls, Beqi(1, 0, 4), Jump("jmpi", 4), Jump("jmpi", 10)}}

\* Register pairs, branches that add, and jumps to an unknown place.
Special == {Program(i1, e1, i2, e2, i3, e3) :
  i1 \in {Set2, Set3}, e1 \in {Falls, Beqi(1, 0, 7), Jump("jmpi", 7)},
  i2 \in {Ask2, Set2, Casr}, e2 \in {Falls, Beqi(1, 0, 4), Boaddi(3, 4), Jmpr},
  i3 \in {Ask2, Read2, Casr}, e3 \in {Falls, Jump("jmpi", 4), Jmpr}}

(***************************************************************************)
(* Three or four instructions in a row, for what is remembered of values;  *)
(* and a branch to two of them.                                            *)
(***************************************************************************)
Moves  == {MoviOf(1, 0), MoviOf(1, 1), MoviOf(2, 1), Node("movr", 2, 1, None), Node("movr", 1, 2, None)}
Memory == {Node("ldxi", 1, 2, None), Node("ldxi", 2, 1, None), Node("stxi", None, 2, 1),
           Node("addr", 2, 2, 1)}

Three == {<<Plain("prolog"), a, b, c, Plain("epilog")>> : a, b, c \in Moves \cup Memory}
Four  == {<<Plain("prolog"), a, b, c, d, Plain("epilog")>> : a, b, c, d \in Moves}
Branching == {<<Plain("prolog"), a, Beqi(1, 1, 6), Plain("label"), Jump("jmpi", 9),
               Plain("label"), b, c, Plain("epilog")>> : a, b, c \in Moves}

(***************************************************************************)
(* Two labels, what is between them, and what is in front of the first: a  *)
(* jump, or code that goes on; the branches to them tell where 1 is set.   *)
(***************************************************************************)
Labels == {<<Plain("prolog"), Beqi(1, 1, 9), Plain("label"), Beqi(1, 0, 7), Plain("label"), e,
            Plain("label"), n, Plain("label"), a, b, e2, Plain("epilog")>> :
  e \in {Falls, Jump("jmpi", 13), Jump("jmpi", 9), Jmpr}, n \in {Deleted, Set2, Ask1},
  a, b \in {MoviOf(1, 1), MoviOf(1, 0), Read2, Read3}, e2 \in {Falls, Beqi(1, 0, 7), Jump("jmpi", 7)}}

\* Two functions, which save registers of their own.
Functions == {<<Plain("prolog"), a, b, Plain("epilog"), Plain("prolog"), c, d, Plain("epilog")>> :
  a, b, c, d \in {Set2, Set3, Ask1, Ask2}}

\* A value for the call at the end of the block.
Passing == {<<Plain("prolog"), a, b, c, FarCall(2), Plain("label"), Read3, Plain("epilog")>> :
  a, b, c \in {Set2, Set3, Ask1, Ask2, AskN, Ldxai, Casr}}

MCPrograms == Labels \cup Functions \cup Passing \cup Flow \cup Special \cup Three \cup Four \cup Branching
=============================================================================
