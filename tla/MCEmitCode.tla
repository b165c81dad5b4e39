----------------------------- MODULE MCEmitCode -----------------------------
(***************************************************************************)
(* Small programs for EmitCode: every mix of what two instructions of a    *)
(* function may ask of it, with jumps backward, forward, to the epilog and *)
(* between functions.                                                      *)
(***************************************************************************)
EXTENDS EmitCode

\* A frame pointer, two callee save registers and a spill slot.
MCResources == {"frame", "rbx", "r12", "slot"}
MCSaved     == {"rbx", "r12"}

N(op, fn, to, has, uses) == [op |-> op, fn |-> fn, to |-> to, has |-> has, uses |-> uses]

\* A loop over a stack argument, whose body asks for u, then for v, with a way out.
LoopProgram(u, v) ==
  << N("prolog", 1, 0, {"frame"}, {}),
     N("label",  1, 0, {}, {}),
     N("arg",    1, 0, {}, {}),
     N("insn",   1, 0, {}, u),
     N("jump",   1, 7, {}, {}),
     N("jump",   1, 2, {}, v),
     N("label",  1, 0, {}, {}),
     N("epilog", 1, 0, {}, {}) >>

\* Two functions that jump into each other, and a stub outside both.
PairProgram(u, v) ==
  << N("jump",   0, 7, {}, {}),
     N("prolog", 2, 0, {}, u),
     N("jump",   2, 7, {}, {}),
     N("jump",   2, 5, {}, {}),
     N("epilog", 2, 0, {}, {}),
     N("prolog", 6, 0, {"frame"}, {}),
     N("label",  6, 0, {}, {}),
     N("arg",    6, 0, {}, v),
     N("jump",   6, 10, {}, {}),
     N("epilog", 6, 0, {}, {}) >>

\* A function whose prolog needs a scratch register (allocar), between two
\* jumps outside any function, with a label nothing jumps to.
StubProgram(u, v) ==
  << N("jump",   0, 3, {}, {}),
     N("jump",   0, 7, {}, {}),
     N("label",  0, 0, {}, {}),
     N("prolog", 4, 0, {"frame"}, u),
     N("arg",    4, 0, {}, {}),
     N("label",  4, 0, {}, {}),
     N("label",  4, 0, {}, {}),
     N("jump",   4, 3, {}, v),
     N("epilog", 4, 0, {}, {}),
     N("jump",   0, 3, {}, {}) >>

Needs == {{}, {"frame"}, {"rbx"}, {"r12"}, {"rbx", "slot"}}

MCPrograms ==
  UNION {{LoopProgram(u, v), PairProgram(u, v), StubProgram(u, v)} : u, v \in Needs}

\* Prologs and epilogs grow with what they save, a known target is nearer.
MCSize(n, h, known) ==
  CASE n.op \in {"prolog", "epilog"} -> 1 + Cardinality(h \cap {"frame", "rbx"})
    [] n.op = "jump" -> IF known THEN 1 ELSE 2
    [] OTHER -> 1

MCBases == {0, 64}
MCLengths == {8, 11, 14, 17, 40}
=============================================================================
