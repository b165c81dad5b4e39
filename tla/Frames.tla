------------------------------- MODULE Frames -------------------------------
(***************************************************************************)
(* Arguments, calls and the stack frame of a function on x86_64, as on     *)
(* Linux: where jit_arg and jit_pusharg put arguments, what jit_allocai    *)
(* and jit_allocar give out, what the prolog lays out when code is         *)
(* generated, and the list of variable arguments.                          *)
(*                                                                         *)
(* Offsets are from the frame pointer, which the prolog sets to the place  *)
(* where it saves the old one; below it are the blocks of jit_allocai, and *)
(* at the stack pointer the arguments of calls; above it are the saved     *)
(* registers, the return address and the arguments of the function.        *)
(***************************************************************************)
EXTENDS Integers, Sequences, FiniteSets

CONSTANTS
  ArgRegs,    \* registers for words: 6
  FloatRegs,  \* registers for floats and doubles: 8
  Saves,      \* callee-save registers, the size of iregs: 5
  Lengths,    \* lengths given to jit_allocai
  Sizes,      \* sizes given to jit_allocar when the function runs
  Requests,   \* sizes given to jit_frame and jit_tramp
  MaxCalls,   \* bound: calls of the interface for a function
  MaxSpills,  \* bound: registers spilled
  MaxRun      \* bound: arguments behind the ellipsis, and blocks of jit_allocar

ASSUME FramesAssumption ==
  /\ {ArgRegs, FloatRegs, Saves, MaxCalls, MaxSpills, MaxRun} \subseteq Nat
  /\ ArgRegs =< 16 /\ FloatRegs =< 16 \* no number of a register is an offset
  /\ Lengths \subseteq Nat /\ Sizes \subseteq Nat /\ Requests \subseteq Nat

VARIABLES
  step,     \* build, emit, body, run, or failed; and how many calls were made
  self,     \* function->self: arguments of the function
  call,     \* function->call: arguments of the call being prepared
  prepare,  \* _jitc->prepare: a call is being prepared
  args,     \* what jit_arg returned
  pushes,   \* where the arguments of the last call were put (history)
  aoff,     \* self.aoff: the lower end of the blocks
  alen,     \* self.alen: bytes for the arguments of calls
  blocks,   \* what jit_allocai gave out
  need,     \* function->need_frame
  dynamic,  \* function->aoffoff, if function->allocar
  va,       \* function->vaoff, vagp and vafp
  frame,    \* function->frame, and whether jit_frame or jit_tramp was called
  saves,    \* how many callee-save registers are in function->regset
  again,    \* _jitc->again, and how often the function was generated
  stack,    \* function->stack
  borrowed, \* the prolog has put aoff in %rax
  run       \* the stack and the list of variable arguments when the code runs

frameVars == <<step, self, call, prepare, args, pushes, aoff, alen, blocks, need,
               dynamic, va, frame, saves, again, stack, borrowed, run>>
Word == 8
None == -1

\* x & -n; and x rounded up to the alignment of the stack.
Aligned(x, n) == (x \div n) * n
BugUp(x) == Aligned(x + 15, Word)
Up(x) == Aligned(x + 15, 16)

\* stack_framesize, and compute_framesize for n saved registers.
Framesize(n) == Up((n + 1) * Word) + Word
StackFramesize == Framesize(Saves)

NoArgs == [argi |-> 0, argf |-> 0, size |-> 0, varargs |-> FALSE]

FrameInit ==
  /\ step = [at |-> "build", calls |-> 0]
  /\ self = [NoArgs EXCEPT !.size = StackFramesize + Word] /\ call = NoArgs
  /\ prepare = FALSE /\ args = <<>> /\ pushes = <<>>
  /\ aoff = 0 /\ alen = 0 /\ blocks = {} /\ need = FALSE
  /\ dynamic = None /\ va = [off |-> 0, gp |-> 0, fp |-> 0]
  /\ frame = [size |-> 0, by |-> "prolog"] /\ saves = 0
  /\ again = [due |-> FALSE, times |-> 0] /\ stack = 0 /\ borrowed = FALSE
  /\ run = [sp |-> 0, top |-> 0, given |-> {}, extra |-> <<>>, gp |-> 0, fp |-> 0, over |-> 0, got |-> <<>>]

-----------------------------------------------------------------------------
(***************************************************************************)
(* The interface.                                                          *)
(***************************************************************************)
Calling == /\ step.at = "build" /\ step.calls < MaxCalls
           /\ step' = [step EXCEPT !.calls = @ + 1]

EmitKeeps == UNCHANGED <<frame, saves, again, stack, borrowed, run>>

Class(kind) == IF kind = "word" THEN "word" ELSE "float"
Limit(class) == IF class = "word" THEN ArgRegs ELSE FloatRegs
Taken(to, class) == IF class = "word" THEN to.argi ELSE to.argf

\* One more argument, in a register or on the stack.
InRegister(to, class) ==
  IF class = "word" THEN [to EXCEPT !.argi = @ + 1] ELSE [to EXCEPT !.argf = @ + 1]
OnStack(to) == [to EXCEPT !.size = @ + Word]

BugHasRegister(to, class) == Taken(to, class) =< Limit(class)
HasRegister(to, class) == Taken(to, class) < Limit(class)

(***************************************************************************)
(* jit_arg, jit_arg_f and jit_arg_d, before anything else but jit_frame.   *)
(***************************************************************************)
Arg(kind) == LET c == Class(kind) IN
  /\ Calling /\ ~self.varargs /\ blocks = {} /\ pushes = <<>> /\ ~prepare
  /\ args' = Append(args, [kind |-> kind, at |-> IF HasRegister(self, c) THEN Taken(self, c) ELSE self.size])
  /\ self' = IF HasRegister(self, c) THEN InRegister(self, c) ELSE OnStack(self)
  /\ need' = (need \/ ~HasRegister(self, c))
  /\ UNCHANGED <<call, prepare, pushes, aoff, alen, blocks, dynamic, va>> /\ EmitKeeps

Prepare ==
  /\ Calling /\ ~prepare
  /\ prepare' = TRUE /\ call' = NoArgs /\ pushes' = <<>>
  /\ UNCHANGED <<self, args, aoff, alen, blocks, need, dynamic, va>> /\ EmitKeeps

(***************************************************************************)
(* jit_pusharg: by is r or i, for an argument that is in a register or an  *)
(* immediate.  pushargr_f looks at the arguments of the function.          *)
(***************************************************************************)
Side(kind, by) == IF kind = "float" /\ by = "r" THEN self ELSE call

Push(kind, by) ==
  LET c == Class(kind)
      inReg == HasRegister(Side(kind, by), c) IN
  /\ Calling /\ prepare
  /\ pushes' = Append(pushes, [kind |-> kind, by |-> by,
       to |-> IF inReg THEN <<c, Taken(call, c)>> ELSE <<"stack", call.size>>])
  /\ call' = IF inReg THEN InRegister(call, c) ELSE OnStack(call)
  /\ need' = (need \/ ~inReg)
  /\ UNCHANGED <<self, prepare, args, aoff, alen, blocks, dynamic, va>> /\ EmitKeeps

EllipsisOfCall ==
  /\ Calling /\ prepare /\ ~call.varargs
  /\ call' = [call EXCEPT !.varargs = TRUE] /\ need' = TRUE
  /\ UNCHANGED <<self, prepare, args, pushes, aoff, alen, blocks, dynamic, va>> /\ EmitKeeps

\* jit_finish
Outgoing == IF alen < call.size THEN call.size ELSE alen
Finish ==
  /\ Calling /\ prepare
  /\ alen' = Outgoing /\ need' = TRUE
  /\ call' = [call EXCEPT !.argi = 0, !.argf = 0, !.size = 0] /\ prepare' = FALSE
  /\ UNCHANGED <<self, args, pushes, aoff, blocks, dynamic, va>> /\ EmitKeeps

(***************************************************************************)
(* jit_allocai: the lower end of a block of length n.                      *)
(***************************************************************************)
Granule(n) == IF n =< 2 THEN (IF n = 2 THEN 2 ELSE 1) ELSE IF n =< 4 THEN 4 ELSE 8
BlockAt(n) == Aligned(aoff, Granule(n)) - n

Gives(n, owner) ==
  /\ aoff' = BlockAt(n) /\ need' = TRUE
  /\ blocks' = blocks \cup {[at |-> BlockAt(n), length |-> n, of |-> owner]}

Allocai(n) ==
  /\ Calling /\ Gives(n, "program")
  /\ UNCHANGED <<self, call, prepare, args, pushes, alen, dynamic, va>> /\ EmitKeeps

\* The first jit_allocar keeps a word of four bytes for the lower end of its blocks.
Allocar ==
  /\ Calling /\ dynamic = None /\ frame.by # "tramp"
  /\ Gives(4, "allocar") /\ dynamic' = BlockAt(4)
  /\ UNCHANGED <<self, call, prepare, args, pushes, alen, va>> /\ EmitKeeps

(***************************************************************************)
(* jit_ellipsis in a function: room for a va_list and for the registers    *)
(* that arguments may be in, and where those behind the ellipsis start.    *)
(***************************************************************************)
SaveArea == 24
MaxGp == ArgRegs * 8
MaxFp == MaxGp + FloatRegs * 16
VaList == SaveArea + MaxFp

BugFirstFp == MaxGp
FirstFp == IF HasRegister(self, "float") THEN self.argf * 16 + MaxGp ELSE MaxFp
FirstGp == IF HasRegister(self, "word") THEN self.argi * 8 ELSE MaxGp

EllipsisOfSelf ==
  /\ Calling /\ ~prepare /\ pushes = <<>> /\ ~self.varargs
  /\ self' = [self EXCEPT !.varargs = TRUE]
  /\ Gives(VaList, "va_list") /\ va' = [off |-> BlockAt(VaList), gp |-> FirstGp, fp |-> FirstFp]
  /\ UNCHANGED <<call, prepare, args, pushes, alen, dynamic>> /\ EmitKeeps

(***************************************************************************)
(* jit_frame and jit_tramp, right behind the prolog: all callee-save       *)
(* registers are saved, by this function or by the one that jumps here.    *)
(***************************************************************************)
Trampoline(n, by) ==
  /\ Calling /\ step.calls = 0
  /\ frame' = [size |-> n + 24 - aoff, by |-> by] /\ saves' = Saves
  /\ UNCHANGED <<self, call, prepare, args, pushes, aoff, alen, blocks, need, dynamic, va,
                 again, stack, borrowed, run>>

-----------------------------------------------------------------------------
(***************************************************************************)
(* jit_emit: the function is complete, and jit_optimize finds the callee-  *)
(* save registers that it changes.                                         *)
(***************************************************************************)
BuildKeeps == UNCHANGED <<self, call, prepare, args, pushes, alen, dynamic, va, frame>>

Goes(where) == step' = [step EXCEPT !.at = where]

Complete(n) ==
  /\ step.at = "build" /\ ~prepare /\ Goes("emit")
  /\ saves' = IF frame.by = "prolog" THEN n ELSE saves
  /\ BuildKeeps /\ UNCHANGED <<aoff, blocks, need, again, stack, borrowed, run>>

(***************************************************************************)
(* The prolog of emit_code.  One of jit_tramp lays out nothing.  For       *)
(* jit_allocar a register is lent to keep aoff in memory; that may be the  *)
(* one in which the caller says whether it passes floats.                  *)
(***************************************************************************)
Enough == frame.by = "prolog" \/ aoff >= -frame.size
BugBottom == IF frame.by = "frame" THEN -frame.size ELSE aoff
Bottom == LET a == IF frame.by = "frame" THEN -frame.size ELSE aoff IN
          IF dynamic # None THEN Aligned(a, 16) ELSE a

Prolog(rax) ==
  /\ step.at = "emit" /\ Enough /\ Goes("body")
  /\ rax => dynamic # None
  /\ IF frame.by = "tramp"
     THEN UNCHANGED <<aoff, stack>>
     ELSE aoff' = Bottom /\ stack' = Up(alen - Bottom)
  /\ borrowed' = rax
  /\ need' = (need \/ frame.by # "prolog")
  /\ again' = [due |-> frame.by # "prolog" /\ ~need, times |-> again.times + 1]
  /\ BuildKeeps /\ UNCHANGED <<blocks, saves, run>>

\* The assertion of the prolog.
PrologFails ==
  /\ step.at = "emit" /\ ~Enough /\ Goes("failed")
  /\ BuildKeeps /\ UNCHANGED <<aoff, blocks, need, saves, again, stack, borrowed, run>>

(***************************************************************************)
(* The nodes of the function.  The first time, registers are spilled to    *)
(* new blocks, callee-save registers are lent that the prolog did not      *)
(* save, and a call may turn out to need a frame pointer: then the         *)
(* function is generated again.                                            *)
(***************************************************************************)
First == step.at = "body" /\ again.times = 1
Due == again' = [again EXCEPT !.due = TRUE]
Slots == {b \in blocks : b.of = "spill"}

Spill ==
  /\ First /\ Cardinality(Slots) < MaxSpills
  /\ Gives(Word, "spill") /\ Due
  /\ BuildKeeps /\ UNCHANGED <<step, saves, stack, borrowed, run>>

SaveMore ==
  /\ First /\ saves < Saves /\ saves' = saves + 1 /\ Due
  /\ BuildKeeps /\ UNCHANGED <<step, aoff, blocks, need, stack, borrowed, run>>

CheckFrame ==
  /\ First /\ ~need /\ need' = TRUE /\ Due
  /\ BuildKeeps /\ UNCHANGED <<step, aoff, blocks, saves, stack, borrowed, run>>

\* The epilog: aoff is not taken back, but for what the prolog gave it.
Again ==
  /\ step.at = "body" /\ again.due /\ Goes("emit")
  /\ aoff' = frame.size + aoff
  /\ BuildKeeps /\ UNCHANGED <<blocks, need, saves, again, stack, borrowed, run>>

(***************************************************************************)
(* There is no room for this function or one behind it: the next pass      *)
(* finds in the function what this one left there.                         *)
(***************************************************************************)
OutOfRoom ==
  /\ step.at = "body" /\ Goes("emit")
  /\ again' = [due |-> FALSE, times |-> again.times - 1]
  /\ BuildKeeps /\ UNCHANGED <<aoff, blocks, need, saves, stack, borrowed, run>>

-----------------------------------------------------------------------------
(***************************************************************************)
(* Execution.  The function is called with its arguments and extra ones    *)
(* behind the ellipsis.  One that starts with jit_tramp has the stack of   *)
(* one that starts with jit_frame of the same size and calls nothing.      *)
(***************************************************************************)
Behind == self.size - (StackFramesize - Framesize(saves))
Enter(extra) ==
  /\ step.at = "body" /\ ~again.due /\ Goes("run")
  /\ run' = [run EXCEPT !.sp = IF frame.by = "tramp" THEN -Up(frame.size) ELSE -stack,
                        !.top = aoff, !.extra = extra]
  /\ BuildKeeps /\ UNCHANGED <<aoff, blocks, need, saves, again, stack, borrowed>>

RunKeeps == /\ BuildKeeps /\ UNCHANGED <<step, aoff, blocks, need, saves, again, stack, borrowed>>

\* jit_allocar
RunAllocar(n) == LET down == Aligned(-n, 16) IN
  /\ step.at = "run" /\ dynamic # None /\ Cardinality(run.given) < MaxRun
  /\ run' = [run EXCEPT !.sp = @ + down, !.top = @ + down,
                        !.given = @ \cup {[at |-> run.top + down, length |-> n]}]
  /\ RunKeeps

\* jit_va_start, before the first jit_va_arg.
VaStart ==
  /\ step.at = "run" /\ self.varargs /\ run.over = 0
  /\ run' = [run EXCEPT !.gp = va.gp, !.fp = va.fp, !.over = Behind]
  /\ RunKeeps

Remaining == Len(run.got) < Len(run.extra)
NextKind == run.extra[Len(run.got) + 1]

\* jit_va_arg and jit_va_arg_d, when there are registers left and when there are none.
VaArgSaved(kind) ==
  LET at == IF kind = "word" THEN run.gp ELSE run.fp IN
  /\ step.at = "run" /\ run.over # 0 /\ Remaining /\ NextKind = kind
  /\ at < (IF kind = "word" THEN MaxGp ELSE MaxFp)
  /\ run' = [run EXCEPT !.got = Append(@, va.off + SaveArea + at),
                        !.gp = IF kind = "word" THEN @ + 8 ELSE @,
                        !.fp = IF kind = "word" THEN @ ELSE @ + 16]
  /\ RunKeeps

VaArgOver(kind) ==
  LET at == IF kind = "word" THEN run.gp ELSE run.fp IN
  /\ step.at = "run" /\ run.over # 0 /\ Remaining /\ NextKind = kind
  /\ at >= (IF kind = "word" THEN MaxGp ELSE MaxFp)
  /\ run' = [run EXCEPT !.got = Append(@, run.over), !.over = @ + Word]
  /\ RunKeeps

Kinds == {"word", "float", "double"}
\* A word or a double is put in the same place by either.
By(kind) == IF kind = "float" THEN {"r", "i"} ELSE {"r"}
Extras == IF self.varargs THEN UNION {[1..n -> {"word", "double"}] : n \in 0..MaxRun} ELSE {<<>>}

Interface == \/ \E kind \in Kinds : Arg(kind) \/ \E by \in By(kind) : Push(kind, by)
             \/ Prepare \/ EllipsisOfCall \/ Finish
             \/ \E n \in Lengths : Allocai(n)
             \/ Allocar \/ EllipsisOfSelf
             \/ \E n \in Requests, by \in {"frame", "tramp"} : Trampoline(n, by)
Generate == \/ \E n \in 0..Saves : Complete(n)
            \/ \E rax \in BOOLEAN : Prolog(rax)
            \/ PrologFails \/ Spill \/ SaveMore \/ CheckFrame \/ Again \/ OutOfRoom
Execute  == \/ \E extra \in Extras : Enter(extra)
            \/ \E n \in Sizes : RunAllocar(n)
            \/ VaStart \/ \E kind \in {"word", "double"} : VaArgSaved(kind) \/ VaArgOver(kind)
FrameNext == Interface \/ Generate \/ Execute
FrameSpec == FrameInit /\ [][FrameNext]_frameVars

-----------------------------------------------------------------------------
(***************************************************************************)
(* The type invariant.                                                     *)
(***************************************************************************)
ArgsOK(a) == /\ a.argi \in 0..ArgRegs /\ a.argf \in Nat
             /\ a.size \in Nat /\ a.varargs \in BOOLEAN
FrameTypeOK ==
  /\ step.at \in {"build", "emit", "body", "run", "failed"} /\ step.calls \in 0..MaxCalls
  /\ ArgsOK(self) /\ self.argf =< FloatRegs /\ ArgsOK(call) /\ {prepare, need, again.due, borrowed} \subseteq BOOLEAN
  /\ aoff \in Int /\ alen \in Nat /\ stack \in Nat /\ stack % 16 = 0
  /\ \A b \in blocks : b.at \in Int /\ b.length \in Nat
  /\ saves \in 0..Saves /\ frame.by \in {"prolog", "frame", "tramp"} /\ again.times \in Nat

(***************************************************************************)
(* The reference for arguments: the calling convention of C.  Each class   *)
(* has its registers, and arguments without one follow each other on the   *)
(* stack.                                                                  *)
(***************************************************************************)
Before(kinds, i) == Cardinality({j \in 1..i - 1 : Class(kinds[j]) = Class(kinds[i])})
Overflowed(kinds, i) == Before(kinds, i) >= Limit(Class(kinds[i]))
Convention(kinds, i) ==
  IF Overflowed(kinds, i)
  THEN <<"stack", Word * Cardinality({j \in 1..i - 1 : Overflowed(kinds, j)})>>
  ELSE <<Class(kinds[i]), Before(kinds, i)>>

KindsOf(list) == [i \in DOMAIN list |-> list[i].kind]

\* Where jit_getarg looks: u.w is the number of a register, or an offset.
PlaceOf(arg) ==
  IF arg.at < Limit(Class(arg.kind)) THEN <<Class(arg.kind), arg.at>>
  ELSE <<"stack", arg.at - (StackFramesize + Word)>>

\* pushargr_f asks whether the function has float arguments left, not the call.
Misjudged(i) == LET p == pushes[i] IN
  /\ p.kind = "float" /\ p.by = "r"
  /\ HasRegister(self, "float") # ~Overflowed(KindsOf(pushes), i)

(***************************************************************************)
(* A function looks for its arguments where C puts them, and a call puts   *)
(* its arguments where C looks, though both are handed out one by one from *)
(* two sets of registers and one stack.  Not so behind a float that        *)
(* pushargr_f puts in the wrong place.                                     *)
(***************************************************************************)
ByConvention ==
  /\ \A i \in DOMAIN args : PlaceOf(args[i]) = Convention(KindsOf(args), i)
  /\ \A i \in DOMAIN pushes :
       (\A j \in 1..i : ~Misjudged(j)) => pushes[i].to = Convention(KindsOf(pushes), i)

(***************************************************************************)
(* The parts of the stack, as pairs of an offset and a length.  Registers  *)
(* that a function of jit_frame or jit_tramp spills are left out: their    *)
(* blocks are below the frame.                                             *)
(***************************************************************************)
Part(at, n) == [at |-> at, length |-> n]
Above == {Part(0, Word)} \cup {Part(Word * n, Word) : n \in 1..saves}
           \cup {Part(Framesize(saves), Word)}
Incoming == {Part(args[i].at - (StackFramesize - Framesize(saves)), Word) :
               i \in {i \in DOMAIN args : PlaceOf(args[i])[1] = "stack"}}
Static == {Part(b.at, b.length) : b \in IF frame.by = "prolog" THEN blocks ELSE blocks \ Slots}
OfCalls == {Part(run.sp, alen)}
Parts == Above \cup Incoming \cup Static \cup run.given \cup OfCalls

Apart(p, q) == p.at + p.length =< q.at \/ q.at + q.length =< p.at \/ 0 \in {p.length, q.length}

\* What the documentation asks of the size given to jit_tramp.
Sufficient == frame.by = "tramp" =>
  alen =< frame.size /\ \A b \in blocks \ Slots : b.at - alen >= -frame.size

(***************************************************************************)
(* When the function runs, the blocks it was given, those it asks for as   *)
(* it runs, the arguments of its calls, what the prolog saved and its own  *)
(* arguments are apart, nothing is below the stack pointer, there is room  *)
(* for the arguments of the last call, and the stack is aligned; however   *)
(* often the function was generated.                                       *)
(***************************************************************************)
FrameApart ==
  step.at = "run" /\ Sufficient =>
    /\ \A p, q \in Parts : p # q => Apart(p, q)
    /\ \A p \in Parts : p.length = 0 \/ p.at >= run.sp
    /\ \A i \in DOMAIN pushes : pushes[i].to[1] = "stack" => pushes[i].to[2] + Word =< alen
    /\ \A p \in run.given : p.at % 16 = 0
    /\ run.sp % 16 = 0 /\ Framesize(saves) % 16 = Word
    /\ run.sp < 0 => need

(***************************************************************************)
(* What is at an address: an argument that the prolog saved, if it saved   *)
(* it, or one on the stack.  Registers for floats are saved if any is used *)
(* (%al), or, if aoff was put in %rax, unless its last byte is zero.       *)
(***************************************************************************)
AllKinds == KindsOf(args) \o run.extra
FloatsUsed == \E i \in DOMAIN AllKinds : Convention(AllKinds, i)[1] = "float"

FloatsLost  == borrowed /\ aoff % 256 = 0
FloatsSaved == IF borrowed THEN aoff % 256 # 0 ELSE FloatsUsed

Content(at) ==
  LET saved == at - va.off - SaveArea
      n     == saved \div 8
      m     == (saved - MaxGp) \div 16 IN
  IF at >= Framesize(saves) + Word THEN <<"stack", at - Framesize(saves) - Word>>
  ELSE IF frame.by = "tramp" THEN <<"junk", at>>
  ELSE IF saved < MaxGp THEN (IF n >= va.gp \div 8 THEN <<"word", n>> ELSE <<"junk", at>>)
  ELSE IF FloatsSaved /\ m >= (va.fp - MaxGp) \div 16 THEN <<"float", m>> ELSE <<"junk", at>>

(***************************************************************************)
(* jit_va_arg finds the arguments behind the ellipsis, in their order,     *)
(* whether their registers were saved or they were on the stack, behind    *)
(* the named ones.  Two cases are left out, in which the prolog does not   *)
(* save registers that arguments are in: a function of jit_tramp, which has*)
(* no prolog of its own; and floats, if it calls jit_allocar, and aoff was *)
(* put where the caller says that it passes floats, and looks like none.   *)
(***************************************************************************)
VarargsFound ==
  step.at = "run" /\ frame.by # "tramp" => \A i \in DOMAIN run.got :
    LET place == Convention(AllKinds, Len(args) + i) IN
    Content(run.got[i]) = place \/ (place[1] = "float" /\ FloatsLost)
=============================================================================
