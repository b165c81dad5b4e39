---------------------------- MODULE FramesProofs ----------------------------
(***************************************************************************)
(* The stack frame of a function: its parts are apart, whatever registers  *)
(* there are, and whatever is declared, passed and asked for.              *)
(***************************************************************************)
EXTENDS Frames, FiniteSetTheorems, TLAPS

-----------------------------------------------------------------------------
(***************************************************************************)
(* The inductive invariant.                                                *)
(***************************************************************************)
Pushed == [kind : Kinds, by : {"r", "i"}, to : {"word", "float", "stack"} \X Nat]
Owners == {"program", "allocar", "va_list", "spill"}
Counts == [argi : Nat, argf : Nat, size : Nat, varargs : BOOLEAN]
Places == [at : Int, length : Nat]

Typed ==
  /\ step \in [at : {"build", "emit", "body", "run", "failed"}, calls : 0..MaxCalls]
  /\ self \in Counts /\ call \in Counts
  /\ prepare \in BOOLEAN /\ need \in BOOLEAN
  /\ args \in Seq([kind : Kinds, at : Nat])
  /\ pushes \in Seq(Pushed)
  /\ aoff \in Int /\ alen \in Nat /\ dynamic \in Int
  /\ blocks \subseteq [at : Int, length : Nat, of : Owners]
  /\ frame \in [size : Nat, by : {"prolog", "frame", "tramp"}]
  /\ saves \in 0..Saves
  /\ again \in [due : BOOLEAN, times : Nat]
  /\ stack \in Nat /\ stack % 16 = 0

\* No more registers than there are.
Few == /\ self.argi =< ArgRegs /\ self.argf =< FloatRegs /\ call.argi =< ArgRegs

Started ==
  /\ step.at = "build" => again.times = 0
  /\ step.at = "build" /\ step.calls = 0 => aoff = 0 /\ blocks = {} /\ dynamic = None
  /\ step.at \in {"body", "run"} => again.times >= 1
  /\ step.at # "build" => prepare = FALSE

\* Each argument on the stack is behind the one before.
Placed ==
  /\ self.size >= StackFramesize + Word
  /\ \A i \in DOMAIN args :
       \/ args[i].at < Limit(Class(args[i].kind))
       \/ args[i].at >= StackFramesize + Word /\ args[i].at + Word =< self.size
  /\ \A i, j \in DOMAIN args : i < j /\ args[i].at >= StackFramesize + Word =>
       args[j].at < Limit(Class(args[j].kind)) \/ args[i].at + Word =< args[j].at

Passed == \A i \in DOMAIN pushes : pushes[i].to[1] = "stack" =>
  pushes[i].to[2] + Word =< (IF prepare THEN call.size ELSE alen)

\* The blocks are from the top down, but for what jit_frame and jit_tramp spill.
Fixed == IF frame.by = "prolog" THEN blocks ELSE blocks \ Slots

\* It was not generated to its end.
Young == again.times = 0 \/ (again.times = 1 /\ step.at = "body")

Blocked ==
  /\ \A b, c \in Fixed : b # c => Apart(b, c)
  /\ \A b \in Fixed :
       /\ b.at + b.length =< 0
       /\ frame.by = "prolog" \/ Young => aoff =< b.at
       /\ frame.by = "frame" /\ again.times > 0 => -frame.size =< b.at

Framed ==
  /\ frame.by = "prolog" => frame.size = 0
  /\ frame.by = "tramp" => dynamic = None
  /\ frame.by # "tramp" \/ Young => aoff =< 0
  /\ frame.by = "frame" /\ step.at \in {"body", "run"} => aoff =< -frame.size

Needy ==
  /\ alen > 0 \/ aoff < 0 => need \/ frame.by # "prolog"
  /\ frame.by # "prolog" /\ step.at \in {"body", "run"} => need
  /\ dynamic # None => need

\* The prolog fits what was given out, or the function is generated again.
Laid ==
  step.at = "run" \/ (step.at = "body" /\ ~again.due) =>
    (frame.by # "tramp" => /\ stack = Up(alen - aoff)
                           /\ dynamic # None => aoff % 16 = 0)

RunTyped == /\ run.sp \in Int /\ run.top \in Int /\ run.given \subseteq Places
            /\ step.at # "run" => run.given = {}
            /\ DOMAIN run = {"sp", "top", "given", "extra", "gp", "fp", "over", "got"}

Running ==
  step.at = "run" =>
    /\ run.sp % 16 = 0
    /\ frame.by = "tramp" => run.given = {} /\ run.sp = -Up(frame.size)
    /\ frame.by # "tramp" => run.top =< aoff /\ run.sp + alen =< run.top
    /\ dynamic # None => run.top % 16 = 0
    /\ \A p \in run.given : run.top =< p.at /\ p.at + p.length =< aoff /\ p.at % 16 = 0
    /\ \A p, q \in run.given : p # q => Apart(p, q)
    /\ run.sp < 0 => need

FrameInv == /\ Typed /\ Few /\ Started /\ Placed /\ Passed /\ Blocked
            /\ Framed /\ Needy /\ Laid /\ RunTyped /\ Running

-----------------------------------------------------------------------------
(***************************************************************************)
(* Rounding.                                                               *)
(***************************************************************************)
LEMMA AlignedBounds ==
  ASSUME NEW x \in Int, NEW n \in {1, 2, 4, 8, 16}
  PROVE  Aligned(x, n) \in Int /\ Aligned(x, n) =< x /\ x < Aligned(x, n) + n
  BY DEF Aligned

LEMMA Aligned16 == \A x \in Int : Aligned(x, 16) % 16 = 0
  BY DEF Aligned

LEMMA UpBounds ==
  ASSUME NEW x \in Int
  PROVE  Up(x) \in Int /\ x =< Up(x) /\ Up(x) < x + 16 /\ Up(x) % 16 = 0
  <1>1. x + 15 \in Int
    OBVIOUS
  <1>2. Aligned(x + 15, 16) \in Int /\ Aligned(x + 15, 16) =< x + 15 /\ x + 15 < Aligned(x + 15, 16) + 16
    BY <1>1, AlignedBounds
  <1>3. Aligned(x + 15, 16) % 16 = 0
    BY <1>1, Aligned16
  <1>. QED
    BY <1>2, <1>3 DEF Up

LEMMA FramesizeBounds ==
  ASSUME NEW n \in Nat
  PROVE  Framesize(n) \in Nat /\ Framesize(n) >= Word * (n + 1) /\ Framesize(n) % 16 = Word
  <1>1. (n + 1) * Word \in Nat /\ (n + 1) * Word = Word * (n + 1)
    BY DEF Word
  <1>2. Up((n + 1) * Word) \in Nat /\ Up((n + 1) * Word) >= Word * (n + 1) /\ Up((n + 1) * Word) % 16 = 0
    BY <1>1, UpBounds
  <1>3. \A u \in Nat : u % 16 = 0 => (u + 8) % 16 = 8
    OBVIOUS
  <1>. QED
    BY <1>2, <1>3 DEF Framesize, Word

LEMMA Sizes8 == StackFramesize \in Nat /\ StackFramesize >= Word
  BY FramesizeBounds, FramesAssumption DEF StackFramesize, Word

LEMMA Limits == \A c : Limit(c) \in Nat /\ Limit(c) =< 16
  BY FramesAssumption DEF Limit

LEMMA Appending ==
  ASSUME NEW S, NEW s \in Seq(S), NEW x \in S
  PROVE  /\ Append(s, x) \in Seq(S)
         /\ DOMAIN Append(s, x) = DOMAIN s \cup {Len(s) + 1}
         /\ Append(s, x)[Len(s) + 1] = x
         /\ \A i \in DOMAIN s : i \in Nat /\ i < Len(s) + 1 /\ Append(s, x)[i] = s[i]
  OBVIOUS

-----------------------------------------------------------------------------
LEMMA FrameStart == FrameInit => FrameInv
  <1>. SUFFICES ASSUME FrameInit PROVE FrameInv
    OBVIOUS
  <1>. USE DEF FrameInit
  <1>1. Typed
    <2>1. step \in [at : {"build", "emit", "body", "run", "failed"}, calls : 0..MaxCalls] /\ saves \in 0..Saves
      BY FramesAssumption
    <2>2. self \in Counts /\ call \in Counts
      <3>1. NoArgs \in Counts
        BY DEF NoArgs, Counts
      <3>2. StackFramesize + Word \in Nat
        BY Sizes8 DEF Word
      <3>. QED
        BY <3>1, <3>2 DEF Counts
    <2>3. args \in Seq([kind : Kinds, at : Nat])
          /\ pushes \in Seq(Pushed)
      OBVIOUS
    <2>4. frame \in [size : Nat, by : {"prolog", "frame", "tramp"}] /\ again \in [due : BOOLEAN, times : Nat]
      OBVIOUS
    <2>5. prepare \in BOOLEAN /\ need \in BOOLEAN
      OBVIOUS
    <2>6. /\ aoff \in Int /\ alen \in Nat /\ dynamic \in Int
          /\ blocks \subseteq [at : Int, length : Nat, of : Owners]
          /\ stack \in Nat /\ stack % 16 = 0
      BY DEF None
    <2>. QED
      BY <2>1, <2>2, <2>3, <2>4, <2>5, <2>6 DEF Typed
  <1>2. Few /\ Started /\ Passed /\ Blocked /\ Framed /\ Needy /\ Laid /\ Running
    BY FramesAssumption DEF Few, Started, Passed, Blocked, Framed, Young, Needy, Laid, Running, NoArgs, Fixed, Slots, None
  <1>3. Placed /\ RunTyped
    BY Sizes8 DEF Placed, RunTyped, NoArgs, Word
  <1>. QED
    BY <1>1, <1>2, <1>3 DEF FrameInv

-----------------------------------------------------------------------------
(***************************************************************************)
(* The interface.  What a call leaves alone.                               *)
(***************************************************************************)
LEMMA CallKeeps ==
  ASSUME Typed, Started, RunTyped, Calling, UNCHANGED <<again, run>>
  PROVE  /\ step' \in [at : {"build", "emit", "body", "run", "failed"}, calls : 0..MaxCalls]
         /\ step'.at = "build" /\ step.at = "build" /\ again.times = 0
         /\ Started' /\ Laid' /\ RunTyped' /\ Running'
  <1>1. step.calls \in 0..MaxCalls /\ step.calls + 1 \in 0..MaxCalls /\ step.calls + 1 # 0
    <2>1. MaxCalls \in Nat /\ step.calls \in 0..MaxCalls /\ step.calls < MaxCalls
      BY FramesAssumption DEF Typed, Calling
    <2>. QED
      BY <2>1
  <1>2. /\ step' \in [at : {"build", "emit", "body", "run", "failed"}, calls : 0..MaxCalls]
        /\ step'.at = "build" /\ step'.calls = step.calls + 1 /\ step.at = "build"
    BY <1>1 DEF Typed, Calling
  <1>3. again.times = 0 /\ Started'
    BY <1>1, <1>2 DEF Started
  <1>4. Laid' /\ RunTyped' /\ Running'
    BY <1>2 DEF Laid, RunTyped, Running
  <1>. QED
    BY <1>2, <1>3, <1>4

LEMMA PlacedKept == ASSUME Placed, UNCHANGED args, self'.size = self.size PROVE Placed'
  BY DEF Placed

(***************************************************************************)
(* A new block is below those before, which it leaves as they are.         *)
(***************************************************************************)
LEMMA GivesBlock ==
  ASSUME Typed, Blocked, Framed, NEW n \in Nat, NEW owner \in Owners, Gives(n, owner),
         UNCHANGED frame, again'.times = again.times, step'.at = step.at,
         owner = "spill" => again.times >= 1, owner # "spill" => again.times = 0
  PROVE  /\ Blocked' /\ need' = TRUE
         /\ aoff' \in Int /\ aoff' =< aoff /\ blocks' \subseteq [at : Int, length : Nat, of : Owners]
         /\ BlockAt(n) \in Int /\ aoff' = BlockAt(n)
  <1>. DEFINE new == [at |-> BlockAt(n), length |-> n, of |-> owner]
  <1>0. frame' = frame /\ again'.times = again.times /\ (Young' <=> Young)
    BY DEF Young
  <1>1. Granule(n) \in {1, 2, 4, 8, 16}
    BY DEF Granule
  <1>2. Aligned(aoff, Granule(n)) \in Int /\ Aligned(aoff, Granule(n)) =< aoff
    BY <1>1, AlignedBounds DEF Typed
  <1>3. BlockAt(n) \in Int /\ BlockAt(n) + n =< aoff
    BY <1>2 DEF BlockAt, Typed
  <1>4. aoff' = BlockAt(n) /\ blocks' = blocks \cup {new} /\ need' = TRUE
    BY DEF Gives
  <1>5. new \in [at : Int, length : Nat, of : Owners] /\ new.at = BlockAt(n) /\ new.length = n /\ new.of = owner
    BY <1>3
  <1>. HIDE DEF new
  <1>6. aoff' \in Int /\ aoff' =< aoff /\ blocks' \subseteq [at : Int, length : Nat, of : Owners]
    BY <1>3, <1>4, <1>5 DEF Typed
  <1>7. Fixed' \subseteq Fixed \cup {new} /\ (Fixed' \subseteq Fixed \/ owner # "spill" \/ frame.by = "prolog")
    BY <1>4, <1>5 DEF Fixed, Slots
  <1>8. again.times \in Nat /\ \A b \in Fixed : b.at \in Int /\ b.length \in Nat
    BY DEF Typed, Fixed
  <1>9. \A b \in Fixed : frame.by = "prolog" \/ Young => aoff =< b.at
    BY DEF Blocked
  <1>10. ASSUME Fixed' \subseteq Fixed PROVE Blocked'
    <2>1. \A b \in Fixed' : frame.by = "prolog" \/ Young => aoff' =< b.at
      BY <1>6, <1>8, <1>9, <1>10 DEF Typed
    <2>2. \A b, c \in Fixed' : b # c => Apart(b, c)
      BY <1>10 DEF Blocked
    <2>3. \A b \in Fixed' : /\ b.at + b.length =< 0
                            /\ frame.by = "frame" /\ again.times > 0 => -frame.size =< b.at
      BY <1>10 DEF Blocked
    <2>. QED
      BY <1>0, <2>1, <2>2, <2>3 DEF Blocked, Apart
  <1>11. ASSUME frame.by = "prolog" \/ (owner # "spill" /\ again.times = 0) PROVE Blocked'
    <2>1. aoff =< 0 /\ (frame.by = "prolog" \/ Young)
      BY <1>11 DEF Framed, Young
    <2>2. new.at + new.length =< 0 /\ aoff' =< new.at
      BY <1>3, <1>4, <1>5, <2>1 DEF Typed
    <2>3. \A b \in Fixed : aoff' =< b.at /\ new.at + new.length =< b.at
      BY <1>3, <1>4, <1>5, <1>6, <1>8, <1>9, <2>1 DEF Typed
    <2>4. \A b \in Fixed : Apart(b, new) /\ Apart(new, b)
      BY <2>3 DEF Apart
    <2>5. \A b, c \in Fixed' : b # c => Apart(b, c)
      <3>1. \A b, c \in Fixed : b # c => Apart(b, c)
        BY DEF Blocked
      <3>. QED
        BY <1>7, <2>4, <3>1
    <2>6. \A b \in Fixed' : b.at + b.length =< 0 /\ aoff' =< b.at
      BY <1>7, <2>2, <2>3 DEF Blocked
    <2>7. ~(frame.by = "frame" /\ again.times > 0)
      BY <1>11
    <2>. QED
      BY <1>0, <2>5, <2>6, <2>7 DEF Blocked, Apart
  <1>12. Fixed' \subseteq Fixed \/ frame.by = "prolog" \/ (owner # "spill" /\ again.times = 0)
    BY <1>7
  <1>. QED
    BY <1>3, <1>4, <1>6, <1>10, <1>11, <1>12

LEMMA BlocksKept ==
  ASSUME Blocked, Framed, UNCHANGED <<blocks, aoff, frame, again, dynamic>>,
         step'.at = "build", step.at = "build"
  PROVE  Blocked' /\ Framed'
  <1>1. Fixed' = Fixed
    BY DEF Fixed, Slots
  <1>. QED
    BY <1>1 DEF Blocked, Apart, Framed, Young

LEMMA Element == ASSUME NEW S, NEW s \in Seq(S) PROVE \A i \in DOMAIN s : s[i] \in S
  OBVIOUS

LEMMA PushedOffsets == ASSUME Typed PROVE \A i \in DOMAIN pushes : pushes[i].to[2] \in Nat
  <1>1. \A i \in DOMAIN pushes : pushes[i] \in Pushed
    BY Element DEF Typed
  <1>2. \A p \in Pushed : p.to[2] \in Nat
    BY DEF Pushed
  <1>. QED
    BY <1>1, <1>2

LEMMA OneMore ==
  ASSUME NEW to \in Counts, NEW c \in {"word", "float"}
  PROVE  /\ InRegister(to, c) \in Counts /\ OnStack(to) \in Counts /\ Taken(to, c) \in Nat
         /\ InRegister(to, c).size = to.size /\ OnStack(to).size = to.size + Word
         /\ OnStack(to).argi = to.argi /\ OnStack(to).argf = to.argf
         /\ to.argi =< ArgRegs /\ (c = "word" => HasRegister(to, c)) => InRegister(to, c).argi =< ArgRegs
         /\ to.argf =< FloatRegs /\ (c = "float" => HasRegister(to, c)) => InRegister(to, c).argf =< FloatRegs
  <1>1. CASE c = "word"
    BY <1>1, FramesAssumption DEF Counts, InRegister, OnStack, Taken, HasRegister, Limit, Word
  <1>2. CASE c = "float"
    BY <1>2, FramesAssumption DEF Counts, InRegister, OnStack, Taken, HasRegister, Limit, Word
  <1>. QED
    BY <1>1, <1>2

LEMMA ArgStep ==
  ASSUME FrameInv, NEW kind \in Kinds, Arg(kind)
  PROVE  FrameInv'
  <1>. USE DEF FrameInv
  <1>. DEFINE c == Class(kind)
              new == [kind |-> kind, at |-> IF HasRegister(self, c) THEN Taken(self, c) ELSE self.size]
  <1>1. /\ Calling /\ args' = Append(args, new)
        /\ self' = IF HasRegister(self, c) THEN InRegister(self, c) ELSE OnStack(self)
        /\ need' = (need \/ ~HasRegister(self, c))
        /\ UNCHANGED <<call, prepare, pushes, aoff, alen, blocks, dynamic, va, frame, saves, again, stack, run>>
    BY DEF Arg, EmitKeeps
  <1>2. /\ step' \in [at : {"build", "emit", "body", "run", "failed"}, calls : 0..MaxCalls]
        /\ step'.at = "build" /\ step.at = "build" /\ Started' /\ Laid' /\ RunTyped' /\ Running'
    BY <1>1, CallKeeps
  <1>3. self \in Counts /\ Taken(self, c) \in Nat /\ c \in {"word", "float"}
    BY DEF Typed, Counts, Taken, Class
  <1>4. new \in [kind : Kinds, at : Nat] /\ new.kind = kind
        /\ (HasRegister(self, c) => new.at < Limit(c)) /\ (~HasRegister(self, c) => new.at = self.size)
    BY <1>3 DEF HasRegister, Counts
  <1>5. /\ self' \in Counts /\ self'.size >= self.size
        /\ ~HasRegister(self, c) => self'.size = self.size + Word
        /\ self'.argi =< ArgRegs /\ self'.argf =< FloatRegs
    <2>. HIDE DEF c, new
    <2>1. InRegister(self, c) \in Counts /\ OnStack(self) \in Counts /\ self.size \in Nat /\ Word \in Nat
      BY <1>3, OneMore DEF Counts, Word
    <2>2. CASE HasRegister(self, c)
      BY <1>1, <1>3, <2>1, <2>2, OneMore DEF Few
    <2>3. CASE ~HasRegister(self, c)
      BY <1>1, <1>3, <2>1, <2>3, OneMore DEF Few
    <2>. QED
      BY <2>2, <2>3
  <1>. HIDE DEF new
  <1>6. /\ args' \in Seq([kind : Kinds, at : Nat])
        /\ DOMAIN args' = DOMAIN args \cup {Len(args) + 1} /\ args'[Len(args) + 1] = new
        /\ \A i \in DOMAIN args : i \in Nat /\ i < Len(args) + 1 /\ args'[i] = args[i] /\ args[i].at \in Nat
    <2>1. args \in Seq([kind : Kinds, at : Nat])
      BY DEF Typed
    <2>2. \A i \in DOMAIN args : args[i].at \in Nat
      <3>1. \A i \in DOMAIN args : args[i] \in [kind : Kinds, at : Nat]
        BY <2>1, Element
      <3>2. \A r \in [kind : Kinds, at : Nat] : r.at \in Nat
        OBVIOUS
      <3>. QED
        BY <3>1, <3>2
    <2>3. new \in [kind : Kinds, at : Nat]
      BY <1>4
    <2>. QED
      BY <1>1, <2>1, <2>2, <2>3, Appending
  <1>7. need' \in BOOLEAN /\ (need => need')
    BY <1>1 DEF Typed
  <1>8. Typed'
    BY <1>1, <1>2, <1>5, <1>6, <1>7 DEF Typed
  <1>9. Few'
    BY <1>1, <1>5 DEF Few
  <1>10. Placed'
    <2>1. self.size \in Nat /\ self'.size \in Nat /\ Word \in Nat /\ StackFramesize \in Nat
      BY <1>3, <1>5, Sizes8 DEF Counts, Word
    <2>2. self'.size >= StackFramesize + Word
      BY <1>5, <2>1 DEF Placed
    <2>3. \A i \in DOMAIN args' :
            \/ args'[i].at < Limit(Class(args'[i].kind))
            \/ args'[i].at >= StackFramesize + Word /\ args'[i].at + Word =< self'.size
      <3>1. new.at < Limit(Class(new.kind)) \/ (new.at >= StackFramesize + Word /\ new.at + Word =< self'.size)
        BY <1>4, <1>5, <2>1 DEF Placed
      <3>2. \A i \in DOMAIN args :
              \/ args[i].at < Limit(Class(args[i].kind))
              \/ args[i].at >= StackFramesize + Word /\ args[i].at + Word =< self'.size
        BY <1>5, <1>6, <2>1 DEF Placed
      <3>. QED
        BY <1>6, <3>1, <3>2
    <2>4. \A i, j \in DOMAIN args' : i < j /\ args'[i].at >= StackFramesize + Word =>
            args'[j].at < Limit(Class(args'[j].kind)) \/ args'[i].at + Word =< args'[j].at
      <3>. SUFFICES ASSUME NEW i \in DOMAIN args', NEW j \in DOMAIN args', i < j,
                           args'[i].at >= StackFramesize + Word
                    PROVE  args'[j].at < Limit(Class(args'[j].kind)) \/ args'[i].at + Word =< args'[j].at
        OBVIOUS
      <3>0. Len(args) \in Nat
        BY DEF Typed
      <3>1. i \in DOMAIN args
        BY <1>6, <3>0
      <3>2. CASE j \in DOMAIN args
        BY <1>6, <3>1, <3>2 DEF Placed
      <3>3. CASE j = Len(args) + 1 /\ ~HasRegister(self, c)
        <4>1. args[i].at + Word =< self.size
          <5>1. Limit(Class(args[i].kind)) =< 16 /\ Limit(Class(args[i].kind)) \in Nat
            BY Limits
          <5>2. StackFramesize + Word >= 16 /\ args[i].at \in Nat /\ args[i].at >= StackFramesize + Word
            BY <1>6, <3>1, Sizes8 DEF Word
          <5>. QED
            BY <2>1, <3>1, <5>1, <5>2 DEF Placed
        <4>. QED
          BY <1>4, <1>6, <3>1, <3>3, <4>1
      <3>4. CASE j = Len(args) + 1 /\ HasRegister(self, c)
        BY <1>4, <1>6, <3>4
      <3>. QED
        BY <1>6, <3>2, <3>3, <3>4
    <2>. QED
      BY <2>2, <2>3, <2>4 DEF Placed, StackFramesize, Framesize, Up, Aligned, Word, Limit, Class
  <1>11. Passed'
    BY <1>1 DEF Passed
  <1>12. Blocked' /\ Framed'
    BY <1>1, <1>2, BlocksKept
  <1>13. Needy'
    BY <1>1, <1>2, <1>7 DEF Needy
  <1>. QED
    BY <1>2, <1>8, <1>9, <1>10, <1>11, <1>12, <1>13

LEMMA PushStep ==
  ASSUME FrameInv, NEW kind \in Kinds, NEW by \in {"r", "i"}, Push(kind, by)
  PROVE  FrameInv'
  <1>. USE DEF FrameInv
  <1>. DEFINE c == Class(kind)
              inReg == HasRegister(Side(kind, by), c)
              new == [kind |-> kind, by |-> by,
                      to |-> IF inReg THEN <<c, Taken(call, c)>> ELSE <<"stack", call.size>>]
  <1>1. /\ Calling /\ prepare /\ pushes' = Append(pushes, new)
        /\ call' = IF inReg THEN InRegister(call, c) ELSE OnStack(call)
        /\ need' = (need \/ ~inReg)
        /\ UNCHANGED <<self, prepare, args, aoff, alen, blocks, dynamic, va, frame, saves, again, stack, run>>
    BY DEF Push, EmitKeeps
  <1>2. /\ step' \in [at : {"build", "emit", "body", "run", "failed"}, calls : 0..MaxCalls]
        /\ step'.at = "build" /\ step.at = "build" /\ Started' /\ Laid' /\ RunTyped' /\ Running'
    BY <1>1, CallKeeps
  <1>3. /\ call \in Counts /\ call.size \in Nat /\ Taken(call, c) \in Nat /\ c \in {"word", "float"}
        /\ c = "word" => Side(kind, by) = call
    BY DEF Typed, Counts, Taken, Class, Side
  <1>4. /\ new \in Pushed
        /\ new.to[1] = "stack" => ~inReg /\ new.to[2] = call.size
    <2>. HIDE DEF c, inReg
    <2>1. CASE inReg
      BY <1>3, <2>1 DEF Pushed
    <2>2. CASE ~inReg
      BY <1>3, <2>2 DEF Pushed
    <2>. QED
      BY <2>1, <2>2
  <1>. HIDE DEF new
  <1>5. call' \in Counts /\ call'.size >= call.size /\ (~inReg => call'.size = call.size + Word)
        /\ call'.argi =< ArgRegs
    <2>. HIDE DEF c
    <2>1. InRegister(call, c) \in Counts /\ OnStack(call) \in Counts /\ Word \in Nat
      BY <1>3, OneMore DEF Word
    <2>2. CASE inReg
      BY <1>1, <1>3, <2>1, <2>2, OneMore DEF Few
    <2>3. CASE ~inReg
      BY <1>1, <1>3, <2>1, <2>3, OneMore DEF Few
    <2>. QED
      BY <2>2, <2>3
  <1>. HIDE DEF inReg
  <1>6. /\ pushes' \in Seq(Pushed)
        /\ DOMAIN pushes' = DOMAIN pushes \cup {Len(pushes) + 1} /\ pushes'[Len(pushes) + 1] = new
        /\ \A i \in DOMAIN pushes : pushes'[i] = pushes[i] /\ pushes[i].to[2] \in Nat
    <2>1. pushes \in Seq(Pushed)
      BY DEF Typed
    <2>2. \A i \in DOMAIN pushes : pushes[i].to[2] \in Nat
      BY PushedOffsets
    <2>. QED
      BY <1>1, <1>4, <2>1, <2>2, Appending
  <1>7. need' \in BOOLEAN /\ (need => need')
    BY <1>1 DEF Typed
  <1>8. Typed' /\ Few'
    BY <1>1, <1>2, <1>5, <1>6, <1>7 DEF Typed, Few
  <1>9. Placed'
    BY <1>1, PlacedKept
  <1>10. Passed'
    <2>0. call.size \in Nat /\ call'.size \in Nat /\ call'.size >= call.size
      BY <1>3, <1>5 DEF Counts
    <2>1. \A i \in DOMAIN pushes : pushes[i].to[1] = "stack" => pushes[i].to[2] + Word =< call'.size
      <3>1. \A i \in DOMAIN pushes : pushes[i].to[1] = "stack" => pushes[i].to[2] + Word =< call.size
        BY <1>1 DEF Passed
      <3>. QED
        BY <1>6, <2>0, <3>1 DEF Word
    <2>2. new.to[1] = "stack" => new.to[2] + Word =< call'.size
      BY <1>3, <1>4, <1>5 DEF Word
    <2>3. prepare' = TRUE
      BY <1>1 DEF Typed
    <2>. QED
      BY <1>6, <2>1, <2>2, <2>3 DEF Passed
  <1>11. Blocked' /\ Framed' /\ Needy'
    BY <1>1, <1>2, <1>7, BlocksKept DEF Needy
  <1>. QED
    BY <1>2, <1>8, <1>9, <1>10, <1>11

LEMMA PrepareStep == ASSUME FrameInv, Prepare PROVE FrameInv'
  <1>. USE DEF FrameInv, Prepare, EmitKeeps
  <1>1. /\ step' \in [at : {"build", "emit", "body", "run", "failed"}, calls : 0..MaxCalls]
        /\ step'.at = "build" /\ step.at = "build" /\ Started' /\ Laid' /\ RunTyped' /\ Running'
    BY CallKeeps
  <1>2. NoArgs \in Counts /\ NoArgs.argi = 0
    BY DEF NoArgs, Counts
  <1>3. Typed' /\ Few'
    BY <1>1, <1>2, FramesAssumption DEF Typed, Few
  <1>4. Placed' /\ Passed'
    BY PlacedKept DEF Passed
  <1>5. Blocked' /\ Framed' /\ Needy'
    BY <1>1, BlocksKept DEF Needy
  <1>. QED
    BY <1>1, <1>3, <1>4, <1>5

LEMMA EllipsisOfCallStep == ASSUME FrameInv, EllipsisOfCall PROVE FrameInv'
  <1>. USE DEF FrameInv, EllipsisOfCall, EmitKeeps
  <1>1. /\ step' \in [at : {"build", "emit", "body", "run", "failed"}, calls : 0..MaxCalls]
        /\ step'.at = "build" /\ step.at = "build" /\ Started' /\ Laid' /\ RunTyped' /\ Running'
    BY CallKeeps
  <1>2. call' \in Counts /\ call'.argi = call.argi /\ call'.size = call.size
    BY DEF Typed, Counts
  <1>3. Typed' /\ Few'
    BY <1>1, <1>2 DEF Typed, Few
  <1>4. Placed' /\ Passed'
    BY <1>2, PlacedKept DEF Passed
  <1>5. Blocked' /\ Framed' /\ Needy'
    BY <1>1, BlocksKept DEF Needy
  <1>. QED
    BY <1>1, <1>3, <1>4, <1>5

LEMMA FinishStep == ASSUME FrameInv, Finish PROVE FrameInv'
  <1>. USE DEF FrameInv, Finish, EmitKeeps
  <1>1. /\ step' \in [at : {"build", "emit", "body", "run", "failed"}, calls : 0..MaxCalls]
        /\ step'.at = "build" /\ step.at = "build" /\ Started' /\ Laid' /\ RunTyped' /\ Running'
    BY CallKeeps
  <1>2. call' \in Counts /\ call'.argi = 0
    BY DEF Typed, Counts
  <1>3. call.size \in Nat /\ alen' \in Nat /\ alen' >= call.size
    BY DEF Outgoing, Typed, Counts
  <1>0. need' = TRUE /\ prepare' = FALSE /\ prepare = TRUE
    BY DEF Typed
  <1>4. Typed' /\ Few'
    <2>1. UNCHANGED <<self, args, pushes, aoff, blocks, dynamic, va, frame, saves, again, stack, run>>
      OBVIOUS
    <2>. HIDE DEF Finish, EmitKeeps
    <2>2. Typed'
      BY <1>0, <1>1, <1>2, <1>3, <2>1 DEF Typed
    <2>3. Few'
      BY <1>2, <2>1, FramesAssumption DEF Few
    <2>. QED
      BY <2>2, <2>3
  <1>5. Placed' /\ Passed'
    <2>1. \A i \in DOMAIN pushes : pushes[i].to[2] \in Nat
      BY PushedOffsets
    <2>2. prepare = TRUE /\ prepare' = FALSE
      BY DEF Typed
    <2>. QED
      BY <1>3, <2>1, <2>2, PlacedKept DEF Passed, Word
  <1>6. Blocked' /\ Framed' /\ Needy'
    BY <1>1, BlocksKept DEF Needy
  <1>. QED
    BY <1>1, <1>4, <1>5, <1>6

LEMMA GivingStep ==
  ASSUME FrameInv, NEW n \in Nat, NEW owner \in Owners, owner # "spill",
         Calling, Gives(n, owner), EmitKeeps, UNCHANGED <<call, prepare, args, pushes, alen>>,
         self' \in Counts, self'.size = self.size, self'.argi = self.argi, self'.argf = self.argf,
         dynamic' \in Int, frame.by = "tramp" => dynamic' = dynamic
  PROVE  FrameInv'
  <1>. USE DEF FrameInv, EmitKeeps
  <1>1. /\ step' \in [at : {"build", "emit", "body", "run", "failed"}, calls : 0..MaxCalls]
        /\ step'.at = "build" /\ step.at = "build" /\ again.times = 0 /\ Started' /\ Laid' /\ RunTyped' /\ Running'
    BY CallKeeps
  <1>3. /\ Blocked' /\ need' = TRUE /\ aoff' \in Int /\ aoff' =< aoff
        /\ blocks' \subseteq [at : Int, length : Nat, of : Owners]
    BY <1>1, GivesBlock
  <1>4. UNCHANGED <<call, prepare, args, pushes, alen, frame, saves, again, stack, run>>
    OBVIOUS
  <1>. HIDE DEF EmitKeeps
  <1>5. Typed' /\ Few'
    BY <1>1, <1>3, <1>4 DEF Typed, Few
  <1>6. Placed' /\ Passed'
    BY <1>4, PlacedKept DEF Passed
  <1>7. Framed' /\ Needy'
    BY <1>1, <1>3, <1>4 DEF Framed, Needy, Young, Typed
  <1>. QED
    BY <1>1, <1>3, <1>5, <1>6, <1>7

LEMMA AllocaiStep == ASSUME FrameInv, NEW n \in Lengths, Allocai(n) PROVE FrameInv'
  <1>1. self \in Counts /\ dynamic \in Int /\ n \in Nat
    BY FramesAssumption DEF FrameInv, Typed
  <1>2. /\ Calling /\ Gives(n, "program") /\ EmitKeeps
        /\ UNCHANGED <<self, call, prepare, args, pushes, alen, dynamic>>
    BY DEF Allocai
  <1>3. "program" \in Owners /\ "program" # "spill"
    BY DEF Owners
  <1>4. /\ self' \in Counts /\ self'.size = self.size /\ self'.argi = self.argi
        /\ self'.argf = self.argf /\ dynamic' \in Int /\ dynamic' = dynamic
    BY <1>1, <1>2
  <1>. QED
    BY <1>1, <1>2, <1>3, <1>4, GivingStep

LEMMA AllocarStep == ASSUME FrameInv, Allocar PROVE FrameInv'
  <1>1. self \in Counts /\ BlockAt(4) \in Int
    <2>1. aoff \in Int
      BY DEF FrameInv, Typed
    <2>2. Granule(4) \in {1, 2, 4, 8, 16} /\ 4 \in Int
      BY DEF Granule
    <2>3. Aligned(aoff, Granule(4)) \in Int
      BY <2>1, <2>2, AlignedBounds
    <2>. QED
      BY <2>3 DEF FrameInv, Typed, BlockAt
  <1>2. /\ Calling /\ Gives(4, "allocar") /\ EmitKeeps /\ frame.by # "tramp" /\ dynamic' = BlockAt(4)
        /\ UNCHANGED <<self, call, prepare, args, pushes, alen>>
    BY DEF Allocar
  <1>3. "allocar" \in Owners /\ "allocar" # "spill" /\ 4 \in Nat
    BY DEF Owners
  <1>4. /\ self' \in Counts /\ self'.size = self.size /\ self'.argi = self.argi
        /\ self'.argf = self.argf /\ dynamic' \in Int
    BY <1>1, <1>2
  <1>. QED
    BY <1>1, <1>2, <1>3, <1>4, GivingStep

LEMMA EllipsisOfSelfStep == ASSUME FrameInv, EllipsisOfSelf PROVE FrameInv'
  <1>1. VaList \in Nat
    BY FramesAssumption DEF VaList, MaxFp, MaxGp, SaveArea
  <1>2. /\ Calling /\ Gives(VaList, "va_list") /\ EmitKeeps /\ self' = [self EXCEPT !.varargs = TRUE]
        /\ UNCHANGED <<call, prepare, args, pushes, alen, dynamic>>
    BY DEF EllipsisOfSelf
  <1>3. /\ self' \in Counts /\ self'.size = self.size /\ self'.argi = self.argi
        /\ self'.argf = self.argf /\ dynamic \in Int
    BY <1>2 DEF FrameInv, Typed, Counts
  <1>4. "va_list" \in Owners /\ "va_list" # "spill" /\ dynamic' = dynamic /\ dynamic' \in Int
    BY <1>2, <1>3 DEF Owners
  <1>. QED
    BY <1>1, <1>2, <1>3, <1>4, GivingStep

LEMMA TrampolineStep ==
  ASSUME FrameInv, NEW n \in Requests, NEW by \in {"frame", "tramp"}, Trampoline(n, by)
  PROVE  FrameInv'
  <1>. USE DEF FrameInv
  <1>1. /\ Calling /\ step.calls = 0 /\ frame' = [size |-> n + 24 - aoff, by |-> by] /\ saves' = Saves
        /\ UNCHANGED <<self, call, prepare, args, pushes, aoff, alen, blocks, need, dynamic, va,
                       again, stack, run>>
    BY DEF Trampoline
  <1>2. /\ step' \in [at : {"build", "emit", "body", "run", "failed"}, calls : 0..MaxCalls]
        /\ step'.at = "build" /\ step.at = "build" /\ again.times = 0
        /\ Started' /\ Laid' /\ RunTyped' /\ Running'
    BY <1>1, CallKeeps
  <1>3. aoff = 0 /\ blocks = {} /\ dynamic = None
    BY <1>1, <1>2 DEF Started
  <1>4. frame' \in [size : Nat, by : {"prolog", "frame", "tramp"}] /\ saves' \in 0..Saves /\ frame'.by # "prolog"
    BY <1>1, <1>3, FramesAssumption
  <1>5. Typed' /\ Few'
    BY <1>1, <1>2, <1>4 DEF Typed, Few
  <1>6. Placed' /\ Passed'
    BY <1>1, PlacedKept DEF Passed
  <1>7. Fixed' = {}
    BY <1>1, <1>3 DEF Fixed, Slots
  <1>8. Blocked' /\ Framed' /\ Needy'
    BY <1>1, <1>2, <1>3, <1>4, <1>7 DEF Blocked, Framed, Needy, Young
  <1>. QED
    BY <1>2, <1>5, <1>6, <1>8

-----------------------------------------------------------------------------
(***************************************************************************)
(* Code is generated.  What was built stays.                               *)
(***************************************************************************)
LEMMA BuiltKept ==
  ASSUME Few, Placed, Passed, BuildKeeps
  PROVE  Few' /\ Placed' /\ Passed'
  <1>1. UNCHANGED <<self, call, prepare, args, pushes, alen>>
    BY DEF BuildKeeps
  <1>. QED
    BY <1>1, PlacedKept DEF Few, Passed

LEMMA BlockedKept ==
  ASSUME Blocked, UNCHANGED <<blocks, aoff, frame>>, Young' => Young,
         again'.times > 0 => again.times > 0
  PROVE  Blocked'
  <1>1. Fixed' = Fixed
    BY DEF Fixed, Slots
  <1>. QED
    BY <1>1 DEF Blocked, Apart

LEMMA Going ==
  ASSUME Typed, NEW where \in {"build", "emit", "body", "run", "failed"}, Goes(where)
  PROVE  /\ step' \in [at : {"build", "emit", "body", "run", "failed"}, calls : 0..MaxCalls]
         /\ step'.at = where
  BY DEF Typed, Goes

LEMMA CompleteStep == ASSUME FrameInv, NEW n \in 0..Saves, Complete(n) PROVE FrameInv'
  <1>. USE DEF FrameInv
  <1>1. /\ step.at = "build" /\ prepare = FALSE /\ Goes("emit") /\ BuildKeeps
        /\ UNCHANGED <<self, call, prepare, args, pushes, alen, dynamic, frame>>
        /\ UNCHANGED <<aoff, blocks, need, again, stack, run>> /\ saves' \in 0..Saves
    BY DEF Complete, BuildKeeps, Typed
  <1>2. /\ step' \in [at : {"build", "emit", "body", "run", "failed"}, calls : 0..MaxCalls]
        /\ step'.at = "emit"
    BY <1>1, Going
  <1>3. Typed' /\ Started'
    BY <1>1, <1>2 DEF Typed, Started
  <1>4. Young' => Young
    BY <1>1, <1>2 DEF Young
  <1>5. Few' /\ Placed' /\ Passed' /\ Blocked'
    BY <1>1, <1>4, BuiltKept, BlockedKept
  <1>6. Framed' /\ Needy' /\ Laid' /\ RunTyped' /\ Running'
    BY <1>1, <1>2, <1>4 DEF Framed, Needy, Laid, RunTyped, Running
  <1>. QED
    BY <1>3, <1>5, <1>6

LEMMA BottomBounds ==
  ASSUME Typed, Framed, frame.by # "tramp"
  PROVE  /\ Bottom \in Int /\ Bottom =< 0
         /\ frame.by = "prolog" => Bottom =< aoff /\ (aoff = 0 => Bottom = 0)
         /\ frame.by = "frame" => Bottom =< -frame.size
         /\ dynamic # None => Bottom % 16 = 0
  <1>. DEFINE a == IF frame.by = "frame" THEN -frame.size ELSE aoff
  <1>1. a \in Int /\ a =< 0 /\ (frame.by = "frame" => a = -frame.size) /\ (frame.by = "prolog" => a = aoff)
    BY DEF Typed, Framed
  <1>2. Bottom = IF dynamic # None THEN Aligned(a, 16) ELSE a
    BY DEF Bottom
  <1>. HIDE DEF a
  <1>3. Aligned(a, 16) \in Int /\ Aligned(a, 16) =< a /\ Aligned(a, 16) % 16 = 0
    BY <1>1, AlignedBounds, Aligned16
  <1>4. Aligned(0, 16) = 0
    BY DEF Aligned
  <1>5. frame.size \in Nat /\ aoff \in Int
    BY DEF Typed
  <1>6. CASE dynamic = None
    BY <1>1, <1>2, <1>5, <1>6
  <1>7. CASE dynamic # None
    BY <1>1, <1>2, <1>3, <1>4, <1>5, <1>7
  <1>. QED
    BY <1>6, <1>7

LEMMA PrologStep == ASSUME FrameInv, NEW rax, Prolog(rax) PROVE FrameInv'
  <1>. USE DEF FrameInv
  <1>1. /\ step.at = "emit" /\ Enough /\ Goes("body") /\ BuildKeeps
        /\ UNCHANGED <<self, call, prepare, args, pushes, alen, dynamic, frame>>
        /\ UNCHANGED <<blocks, saves, run>>
        /\ need' = (need \/ frame.by # "prolog")
        /\ again' = [due |-> frame.by # "prolog" /\ ~need, times |-> again.times + 1]
        /\ frame.by = "tramp" => aoff' = aoff /\ stack' = stack
        /\ frame.by # "tramp" => aoff' = Bottom /\ stack' = Up(alen - Bottom)
    BY DEF Prolog, BuildKeeps
  <1>2. /\ step' \in [at : {"build", "emit", "body", "run", "failed"}, calls : 0..MaxCalls]
        /\ step'.at = "body"
    BY <1>1, Going
  <1>3. /\ again' \in [due : BOOLEAN, times : Nat] /\ again'.times = again.times + 1
        /\ again.times \in Nat /\ again'.times >= 1
        /\ need' \in BOOLEAN /\ (need => need') /\ (frame.by # "prolog" => need')
    <2>1. again.times \in Nat /\ need \in BOOLEAN
      BY DEF Typed
    <2>2. need' \in BOOLEAN /\ (need => need') /\ (frame.by # "prolog" => need')
      BY <1>1, <2>1, Zenon
    <2>3. (frame.by # "prolog" /\ ~need) \in BOOLEAN
      OBVIOUS
    <2>. HIDE DEF FrameInv
    <2>. QED
      BY <1>1, <2>1, <2>2, <2>3
  <1>4. /\ aoff' \in Int /\ stack' \in Nat /\ stack' % 16 = 0
        /\ frame.by # "tramp" => stack' = Up(alen - aoff') /\ aoff' =< 0
        /\ frame.by = "prolog" => aoff' =< aoff /\ (aoff = 0 => aoff' = 0)
        /\ frame.by = "frame" => aoff' =< -frame.size
        /\ frame.by # "tramp" /\ dynamic # None => aoff' % 16 = 0
    <2>1. CASE frame.by = "tramp"
      BY <1>1, <2>1 DEF Typed
    <2>2. CASE frame.by # "tramp"
      <3>1. /\ Bottom \in Int /\ Bottom =< 0
            /\ frame.by = "prolog" => Bottom =< aoff /\ (aoff = 0 => Bottom = 0)
            /\ frame.by = "frame" => Bottom =< -frame.size
            /\ dynamic # None => Bottom % 16 = 0
        BY <2>2, BottomBounds
      <3>2. alen - Bottom \in Nat
        BY <3>1 DEF Typed
      <3>3. Up(alen - Bottom) \in Nat /\ Up(alen - Bottom) % 16 = 0
        BY <3>2, UpBounds
      <3>. QED
        BY <1>1, <2>2, <3>1, <3>3
    <2>. QED
      BY <2>1, <2>2
  <1>5. Typed' /\ Started'
    <2>1. Typed'
      BY <1>1, <1>2, <1>3, <1>4 DEF Typed
    <2>2. Started'
      BY <1>1, <1>2, <1>3 DEF Started
    <2>. QED
      BY <2>1, <2>2
  <1>6. Few' /\ Placed' /\ Passed'
    BY <1>1, BuiltKept
  <1>7. Blocked'
    <2>1. Fixed' = Fixed /\ \A b \in Fixed : b.at \in Int
      BY <1>1 DEF Fixed, Slots, Typed
    <2>0. Young' => Young
      BY <1>1, <1>2, <1>3 DEF Young
    <2>2. \A b \in Fixed : frame.by = "prolog" \/ Young' => aoff' =< b.at
      <3>1. CASE frame.by = "tramp"
        BY <1>1, <2>0, <3>1 DEF Blocked
      <3>2. CASE frame.by = "prolog"
        BY <1>4, <2>1, <3>2 DEF Blocked, Typed
      <3>3. CASE frame.by = "frame"
        <4>1. aoff >= -frame.size /\ aoff' =< -frame.size /\ frame.size \in Nat /\ aoff \in Int
          BY <1>1, <1>4, <3>3 DEF Enough, Typed
        <4>2. \A b \in Fixed : Young' => aoff =< b.at
          BY <2>0 DEF Blocked
        <4>. QED
          BY <1>4, <2>1, <3>3, <4>1, <4>2
      <3>. QED
        BY <3>1, <3>2, <3>3 DEF Typed
    <2>3. \A b \in Fixed : frame.by = "frame" => -frame.size =< b.at
      <3>1. frame.by = "frame" => aoff >= -frame.size
        BY <1>1 DEF Enough
      <3>2. frame.size \in Nat /\ aoff \in Int /\ again.times \in Nat
        BY DEF Typed
      <3>. QED
        BY <2>1, <3>1, <3>2 DEF Blocked, Young
    <2>4. \A b, c \in Fixed : b # c => Apart(b, c)
      BY DEF Blocked
    <2>5. \A b \in Fixed : b.at + b.length =< 0
      BY DEF Blocked
    <2>. QED
      BY <1>1, <1>3, <2>1, <2>2, <2>3, <2>4, <2>5 DEF Blocked, Apart
  <1>8. Framed' /\ Needy'
    <2>1. Framed'
      BY <1>1, <1>2, <1>3, <1>4 DEF Framed, Young
    <2>2. Needy'
      BY <1>1, <1>2, <1>3, <1>4 DEF Needy, Typed, Framed
    <2>. QED
      BY <2>1, <2>2
  <1>9. Laid' /\ RunTyped' /\ Running'
    BY <1>1, <1>2, <1>4 DEF Laid, RunTyped, Running
  <1>. QED
    BY <1>5, <1>6, <1>7, <1>8, <1>9

LEMMA PrologFailsStep == ASSUME FrameInv, PrologFails PROVE FrameInv'
  <1>. USE DEF FrameInv
  <1>1. /\ step.at = "emit" /\ Goes("failed") /\ BuildKeeps
        /\ UNCHANGED <<self, call, prepare, args, pushes, alen, dynamic, frame>>
        /\ UNCHANGED <<aoff, blocks, need, saves, again, stack, run>>
    BY DEF PrologFails, BuildKeeps
  <1>2. /\ step' \in [at : {"build", "emit", "body", "run", "failed"}, calls : 0..MaxCalls]
        /\ step'.at = "failed"
    BY <1>1, Going
  <1>3. Typed' /\ Started'
    BY <1>1, <1>2 DEF Typed, Started
  <1>4. Young' => Young
    BY <1>1, <1>2 DEF Young
  <1>5. Few' /\ Placed' /\ Passed' /\ Blocked'
    BY <1>1, <1>4, BuiltKept, BlockedKept
  <1>6. Framed' /\ Needy' /\ Laid' /\ RunTyped' /\ Running'
    BY <1>1, <1>2, <1>4 DEF Framed, Needy, Laid, RunTyped, Running
  <1>. QED
    BY <1>3, <1>5, <1>6


LEMMA SpillStep == ASSUME FrameInv, Spill PROVE FrameInv'
  <1>. USE DEF FrameInv
  <1>1. /\ step.at = "body" /\ again.times = 1 /\ Gives(Word, "spill") /\ BuildKeeps
        /\ again' = [again EXCEPT !.due = TRUE]
        /\ UNCHANGED <<self, call, prepare, args, pushes, alen, dynamic, frame>>
        /\ UNCHANGED <<step, saves, stack, run>>
    BY DEF Spill, First, Due, BuildKeeps
  <1>2. again' \in [due : BOOLEAN, times : Nat] /\ again'.times = 1 /\ again'.due = TRUE
    BY <1>1 DEF Typed
  <1>3. /\ Word \in Nat /\ "spill" \in Owners /\ frame' = frame
        /\ again'.times = again.times /\ again.times >= 1 /\ step' = step
    BY <1>1, <1>2 DEF Word, Owners
  <1>4. /\ Blocked' /\ need' = TRUE /\ aoff' \in Int /\ aoff' =< aoff
        /\ blocks' \subseteq [at : Int, length : Nat, of : Owners]
    BY <1>1, <1>2, <1>3, GivesBlock
  <1>5. Typed' /\ Started'
    BY <1>1, <1>2, <1>4 DEF Typed, Started
  <1>6. Few' /\ Placed' /\ Passed'
    BY <1>1, BuiltKept
  <1>7. Framed'
    BY <1>1, <1>2, <1>4 DEF Framed, Young, Typed
  <1>8. Needy' /\ Laid' /\ RunTyped' /\ Running'
    BY <1>1, <1>2, <1>4 DEF Needy, Laid, RunTyped, Running
  <1>. QED
    BY <1>4, <1>5, <1>6, <1>7, <1>8

\* A function that is to be generated again, with nothing given out.
LEMMA DueStep ==
  ASSUME FrameInv, step.at = "body", Due, BuildKeeps, UNCHANGED <<step, aoff, blocks, stack, run>>,
         saves' \in 0..Saves, need' \in BOOLEAN, need => need'
  PROVE  FrameInv'
  <1>. USE DEF FrameInv
  <1>1. /\ again' = [again EXCEPT !.due = TRUE]
        /\ UNCHANGED <<self, call, prepare, args, pushes, alen, dynamic, frame>>
    BY DEF Due, BuildKeeps
  <1>2. again' \in [due : BOOLEAN, times : Nat] /\ again'.times = again.times /\ again'.due = TRUE
    BY <1>1 DEF Typed
  <1>3. Typed' /\ Started'
    BY <1>1, <1>2 DEF Typed, Started
  <1>4. Few' /\ Placed' /\ Passed' /\ Blocked'
    BY <1>1, <1>2, BuiltKept, BlockedKept DEF Young
  <1>5. Framed' /\ Needy' /\ Laid' /\ RunTyped' /\ Running'
    BY <1>1, <1>2 DEF Framed, Young, Needy, Laid, RunTyped, Running
  <1>. QED
    BY <1>3, <1>4, <1>5

LEMMA SaveMoreStep == ASSUME FrameInv, SaveMore PROVE FrameInv'
  <1>1. /\ step.at = "body" /\ Due /\ BuildKeeps /\ saves < Saves /\ saves' = saves + 1
        /\ UNCHANGED <<step, aoff, blocks, need, stack, run>>
    BY DEF SaveMore, First
  <1>2. saves \in 0..Saves /\ Saves \in Nat /\ need \in BOOLEAN
    BY FramesAssumption DEF FrameInv, Typed
  <1>3. saves' \in 0..Saves /\ need' \in BOOLEAN /\ (need => need')
    BY <1>1, <1>2
  <1>. QED
    BY <1>1, <1>3, DueStep

LEMMA CheckFrameStep == ASSUME FrameInv, CheckFrame PROVE FrameInv'
  <1>1. /\ step.at = "body" /\ Due /\ BuildKeeps /\ need' = TRUE
        /\ UNCHANGED <<step, aoff, blocks, saves, stack, run>>
    BY DEF CheckFrame, First
  <1>2. saves' \in 0..Saves
    BY <1>1 DEF FrameInv, Typed
  <1>. QED
    BY <1>1, <1>2, DueStep

LEMMA AgainStep == ASSUME FrameInv, Again PROVE FrameInv'
  <1>. USE DEF FrameInv
  <1>1. /\ step.at = "body" /\ Goes("emit") /\ BuildKeeps /\ aoff' = frame.size + aoff
        /\ UNCHANGED <<self, call, prepare, args, pushes, alen, dynamic, frame>>
        /\ UNCHANGED <<blocks, need, saves, again, stack, run>>
    BY DEF Again, BuildKeeps
  <1>2. /\ step' \in [at : {"build", "emit", "body", "run", "failed"}, calls : 0..MaxCalls]
        /\ step'.at = "emit"
    BY <1>1, Going
  <1>3. /\ aoff \in Int /\ frame.size \in Nat /\ frame.by \in {"prolog", "frame", "tramp"}
        /\ again.times \in Nat /\ again.times >= 1
    BY <1>1 DEF Typed, Started
  <1>4. aoff' \in Int /\ (frame.by = "prolog" => aoff' = aoff) /\ (frame.by # "tramp" => aoff' =< 0)
    BY <1>1, <1>3 DEF Framed
  <1>5. Typed' /\ Started'
    BY <1>1, <1>2, <1>4 DEF Typed, Started
  <1>6. Few' /\ Placed' /\ Passed'
    BY <1>1, BuiltKept
  <1>7. Blocked'
    <2>1. Fixed' = Fixed
      BY <1>1 DEF Fixed, Slots
    <2>. QED
      BY <1>1, <1>2, <1>3, <1>4, <2>1 DEF Blocked, Young, Apart
  <1>8. Framed' /\ Needy' /\ Laid' /\ RunTyped' /\ Running'
    BY <1>1, <1>2, <1>3, <1>4 DEF Framed, Young, Needy, Laid, RunTyped, Running
  <1>. QED
    BY <1>5, <1>6, <1>7, <1>8

LEMMA OutOfRoomStep == ASSUME FrameInv, OutOfRoom PROVE FrameInv'
  <1>. USE DEF FrameInv
  <1>1. /\ step.at = "body" /\ Goes("emit") /\ BuildKeeps
        /\ again' = [due |-> FALSE, times |-> again.times - 1]
        /\ UNCHANGED <<self, call, prepare, args, pushes, alen, dynamic, frame>>
        /\ UNCHANGED <<aoff, blocks, need, saves, stack, run>>
    BY DEF OutOfRoom, BuildKeeps
  <1>2. /\ step' \in [at : {"build", "emit", "body", "run", "failed"}, calls : 0..MaxCalls]
        /\ step'.at = "emit"
    BY <1>1, Going
  <1>3. again.times \in Nat /\ again.times >= 1
    BY <1>1 DEF Typed, Started
  <1>4. /\ again' \in [due : BOOLEAN, times : Nat] /\ again'.times = again.times - 1
        /\ (again'.times > 0 => again.times > 0)
    BY <1>1, <1>3
  <1>5. Young' => Young
    BY <1>1, <1>2, <1>3, <1>4 DEF Young
  <1>6. Typed' /\ Started'
    BY <1>1, <1>2, <1>4 DEF Typed, Started
  <1>7. Few' /\ Placed' /\ Passed' /\ Blocked'
    BY <1>1, <1>4, <1>5, BuiltKept, BlockedKept
  <1>8. Framed' /\ Needy' /\ Laid' /\ RunTyped' /\ Running'
    BY <1>1, <1>2, <1>5 DEF Framed, Needy, Laid, RunTyped, Running
  <1>. QED
    BY <1>6, <1>7, <1>8

-----------------------------------------------------------------------------
(***************************************************************************)
(* The function runs.                                                      *)
(***************************************************************************)
LEMMA Negated == \A x \in Int : x % 16 = 0 => (-x) % 16 = 0
  OBVIOUS

LEMMA EnterStep == ASSUME FrameInv, NEW extra, Enter(extra) PROVE FrameInv'
  <1>. USE DEF FrameInv
  <1>1. /\ step.at = "body" /\ again.due = FALSE /\ Goes("run") /\ BuildKeeps
        /\ run' = [run EXCEPT !.sp = IF frame.by = "tramp" THEN -Up(frame.size) ELSE -stack,
                              !.top = aoff, !.extra = extra]
        /\ UNCHANGED <<self, call, prepare, args, pushes, alen, dynamic, frame>>
        /\ UNCHANGED <<aoff, blocks, need, saves, again, stack>>
    BY DEF Enter, BuildKeeps, Typed
  <1>2. /\ step' \in [at : {"build", "emit", "body", "run", "failed"}, calls : 0..MaxCalls]
        /\ step'.at = "run"
    BY <1>1, Going
  <1>3. /\ aoff \in Int /\ alen \in Nat /\ stack \in Nat /\ stack % 16 = 0 /\ frame.size \in Nat
        /\ frame.by \in {"prolog", "frame", "tramp"}
    BY DEF Typed
  <1>4. /\ run'.given = {} /\ run'.top = aoff /\ DOMAIN run' = DOMAIN run
        /\ run'.sp = IF frame.by = "tramp" THEN -Up(frame.size) ELSE -stack
    BY <1>1 DEF RunTyped
  <1>5. Up(frame.size) \in Int /\ Up(frame.size) % 16 = 0
    BY <1>3, UpBounds
  <1>6. run'.sp \in Int /\ run'.sp % 16 = 0
    BY <1>3, <1>4, <1>5, Negated
  <1>7. Typed' /\ Started'
    BY <1>1, <1>2 DEF Typed, Started
  <1>0. Young' => Young
    BY <1>1, <1>2 DEF Young
  <1>8. Few' /\ Placed' /\ Passed' /\ Blocked'
    BY <1>1, <1>0, BuiltKept, BlockedKept
  <1>9. Framed' /\ Needy' /\ Laid' /\ RunTyped'
    <2>1. Framed' /\ Needy' /\ Laid'
      BY <1>1, <1>2, <1>0 DEF Framed, Needy, Laid
    <2>2. RunTyped'
      BY <1>2, <1>3, <1>4, <1>6 DEF RunTyped
    <2>. QED
      BY <2>1, <2>2
  <1>10. Running'
    <2>1. ASSUME frame.by # "tramp"
          PROVE  run'.sp + alen =< aoff /\ (dynamic # None => aoff % 16 = 0) /\ (run'.sp < 0 => need)
      <3>1. stack = Up(alen - aoff) /\ (dynamic # None => aoff % 16 = 0)
        BY <1>1, <2>1 DEF Laid
      <3>2. Up(alen - aoff) >= alen - aoff
        BY <1>3, UpBounds
      <3>3. alen = 0 /\ aoff = 0 => Up(alen - aoff) = 0
        BY DEF Up, Aligned
      <3>4. aoff =< 0
        BY <2>1 DEF Framed
      <3>5. alen > 0 \/ aoff < 0 \/ frame.by # "prolog" => need
        BY <1>1 DEF Needy
      <3>. QED
        BY <1>3, <1>4, <2>1, <3>1, <3>2, <3>3, <3>4, <3>5
    <2>2. ASSUME frame.by = "tramp" PROVE run'.sp = -Up(frame.size) /\ need /\ dynamic = None
      BY <1>1, <1>4, <2>2 DEF Needy, Framed
    <2>. QED
      BY <1>1, <1>3, <1>4, <1>6, <2>1, <2>2 DEF Running
  <1>. QED
    BY <1>7, <1>8, <1>9, <1>10

LEMMA RunningOnly ==
  ASSUME FrameInv, step.at = "run", RunKeeps, RunTyped', Running'
  PROVE  FrameInv'
  <1>. USE DEF FrameInv
  <1>1. /\ BuildKeeps /\ UNCHANGED <<self, call, prepare, args, pushes, alen, dynamic, frame>>
        /\ UNCHANGED <<step, aoff, blocks, need, saves, again, stack>>
    BY DEF RunKeeps, BuildKeeps
  <1>2. Typed' /\ Started' /\ Framed' /\ Needy' /\ Laid'
    BY <1>1 DEF Typed, Started, Framed, Young, Needy, Laid
  <1>3. Few' /\ Placed' /\ Passed' /\ Blocked'
    BY <1>1, BuiltKept, BlockedKept DEF Young
  <1>. QED
    BY <1>2, <1>3

LEMMA RunAllocarStep == ASSUME FrameInv, NEW n \in Sizes, RunAllocar(n) PROVE FrameInv'
  <1>. USE DEF FrameInv
  <1>. DEFINE down == Aligned(-n, 16)
              new == [at |-> run.top + down, length |-> n]
  <1>1. /\ step.at = "run" /\ dynamic # None /\ RunKeeps
        /\ run' = [run EXCEPT !.sp = @ + down, !.top = @ + down, !.given = @ \cup {new}]
        /\ UNCHANGED <<step, alen, aoff, frame, dynamic, need>>
    BY DEF RunAllocar, RunKeeps, BuildKeeps
  <1>2. n \in Nat /\ -n \in Int
    BY FramesAssumption
  <1>3. down \in Int /\ down =< -n /\ down % 16 = 0
    BY <1>2, AlignedBounds, Aligned16
  <1>4. run.sp \in Int /\ run.top \in Int /\ run.given \subseteq Places /\ alen \in Nat /\ aoff \in Int
    BY DEF RunTyped, Typed
  <1>5. new \in Places /\ new.at = run.top + down /\ new.length = n
    BY <1>2, <1>3, <1>4 DEF Places
  <1>. HIDE DEF down, new
  <1>6. /\ run'.sp = run.sp + down /\ run'.top = run.top + down /\ run'.given = run.given \cup {new}
        /\ DOMAIN run' = DOMAIN run
    BY <1>1 DEF RunTyped
  <1>7. RunTyped'
    BY <1>1, <1>3, <1>4, <1>5, <1>6 DEF RunTyped
  <1>8. frame.by # "tramp" /\ need
    BY <1>1 DEF Framed, Needy
  <1>9. \A x, y \in Int : x % 16 = 0 /\ y % 16 = 0 => (x + y) % 16 = 0
    OBVIOUS
  <1>10. /\ run.sp % 16 = 0 /\ run.top =< aoff /\ run.sp + alen =< run.top /\ run.top % 16 = 0
         /\ \A p \in run.given : run.top =< p.at /\ p.at + p.length =< aoff /\ p.at % 16 = 0
         /\ \A p, q \in run.given : p # q => Apart(p, q)
    BY <1>1, <1>8 DEF Running
  <1>11. run'.sp % 16 = 0 /\ run'.top % 16 = 0
    BY <1>3, <1>4, <1>6, <1>9, <1>10
  <1>12. run'.top =< aoff /\ run'.sp + alen =< run'.top
    BY <1>2, <1>3, <1>4, <1>6, <1>10
  <1>13. \A p \in run'.given : run'.top =< p.at /\ p.at + p.length =< aoff /\ p.at % 16 = 0
    <2>1. run'.top =< new.at /\ new.at + new.length =< aoff /\ new.at % 16 = 0
      BY <1>2, <1>3, <1>4, <1>5, <1>6, <1>10, <1>11
    <2>2. \A p \in run.given : p.at \in Int
      BY <1>4 DEF Places
    <2>3. \A p \in run.given : run'.top =< p.at
      <3>1. run'.top =< run.top /\ run'.top \in Int /\ run.top \in Int
        BY <1>2, <1>3, <1>4, <1>6
      <3>2. \A p \in run.given : run.top =< p.at
        BY <1>10
      <3>. QED
        BY <2>2, <3>1, <3>2
    <2>. QED
      BY <1>6, <1>10, <2>1, <2>3
  <1>14. \A p, q \in run'.given : p # q => Apart(p, q)
    <2>1. \A p \in run.given : p.at \in Int
      BY <1>4 DEF Places
    <2>2. \A p \in run.given : new.at + new.length =< p.at
      BY <1>2, <1>3, <1>4, <1>5, <1>10, <2>1
    <2>3. \A p \in run.given : Apart(p, new) /\ Apart(new, p)
      BY <2>2 DEF Apart
    <2>. QED
      BY <1>6, <1>10, <2>3
  <1>15. Running'
    <2>1. UNCHANGED <<alen, aoff, frame, dynamic, need>> /\ frame.by # "tramp" /\ need
      BY <1>1, <1>8
    <2>2. \A p, q \in run'.given : p # q => Apart(p, q)'
      BY <1>14 DEF Apart
    <2>. HIDE DEF FrameInv
    <2>. QED
      BY <2>1, <2>2, <1>11, <1>12, <1>13 DEF Running
  <1>. QED
    BY <1>1, <1>7, <1>15, RunningOnly

\* A va_list is read: the stack stays.
LEMMA ListStep ==
  ASSUME FrameInv, step.at = "run", RunKeeps, DOMAIN run' = DOMAIN run,
         run'.sp = run.sp, run'.top = run.top, run'.given = run.given
  PROVE  FrameInv'
  <1>1. UNCHANGED <<step, alen, aoff, frame, dynamic, need, stack>>
    BY DEF RunKeeps, BuildKeeps
  <1>2. RunTyped' /\ Running'
    BY <1>1 DEF FrameInv, RunTyped, Running, Apart
  <1>. QED
    BY <1>2, RunningOnly

LEMMA VaStartStep == ASSUME FrameInv, VaStart PROVE FrameInv'
  <1>1. /\ step.at = "run" /\ RunKeeps
        /\ run' = [run EXCEPT !.gp = va.gp, !.fp = va.fp, !.over = Behind]
    BY DEF VaStart
  <1>2. DOMAIN run' = DOMAIN run /\ run'.sp = run.sp /\ run'.top = run.top /\ run'.given = run.given
    BY <1>1 DEF FrameInv, RunTyped
  <1>. QED
    BY <1>1, <1>2, ListStep

LEMMA VaArgStep ==
  ASSUME FrameInv, NEW kind \in {"word", "double"}, VaArgSaved(kind) \/ VaArgOver(kind)
  PROVE  FrameInv'
  <1>1. ASSUME VaArgSaved(kind) PROVE FrameInv'
    <2>. DEFINE at == IF kind = "word" THEN run.gp ELSE run.fp
    <2>1. /\ step.at = "run" /\ RunKeeps
          /\ run' = [run EXCEPT !.got = Append(@, va.off + SaveArea + at),
                                !.gp = IF kind = "word" THEN @ + 8 ELSE @,
                                !.fp = IF kind = "word" THEN @ ELSE @ + 16]
      BY <1>1 DEF VaArgSaved
    <2>. HIDE DEF at
    <2>2. DOMAIN run' = DOMAIN run /\ run'.sp = run.sp /\ run'.top = run.top /\ run'.given = run.given
      BY <2>1 DEF FrameInv, RunTyped
    <2>. QED
      BY <2>1, <2>2, ListStep
  <1>2. ASSUME VaArgOver(kind) PROVE FrameInv'
    <2>1. /\ step.at = "run" /\ RunKeeps
          /\ run' = [run EXCEPT !.got = Append(@, run.over), !.over = @ + Word]
      BY <1>2 DEF VaArgOver
    <2>2. DOMAIN run' = DOMAIN run /\ run'.sp = run.sp /\ run'.top = run.top /\ run'.given = run.given
      BY <2>1 DEF FrameInv, RunTyped
    <2>. QED
      BY <2>1, <2>2, ListStep
  <1>. QED
    BY <1>1, <1>2


-----------------------------------------------------------------------------
LEMMA FrameStep == FrameInv /\ [FrameNext]_frameVars => FrameInv'
  <1>. SUFFICES ASSUME FrameInv, [FrameNext]_frameVars PROVE FrameInv'
    OBVIOUS
  <1>1. CASE Interface
    <2>1. ASSUME NEW kind \in Kinds, Arg(kind) PROVE FrameInv'
      BY <2>1, ArgStep
    <2>2. ASSUME NEW kind \in Kinds, NEW by \in By(kind), Push(kind, by) PROVE FrameInv'
      <3>1. by \in {"r", "i"}
        BY DEF By
      <3>. QED
        BY <2>2, <3>1, PushStep
    <2>3. ASSUME NEW n \in Requests, NEW by \in {"frame", "tramp"}, Trampoline(n, by) PROVE FrameInv'
      BY <2>3, TrampolineStep
    <2>. QED
      BY <1>1, <2>1, <2>2, <2>3, PrepareStep, EllipsisOfCallStep, FinishStep,
         AllocaiStep, AllocarStep, EllipsisOfSelfStep DEF Interface
  <1>2. CASE Generate
    <2>1. ASSUME NEW rax \in BOOLEAN, Prolog(rax) PROVE FrameInv'
      BY <2>1, PrologStep
    <2>. QED
      BY <1>2, <2>1, CompleteStep, PrologFailsStep, SpillStep, SaveMoreStep, CheckFrameStep,
         AgainStep, OutOfRoomStep DEF Generate
  <1>3. CASE Execute
    BY <1>3, EnterStep, RunAllocarStep, VaStartStep, VaArgStep DEF Execute
  <1>4. CASE UNCHANGED frameVars
    <2>1. UNCHANGED <<step, self, call, prepare, args, pushes, aoff, alen, blocks, need,
                      dynamic, va, frame, saves, again, stack, run>>
      BY <1>4 DEF frameVars
    <2>2. Typed' /\ Few' /\ Started' /\ Placed' /\ Passed'
      BY <2>1 DEF FrameInv, Typed, Few, Started, Placed, Passed
    <2>3. Blocked'
      BY <2>1, BlockedKept DEF FrameInv, Young
    <2>4. Framed' /\ Needy' /\ Laid' /\ RunTyped' /\ Running'
      BY <2>1 DEF FrameInv, Framed, Young, Needy, Laid, RunTyped, Running, Apart
    <2>. QED
      BY <2>2, <2>3, <2>4 DEF FrameInv
  <1>. QED
    BY <1>1, <1>2, <1>3, <1>4 DEF FrameNext

(***************************************************************************)
(* The inductive invariant: blocks are handed out downward, the prolog     *)
(* lays out all of them or is generated again, and the stack pointer is    *)
(* below whatever the function asks for as it runs.                        *)
(***************************************************************************)
THEOREM FrameInvariant == FrameSpec => []FrameInv
  BY FrameStart, FrameStep, PTL DEF FrameSpec

LEMMA BorrowedIs == FrameSpec => [](borrowed \in BOOLEAN)
  <1>1. FrameInit => borrowed \in BOOLEAN
    BY DEF FrameInit
  <1>2. borrowed \in BOOLEAN /\ [FrameNext]_frameVars => (borrowed \in BOOLEAN)'
    <2>. SUFFICES ASSUME borrowed \in BOOLEAN, [FrameNext]_frameVars PROVE (borrowed \in BOOLEAN)'
      OBVIOUS
    <2>1. CASE Interface
      BY <2>1 DEF Interface, Arg, Push, Prepare, EllipsisOfCall, Finish, Allocai, Allocar, EllipsisOfSelf,
                  EmitKeeps, Trampoline
    <2>2. CASE Generate
      BY <2>2 DEF Generate, Complete, Prolog, PrologFails, Spill, SaveMore, CheckFrame, Again, OutOfRoom
    <2>3. CASE Execute
      BY <2>3 DEF Execute, Enter, RunAllocar, VaStart, VaArgSaved, VaArgOver, RunKeeps
    <2>. QED
      BY <2>1, <2>2, <2>3 DEF FrameNext, frameVars
  <1>. QED
    BY <1>1, <1>2, PTL DEF FrameSpec

(***************************************************************************)
(* The state of a function and its frame has its type.                     *)
(***************************************************************************)
THEOREM FrameTyped == FrameSpec => []FrameTypeOK
  <1>1. FrameInv /\ borrowed \in BOOLEAN => FrameTypeOK
    <2>. SUFFICES ASSUME FrameInv, borrowed \in BOOLEAN PROVE FrameTypeOK
      OBVIOUS
    <2>. USE DEF FrameInv
    <2>1. ArgsOK(self) /\ ArgsOK(call) /\ self.argf =< FloatRegs
      BY FramesAssumption DEF Typed, Few, ArgsOK, Counts
    <2>2. step.at \in {"build", "emit", "body", "run", "failed"} /\ step.calls \in 0..MaxCalls
      BY DEF Typed
    <2>3. \A b \in blocks : b.at \in Int /\ b.length \in Nat
      BY DEF Typed
    <2>4. /\ {prepare, need, again.due} \subseteq BOOLEAN /\ again.times \in Nat
          /\ frame.by \in {"prolog", "frame", "tramp"}
      BY DEF Typed
    <2>. QED
      BY <2>1, <2>2, <2>3, <2>4 DEF Typed, FrameTypeOK
  <1>. QED
    BY <1>1, FrameInvariant, BorrowedIs, PTL

-----------------------------------------------------------------------------
(***************************************************************************)
(* Parts of the stack from the bottom up.                                  *)
(***************************************************************************)
AllApart(S) == \A p, q \in S : p # q => Apart(p, q)
Under(S, T) == \A p \in S, q \in T : p.at + p.length =< q.at

LEMMA Stacked ==
  ASSUME NEW S, NEW T, AllApart(S), AllApart(T), Under(S, T)
  PROVE  AllApart(S \cup T)
  BY DEF AllApart, Under, Apart

LEMMA AboveApart == ASSUME FrameInv PROVE AllApart(Above) /\ \A p \in Above : p \in Places /\ p.at >= 0
                                          /\ p.at + p.length =< Framesize(saves) + Word
  <1>1. saves \in Nat
    BY FramesAssumption DEF FrameInv, Typed
  <1>2. Framesize(saves) \in Nat /\ Framesize(saves) >= 8 * (saves + 1)
    BY <1>1, FramesizeBounds DEF Word
  <1>3. \A p \in Above : \/ p = Part(0, 8) \/ (\E n \in 1..saves : p = Part(8 * n, 8))
                         \/ p = Part(Framesize(saves), 8)
    BY DEF Above, Word
  <1>4. \A p \in Above : p.length = 8 /\ p.at \in Nat /\ p.at =< Framesize(saves)
                         /\ (p.at = Framesize(saves) \/ \E n \in 0..saves : p.at = 8 * n)
    <2>1. ASSUME NEW n \in 1..saves PROVE 8 * n \in Nat /\ 8 * n =< Framesize(saves) /\ n \in 0..saves
      BY <1>1, <1>2
    <2>. SUFFICES ASSUME NEW p \in Above
                  PROVE  p.length = 8 /\ p.at \in Nat /\ p.at =< Framesize(saves)
                         /\ (p.at = Framesize(saves) \/ \E n \in 0..saves : p.at = 8 * n)
      OBVIOUS
    <2>2. CASE p = Part(0, 8)
      <3>1. 0 \in 0..saves /\ p.at = 8 * 0 /\ p.length = 8
        BY <1>1, <2>2 DEF Part
      <3>. QED
        BY <1>2, <3>1
    <2>3. ASSUME NEW n \in 1..saves, p = Part(8 * n, 8)
          PROVE  p.length = 8 /\ p.at \in Nat /\ p.at =< Framesize(saves)
                 /\ \E m \in 0..saves : p.at = 8 * m
      BY <2>1, <2>3 DEF Part
    <2>4. CASE p = Part(Framesize(saves), 8)
      BY <1>2, <2>4 DEF Part
    <2>. QED
      BY <1>3, <2>2, <2>3, <2>4
  <1>5. \A p \in Above : p = Part(p.at, 8)
    BY <1>3 DEF Part
  <1>6. \A p, q \in Above : p # q => Apart(p, q)
    <2>. SUFFICES ASSUME NEW p \in Above, NEW q \in Above, p # q PROVE Apart(p, q)
      OBVIOUS
    <2>1. p.at # q.at
      BY <1>5
    <2>2. ASSUME NEW m \in 0..saves, NEW n \in 0..saves, p.at = 8 * m, q.at = 8 * n PROVE Apart(p, q)
      BY <1>1, <1>4, <2>1, <2>2 DEF Apart
    <2>3. ASSUME NEW m \in 0..saves, p.at = 8 * m, q.at = Framesize(saves) PROVE Apart(p, q)
      BY <1>1, <1>2, <1>4, <2>3 DEF Apart
    <2>4. ASSUME NEW n \in 0..saves, p.at = Framesize(saves), q.at = 8 * n PROVE Apart(p, q)
      BY <1>1, <1>2, <1>4, <2>4 DEF Apart
    <2>. QED
      BY <1>4, <2>1, <2>2, <2>3, <2>4
  <1>7. \A p \in Above : p \in Places
    BY <1>4, <1>5 DEF Places, Part
  <1>. QED
    BY <1>2, <1>4, <1>6, <1>7 DEF AllApart, Word

LEMMA IncomingApart ==
  ASSUME FrameInv
  PROVE  AllApart(Incoming) /\ \A p \in Incoming : p \in Places /\ p.at >= Framesize(saves) + Word
  <1>. USE DEF FrameInv
  <1>. DEFINE shift == StackFramesize - Framesize(saves)
              OnTop == {i \in DOMAIN args : PlaceOf(args[i])[1] = "stack"}
  <1>1. saves \in Nat /\ Framesize(saves) \in Nat /\ StackFramesize \in Nat /\ Word = 8
    <2>1. saves \in Nat
      BY FramesAssumption DEF Typed
    <2>. QED
      BY <2>1, FramesizeBounds, Sizes8 DEF Word
  <1>2. \A i \in DOMAIN args : i \in Int /\ args[i].at \in Nat
    <2>1. \A i \in DOMAIN args : args[i] \in [kind : Kinds, at : Nat]
      BY Element DEF Typed
    <2>2. \A r \in [kind : Kinds, at : Nat] : r.at \in Nat
      OBVIOUS
    <2>3. \A i \in DOMAIN args : i \in Int
      BY DEF Typed
    <2>. QED
      BY <2>1, <2>2, <2>3
  <1>3. \A i \in OnTop : i \in DOMAIN args /\ ~(args[i].at < Limit(Class(args[i].kind)))
    BY DEF PlaceOf, Class
  <1>4. \A i \in OnTop : args[i].at >= StackFramesize + Word
    BY <1>3 DEF Placed
  <1>5. \A i, j \in OnTop : i < j => args[i].at + Word =< args[j].at
    BY <1>3, <1>4 DEF Placed
  <1>6. Incoming = {Part(args[i].at - shift, Word) : i \in OnTop}
    BY DEF Incoming
  <1>. HIDE DEF OnTop
  <1>7. shift \in Int /\ shift = StackFramesize - Framesize(saves)
    BY <1>1
  <1>. HIDE DEF shift
  <1>8. ASSUME NEW i \in OnTop
        PROVE  /\ Part(args[i].at - shift, Word).at = args[i].at - shift
               /\ Part(args[i].at - shift, Word).length = Word
               /\ Part(args[i].at - shift, Word) \in Places
               /\ args[i].at - shift >= Framesize(saves) + Word
               /\ i \in Int /\ args[i].at \in Nat
    BY <1>1, <1>2, <1>3, <1>4, <1>7 DEF Part, Places
  <1>9. ASSUME NEW i \in OnTop, NEW j \in OnTop, i < j
        PROVE  /\ Apart(Part(args[i].at - shift, Word), Part(args[j].at - shift, Word))
               /\ Apart(Part(args[j].at - shift, Word), Part(args[i].at - shift, Word))
    BY <1>1, <1>5, <1>7, <1>8, <1>9 DEF Apart
  <1>10. ASSUME NEW p \in Incoming, NEW q \in Incoming, p # q PROVE Apart(p, q)
    <2>1. PICK i \in OnTop : p = Part(args[i].at - shift, Word)
      BY <1>6
    <2>2. PICK j \in OnTop : q = Part(args[j].at - shift, Word)
      BY <1>6
    <2>3. i # j /\ i \in Int /\ j \in Int
      BY <1>8, <1>10, <2>1, <2>2
    <2>. QED
      BY <1>9, <2>1, <2>2, <2>3
  <1>. QED
    BY <1>6, <1>8, <1>10 DEF AllApart

LEMMA StaticApart ==
  ASSUME FrameInv
  PROVE  /\ AllApart(Static)
         /\ \A p \in Static : p \in Places /\ p.at + p.length =< 0
         /\ step.at = "run" /\ frame.by # "tramp" => \A p \in Static : aoff =< p.at
  <1>. USE DEF FrameInv
  <1>1. Static = {Part(b.at, b.length) : b \in Fixed}
    BY DEF Static, Fixed
  <1>2. \A b \in Fixed : b.at \in Int /\ b.length \in Nat
    BY DEF Typed, Fixed
  <1>3. \A b \in Fixed : Part(b.at, b.length).at = b.at /\ Part(b.at, b.length).length = b.length
    BY DEF Part
  <1>4. AllApart(Static)
    BY <1>1, <1>3 DEF AllApart, Blocked, Apart
  <1>5. \A p \in Static : p \in Places /\ p.at + p.length =< 0
    BY <1>1, <1>2, <1>3 DEF Blocked, Places, Part
  <1>6. ASSUME step.at = "run", frame.by # "tramp" PROVE \A b \in Fixed : aoff =< b.at
    <2>1. again.times \in Nat /\ again.times >= 1 /\ aoff \in Int /\ frame.size \in Nat
          /\ frame.by \in {"prolog", "frame"}
      BY <1>6 DEF Typed, Started
    <2>2. CASE frame.by = "prolog"
      BY <2>2 DEF Blocked
    <2>3. CASE frame.by = "frame"
      <3>1. aoff =< -frame.size
        BY <1>6, <2>3 DEF Framed
      <3>2. \A b \in Fixed : -frame.size =< b.at
        BY <2>1, <2>3 DEF Blocked
      <3>. QED
        BY <1>2, <2>1, <3>1, <3>2
    <2>. QED
      BY <2>1, <2>2, <2>3
  <1>. QED
    BY <1>1, <1>3, <1>4, <1>5, <1>6

(***************************************************************************)
(* When the function runs, the parts of its frame lie one under the other: *)
(* arguments of calls, what it asked for, blocks, what is saved, and its   *)
(* own arguments.                                                          *)
(***************************************************************************)
LEMMA Order ==
  ASSUME FrameInv, step.at = "run", Sufficient
  PROVE  /\ run.sp \in Int /\ alen \in Nat /\ run.sp =< 0 /\ run.sp + alen =< 0
         /\ Under(OfCalls, run.given \cup Static) /\ Under(run.given, Static)
         /\ AllApart(run.given)
         /\ \A p \in run.given \cup Static : p \in Places /\ p.at >= run.sp /\ p.at + p.length =< 0
  <1>. USE DEF FrameInv
  <1>1. /\ run.sp \in Int /\ run.top \in Int /\ run.given \subseteq Places /\ alen \in Nat /\ aoff \in Int
        /\ frame.size \in Nat
    BY DEF RunTyped, Typed
  <1>2. \A p \in Static : p \in Places /\ p.at \in Int /\ p.length \in Nat /\ p.at + p.length =< 0
    BY StaticApart DEF Places
  <1>3. \A p \in run.given : p \in Places /\ p.at \in Int /\ p.length \in Nat
    BY <1>1 DEF Places
  <1>4. AllApart(run.given)
    BY DEF Running, AllApart
  <1>5. \A p \in OfCalls : p.at = run.sp /\ p.length = alen
    BY DEF OfCalls, Part
  <1>6. CASE frame.by # "tramp"
    <2>1. run.top =< aoff /\ run.sp + alen =< run.top /\ aoff =< 0
      BY <1>6 DEF Running, Framed
    <2>2. \A p \in run.given : run.top =< p.at /\ p.at + p.length =< aoff
      BY DEF Running
    <2>3. \A p \in Static : aoff =< p.at
      BY <1>6, StaticApart
    <2>4. \A p \in run.given \cup Static : run.sp + alen =< p.at
      BY <1>1, <1>2, <1>3, <2>1, <2>2, <2>3
    <2>5. \A p \in run.given, q \in Static : p.at + p.length =< q.at
      BY <1>1, <1>2, <1>3, <2>2, <2>3
    <2>6. \A p \in run.given \cup Static : p \in Places /\ p.at >= run.sp /\ p.at + p.length =< 0
      BY <1>1, <1>2, <1>3, <2>1, <2>2, <2>4
    <2>. QED
      BY <1>1, <1>4, <1>5, <2>1, <2>4, <2>5, <2>6 DEF Under
  <1>7. CASE frame.by = "tramp"
    <2>1. run.given = {} /\ run.sp = -Up(frame.size) /\ Up(frame.size) \in Int /\ Up(frame.size) >= frame.size
      BY <1>1, <1>7, UpBounds DEF Running
    <2>2. alen =< frame.size /\ \A b \in blocks \ Slots : b.at - alen >= -frame.size
      BY <1>7 DEF Sufficient
    <2>3. \A p \in Static : \E b \in blocks \ Slots : p.at = b.at
      BY <1>7 DEF Static, Part
    <2>4. \A p \in Static : p.at - alen >= -frame.size
      BY <2>2, <2>3
    <2>5. \A p \in Static : run.sp + alen =< p.at /\ run.sp =< p.at
      BY <1>1, <1>2, <2>1, <2>4
    <2>6. run.sp =< 0 /\ run.sp + alen =< 0
      BY <1>1, <2>1, <2>2
    <2>. QED
      BY <1>1, <1>2, <1>4, <1>5, <2>1, <2>5, <2>6 DEF Under
  <1>. QED
    BY <1>6, <1>7

(***************************************************************************)
(* The parts of the frame are apart, and the stack pointer is below them,  *)
(* for any number of registers, blocks, arguments and calls.               *)
(***************************************************************************)
THEOREM FramePartsApart == FrameSpec => []FrameApart
  <1>1. ASSUME FrameInv PROVE FrameApart
    <2>. SUFFICES ASSUME step.at = "run", Sufficient
                  PROVE  /\ \A p, q \in Parts : p # q => Apart(p, q)
                         /\ \A p \in Parts : p.length = 0 \/ p.at >= run.sp
                         /\ \A i \in DOMAIN pushes : pushes[i].to[1] = "stack" => pushes[i].to[2] + Word =< alen
                         /\ \A p \in run.given : p.at % 16 = 0
                         /\ run.sp % 16 = 0 /\ Framesize(saves) % 16 = Word
                         /\ run.sp < 0 => need
      BY DEF FrameApart
    <2>. USE DEF FrameInv
    <2>1. /\ run.sp \in Int /\ alen \in Nat /\ run.sp =< 0 /\ run.sp + alen =< 0
          /\ Under(OfCalls, run.given \cup Static) /\ Under(run.given, Static)
          /\ AllApart(run.given)
          /\ \A p \in run.given \cup Static : p \in Places /\ p.at >= run.sp /\ p.at + p.length =< 0
      BY <1>1, Order
    <2>2. /\ saves \in Nat /\ Framesize(saves) \in Nat /\ Framesize(saves) % 16 = Word
      BY <1>1, FramesAssumption, FramesizeBounds DEF Typed
    <2>3. AllApart(Above) /\ \A p \in Above : p \in Places /\ p.at >= 0 /\ p.at + p.length =< Framesize(saves) + Word
      BY <1>1, AboveApart
    <2>4. AllApart(Incoming) /\ \A p \in Incoming : p \in Places /\ p.at >= Framesize(saves) + Word
      BY <1>1, IncomingApart
    <2>5. AllApart(Static)
      BY <1>1, StaticApart
    <2>6. \A p \in OfCalls : p.at = run.sp /\ p.length = alen
      BY DEF OfCalls, Part
    <2>7. \A p \in Places : p.at \in Int /\ p.length \in Nat
      BY DEF Places
    <2>8. AllApart(OfCalls)
      BY DEF AllApart, OfCalls
    <2>9. AllApart(run.given \cup Static)
      BY <2>1, <2>5, Stacked
    <2>10. AllApart(OfCalls \cup (run.given \cup Static))
      BY <2>1, <2>8, <2>9, Stacked
    <2>11. AllApart(Above \cup Incoming)
      <3>1. Under(Above, Incoming)
        BY <2>2, <2>3, <2>4, <2>7 DEF Under, Word
      <3>. QED
        BY <2>3, <2>4, <3>1, Stacked
    <2>12. \A p \in Above \cup Incoming : p.at \in Int /\ p.at >= 0
      BY <2>2, <2>3, <2>4, <2>7 DEF Word
    <2>13. Under(OfCalls \cup (run.given \cup Static), Above \cup Incoming)
      <3>1. \A p \in OfCalls \cup (run.given \cup Static) : p.at \in Int /\ p.length \in Nat /\ p.at + p.length =< 0
        BY <2>1, <2>6, <2>7
      <3>. QED
        BY <2>12, <3>1 DEF Under
    <2>14. AllApart((OfCalls \cup (run.given \cup Static)) \cup (Above \cup Incoming))
      BY <2>10, <2>11, <2>13, Stacked
    <2>15. Parts = (OfCalls \cup (run.given \cup Static)) \cup (Above \cup Incoming)
      BY DEF Parts
    <2>16. \A p \in Parts : p.at >= run.sp
      BY <2>1, <2>6, <2>12, <2>15
    <2>17. \A i \in DOMAIN pushes : pushes[i].to[1] = "stack" => pushes[i].to[2] + Word =< alen
      <3>1. prepare = FALSE
        BY <1>1 DEF Started
      <3>. QED
        BY <1>1, <3>1 DEF Passed
    <2>18. /\ \A p \in run.given : p.at % 16 = 0
           /\ run.sp % 16 = 0 /\ (run.sp < 0 => need)
      BY <1>1 DEF Running
    <2>. QED
      BY <2>2, <2>14, <2>15, <2>16, <2>17, <2>18 DEF AllApart
  <1>. QED
    BY <1>1, FrameInvariant, PTL

-----------------------------------------------------------------------------
(***************************************************************************)
(* Counting arguments: how many of the first n have a class, and how many  *)
(* of them are on the stack.                                               *)
(***************************************************************************)
CountOf(kinds, n, c) == Cardinality({j \in 1..n : Class(kinds[j]) = c})
OverOf(kinds, n)     == Cardinality({j \in 1..n : Overflowed(kinds, j)})
Least(m, n)          == IF m < n THEN m ELSE n

\* What self or call say of the first n arguments.
Counted(to, kinds, n) == \A c \in {"word", "float"} : Taken(to, c) = Least(CountOf(kinds, n, c), Limit(c))

LEMMA CountMore ==
  ASSUME NEW n \in Nat, NEW T
  PROVE  /\ Cardinality({j \in 1..n : j \in T}) \in Nat
         /\ Cardinality({j \in 1..n + 1 : j \in T}) =
              Cardinality({j \in 1..n : j \in T}) + (IF n + 1 \in T THEN 1 ELSE 0)
  <1>. DEFINE A == {j \in 1..n : j \in T}
              B == {j \in 1..n + 1 : j \in T}
  <1>1. IsFiniteSet(A) /\ Cardinality(A) \in Nat
    <2>1. IsFiniteSet(1..n)
      BY FS_Interval
    <2>2. A \subseteq 1..n
      OBVIOUS
    <2>. QED
      BY <2>1, <2>2, FS_Subset, FS_CardinalityType
  <1>2. n + 1 \notin A
    OBVIOUS
  <1>3. CASE n + 1 \in T
    <2>1. B = A \cup {n + 1}
      BY <1>3
    <2>. QED
      BY <1>1, <1>2, <1>3, <2>1, FS_AddElement
  <1>4. CASE n + 1 \notin T
    <2>1. B = A
      BY <1>4
    <2>. QED
      BY <1>1, <1>4, <2>1
  <1>. QED
    BY <1>1, <1>3, <1>4

LEMMA Counts1 ==
  ASSUME NEW kinds, NEW n \in Nat
  PROVE  /\ \A c : /\ CountOf(kinds, n, c) \in Nat
                   /\ CountOf(kinds, n + 1, c) = CountOf(kinds, n, c) + (IF Class(kinds[n + 1]) = c THEN 1 ELSE 0)
         /\ OverOf(kinds, n) \in Nat
         /\ OverOf(kinds, n + 1) = OverOf(kinds, n) + (IF Overflowed(kinds, n + 1) THEN 1 ELSE 0)
         /\ Before(kinds, n + 1) = CountOf(kinds, n, Class(kinds[n + 1]))
  <1>0. n + 1 \in Nat /\ n + 1 - 1 = n /\ n + 1 \in 1..n + 1
    OBVIOUS
  <1>1. ASSUME NEW c
        PROVE  /\ CountOf(kinds, n, c) \in Nat
               /\ CountOf(kinds, n + 1, c) = CountOf(kinds, n, c) + (IF Class(kinds[n + 1]) = c THEN 1 ELSE 0)
    <2>. DEFINE T == {j \in 1..n + 1 : Class(kinds[j]) = c}
    <2>1. {j \in 1..n : j \in T} = {j \in 1..n : Class(kinds[j]) = c}
      BY <1>0
    <2>2. {j \in 1..n + 1 : j \in T} = T /\ (n + 1 \in T <=> Class(kinds[n + 1]) = c)
      BY <1>0
    <2>. QED
      BY <2>1, <2>2, CountMore DEF CountOf
  <1>2. OverOf(kinds, n) \in Nat /\ OverOf(kinds, n + 1) = OverOf(kinds, n) + (IF Overflowed(kinds, n + 1) THEN 1 ELSE 0)
    <2>. DEFINE T == {j \in 1..n + 1 : Overflowed(kinds, j)}
    <2>1. {j \in 1..n : j \in T} = {j \in 1..n : Overflowed(kinds, j)}
      BY <1>0
    <2>2. {j \in 1..n + 1 : j \in T} = T /\ (n + 1 \in T <=> Overflowed(kinds, n + 1))
      BY <1>0
    <2>. QED
      BY <2>1, <2>2, CountMore DEF OverOf
  <1>3. Before(kinds, n + 1) = CountOf(kinds, n, Class(kinds[n + 1]))
    BY <1>0 DEF Before, CountOf
  <1>. QED
    BY <1>1, <1>2, <1>3

LEMMA NoneCounted ==
  ASSUME NEW kinds PROVE OverOf(kinds, 0) = 0 /\ \A c : CountOf(kinds, 0, c) = 0
  <1>1. {j \in 1..0 : Overflowed(kinds, j)} = {} /\ \A c : {j \in 1..0 : Class(kinds[j]) = c} = {}
    OBVIOUS
  <1>. QED
    BY <1>1, FS_EmptySet DEF OverOf, CountOf

(***************************************************************************)
(* What C says of an argument depends on those before it only.             *)
(***************************************************************************)
LEMMA SameKinds ==
  ASSUME NEW k, NEW l, NEW n \in Nat, \A j \in 1..n : k[j] = l[j]
  PROVE  /\ \A c : CountOf(k, n, c) = CountOf(l, n, c)
         /\ OverOf(k, n) = OverOf(l, n)
         /\ \A i \in 1..n : /\ Overflowed(k, i) <=> Overflowed(l, i)
                            /\ Convention(k, i) = Convention(l, i)
  <1>1. ASSUME NEW i \in 1..n PROVE Class(k[i]) = Class(l[i]) /\ Before(k, i) = Before(l, i)
    <2>1. Class(k[i]) = Class(l[i])
      OBVIOUS
    <2>2. \A j \in 1..i - 1 : Class(k[j]) = Class(l[j])
      OBVIOUS
    <2>3. {j \in 1..i - 1 : Class(k[j]) = Class(k[i])} = {j \in 1..i - 1 : Class(l[j]) = Class(l[i])}
      BY <2>1, <2>2
    <2>. QED
      BY <2>1, <2>3 DEF Before
  <1>2. ASSUME NEW i \in 1..n PROVE Overflowed(k, i) <=> Overflowed(l, i)
    BY <1>1 DEF Overflowed
  <1>3. ASSUME NEW i \in 1..n PROVE Convention(k, i) = Convention(l, i)
    <2>1. \A j \in 1..i - 1 : j \in 1..n
      OBVIOUS
    <2>2. {j \in 1..i - 1 : Overflowed(k, j)} = {j \in 1..i - 1 : Overflowed(l, j)}
      BY <1>2, <2>1
    <2>. QED
      BY <1>1, <1>2, <2>2 DEF Convention
  <1>4. \A c : {j \in 1..n : Class(k[j]) = c} = {j \in 1..n : Class(l[j]) = c}
    BY <1>1
  <1>5. {j \in 1..n : Overflowed(k, j)} = {j \in 1..n : Overflowed(l, j)}
    BY <1>2
  <1>. QED
    BY <1>2, <1>3, <1>4, <1>5 DEF CountOf, OverOf

(***************************************************************************)
(* One more argument: there is a register if C says so, it is the one that *)
(* C says, and the counts are those of one more.                           *)
(***************************************************************************)
LEMMA CountedNext ==
  ASSUME NEW to \in Counts, NEW kinds, NEW n \in Nat, Counted(to, kinds, n)
  PROVE  LET c == Class(kinds[n + 1])
             t == IF HasRegister(to, c) THEN InRegister(to, c) ELSE OnStack(to)
         IN  /\ HasRegister(to, c) <=> ~Overflowed(kinds, n + 1)
             /\ Convention(kinds, n + 1) =
                  IF HasRegister(to, c) THEN <<c, Taken(to, c)>> ELSE <<"stack", Word * OverOf(kinds, n)>>
             /\ Counted(t, kinds, n + 1)
             /\ OverOf(kinds, n + 1) = OverOf(kinds, n) + (IF HasRegister(to, c) THEN 0 ELSE 1)
  <1>. DEFINE c == Class(kinds[n + 1])
              t == IF HasRegister(to, c) THEN InRegister(to, c) ELSE OnStack(to)
              m == CountOf(kinds, n, c)
  <1>0. c \in {"word", "float"} /\ m \in Nat /\ Limit(c) \in Nat
    BY Counts1, Limits DEF Class
  <1>1. Taken(to, c) = Least(m, Limit(c)) /\ Before(kinds, n + 1) = m
    BY <1>0, Counts1 DEF Counted
  <1>2. HasRegister(to, c) <=> ~Overflowed(kinds, n + 1)
    <2>1. HasRegister(to, c) <=> m < Limit(c)
      BY <1>0, <1>1 DEF HasRegister, Least
    <2>2. Overflowed(kinds, n + 1) <=> m >= Limit(c)
      BY <1>1 DEF Overflowed
    <2>. QED
      BY <1>0, <2>1, <2>2
  <1>3. Convention(kinds, n + 1) =
          IF HasRegister(to, c) THEN <<c, Taken(to, c)>> ELSE <<"stack", Word * OverOf(kinds, n)>>
    <2>1. HasRegister(to, c) => Taken(to, c) = Before(kinds, n + 1)
      BY <1>0, <1>1 DEF HasRegister, Least
    <2>2. n + 1 - 1 = n
      OBVIOUS
    <2>. QED
      BY <1>2, <2>1, <2>2 DEF Convention, OverOf
  <1>4. ASSUME NEW d \in {"word", "float"} PROVE Taken(t, d) = Least(CountOf(kinds, n + 1, d), Limit(d))
    <2>1. /\ CountOf(kinds, n, d) \in Nat /\ Limit(d) \in Nat
          /\ CountOf(kinds, n + 1, d) = CountOf(kinds, n, d) + (IF c = d THEN 1 ELSE 0)
          /\ Taken(to, d) = Least(CountOf(kinds, n, d), Limit(d))
      BY Counts1, Limits DEF Counted
    <2>2. Taken(t, d) = Taken(to, d) + (IF c = d /\ HasRegister(to, c) THEN 1 ELSE 0)
      <3>1. to.argi \in Nat /\ to.argf \in Nat
        BY DEF Counts
      <3>2. Taken(OnStack(to), d) = Taken(to, d)
        BY DEF OnStack, Taken, Counts
      <3>3. Taken(InRegister(to, c), d) = Taken(to, d) + (IF c = d THEN 1 ELSE 0)
        <4>. HIDE DEF c
        <4>1. CASE c = "word"
          BY <1>0, <3>1, <4>1 DEF InRegister, Taken, Counts
        <4>2. CASE c = "float"
          BY <1>0, <3>1, <4>2 DEF InRegister, Taken, Counts
        <4>. QED
          BY <1>0, <4>1, <4>2
      <3>4. Taken(to, d) \in Nat
        BY <3>1 DEF Taken
      <3>. QED
        BY <3>2, <3>3, <3>4
    <2>3. HasRegister(to, c) <=> m < Limit(c)
      BY <1>0, <1>1 DEF HasRegister, Least
    <2>. HIDE DEF c, t, m
    <2>4. CASE c = d
      <3>1. m = CountOf(kinds, n, d)
        BY <2>4 DEF m
      <3>. QED
        BY <1>0, <2>1, <2>2, <2>3, <2>4, <3>1 DEF Least
    <2>5. CASE c # d
      BY <2>1, <2>2, <2>5 DEF Least
    <2>. QED
      BY <2>4, <2>5
  <1>5. OverOf(kinds, n + 1) = OverOf(kinds, n) + (IF HasRegister(to, c) THEN 0 ELSE 1)
    BY <1>2, Counts1
  <1>. QED
    BY <1>2, <1>3, <1>4, <1>5 DEF Counted

-----------------------------------------------------------------------------
(***************************************************************************)
(* Arguments are where C puts them.                                        *)
(***************************************************************************)
ArgsAgree ==
  /\ Counted(self, KindsOf(args), Len(args))
  /\ self.size = StackFramesize + Word + Word * OverOf(KindsOf(args), Len(args))
  /\ \A i \in DOMAIN args : PlaceOf(args[i]) = Convention(KindsOf(args), i)

\* Up to the first float that pushargr_f puts in the wrong place.
PushesAgree ==
  /\ prepare /\ (\A j \in DOMAIN pushes : ~Misjudged(j)) =>
       /\ Counted(call, KindsOf(pushes), Len(pushes))
       /\ call.size = Word * OverOf(KindsOf(pushes), Len(pushes))
  /\ \A i \in DOMAIN pushes :
       (\A j \in 1..i : ~Misjudged(j)) => pushes[i].to = Convention(KindsOf(pushes), i)

LEMMA KindsAppended ==
  ASSUME NEW S, NEW s \in Seq(S), NEW x \in S
  PROVE  /\ \A j \in 1..Len(s) : KindsOf(Append(s, x))[j] = KindsOf(s)[j]
         /\ KindsOf(Append(s, x))[Len(s) + 1] = x.kind
         /\ Len(s) \in Nat /\ Len(Append(s, x)) = Len(s) + 1 /\ DOMAIN s = 1..Len(s)
  <1>1. /\ DOMAIN Append(s, x) = DOMAIN s \cup {Len(s) + 1} /\ Append(s, x)[Len(s) + 1] = x
        /\ \A i \in DOMAIN s : Append(s, x)[i] = s[i]
    BY Appending
  <1>2. Len(s) \in Nat /\ Len(Append(s, x)) = Len(s) + 1 /\ DOMAIN s = 1..Len(s)
    OBVIOUS
  <1>. QED
    BY <1>1, <1>2 DEF KindsOf

LEMMA ConventionStart == FrameInit => ArgsAgree /\ PushesAgree
  <1>. SUFFICES ASSUME FrameInit PROVE ArgsAgree /\ PushesAgree
    OBVIOUS
  <1>1. args = <<>> /\ pushes = <<>> /\ ~prepare /\ self = [NoArgs EXCEPT !.size = StackFramesize + Word]
    BY DEF FrameInit
  <1>2. Counted(self, KindsOf(args), 0)
    <2>1. \A c : Taken(self, c) = 0
      BY <1>1 DEF NoArgs, Taken
    <2>2. \A c : Limit(c) \in Nat
      BY Limits
    <2>. QED
      BY <2>1, <2>2, NoneCounted DEF Counted, Least
  <1>3. self.size = StackFramesize + Word + Word * OverOf(KindsOf(args), 0)
    <2>1. self.size = StackFramesize + Word
      BY <1>1 DEF NoArgs
    <2>. QED
      BY <2>1, NoneCounted, Sizes8 DEF Word
  <1>. QED
    BY <1>1, <1>2, <1>3 DEF ArgsAgree, PushesAgree

LEMMA Untouched ==
  ASSUME ArgsAgree, PushesAgree, UNCHANGED <<args, pushes>>, prepare' => prepare,
         self'.argi = self.argi, self'.argf = self.argf, self'.size = self.size,
         prepare' => call'.argi = call.argi /\ call'.argf = call.argf /\ call'.size = call.size
  PROVE  ArgsAgree' /\ PushesAgree'
  <1>1. \A c : Taken(self', c) = Taken(self, c) /\ (prepare' => Taken(call', c) = Taken(call, c))
    BY DEF Taken
  <1>2. \A j : Misjudged(j)' <=> Misjudged(j)
    BY <1>1 DEF Misjudged, HasRegister
  <1>3. ArgsAgree'
    BY <1>1 DEF ArgsAgree, Counted
  <1>. QED
    BY <1>1, <1>2, <1>3 DEF PushesAgree, Counted

LEMMA ArgPlaced ==
  ASSUME Typed, ArgsAgree, NEW kind \in Kinds, Arg(kind)
  PROVE  ArgsAgree' /\ PushesAgree'
  <1>. DEFINE c == Class(kind)
              new == [kind |-> kind, at |-> IF HasRegister(self, c) THEN Taken(self, c) ELSE self.size]
  <1>1. /\ args' = Append(args, new)
        /\ self' = IF HasRegister(self, c) THEN InRegister(self, c) ELSE OnStack(self)
        /\ pushes = <<>> /\ ~prepare /\ UNCHANGED <<pushes, prepare>>
    BY DEF Arg
  <1>2. self \in Counts /\ self.size \in Nat /\ Taken(self, c) \in Nat /\ c \in {"word", "float"}
    BY DEF Typed, Counts, Taken, Class
  <1>3. new \in [kind : Kinds, at : Nat] /\ args \in Seq([kind : Kinds, at : Nat])
    BY <1>2 DEF Typed
  <1>0. PICK n \in Nat : n = Len(args)
    BY <1>3
  <1>. DEFINE k == KindsOf(args)
              l == KindsOf(args')
  <1>4. /\ \A j \in 1..n : l[j] = k[j]
        /\ l[n + 1] = kind /\ Len(args') = n + 1
        /\ DOMAIN args = 1..n /\ DOMAIN args' = DOMAIN args \cup {n + 1} /\ args'[n + 1] = new
        /\ \A i \in DOMAIN args : args'[i] = args[i]
    <2>1. new.kind = kind
      OBVIOUS
    <2>. DEFINE S == [kind : Kinds, at : Nat]
    <2>0. new \in S /\ args \in Seq(S)
      BY <1>3
    <2>. HIDE DEF new, S
    <2>2. /\ \A j \in 1..Len(args) : KindsOf(Append(args, new))[j] = KindsOf(args)[j]
          /\ KindsOf(Append(args, new))[Len(args) + 1] = new.kind
          /\ Len(Append(args, new)) = Len(args) + 1 /\ DOMAIN args = 1..Len(args)
      BY <2>0, KindsAppended
    <2>3. /\ DOMAIN Append(args, new) = DOMAIN args \cup {Len(args) + 1}
          /\ Append(args, new)[Len(args) + 1] = new
          /\ \A i \in DOMAIN args : Append(args, new)[i] = args[i]
      BY <2>0, Appending
    <2>. QED
      BY <1>0, <1>1, <2>1, <2>2, <2>3
  <1>. HIDE DEF k, l
  <1>5. /\ \A d : CountOf(l, n, d) = CountOf(k, n, d)
        /\ OverOf(l, n) = OverOf(k, n) /\ OverOf(k, n) \in Nat
        /\ \A i \in 1..n : Convention(l, i) = Convention(k, i)
    <2>1. \A j \in 1..n : l[j] = k[j]
      BY <1>4
    <2>2. /\ \A d : CountOf(l, n, d) = CountOf(k, n, d)
          /\ OverOf(l, n) = OverOf(k, n)
          /\ \A i \in 1..n : /\ Overflowed(l, i) <=> Overflowed(k, i)
                             /\ Convention(l, i) = Convention(k, i)
      <3>. HIDE DEF new
      <3>. QED
        BY <1>0, <2>1, SameKinds
    <2>. QED
      BY <1>0, <2>2, Counts1
  <1>6. Counted(self, l, n)
    BY <1>0, <1>5 DEF ArgsAgree, Counted, k
  <1>7. Class(l[n + 1]) = c
    BY <1>4
  <1>8. /\ Convention(l, n + 1) =
             IF HasRegister(self, c) THEN <<c, Taken(self, c)>> ELSE <<"stack", Word * OverOf(l, n)>>
        /\ Counted(self', l, n + 1)
        /\ OverOf(l, n + 1) = OverOf(l, n) + (IF HasRegister(self, c) THEN 0 ELSE 1)
    <2>. HIDE DEF c, new
    <2>. QED
      BY <1>1, <1>2, <1>4, <1>6, <1>7, CountedNext
  <1>9. self.size = StackFramesize + Word + Word * OverOf(k, n)
    BY <1>0 DEF ArgsAgree, k
  <1>10. self'.size = StackFramesize + Word + Word * OverOf(l, n + 1)
    <2>1. self'.size = self.size + (IF HasRegister(self, c) THEN 0 ELSE Word)
      BY <1>1, <1>2, OneMore
    <2>. HIDE DEF c, new
    <2>2. StackFramesize \in Nat
      BY Sizes8
    <2>3. CASE HasRegister(self, c)
      BY <1>2, <1>5, <1>8, <1>9, <2>1, <2>2, <2>3 DEF Word
    <2>4. CASE ~HasRegister(self, c)
      BY <1>2, <1>5, <1>8, <1>9, <2>1, <2>2, <2>4 DEF Word
    <2>. QED
      BY <2>3, <2>4
  <1>11. PlaceOf(new) = Convention(l, n + 1)
    <2>1. Limit(c) \in Nat /\ Limit(c) =< 16 /\ Class(new.kind) = c
      BY Limits
    <2>2. CASE HasRegister(self, c)
      <3>1. new.at = Taken(self, c) /\ new.at < Limit(c)
        BY <2>2 DEF HasRegister
      <3>. QED
        BY <1>8, <2>1, <2>2, <3>1 DEF PlaceOf
    <2>3. CASE ~HasRegister(self, c)
      <3>1. new.at = self.size
        BY <2>3
      <3>2. self.size >= 16 /\ self.size - (StackFramesize + Word) = Word * OverOf(l, n)
        BY <1>5, <1>9, Sizes8 DEF Word
      <3>3. ~ new.at < Limit(c)
        BY <1>2, <2>1, <3>1, <3>2
      <3>. QED
        BY <1>8, <2>1, <2>3, <3>1, <3>2, <3>3 DEF PlaceOf
    <2>. QED
      BY <2>2, <2>3
  <1>. HIDE DEF new
  <1>12. \A i \in DOMAIN args' : PlaceOf(args'[i]) = Convention(l, i)
    <2>1. \A i \in DOMAIN args : PlaceOf(args[i]) = Convention(k, i)
      BY <1>0 DEF ArgsAgree, k
    <2>. QED
      BY <1>4, <1>5, <1>11, <2>1
  <1>13. ArgsAgree'
    BY <1>4, <1>8, <1>10, <1>12 DEF ArgsAgree, l
  <1>14. PushesAgree'
    BY <1>1 DEF PushesAgree
  <1>. QED
    BY <1>13, <1>14

LEMMA PushPlaced ==
  ASSUME Typed, ArgsAgree, PushesAgree, NEW kind \in Kinds, NEW by \in {"r", "i"}, Push(kind, by)
  PROVE  ArgsAgree' /\ PushesAgree'
  <1>. DEFINE c == Class(kind)
              inReg == HasRegister(Side(kind, by), c)
              new == [kind |-> kind, by |-> by,
                      to |-> IF inReg THEN <<c, Taken(call, c)>> ELSE <<"stack", call.size>>]
  <1>1. /\ pushes' = Append(pushes, new) /\ prepare /\ prepare'
        /\ call' = IF inReg THEN InRegister(call, c) ELSE OnStack(call)
        /\ UNCHANGED <<self, args>>
    BY DEF Push
  <1>2. call \in Counts /\ call.size \in Nat /\ Taken(call, c) \in Nat /\ c \in {"word", "float"}
    BY DEF Typed, Counts, Taken, Class
  <1>3. new \in Pushed /\ pushes \in Seq(Pushed)
    BY <1>2 DEF Typed, Pushed
  <1>0. PICK n \in Nat : n = Len(pushes)
    BY <1>3
  <1>. DEFINE k == KindsOf(pushes)
              l == KindsOf(pushes')
  <1>4. /\ \A j \in 1..n : l[j] = k[j]
        /\ l[n + 1] = kind /\ Len(pushes') = n + 1
        /\ DOMAIN pushes = 1..n /\ DOMAIN pushes' = DOMAIN pushes \cup {n + 1} /\ pushes'[n + 1] = new
        /\ \A i \in DOMAIN pushes : pushes'[i] = pushes[i]
    <2>1. new.kind = kind
      OBVIOUS
    <2>. HIDE DEF new
    <2>. QED
      BY <1>0, <1>1, <1>3, <2>1, KindsAppended, Appending
  <1>. HIDE DEF k, l
  <1>5. /\ \A d : CountOf(l, n, d) = CountOf(k, n, d)
        /\ OverOf(l, n) = OverOf(k, n) /\ OverOf(k, n) \in Nat
        /\ \A i \in 1..n : Convention(l, i) = Convention(k, i) /\ (Overflowed(l, i) <=> Overflowed(k, i))
    <2>1. \A j \in 1..n : k[j] = l[j]
      BY <1>4
    <2>2. /\ \A d : CountOf(k, n, d) = CountOf(l, n, d)
          /\ OverOf(k, n) = OverOf(l, n)
          /\ \A i \in 1..n : /\ Overflowed(k, i) <=> Overflowed(l, i)
                             /\ Convention(k, i) = Convention(l, i)
      BY <1>0, <2>1, SameKinds
    <2>. QED
      BY <1>0, <2>2, Counts1
  <1>6. Class(l[n + 1]) = c
    BY <1>4
  <1>7. \A j \in 1..n : Misjudged(j)' <=> Misjudged(j)
    <2>. SUFFICES ASSUME NEW j \in 1..n PROVE Misjudged(j)' <=> Misjudged(j)
      OBVIOUS
    <2>1. pushes'[j] = pushes[j] /\ (Overflowed(l, j) <=> Overflowed(k, j))
      BY <1>4, <1>5
    <2>2. Overflowed(l, j) \in BOOLEAN /\ Overflowed(k, j) \in BOOLEAN
      BY DEF Overflowed
    <2>. QED
      BY <1>1, <2>1, <2>2 DEF Misjudged, HasRegister, k, l
  <1>8. Misjudged(n + 1)' <=> /\ kind = "float" /\ by = "r"
                              /\ HasRegister(self, "float") # ~Overflowed(l, n + 1)
    <2>1. pushes'[n + 1].kind = kind /\ pushes'[n + 1].by = by
      BY <1>4
    <2>. QED
      BY <1>1, <2>1 DEF Misjudged, HasRegister, l
  <1>9. ASSUME \A j \in 1..n + 1 : ~Misjudged(j)'
        PROVE  /\ Counted(call', l, n + 1) /\ call'.size = Word * OverOf(l, n + 1)
               /\ new.to = Convention(l, n + 1)
    <2>1. (\A j \in DOMAIN pushes : ~Misjudged(j)) /\ ~Misjudged(n + 1)'
      BY <1>4, <1>7, <1>9
    <2>2. Counted(call, k, n) /\ call.size = Word * OverOf(k, n)
      BY <1>0, <1>1, <2>1 DEF PushesAgree, k
    <2>3. Counted(call, l, n)
      BY <1>5, <2>2 DEF Counted
    <2>4. /\ HasRegister(call, c) <=> ~Overflowed(l, n + 1)
          /\ Convention(l, n + 1) =
               IF HasRegister(call, c) THEN <<c, Taken(call, c)>> ELSE <<"stack", Word * OverOf(l, n)>>
          /\ Counted(IF HasRegister(call, c) THEN InRegister(call, c) ELSE OnStack(call), l, n + 1)
          /\ OverOf(l, n + 1) = OverOf(l, n) + (IF HasRegister(call, c) THEN 0 ELSE 1)
      <3>. HIDE DEF c, new, inReg
      <3>. QED
        BY <1>2, <1>4, <1>6, <2>3, CountedNext
    <2>5. inReg <=> HasRegister(call, c)
      <3>1. CASE kind = "float" /\ by = "r"
        <4>1. c = "float" /\ Side(kind, by) = self
          BY <3>1 DEF Class, Side
        <4>2. HasRegister(self, "float") = ~Overflowed(l, n + 1)
          BY <1>8, <2>1, <3>1
        <4>3. HasRegister(self, "float") \in BOOLEAN /\ Overflowed(l, n + 1) \in BOOLEAN
          BY DEF HasRegister, Overflowed
        <4>. QED
          BY <2>4, <4>1, <4>2, <4>3
      <3>2. CASE ~(kind = "float" /\ by = "r")
        BY <3>2 DEF Side
      <3>. QED
        BY <3>1, <3>2
    <2>6. Counted(call', l, n + 1)
      BY <1>1, <2>4, <2>5
    <2>7. call'.size = call.size + (IF HasRegister(call, c) THEN 0 ELSE Word)
      BY <1>1, <1>2, <2>5, OneMore
    <2>8. call'.size = Word * OverOf(l, n + 1)
      BY <1>5, <2>2, <2>4, <2>7 DEF Word
    <2>9. new.to = Convention(l, n + 1)
      BY <1>5, <2>2, <2>4, <2>5
    <2>. QED
      BY <2>6, <2>8, <2>9
  <1>. HIDE DEF new
  <1>10. PushesAgree'
    <2>1. ASSUME \A j \in DOMAIN pushes' : ~Misjudged(j)'
          PROVE  Counted(call', l, Len(pushes')) /\ call'.size = Word * OverOf(l, Len(pushes'))
      <3>1. DOMAIN pushes' = 1..n + 1
        BY <1>4
      <3>. QED
        BY <1>4, <1>9, <2>1, <3>1
    <2>2. ASSUME NEW i \in DOMAIN pushes', \A j \in 1..i : ~Misjudged(j)'
          PROVE  pushes'[i].to = Convention(l, i)
      <3>1. CASE i = n + 1
        BY <1>4, <1>9, <2>2, <3>1
      <3>2. CASE i # n + 1
        <4>1. i \in DOMAIN pushes /\ i \in 1..n /\ 1..i \subseteq 1..n
          BY <1>4, <3>2
        <4>2. pushes[i].to = Convention(k, i)
          BY <1>7, <2>2, <4>1 DEF PushesAgree, k
        <4>. QED
          BY <1>4, <1>5, <4>1, <4>2
      <3>. QED
        BY <3>1, <3>2
    <2>. QED
      BY <2>1, <2>2 DEF PushesAgree, l
  <1>11. ArgsAgree'
    BY <1>1 DEF ArgsAgree
  <1>. QED
    BY <1>10, <1>11

LEMMA PreparePlaced ==
  ASSUME ArgsAgree, Prepare
  PROVE  ArgsAgree' /\ PushesAgree'
  <1>1. pushes' = <<>> /\ call' = NoArgs /\ UNCHANGED <<self, args>>
    BY DEF Prepare
  <1>2. Counted(call', KindsOf(pushes'), 0)
    <2>1. \A c : Taken(call', c) = 0
      BY <1>1 DEF NoArgs, Taken
    <2>2. \A c : Limit(c) \in Nat
      BY Limits
    <2>. QED
      BY <2>1, <2>2, NoneCounted DEF Counted, Least
  <1>3. call'.size = Word * OverOf(KindsOf(pushes'), 0)
    BY <1>1, NoneCounted DEF Word, NoArgs
  <1>4. PushesAgree'
    BY <1>1, <1>2, <1>3 DEF PushesAgree
  <1>5. ArgsAgree'
    BY <1>1 DEF ArgsAgree
  <1>. QED
    BY <1>4, <1>5

LEMMA ConventionStep ==
  ASSUME FrameInv, ArgsAgree, PushesAgree, [FrameNext]_frameVars
  PROVE  ArgsAgree' /\ PushesAgree'
  <1>0. Typed
    BY DEF FrameInv
  <1>1. CASE Interface
    <2>1. ASSUME NEW kind \in Kinds, Arg(kind) PROVE ArgsAgree' /\ PushesAgree'
      BY <1>0, <2>1, ArgPlaced
    <2>2. ASSUME NEW kind \in Kinds, NEW by \in By(kind), Push(kind, by) PROVE ArgsAgree' /\ PushesAgree'
      <3>1. by \in {"r", "i"}
        BY DEF By
      <3>. QED
        BY <1>0, <2>2, <3>1, PushPlaced
    <2>3. ASSUME Prepare PROVE ArgsAgree' /\ PushesAgree'
      BY <2>3, PreparePlaced
    <2>4. ASSUME EllipsisOfCall PROVE ArgsAgree' /\ PushesAgree'
      BY <1>0, <2>4, Untouched DEF EllipsisOfCall, Typed, Counts
    <2>5. ASSUME Finish PROVE ArgsAgree' /\ PushesAgree'
      BY <2>5, Untouched DEF Finish
    <2>6. ASSUME NEW n \in Lengths, Allocai(n) PROVE ArgsAgree' /\ PushesAgree'
      BY <2>6, Untouched DEF Allocai
    <2>7. ASSUME Allocar PROVE ArgsAgree' /\ PushesAgree'
      BY <2>7, Untouched DEF Allocar
    <2>8. ASSUME EllipsisOfSelf PROVE ArgsAgree' /\ PushesAgree'
      BY <1>0, <2>8, Untouched DEF EllipsisOfSelf, Typed, Counts
    <2>9. ASSUME NEW n \in Requests, NEW by \in {"frame", "tramp"}, Trampoline(n, by)
          PROVE  ArgsAgree' /\ PushesAgree'
      BY <2>9, Untouched DEF Trampoline
    <2>. QED
      BY <1>1, <2>1, <2>2, <2>3, <2>4, <2>5, <2>6, <2>7, <2>8, <2>9 DEF Interface
  <1>2. CASE Generate \/ Execute \/ UNCHANGED frameVars
    <2>1. UNCHANGED <<self, call, prepare, args, pushes>>
      BY <1>2 DEF Generate, Execute, frameVars, BuildKeeps, RunKeeps, Complete, Prolog, PrologFails, Spill,
         SaveMore, CheckFrame, Again, OutOfRoom, Enter, RunAllocar, VaStart, VaArgSaved, VaArgOver
    <2>. QED
      BY <2>1, Untouched
  <1>. QED
    BY <1>1, <1>2 DEF FrameNext

(***************************************************************************)
(* A function looks for its arguments where C puts them, and puts those of *)
(* its calls there, for any number of registers and arguments: the fields  *)
(* of jit_function_t count the arguments so far, one by one, as C counts   *)
(* them.                                                                   *)
(***************************************************************************)
THEOREM ArgumentsByConvention == FrameSpec => []ByConvention
  <1>1. FrameInit => ArgsAgree /\ PushesAgree
    BY ConventionStart
  <1>2. FrameInv /\ ArgsAgree /\ PushesAgree /\ [FrameNext]_frameVars => ArgsAgree' /\ PushesAgree'
    BY ConventionStep
  <1>3. ArgsAgree /\ PushesAgree => ByConvention
    BY DEF ArgsAgree, PushesAgree, ByConvention
  <1>. QED
    BY <1>1, <1>2, <1>3, FrameInvariant, PTL DEF FrameSpec

-----------------------------------------------------------------------------
(***************************************************************************)
(* Variable arguments are where C puts them.                               *)
(***************************************************************************)
VarList ==
  /\ self.varargs => /\ va.off \in Int /\ va.off + VaList =< 0
                     /\ va.gp = 8 * self.argi /\ va.fp = MaxGp + 16 * self.argf
  /\ run.over # 0 => self.varargs
  /\ run.over = 0 => run.got = <<>>
  /\ step.at # "run" => run.over = 0
  /\ step.at = "run" => run.extra \in Seq({"word", "double"})
  /\ run.got \in Seq(Int)

\* The list has gone through g registers of the first class and f of the second, as C does.
Reached(g, f) == LET m == Len(args) + Len(run.got) IN
  /\ g >= self.argi /\ f >= self.argf
  /\ Counted([argi |-> g, argf |-> f, size |-> 0, varargs |-> TRUE], AllKinds, m)
  /\ run.gp = 8 * g /\ run.fp = MaxGp + 16 * f
  /\ run.over = Framesize(saves) + Word + Word * OverOf(AllKinds, m)
Walked == run.over # 0 => \E g, f \in Nat : Reached(g, f)

VarInv == VarList /\ Walked /\ VarargsFound

\* What jit_va_arg got is the argument at this place.
Found(at, place) == Content(at) = place \/ (place[1] = "float" /\ FloatsLost)

LEMMA Offsets ==
  /\ MaxGp \in Nat /\ MaxGp = 8 * ArgRegs /\ MaxFp = MaxGp + 16 * FloatRegs
  /\ VaList = 24 + MaxFp /\ VaList \in Nat /\ SaveArea = 24
  BY FramesAssumption DEF MaxGp, MaxFp, VaList, SaveArea

LEMMA AllKindsAre ==
  ASSUME Typed, run.extra \in Seq({"word", "double"})
  PROVE  /\ Len(args) \in Nat /\ Len(run.extra) \in Nat
         /\ DOMAIN AllKinds = 1..Len(args) + Len(run.extra)
         /\ \A j \in 1..Len(args) : AllKinds[j] = KindsOf(args)[j]
         /\ \A j \in 1..Len(run.extra) : AllKinds[Len(args) + j] = run.extra[j]
  <1>. DEFINE A == [kind : Kinds, at : Nat]
  <1>1. args \in Seq(A)
    BY DEF Typed
  <1>2. \A a \in A : a.kind \in Kinds
    OBVIOUS
  <1>. HIDE DEF A
  <1>3. KindsOf(args) \in Seq(Kinds) /\ Len(KindsOf(args)) = Len(args) /\ Len(args) \in Nat
    <2>1. \A i \in DOMAIN args : args[i].kind \in Kinds
      BY <1>1, <1>2, Element
    <2>2. DOMAIN args = 1..Len(args) /\ Len(args) \in Nat
      BY <1>1
    <2>. QED
      BY <2>1, <2>2 DEF KindsOf
  <1>. DEFINE k == KindsOf(args)
              x == run.extra
  <1>4. k \in Seq(Kinds) /\ x \in Seq(Kinds) /\ Len(k) = Len(args)
    BY <1>3 DEF Kinds
  <1>. HIDE DEF k, x
  <1>5. /\ DOMAIN (k \o x) = 1..Len(k) + Len(x) /\ Len(x) \in Nat
        /\ \A j \in 1..Len(k) : (k \o x)[j] = k[j]
        /\ \A j \in 1..Len(x) : (k \o x)[Len(k) + j] = x[j]
    BY <1>4
  <1>. QED
    BY <1>3, <1>4, <1>5 DEF AllKinds, k, x

LEMMA VarStart == FrameInit => VarInv
  <1>. SUFFICES ASSUME FrameInit PROVE VarInv
    OBVIOUS
  <1>1. run.over = 0 /\ run.got = <<>> /\ self.varargs = FALSE /\ step.at = "build"
    BY DEF FrameInit, NoArgs
  <1>. QED
    BY <1>1 DEF VarInv, VarList, Walked, VarargsFound

(***************************************************************************)
(* Before the function runs.                                               *)
(***************************************************************************)
LEMMA NotRunning ==
  ASSUME VarInv, UNCHANGED run, step.at # "run", step'.at # "run",
         self'.varargs => self.varargs /\ UNCHANGED <<va, self>>
  PROVE  VarInv'
  BY DEF VarInv, VarList, Walked, VarargsFound

LEMMA EllipsisFound ==
  ASSUME FrameInv, VarInv, EllipsisOfSelf
  PROVE  VarInv'
  <1>1. /\ Calling /\ Gives(VaList, "va_list") /\ self' = [self EXCEPT !.varargs = TRUE]
        /\ va' = [off |-> BlockAt(VaList), gp |-> FirstGp, fp |-> FirstFp] /\ UNCHANGED <<frame, again, run>>
    BY DEF EllipsisOfSelf, EmitKeeps
  <1>2. step.at = "build" /\ step'.at = "build" /\ again.times = 0
    BY <1>1, CallKeeps DEF FrameInv
  <1>3. BlockAt(VaList) \in Int /\ BlockAt(VaList) + VaList =< 0
    <2>1. aoff \in Int /\ aoff =< 0
      BY <1>2 DEF FrameInv, Typed, Framed, Young
    <2>2. Granule(VaList) \in {1, 2, 4, 8, 16}
      BY DEF Granule
    <2>3. Aligned(aoff, Granule(VaList)) \in Int /\ Aligned(aoff, Granule(VaList)) =< aoff
      BY <2>1, <2>2, AlignedBounds
    <2>. QED
      BY <2>1, <2>3, Offsets DEF BlockAt
  <1>4. self \in Counts /\ self.argi =< ArgRegs /\ self.argf =< FloatRegs
    BY DEF FrameInv, Typed, Few
  <1>5. self'.argi = self.argi /\ self'.argf = self.argf
    BY <1>1, <1>4 DEF Counts
  <1>6. FirstGp = 8 * self.argi /\ FirstFp = MaxGp + 16 * self.argf
    <2>1. self.argi \in Nat /\ self.argf \in Nat
      BY <1>4 DEF Counts
    <2>. QED
      BY <1>4, <2>1, Offsets, FramesAssumption DEF FirstGp, FirstFp, HasRegister, Taken, Limit
  <1>7. VarList'
    BY <1>1, <1>2, <1>3, <1>5, <1>6 DEF VarInv, VarList, VaList, MaxGp, MaxFp
  <1>. QED
    BY <1>1, <1>2, <1>7 DEF VarInv, VarList, Walked, VarargsFound

LEMMA EnterFound ==
  ASSUME FrameInv, VarInv, NEW extra \in Extras, Enter(extra)
  PROVE  VarInv'
  <1>1. /\ step.at = "body" /\ step'.at = "run" /\ UNCHANGED <<self, va>>
        /\ run'.extra = extra /\ run'.over = run.over /\ run'.got = run.got
    <2>1. step.at = "body" /\ Goes("run") /\ UNCHANGED <<self, va>>
      BY DEF Enter, BuildKeeps
    <2>2. step'.at = "run"
      BY <2>1 DEF Goes, FrameInv, Typed
    <2>3. /\ DOMAIN run = {"sp", "top", "given", "extra", "gp", "fp", "over", "got"}
          /\ \E sp, top : run' = [run EXCEPT !.sp = sp, !.top = top, !.extra = extra]
      BY DEF Enter, FrameInv, RunTyped
    <2>4. run'.extra = extra /\ run'.over = run.over /\ run'.got = run.got
      BY <2>3
    <2>. QED
      BY <2>1, <2>2, <2>4
  <1>2. extra \in Seq({"word", "double"})
    <2>1. \A n \in Nat : [1..n -> {"word", "double"}] \subseteq Seq({"word", "double"})
      OBVIOUS
    <2>2. 0..MaxRun \subseteq Nat
      BY FramesAssumption
    <2>3. <<>> \in Seq({"word", "double"})
      OBVIOUS
    <2>. QED
      BY <2>1, <2>2, <2>3 DEF Extras
  <1>3. run.over = 0 /\ run.got = <<>>
    BY <1>1 DEF VarInv, VarList
  <1>4. VarList'
    BY <1>1, <1>2, <1>3 DEF VarInv, VarList
  <1>5. Walked' /\ VarargsFound'
    BY <1>1, <1>3 DEF Walked, VarargsFound
  <1>. QED
    BY <1>4, <1>5 DEF VarInv

(***************************************************************************)
(* As the function runs what is at an address stays the same.              *)
(***************************************************************************)
LEMMA ContentStays ==
  ASSUME UNCHANGED <<args, va, saves, frame, borrowed, aoff>>, run'.extra = run.extra
  PROVE  /\ AllKinds' = AllKinds /\ (FloatsLost' <=> FloatsLost)
         /\ \A a : Content(a)' = Content(a)
  <1>1. AllKinds' = AllKinds
    BY DEF AllKinds
  <1>2. FloatsUsed' = FloatsUsed
    BY <1>1 DEF FloatsUsed
  <1>3. (FloatsLost' <=> FloatsLost) /\ (FloatsSaved' <=> FloatsSaved)
    BY <1>2 DEF FloatsLost, FloatsSaved
  <1>. QED
    BY <1>1, <1>3 DEF Content

LEMMA ContentOf ==
  ASSUME NEW at, NEW saved, saved = at - va.off - SaveArea, ~ at >= Framesize(saves) + Word, frame.by # "tramp"
  PROVE  Content(at) =
           IF saved < MaxGp
           THEN IF saved \div 8 >= va.gp \div 8 THEN <<"word", saved \div 8>> ELSE <<"junk", at>>
           ELSE IF FloatsSaved /\ (saved - MaxGp) \div 16 >= (va.fp - MaxGp) \div 16
                THEN <<"float", (saved - MaxGp) \div 16>> ELSE <<"junk", at>>
  BY DEF Content

LEMMA StillFound ==
  ASSUME VarInv, UNCHANGED <<step, self, args, va, saves, frame, borrowed, aoff>>, run'.extra = run.extra,
         run'.got = run.got, run'.over = run.over, run'.gp = run.gp, run'.fp = run.fp
  PROVE  VarInv'
  <1>1. AllKinds' = AllKinds /\ (FloatsLost' <=> FloatsLost) /\ \A a : Content(a)' = Content(a)
    BY ContentStays
  <1>2. VarList'
    BY DEF VarInv, VarList
  <1>3. Walked'
    BY <1>1 DEF VarInv, Walked, Reached
  <1>4. VarargsFound'
    BY <1>1 DEF VarInv, VarargsFound
  <1>. QED
    BY <1>2, <1>3, <1>4 DEF VarInv

LEMMA VaStartFound ==
  ASSUME FrameInv, ArgsAgree, VarInv, VaStart
  PROVE  VarInv'
  <1>1. /\ step.at = "run" /\ self.varargs /\ run.over = 0
        /\ UNCHANGED <<step, self, args, va, saves, frame, borrowed, aoff>>
        /\ run'.extra = run.extra /\ run'.got = run.got
        /\ run'.gp = va.gp /\ run'.fp = va.fp /\ run'.over = Behind
    BY DEF VaStart, RunKeeps, BuildKeeps, FrameInv, RunTyped
  <1>2. AllKinds' = AllKinds
    BY <1>1, ContentStays
  <1>3. run.got = <<>> /\ run'.got = <<>> /\ run.extra \in Seq({"word", "double"})
    BY <1>1 DEF VarInv, VarList
  <1>4. /\ self \in Counts /\ self.argi \in Nat /\ self.argf \in Nat /\ Len(args) \in Nat
        /\ \A j \in 1..Len(args) : AllKinds[j] = KindsOf(args)[j]
    <2>1. Typed
      BY DEF FrameInv
    <2>. QED
      BY <1>3, <2>1, AllKindsAre DEF Typed, Counts
  <1>5. /\ \A c : CountOf(AllKinds, Len(args), c) = CountOf(KindsOf(args), Len(args), c)
        /\ OverOf(AllKinds, Len(args)) = OverOf(KindsOf(args), Len(args))
        /\ OverOf(AllKinds, Len(args)) \in Nat
    <2>1. PICK n \in Nat : n = Len(args)
      BY <1>4
    <2>. DEFINE a == AllKinds
                k == KindsOf(args)
    <2>2. \A j \in 1..n : a[j] = k[j]
      BY <1>4, <2>1
    <2>. HIDE DEF a, k
    <2>3. (\A c : CountOf(a, n, c) = CountOf(k, n, c)) /\ OverOf(a, n) = OverOf(k, n)
      BY <2>2, SameKinds
    <2>4. OverOf(a, n) \in Nat
      BY Counts1
    <2>. QED
      BY <2>1, <2>3, <2>4 DEF a, k
  <1>6. Counted([argi |-> self.argi, argf |-> self.argf, size |-> 0, varargs |-> TRUE], AllKinds, Len(args))
    BY <1>5 DEF ArgsAgree, Counted, Taken
  <1>7. Behind = Framesize(saves) + Word + Word * OverOf(AllKinds, Len(args))
    <2>1. saves \in Nat
      BY FramesAssumption DEF FrameInv, Typed
    <2>2. Framesize(saves) \in Nat
      BY <2>1, FramesizeBounds
    <2>3. self.size = StackFramesize + Word + Word * OverOf(AllKinds, Len(args))
      BY <1>5 DEF ArgsAgree
    <2>. QED
      BY <1>5, <2>2, <2>3, Sizes8 DEF Behind, Word
  <1>8. Reached(self.argi, self.argf)'
    <2>1. Len(args) + Len(run'.got) = Len(args)
      BY <1>3, <1>4
    <2>2. va.gp = 8 * self.argi /\ va.fp = MaxGp + 16 * self.argf
      BY <1>1 DEF VarInv, VarList
    <2>3. PICK g, f : g = self.argi /\ f = self.argf
      OBVIOUS
    <2>4. Reached(g, f)'
      <3>1. g >= self'.argi /\ f >= self'.argf
        BY <1>1, <1>4, <2>3
      <3>2. Counted([argi |-> g, argf |-> f, size |-> 0, varargs |-> TRUE], AllKinds', Len(args') + Len(run'.got))
        BY <1>1, <1>2, <1>6, <2>1, <2>3
      <3>3. run'.gp = 8 * g /\ run'.fp = MaxGp + 16 * f
        BY <1>1, <2>2, <2>3
      <3>4. run'.over = Framesize(saves') + Word + Word * OverOf(AllKinds', Len(args') + Len(run'.got))
        BY <1>1, <1>2, <1>7, <2>1
      <3>. QED
        BY <3>1, <3>2, <3>3, <3>4 DEF Reached
    <2>. QED
      BY <1>1, <2>3, <2>4
  <1>9. Walked'
    BY <1>1, <1>4, <1>8 DEF Walked
  <1>10. VarList'
    BY <1>1, <1>3 DEF VarInv, VarList
  <1>11. VarargsFound'
    BY <1>3 DEF VarargsFound
  <1>. QED
    BY <1>9, <1>10, <1>11 DEF VarInv

LEMMA VaArgFound ==
  ASSUME FrameInv, VarInv, NEW kind \in {"word", "double"}, VaArgSaved(kind) \/ VaArgOver(kind)
  PROVE  VarInv'
  <1>. DEFINE a == AllKinds
  <1>1. /\ step.at = "run" /\ run.over # 0 /\ Remaining /\ NextKind = kind
        /\ UNCHANGED <<step, self, args, va, saves, frame, borrowed, aoff>> /\ run'.extra = run.extra
    BY DEF VaArgSaved, VaArgOver, RunKeeps, BuildKeeps, FrameInv, RunTyped
  <1>2. AllKinds' = AllKinds /\ (FloatsLost' <=> FloatsLost) /\ \A x : Content(x)' = Content(x)
    BY <1>1, ContentStays
  <1>3. /\ run.got \in Seq(Int) /\ run.extra \in Seq({"word", "double"}) /\ self.varargs
        /\ va.off \in Int /\ va.off + VaList =< 0 /\ va.gp = 8 * self.argi /\ va.fp = MaxGp + 16 * self.argf
    BY <1>1 DEF VarInv, VarList
  <1>4. self.argi \in Nat /\ self.argf \in Nat /\ saves \in Nat /\ Framesize(saves) \in Nat
    BY FramesizeBounds, FramesAssumption DEF FrameInv, Typed, Counts
  <1>5. PICK m \in Nat : m = Len(args) + Len(run.got)
    BY <1>3 DEF FrameInv, Typed
  <1>6. PICK g \in Nat, f \in Nat : Reached(g, f)
    BY <1>1 DEF VarInv, Walked
  <1>. DEFINE to == [argi |-> g, argf |-> f, size |-> 0, varargs |-> TRUE]
  <1>7. /\ g >= self.argi /\ f >= self.argf /\ Counted(to, a, m)
        /\ run.gp = 8 * g /\ run.fp = MaxGp + 16 * f
        /\ run.over = Framesize(saves) + Word + Word * OverOf(a, m)
    BY <1>5, <1>6 DEF Reached
  <1>8. a[m + 1] = kind /\ m + 1 \in DOMAIN a
    <2>1. /\ Len(args) \in Nat /\ Len(run.extra) \in Nat /\ DOMAIN a = 1..Len(args) + Len(run.extra)
          /\ \A j \in 1..Len(run.extra) : a[Len(args) + j] = run.extra[j]
      BY <1>3, AllKindsAre DEF FrameInv
    <2>2. PICK j \in Nat : j = Len(run.got) + 1
      BY <1>3
    <2>3. j \in 1..Len(run.extra) /\ Len(args) + j = m + 1 /\ run.extra[j] = kind
      BY <1>1, <1>3, <1>5, <2>1, <2>2 DEF Remaining, NextKind
    <2>. HIDE DEF a
    <2>. QED
      BY <2>1, <2>3
  <1>. DEFINE c == Class(kind)
              has == HasRegister(to, c)
  <1>9. c = (IF kind = "word" THEN "word" ELSE "float") /\ Class(a[m + 1]) = c
    BY <1>8 DEF Class
  <1>10. to \in Counts
    BY DEF Counts
  <1>. HIDE DEF a
  <1>11. /\ Convention(a, m + 1) = IF has THEN <<c, Taken(to, c)>> ELSE <<"stack", Word * OverOf(a, m)>>
         /\ Counted(IF has THEN InRegister(to, c) ELSE OnStack(to), a, m + 1)
         /\ OverOf(a, m + 1) = OverOf(a, m) + (IF has THEN 0 ELSE 1)
         /\ OverOf(a, m) \in Nat
    <2>. HIDE DEF to, c
    <2>. QED
      BY <1>7, <1>9, <1>10, CountedNext, Counts1
  <1>12. has <=> VaArgSaved(kind)
    <2>1. CASE kind = "word"
      <3>1. has <=> g < ArgRegs
        BY <1>9, <2>1 DEF HasRegister, Taken, Limit
      <3>2. VaArgSaved(kind) => run.gp < MaxGp
        BY <2>1 DEF VaArgSaved
      <3>3. VaArgOver(kind) => run.gp >= MaxGp
        BY <2>1 DEF VaArgOver
      <3>. QED
        BY <1>7, <3>1, <3>2, <3>3, Offsets, FramesAssumption
    <2>2. CASE kind = "double"
      <3>1. has <=> f < FloatRegs
        BY <1>9, <2>2 DEF HasRegister, Taken, Limit
      <3>2. VaArgSaved(kind) => run.fp < MaxFp
        BY <2>2 DEF VaArgSaved
      <3>3. VaArgOver(kind) => run.fp >= MaxFp
        BY <2>2 DEF VaArgOver
      <3>. QED
        BY <1>7, <3>1, <3>2, <3>3, Offsets, FramesAssumption
    <2>. QED
      BY <2>1, <2>2
  <1>. DEFINE x == IF has THEN va.off + SaveArea + (IF kind = "word" THEN run.gp ELSE run.fp) ELSE run.over
              g1 == IF has /\ kind = "word" THEN g + 1 ELSE g
              f1 == IF has /\ kind # "word" THEN f + 1 ELSE f
  <1>13. /\ run'.got = Append(run.got, x)
         /\ run'.gp = 8 * g1 /\ run'.fp = MaxGp + 16 * f1
         /\ run'.over = run.over + (IF has THEN 0 ELSE Word)
    <2>. HIDE DEF has
    <2>0. DOMAIN run = {"sp", "top", "given", "extra", "gp", "fp", "over", "got"}
      BY DEF FrameInv, RunTyped
    <2>1. CASE has
      <3>1. /\ run'.got = Append(run.got, x) /\ run'.over = run.over
            /\ run'.gp = IF kind = "word" THEN run.gp + 8 ELSE run.gp
            /\ run'.fp = IF kind = "word" THEN run.fp ELSE run.fp + 16
        BY <1>12, <2>0, <2>1 DEF VaArgSaved
      <3>2. run.over \in Int /\ MaxGp \in Nat
        BY <1>4, <1>7, <1>11, Offsets DEF Word
      <3>. QED
        BY <1>7, <2>1, <3>1, <3>2
    <2>2. CASE ~has
      <3>1. VaArgOver(kind)
        BY <1>12, <2>2
      <3>2. /\ run'.got = Append(run.got, run.over) /\ run'.over = run.over + Word
            /\ run'.gp = run.gp /\ run'.fp = run.fp
        BY <2>0, <3>1 DEF VaArgOver
      <3>. QED
        BY <1>7, <2>2, <3>2
    <2>. QED
      BY <2>1, <2>2
  <1>. HIDE DEF has, x
  <1>14. x \in Int /\ (frame.by # "tramp" => Found(x, Convention(a, m + 1)))
    <2>1. CASE has /\ kind = "word"
      <3>1. x = va.off + 24 + 8 * g /\ g < ArgRegs /\ Convention(a, m + 1) = <<"word", g>>
        <4>1. c = "word" /\ Taken(to, c) = g
          BY <1>9, <2>1 DEF Taken
        <4>2. g < ArgRegs /\ Convention(a, m + 1) = <<"word", g>>
          BY <1>11, <2>1, <4>1 DEF HasRegister, Limit, has
        <4>3. x = va.off + SaveArea + run.gp
          BY <2>1 DEF x
        <4>4. va.off \in Int /\ run.gp = 8 * g /\ SaveArea = 24
          BY <1>3, <1>7, Offsets
        <4>. QED
          BY <4>2, <4>3, <4>4
      <3>2. x \in Int /\ x < 0 /\ x - va.off - SaveArea = 8 * g /\ 8 * g < MaxGp /\ x < Framesize(saves) + Word
        <4>1. PICK o \in Int : o = va.off /\ o + 24 + MaxFp =< 0
          BY <1>3, Offsets
        <4>2. PICK r \in Nat : r = Framesize(saves)
          BY <1>4
        <4>3. ArgRegs \in Nat /\ FloatRegs \in Nat
          BY FramesAssumption
        <4>4. x = o + 24 + 8 * g /\ g < ArgRegs
          BY <3>1, <4>1
        <4>5. x \in Int /\ x < 0 /\ x - o - 24 = 8 * g /\ 8 * g < MaxGp /\ x < r + 8
          BY <4>1, <4>3, <4>4, Offsets
        <4>. QED
          BY <4>1, <4>2, <4>5, Offsets DEF Word
      <3>3. (8 * g) \div 8 = g /\ va.gp \div 8 = self.argi
        BY <1>3, <1>4
      <3>4. ~ x >= Framesize(saves) + Word
        BY <1>4, <3>2 DEF Word
      <3>5. frame.by # "tramp" =>
            Content(x) = IF 8 * g < MaxGp
                         THEN IF (8 * g) \div 8 >= va.gp \div 8 THEN <<"word", (8 * g) \div 8>> ELSE <<"junk", x>>
                         ELSE IF FloatsSaved /\ (8 * g - MaxGp) \div 16 >= (va.fp - MaxGp) \div 16
                              THEN <<"float", (8 * g - MaxGp) \div 16>> ELSE <<"junk", x>>
        BY <3>2, <3>4, ContentOf
      <3>. QED
        BY <1>7, <3>1, <3>2, <3>3, <3>5 DEF Found
    <2>2. CASE has /\ kind = "double"
      <3>1. x = va.off + 24 + MaxGp + 16 * f /\ f < FloatRegs /\ Convention(a, m + 1) = <<"float", f>>
        <4>1. c = "float" /\ Taken(to, c) = f
          BY <1>9, <2>2 DEF Taken
        <4>2. f < FloatRegs /\ Convention(a, m + 1) = <<"float", f>>
          BY <1>11, <2>2, <4>1 DEF HasRegister, Limit, has
        <4>3. x = va.off + SaveArea + run.fp
          <5>1. kind # "word"
            BY <2>2
          <5>. QED
            BY <2>2, <5>1 DEF x
        <4>4. va.off \in Int /\ run.fp = MaxGp + 16 * f /\ MaxGp \in Nat /\ SaveArea = 24
          BY <1>3, <1>7, Offsets
        <4>. QED
          BY <4>2, <4>3, <4>4
      <3>2. x \in Int /\ x < 0 /\ x - va.off - SaveArea = MaxGp + 16 * f /\ ~ MaxGp + 16 * f < MaxGp
        <4>1. PICK o \in Int : o = va.off /\ o + 24 + MaxFp =< 0
          BY <1>3, Offsets
        <4>2. FloatRegs \in Nat
          BY FramesAssumption
        <4>3. x = o + 24 + MaxGp + 16 * f /\ f < FloatRegs
          BY <3>1, <4>1
        <4>4. x \in Int /\ x < 0 /\ x - o - 24 = MaxGp + 16 * f /\ ~ MaxGp + 16 * f < MaxGp
          BY <4>1, <4>2, <4>3, Offsets
        <4>. QED
          BY <4>1, <4>4, Offsets
      <3>3. (MaxGp + 16 * f - MaxGp) \div 16 = f /\ (va.fp - MaxGp) \div 16 = self.argf
        <4>1. MaxGp + 16 * f - MaxGp = 16 * f /\ va.fp - MaxGp = 16 * self.argf
          BY <1>3, <1>4, Offsets
        <4>. QED
          BY <1>4, <4>1
      <3>4. ~ x >= Framesize(saves) + Word
        BY <1>4, <3>2 DEF Word
      <3>5. FloatsSaved \/ FloatsLost
        <4>1. Convention(AllKinds, m + 1)[1] = "float"
          BY <3>1 DEF a
        <4>. QED
          BY <1>8, <4>1 DEF FloatsUsed, FloatsSaved, FloatsLost, a
      <3>0. PICK y : y = MaxGp + 16 * f
        OBVIOUS
      <3>6. frame.by # "tramp" =>
            Content(x) = IF y < MaxGp
                         THEN IF y \div 8 >= va.gp \div 8 THEN <<"word", y \div 8>> ELSE <<"junk", x>>
                         ELSE IF FloatsSaved /\ (y - MaxGp) \div 16 >= (va.fp - MaxGp) \div 16
                              THEN <<"float", (y - MaxGp) \div 16>> ELSE <<"junk", x>>
        <4>1. y = x - va.off - SaveArea
          BY <3>2, <3>0
        <4>. QED
          BY <3>4, <4>1, ContentOf
      <3>7. ~ y < MaxGp /\ (y - MaxGp) \div 16 = f /\ (va.fp - MaxGp) \div 16 = self.argf
        <4>1. MaxGp + 16 * f \in Nat /\ y \in Nat
          BY <3>0, Offsets
        <4>. QED
          BY <3>0, <3>2, <3>3, <4>1, Offsets
      <3>. QED
        BY <1>7, <3>1, <3>5, <3>6, <3>7 DEF Found
    <2>3. CASE ~has
      <3>1. x = run.over /\ x = Framesize(saves) + Word + Word * OverOf(a, m)
            /\ Convention(a, m + 1) = <<"stack", Word * OverOf(a, m)>>
        BY <1>7, <1>11, <2>3 DEF x
      <3>2. /\ x \in Int /\ x >= Framesize(saves) + Word
            /\ x - Framesize(saves) - Word = Word * OverOf(a, m)
        BY <1>4, <1>11, <3>1 DEF Word
      <3>. QED
        BY <3>1, <3>2 DEF Content, Found
    <2>. QED
      BY <2>1, <2>2, <2>3
  <1>15. /\ run'.got \in Seq(Int) /\ Len(run'.got) = Len(run.got) + 1 /\ run'.got[Len(run.got) + 1] = x
         /\ DOMAIN run'.got = DOMAIN run.got \cup {Len(run.got) + 1}
         /\ \A i \in DOMAIN run.got : run'.got[i] = run.got[i]
    <2>1. /\ run'.got = Append(run.got, x) /\ x \in Int /\ run.got \in Seq(Int)
      BY <1>3, <1>13, <1>14
    <2>2. Len(Append(run.got, x)) = Len(run.got) + 1
      BY <2>1
    <2>. QED
      BY <2>1, <2>2, Appending
  <1>16. Reached(g1, f1)'
    <2>1. Len(args') + Len(run'.got) = m + 1
      BY <1>1, <1>3, <1>5, <1>15 DEF FrameInv, Typed
    <2>2. g1 >= self'.argi /\ f1 >= self'.argf
      BY <1>1, <1>4, <1>7
    <2>3. Counted([argi |-> g1, argf |-> f1, size |-> 0, varargs |-> TRUE], AllKinds', m + 1)
      <3>1. \A d \in {"word", "float"} :
              Taken(IF has THEN InRegister(to, c) ELSE OnStack(to), d) =
              Taken([argi |-> g1, argf |-> f1, size |-> 0, varargs |-> TRUE], d)
        BY <1>9 DEF Taken, InRegister, OnStack
      <3>2. Counted(IF has THEN InRegister(to, c) ELSE OnStack(to), AllKinds', m + 1)
        BY <1>2, <1>11 DEF a
      <3>. HIDE DEF g1, f1
      <3>. DEFINE t == IF has THEN InRegister(to, c) ELSE OnStack(to)
      <3>3. PICK u : u = [argi |-> g1, argf |-> f1, size |-> 0, varargs |-> TRUE]
        OBVIOUS
      <3>4. (\A d \in {"word", "float"} : Taken(t, d) = Taken(u, d)) /\ Counted(t, AllKinds', m + 1)
        BY <3>1, <3>2, <3>3 DEF g1, f1
      <3>. HIDE DEF t
      <3>5. Counted(u, AllKinds', m + 1)
        BY <3>4 DEF Counted
      <3>. HIDE DEF to, c
      <3>. QED
        BY <3>3, <3>5
    <2>4. run'.over = Framesize(saves') + Word + Word * OverOf(AllKinds', m + 1)
      <3>1. run'.over = Framesize(saves) + Word + Word * OverOf(a, m + 1)
        <4>. DEFINE o == OverOf(a, m)
                    p == OverOf(a, m + 1)
        <4>1. o \in Nat /\ p = o + (IF has THEN 0 ELSE 1) /\ run.over = Framesize(saves) + Word + Word * o
          BY <1>7, <1>11
        <4>2. run'.over = run.over + (IF has THEN 0 ELSE Word)
          BY <1>13
        <4>. HIDE DEF o, p
        <4>3. run'.over = Framesize(saves) + Word + Word * p
          <5>1. CASE has
            BY <1>4, <4>1, <4>2, <5>1 DEF Word
          <5>2. CASE ~has
            BY <1>4, <4>1, <4>2, <5>2 DEF Word
          <5>. QED
            BY <5>1, <5>2
        <4>. QED
          BY <4>3 DEF p
      <3>. QED
        BY <1>1, <1>2, <3>1 DEF a
    <2>5. run'.gp = 8 * g1 /\ run'.fp = MaxGp + 16 * f1
      BY <1>13
    <2>6. PICK g2, f2 : g2 = g1 /\ f2 = f1
      OBVIOUS
    <2>7. Reached(g2, f2)'
      BY <2>1, <2>2, <2>3, <2>4, <2>5, <2>6 DEF Reached
    <2>. QED
      BY <1>1, <2>6, <2>7
  <1>17. Walked'
    <2>1. g1 \in Nat /\ f1 \in Nat
      OBVIOUS
    <2>. QED
      BY <1>16, <2>1 DEF Walked
  <1>18. VarargsFound'
    <2>. SUFFICES ASSUME frame.by # "tramp" PROVE VarargsFound'
      BY <1>1 DEF VarargsFound
    <2>1. \A i \in DOMAIN run.got : Found(run.got[i], Convention(a, Len(args) + i))
      BY <1>1 DEF VarInv, VarargsFound, Found, a
    <2>2. Found(x, Convention(a, Len(args) + (Len(run.got) + 1)))
      <3>1. m + 1 = Len(args) + (Len(run.got) + 1)
        BY <1>3, <1>5 DEF FrameInv, Typed
      <3>. QED
        BY <1>14, <3>1
    <2>3. \A i \in DOMAIN run'.got : Found(run'.got[i], Convention(a, Len(args) + i))
      BY <1>15, <2>1, <2>2
    <2>4. AllKinds' = a /\ args' = args
      BY <1>1, <1>2 DEF a
    <2>5. \A i \in DOMAIN run'.got :
            \/ Content(run'.got[i]) = Convention(a, Len(args) + i)
            \/ Convention(a, Len(args) + i)[1] = "float" /\ FloatsLost
      <3>. HIDE DEF a
      <3>. QED
        BY <2>3 DEF Found
    <2>. HIDE DEF a
    <2>. QED
      BY <1>2, <2>4, <2>5 DEF VarargsFound
  <1>19. run'.over # 0
    BY <1>4, <1>7, <1>11, <1>13 DEF Word
  <1>20. VarList'
    BY <1>1, <1>3, <1>15, <1>19 DEF VarInv, VarList
  <1>. QED
    BY <1>17, <1>18, <1>20 DEF VarInv

LEMMA VarStep ==
  ASSUME FrameInv, ArgsAgree, VarInv, [FrameNext]_frameVars
  PROVE  VarInv'
  <1>1. CASE Interface
    <2>1. step.at = "build" /\ step'.at = "build" /\ UNCHANGED run
      <3>1. Calling /\ UNCHANGED <<again, run>>
        BY <1>1 DEF Interface, EmitKeeps, Arg, Push, Prepare, EllipsisOfCall, Finish, Allocai, Allocar,
           EllipsisOfSelf, Trampoline
      <3>. QED
        BY <3>1, CallKeeps DEF FrameInv
    <2>2. ASSUME NEW kind \in Kinds, Arg(kind) PROVE VarInv'
      <3>1. ~self.varargs /\ self' = IF HasRegister(self, Class(kind)) THEN InRegister(self, Class(kind)) ELSE OnStack(self)
        BY <2>2 DEF Arg
      <3>2. ~self'.varargs
        BY <3>1 DEF InRegister, OnStack, FrameInv, Typed, Counts
      <3>. QED
        BY <2>1, <3>2, NotRunning
    <2>3. ASSUME EllipsisOfSelf PROVE VarInv'
      BY <2>3, EllipsisFound
    <2>4. ASSUME UNCHANGED <<self, va>> PROVE VarInv'
      BY <2>1, <2>4, NotRunning
    <2>5. \/ \E kind \in Kinds : Arg(kind)
          \/ EllipsisOfSelf
          \/ UNCHANGED <<self, va>>
      BY <1>1 DEF Interface, Push, Prepare, EllipsisOfCall, Finish, Allocai, Allocar, Trampoline
    <2>. QED
      BY <2>2, <2>3, <2>4, <2>5
  <1>2. CASE Generate
    <2>1. UNCHANGED <<self, va, run>> /\ step.at # "run"
      BY <1>2 DEF Generate, BuildKeeps, Complete, Prolog, PrologFails, Spill, SaveMore, CheckFrame, Again,
                       OutOfRoom, First
    <2>2. step'.at # "run"
      <3>1. Goes("emit") \/ Goes("body") \/ Goes("failed") \/ UNCHANGED step
        BY <1>2 DEF Generate, Complete, Prolog, PrologFails, Spill, SaveMore, CheckFrame, Again, OutOfRoom
      <3>. QED
        BY <2>1, <3>1, Going DEF FrameInv
    <2>. QED
      BY <2>1, <2>2, NotRunning
  <1>3. CASE Execute
    <2>1. ASSUME NEW n \in Sizes, RunAllocar(n) PROVE VarInv'
      <3>1. /\ UNCHANGED <<step, self, args, va, saves, frame, borrowed, aoff>>
            /\ \E sp, top, given : run' = [run EXCEPT !.sp = sp, !.top = top, !.given = given]
        BY <2>1 DEF RunAllocar, RunKeeps, BuildKeeps
      <3>2. DOMAIN run = {"sp", "top", "given", "extra", "gp", "fp", "over", "got"}
        BY DEF FrameInv, RunTyped
      <3>3. /\ run'.extra = run.extra /\ run'.got = run.got /\ run'.over = run.over
            /\ run'.gp = run.gp /\ run'.fp = run.fp
        BY <3>1, <3>2
      <3>. QED
        BY <3>1, <3>3, StillFound
    <2>. QED
      BY <1>3, <2>1, EnterFound, VaStartFound, VaArgFound DEF Execute
  <1>4. CASE UNCHANGED frameVars
    BY <1>4, StillFound DEF frameVars
  <1>. QED
    BY <1>1, <1>2, <1>3, <1>4 DEF FrameNext

(***************************************************************************)
(* jit_va_arg finds each argument behind the ellipsis where C puts it,     *)
(* whatever was named before and in whatever order words and doubles are   *)
(* passed: the offsets of the list count the registers as C does, and what *)
(* the prolog saved starts with the first register that is not named.  Not *)
(* so in a function of jit_tramp, whose prolog saves none, nor for floats  *)
(* if the prolog overwrote %al with a zero before it looked at it.         *)
(***************************************************************************)
THEOREM VarargsWhereCPutsThem == FrameSpec => []VarargsFound
  <1>1. FrameInit => ArgsAgree /\ PushesAgree /\ VarInv
    BY ConventionStart, VarStart
  <1>2. FrameInv /\ ArgsAgree /\ PushesAgree /\ VarInv /\ [FrameNext]_frameVars =>
          ArgsAgree' /\ PushesAgree' /\ VarInv'
    BY ConventionStep, VarStep
  <1>3. VarInv => VarargsFound
    BY DEF VarInv
  <1>. QED
    BY <1>1, <1>2, <1>3, FrameInvariant, PTL DEF FrameSpec
=============================================================================
