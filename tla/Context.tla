------------------------------- MODULE Context -------------------------------
(***************************************************************************)
(* The life of a jit context, from jit_new_state to jit_destroy_state, and *)
(* of the memory that goes with it: the compiler state and its tables, the *)
(* pool of constants and names, the code and data buffers the library maps *)
(* or the caller provides, their protection, and who still points to what. *)
(*                                                                         *)
(* The caller keeps to the documented order of calls; jit_emit is taken at *)
(* the level of module Emission.                                           *)
(***************************************************************************)
Tables  == {"jitc", "tables", "nodes"}   \* what jit_new_state allocates
Pool    == {"hash", "temp"}              \* _jitc->data.table, _jitc->data.ptr
Maps    == {"code map", "code tail", "data map"}   \* what the library maps; the tail
                                         \* is the pages behind the last byte of code
Callers == {"user code", "user data"}    \* what the caller may provide
Buffers == Maps \cup Callers

Flags   == {"realize", "dataset", "no_data", "no_note", "user_code", "user_data"}

VARIABLES
  life,      \* of the jit_state_t: "none", "live" or "freed"
  heap,      \* the allocations that have not been freed
  memory,    \* protection of each buffer, "none" where nothing is mapped
  flags,     \* the flags of _jitc and _jit that are up
  status,    \* of jit_emit: "ready", "busy", "failed" or "done"
  code,      \* the buffer _jit->code.ptr points to, or "NULL"
  data,      \* the buffer _jit->data.ptr points to, or "NULL"
  notes,     \* where _jit->note.ptr points
  program,   \* whether the nodes have "floats", constants, and are "named"
  home       \* what the nodes of the data table hold: "offset" in the pool, or an
             \* address in "temp", the data map or the caller's; else "garbage"

vars == <<life, heap, memory, flags, status, code, data, notes, program, home>>

Up(f)    == f \in flags
Building == life = "live" /\ "jitc" \in heap
Alive(x) == x \in heap \/ (x \in Buffers /\ memory[x] # "none")

-----------------------------------------------------------------------------
Init ==
  /\ life = "none" /\ heap = {} /\ flags = {} /\ status = "ready"
  /\ memory = [b \in Buffers |-> CASE b = "user code" -> "rwx"
                                  [] b = "user data" -> "rw"
                                  [] OTHER -> "none"]
  /\ code = "NULL" /\ data = "NULL" /\ notes = "NULL"
  /\ program = {} /\ home = "offset"

NewState ==
  /\ life = "none"
  /\ life' = "live" /\ heap' = Tables
  /\ UNCHANGED <<memory, flags, status, code, data, notes, program, home>>

(***************************************************************************)
(* A name goes to the pool at once.  A constant stays in its node until    *)
(* jit_optimize, which jit_realize calls, moves it to the pool.            *)
(***************************************************************************)
Name ==
  /\ Building /\ ~Up("realize")
  /\ heap' = heap \cup Pool /\ program' = program \cup {"named"}
  /\ UNCHANGED <<life, memory, flags, status, code, data, notes, home>>

Float ==
  /\ Building /\ ~Up("realize")
  /\ program' = program \cup {"floats"}
  /\ UNCHANGED <<life, heap, memory, flags, status, code, data, notes, home>>

(***************************************************************************)
(* jit_realize, which jit_emit calls if the caller has not.                *)
(***************************************************************************)
Realized == IF "floats" \in program /\ ~Up("realize") THEN heap \cup Pool ELSE heap

Realize ==
  /\ Building /\ ~Up("realize") /\ status = "ready"
  /\ flags' = flags \cup {"realize"}
  /\ heap' = Realized
  /\ UNCHANGED <<life, memory, status, code, data, notes, program, home>>

SetCode ==
  /\ Building /\ Up("realize") /\ status \in {"ready", "failed"}
  /\ status' = "ready" /\ flags' = flags \cup {"user_code"} /\ code' = "user code"
  /\ UNCHANGED <<life, heap, memory, data, notes, program, home>>

(***************************************************************************)
(* jit_set_data, before the first jit_emit.  A null buffer will do when    *)
(* nothing is to be stored in it.                                          *)
(***************************************************************************)
SetData(disabled, ptr) ==
  /\ Building /\ Up("realize") /\ ~Up("dataset") /\ ~Up("user_data") /\ status = "ready"
  /\ ptr = "NULL" => "no_note" \in disabled /\ ("no_data" \in disabled \/ "temp" \notin heap)
  /\ flags' = flags \cup disabled \cup {"user_data"} /\ data' = ptr
  /\ UNCHANGED <<life, heap, memory, status, code, notes, program, home>>

-----------------------------------------------------------------------------
(***************************************************************************)
(* jit_dataset: the pool moves to the data buffer, and the nodes that hold *)
(* an offset in the pool are given an address.  (The definitions named     *)
(* Bug... are mistakes the properties below detect; nothing uses them.)    *)
(***************************************************************************)
BugTempHome == IF Up("user_data") THEN "temp" ELSE "data map"
DataHome    == IF ~Up("user_data") THEN "data map" ELSE IF Up("no_data") THEN "temp" ELSE data

Dataset ==
  /\ data' = IF Up("user_data") THEN data ELSE "data map"
  /\ heap' = IF Up("user_data") THEN Realized ELSE Realized \ {"temp"}
  /\ home' = IF "hash" \notin Realized THEN home
             ELSE IF home = "offset" THEN DataHome ELSE "garbage"

BugDatasetAgain == TRUE
DatasetNeeded   == ~Up("dataset")

(***************************************************************************)
(* jit_emit until emit_code is called.                                     *)
(***************************************************************************)
Emit ==
  /\ Building /\ status = "ready"
  /\ status' = "busy" /\ flags' = flags \cup {"realize", "dataset"}
  /\ IF DatasetNeeded THEN Dataset ELSE UNCHANGED <<data, heap, home>>
  /\ code' = IF Up("user_code") THEN code ELSE "code map"
  /\ memory' = [memory EXCEPT
       !["data map"] = IF DatasetNeeded /\ ~Up("user_data") THEN "rw" ELSE @,
       !["code map"] = IF Up("user_code") THEN @ ELSE "rwx"]
  /\ UNCHANGED <<life, notes, program>>

(***************************************************************************)
(* emit_code found no room in a caller's buffer: nothing is released.  In  *)
(* its own buffer the library finds room, and the buffer may move.         *)
(***************************************************************************)
BugMayFail == TRUE
MayFail    == Up("user_code")

EmitFails ==
  /\ status = "busy" /\ MayFail
  /\ status' = "failed"
  /\ UNCHANGED <<life, heap, memory, flags, code, data, notes, program, home>>

BugProtectAny(rest)   == [memory EXCEPT ![data] = "r", ![code] = "rx"]
BugProtectNever(rest) == memory
Protections(rest)     ==
  [memory EXCEPT !["data map"] = IF Up("user_data") THEN @ ELSE "r",
                 !["code map"] = IF Up("user_code") THEN @ ELSE "rx",
                 !["code tail"] = IF rest THEN "rwx" ELSE "none"]

(***************************************************************************)
(* Only the bytes of code are protected, code.protect of them, and so the  *)
(* pages that hold them.  If the mapping has pages left behind these, and  *)
(* only then is there a tail to tell from the rest, they stay as they were *)
(* mapped, and nothing but jit_destroy_state looks at them again.          *)
(***************************************************************************)
EmitDone(rest) ==
  /\ status = "busy" /\ (rest => ~Up("user_code"))
  /\ status' = "done"
  /\ notes' = IF Up("no_note") THEN notes ELSE data
  /\ heap' = IF Up("user_data") THEN heap \ {"temp"} ELSE heap
  /\ memory' = Protections(rest)
  /\ UNCHANGED <<life, flags, code, data, program, home>>

-----------------------------------------------------------------------------
Protect ==
  /\ life = "live" /\ status = "done"
  /\ memory' = IF Up("user_code") THEN memory ELSE [memory EXCEPT !["code map"] = "rx"]
  /\ UNCHANGED <<life, heap, flags, status, code, data, notes, program, home>>

Unprotect ==
  /\ life = "live" /\ status = "done"
  /\ memory' = IF Up("user_code") THEN memory ELSE [memory EXCEPT !["code map"] = "rw"]
  /\ UNCHANGED <<life, heap, flags, status, code, data, notes, program, home>>

(***************************************************************************)
(* jit_clear_state and jit_destroy_state.  The flags of a compiler state   *)
(* that is gone keep their last value here.                                *)
(***************************************************************************)
BugClearKeepsHash == Tables
Cleared           == Tables \cup {"hash"}

Clear ==
  /\ Building /\ status # "busy"
  /\ heap' = heap \ Cleared
  /\ UNCHANGED <<life, memory, flags, status, code, data, notes, program, home>>

Unmapped == {m \in Maps : IF m = "data map" THEN ~Up("user_data") ELSE ~Up("user_code")}

Destroy ==
  /\ life = "live" /\ status # "busy"
  /\ life' = "freed"
  /\ memory' = [b \in Buffers |-> IF b \in Unmapped THEN "none" ELSE memory[b]]
  /\ UNCHANGED <<heap, flags, status, code, data, notes, program, home>>

Next ==
  \/ NewState \/ Name \/ Float \/ Realize \/ SetCode
  \/ \E disabled \in SUBSET {"no_data", "no_note"}, ptr \in {"NULL", "user data"} :
       SetData(disabled, ptr)
  \/ Emit \/ EmitFails \/ \E rest \in BOOLEAN : EmitDone(rest)
  \/ Protect \/ Unprotect \/ Clear \/ Destroy

Spec == Init /\ [][Next]_vars

-----------------------------------------------------------------------------
(***************************************************************************)
(* The type invariant.  The nodes are left pointing into the pool only     *)
(* when the caller has disabled data.                                      *)
(***************************************************************************)
TypeOK ==
  /\ life \in {"none", "live", "freed"}
  /\ heap \subseteq Tables \cup Pool
  /\ memory \in [Buffers -> {"none", "rwx", "rx", "rw", "r"}]
  /\ status \in {"ready", "busy", "failed", "done"}
  /\ flags \subseteq Flags /\ program \subseteq {"floats", "named"}
  /\ code \in {"NULL", "code map", "user code"}
  /\ data \in {"NULL", "data map", "user data"}
  /\ home \in {"offset", "temp", "garbage", "NULL", "data map", "user data"}
  /\ notes \in {"NULL", "data map", "user data"}
  /\ home = "temp" => Up("user_data") /\ Up("no_data")

(***************************************************************************)
(* Nothing is left of a context that was cleared and destroyed: the first  *)
(* releases what execution does not need, the second, the documentation    *)
(* says, all memory associated with the context.                           *)
(***************************************************************************)
Owned    == heap \cup {m \in Maps : memory[m] # "none"}
Released == life = "freed" /\ "jitc" \notin heap => Owned = {}

(***************************************************************************)
(* What the code does: so it is if jit_emit has returned code, whichever   *)
(* buffers it used and however many times it had to be called.             *)
(***************************************************************************)
ReleasedIfEmitted == status = "done" => Released

(***************************************************************************)
(* The floating point constants can be read where the nodes say they are   *)
(* while code is generated, each time it is generated; and in the returned *)
(* code, for as long as the context lives, those it loads from memory.     *)
(***************************************************************************)
ConstantsReadable ==
  "floats" \in program =>
    /\ status = "busy" => Alive(home)
    /\ status = "done" /\ life = "live" /\ ~Up("no_data") => home \in Buffers /\ Alive(home)

(***************************************************************************)
(* jit_get_note reads the notes and the names they point to, which are in  *)
(* the pool the nodes were given.  Notes may be kept when data is disabled *)
(* (jit_set_data checks the length for that case).                         *)
(***************************************************************************)
NotesReadable ==
  status = "done" /\ life = "live" /\ "named" \in program /\ ~Up("no_note") =>
    Alive(notes) /\ Alive(home)

(***************************************************************************)
(* What the code does: the notes can be read unless data is disabled.      *)
(***************************************************************************)
NotesReadableWithData == ~Up("no_data") => NotesReadable

(***************************************************************************)
(* As long as the context lives, cleared or not, emitted code is mapped,   *)
(* and the pages that hold it are never both writable and executable;      *)
(* those of the data are read only.  The documentation says so of the      *)
(* whole buffer (body.texi:1889-1890), which does not hold of what is      *)
(* behind the code: jit_emit asks for code.protect bytes only.             *)
(***************************************************************************)
Protected ==
  status = "done" /\ life = "live" =>
    /\ Alive(code)
    /\ ~Up("user_code") => memory["code map"] \in {"rx", "rw"}
    /\ ~Up("user_data") => memory["data map"] = "r"

(***************************************************************************)
(* The library neither protects nor unmaps a buffer of the caller's.       *)
(***************************************************************************)
CallersUntouched == [][\A b \in Callers : memory'[b] = memory[b]]_vars

(***************************************************************************)
(* To the caller jit_emit is what module Emission promises, the jumps      *)
(* aside, whatever is done to the context around it.                       *)
(***************************************************************************)
Promise == INSTANCE Emission WITH
  Jump <- {}, jumps <- {}, linked <- {}, user <- Up("user_code")

KeepsPromise == Promise!Safety

-----------------------------------------------------------------------------
(***************************************************************************)
(* The inductive invariant the proofs rest on.                             *)
(***************************************************************************)

(***************************************************************************)
(* The order of the calls, as the flags tell it.                           *)
(***************************************************************************)
Order ==
  /\ life = "none" => heap = {} /\ program = {} /\ flags = {}
  /\ Up("user_data") \/ Up("user_code") => Up("realize")
  /\ status = "failed" => Up("user_code")
  /\ status # "ready" => Up("dataset")
  /\ Up("dataset") /\ status = "ready" => Up("user_code")
  /\ Up("dataset") => Up("realize")
  /\ status = "busy" => Building
  /\ "jitc" \notin heap => heap \subseteq {"temp"}

(***************************************************************************)
(* Where the pool is: in "temp" until jit_dataset copies it, and after it, *)
(* until the code is there, if the caller provides the data buffer.        *)
(***************************************************************************)
HasPool == "named" \in program \/ ("floats" \in program /\ Up("realize"))

PoolPlace ==
  /\ Building => (HasPool <=> "hash" \in heap)
  /\ Building /\ ~Up("dataset") => (HasPool <=> "temp" \in heap)
  /\ Up("dataset") /\ ~Up("user_data") => "temp" \notin heap
  /\ status = "done" => "temp" \notin heap
  /\ Building /\ status # "done" /\ home = "temp" => "temp" \in heap
  /\ home = IF Up("dataset") /\ HasPool THEN DataHome ELSE "offset"

(***************************************************************************)
(* What is mapped, and what the context points to.                         *)
(***************************************************************************)
Mapped ==
  /\ \A b \in Callers : memory[b] # "none"
  /\ data = "NULL" /\ Up("user_data") => Up("no_note") /\ (Up("no_data") \/ ~HasPool)
  /\ data = "NULL" => Up("user_data") \/ ~Up("dataset")
  /\ data = "data map" => ~Up("user_data")
  /\ data = "user data" => Up("user_data")
  /\ Up("user_code") => code = "user code"
  /\ Up("user_code") \/ status = "ready" => memory["code map"] = "none"
  /\ Up("user_code") \/ status # "done" => memory["code tail"] = "none"
  /\ Up("user_data") \/ ~Up("dataset") => memory["data map"] = "none"
  /\ life = "freed" => \A m \in Maps : memory[m] = "none"
  /\ status = "busy" /\ ~Up("user_code") => code = "code map" /\ memory["code map"] = "rwx"
  /\ Up("dataset") /\ ~Up("user_data") /\ life = "live" /\ status # "done" =>
       memory["data map"] = "rw"
  /\ status = "done" /\ ~Up("user_code") => code = "code map"
  /\ Up("dataset") /\ ~Up("user_data") => data = "data map"
  /\ status = "done" /\ ~Up("no_note") => notes = data

IInv == TypeOK /\ Order /\ PoolPlace /\ Mapped /\ Protected
=============================================================================
