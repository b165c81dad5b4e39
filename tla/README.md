# A TLA+ model of zjit and the GNU lightning library under it

zjit (`src/src/zjit.zig`) is a Zig binding of a vendored GNU lightning
(`src/libs/lightning`), a library that assembles machine code at run time.
The binding forwards calls; the logic is the library's, and the models follow
`lib/lightning.c`, `lib/jit_x86.c` (the x86_64 port) and
`include/lightning/jit_private.h`.

## The system

A program builds a *context* (`jit_state_t`), appends nodes to a list
(instructions, labels, prologs, epilogs, notes), patches jumps to labels, and
calls `jit_emit`. That call optimizes the list, looks for the registers that
are live at each label, allocates buffers, generates code node by node, patches
forward jumps, protects the buffers, and returns the address of the code. One
thread owns a context: there is no concurrency in the library. What makes it
hard is *repetition over mutable state*: code is generated several times over
the same nodes, lists are edited while they are walked, and memory changes
hands between library and caller at half a dozen points.

| component | state | operations | what must hold |
|---|---|---|---|
| Context and buffers | `_jit`, `_jitc`, code, data and note buffers, the pool of constants, protections | `jit_new_state`, `jit_realize`, `jit_set_code`, `jit_set_data`, `jit_emit`, `jit_protect`, `jit_unprotect`, `jit_clear_state`, `jit_destroy_state` | nothing is leaked, released twice or read after release; code is executable and never also writable; a caller's buffer is left alone |
| Nodes and node pool | node list, free list, pool | `new_node`, `link_node`, `del_node`, `jit_new_node_*` | a node is in the program or free |
| Labels and jumps | the list of users of each label, `blocks` | `jit_label`, `jit_forward`, `jit_link`, `jit_indirect`, `jit_patch_at`; `thread_jumps`, `sequential_labels`, `split_branches` | same meaning before and after; the passes end |
| Liveness | `reglive`, `regmask`, `again` of each block, `jit_flag_head` of labels | `do_setup`, `do_follow`, `check_block_again`, `block_update_set`, `propagate_backward` | each block knows the registers that are needed where it starts; a fixed point is reached |
| Simplification | `values`, `gen` | `simplify_*`, `redundant_store` | a removed instruction found its register set already |
| Constants (`jit_data`) | hash table, pool, offsets | `jit_data`, `jit_dataset` | equal constants share a place that is aligned and does not move |
| Register allocation | `regarg`, `regsav`, `reglive`, `regmask`, `regset`, `regoff` | `jit_get_reg`, `jit_unget_reg`, `jit_regarg_set`, `jit_regarg_clr`, `jit_reglive`, `jit_update` | what is lent is dead, or saved and reloaded in the right order; what the function changes is saved by its prolog |
| Arguments, calls, frames | `function->self`, `->call`, `aoff`, `alen`, `aoffoff`, `vaoff`, `frame`, `stack` | `jit_arg`, `jit_pusharg`, `jit_finish`, `jit_ellipsis`, `jit_allocai`, `jit_allocar`, `jit_frame`, `jit_tramp`, `_prolog`, `jit_va_start`, `jit_va_arg` | arguments are where C puts them; the parts of the stack are apart |
| Code generation | `pc`, `patches`, `function`, `again`, the undo record, flags and displacements in the nodes | `jit_emit`, `emit_code`, `_prolog`, `_epilog`, `patch_alist` | see *EmitCode* |
| Notes | note tables, room reserved for them | `jit_name`, `jit_note`, `jit_annotate`, `jit_get_note` | an address maps to the right line; names stay readable; the tables fit |
| Binding | `last_node` | wrappers | – |

Interactions. `jit_emit` calls `jit_realize` (which calls `jit_optimize`: jumps,
labels, simplification, liveness) once, `jit_dataset` once, and `emit_code` until it
returns code or a caller's buffer is full. `emit_code` asks for scratch registers
(`jit_get_reg`), which reads what liveness computed and may make a function save
one more register, which raises `again`. Names and constants enter the pool
through `jit_data`; notes are resolved after generation. `Frames` and `Lending` model the two sides of what
`EmitCode` takes as a parameter, what a function turns out to need.

Hard behaviours, and where (the hazards of `PROJECT.json` give each line):

- *Retries*: a function is generated again when its frame turns out wrong; a
  whole pass again when the buffer grows, or when the caller offers another one.
  Each retry has to undo what its predecessor wrote into the nodes.
- *Stale state*: pool, notes and label addresses outlive what they point to; the
  passes over the list keep `prev` across a deletion; a deleted node stays on the list
  of its label.
- *Partial failure*: `jit_emit` returns NULL with half the work done, and may be
  called again or abandoned.
- *Termination*: jump threading repeats a step at the same node; generation
  repeats functions and passes.
- *Boundaries*: one check of the room per node, with a margin of one instruction; room for notes
  reserved long before they are written; offsets of blocks and arguments that must not meet.
- *Summaries*: the passes replace programs by summaries (live registers of a block, remembered
  values) that later steps trust; each forgotten dependence turns up as a wrong register far away.

## Modules

| module | models | abstracted |
|---|---|---|
| `Emission` | abstract: what `jit_emit` promises its caller | everything inside |
| `EmitCode` | `jit_emit` and the loop of `emit_code` | an instruction is its size, its target, and what it asks of its function |
| `MCEmitCode` | the programs, sizes, buffers for TLC | – |
| `EmitCodeProofs` | theorems about `EmitCode` | – |
| `Context` | the life of a context and its memory; implements `Emission` | the contents of buffers; `jit_emit` is begin, fail, done |
| `ContextProofs` | theorems about `Context` | – |
| `Jumps` | building the list, and the three passes over its labels and jumps | instructions that only fall through are one kind, "insn" |
| `JumpsProofs` | theorems about `Jumps` | – |
| `Instructions` | what a node does to registers and where it goes (`jit_classify`); blocks; the reference for liveness | fifteen instructions stand for the classes of operands and the ways of leaving a node |
| `Liveness` | `jit_setup`, `jit_follow`, the marking of heads, `block_update_set` with `propagate_backward` | a register set is a set |
| `Simplify` | `simplify` and `redundant_store` | a constant is a word |
| `Lending` | `jit_get_reg`, `jit_unget_reg`, `jit_reglive`, `jit_update` | a register or a slot holds its own value or junk |
| `Optimize` | composes the four: `jit_optimize` behind the passes of `Jumps`, and the registers of `emit_code` | – |
| `MCOptimize` | the programs for TLC | – |
| `OptimizeProofs` | theorems about `Optimize` | – |
| `Induction` | induction over natural numbers, for the proofs | – |
| `ConstantTable` | abstract: what `jit_data` promises | everything inside |
| `DataPool` | `jit_data` | a constant is its length and hash; a chain is a set |
| `DataPoolProofs` | theorems about `DataPool` | – |
| `Notes` | `jit_name`, `jit_note`, immediates at `jit_realize`, `jit_annotate`, `jit_get_note`, over `DataPool` | instructions are one byte long |
| `NotesProofs` | theorems about `Notes` | – |
| `Frames` | arguments, calls and the stack of a function, built, laid out and running | values; only where things are |
| `FramesProofs` | theorems about `Frames` | – |
| `MCInterface` | `Notes` and `Frames` for TLC | – |

### Emission

Four steps: the caller offers a buffer (`SetCode`), calls `jit_emit` (`Call`), and the
call returns NULL, only for a caller's buffer (`ReturnNull`), or code in which every
jump is linked (`ReturnCode`). Its fairness says the call returns. `EmitCode` implements
all of it; `Context` the safety part, for every order of calls around it.

### EmitCode

State and code: `cursor` is `node` of `emit_code`'s loop; `pc`, `function`, `again`,
`framesize` are the fields of `_jitc`; `undo` is the local record; `have` is what a
function has acquired (`need_frame`, `regset`, `regoff`, `cvt_offset`); `disp` is `u.w` or
`v.w` of the nodes on `alist`; `patched` are the nodes with `jit_flag_patch`; `patches` is
`_jitc->patches`; `text` is the buffer, by node. `retried` is a history variable.

| action | code |
|---|---|
| `SetCode` | `jit_set_code` |
| `Emit` | `jit_emit` up to its loop |
| `EmitLabel`, `EmitInsn`, `EmitJump` | the cases of the switch: labels; instructions and stack arguments; branches, `jmpi`, `calli`, `movi` of a node |
| `EmitProlog`, `EmitEpilog`, `Again` | the cases prolog and epilog, with `restart_function` |
| `Fail`, `Grow` | the room check, and what `jit_emit` does with NULL |
| `EndPass`, `Patch`, `Finish` | the loop over `patches` at the end of `emit_code` |

An address is a number of bytes, so overruns are visible. A size (`Size`) depends on the node, on
what its function has saved, and on whether the target is known (short or long jump): all a size may
depend on is a parameter, with the assumption that `jit_get_max_instr` bounds it.
`jit_set_code` is called again only with a longer buffer, as the documented loop does; this bounds
the retries. The library's own buffer grows by `Growth` at each failure and may move.

### Context

`heap` holds the compiler state, its tables, the nodes and the two parts of the pool; `memory` the
protection of each buffer (library's or caller's; code or data); `home` what the nodes of the
data table point to. The actions are the API calls. `Emit`, `EmitFails` and
`EmitDone` are `jit_emit` before, and after, `emit_code`; `Dataset` is an operator that `Emit` uses,
as `jit_dataset` is called by `jit_emit`. Orders of calls that the documentation forbids (for instance
nodes after `jit_realize`, which asserts) are not taken. Nothing else of the caller is assumed:
it may clear and then destroy at any point, destroy without clearing, or never emit at all.

The mapping of the library's code is two maps here, "code map" for the pages that hold what was generated (`code.protect` bytes) and "code tail"
for those behind (up to `code.length`). `jit_emit`, `jit_protect` and `jit_unprotect` change the first only: the tail stays
readable, writable and executable, as it was mapped, though the documentation says otherwise (see below).

### Jumps

The lists are the ones of the code: each of `N` nodes is a record with `next` (program or free list),
`link` (the users of a label), `to` (`u.n`, or a register number), `slot` (`v.w`), `flag` (`node`,
`use`). A program is built call by call, patched in any order, and then optimized; each turn of
each loop of the three passes is an action. The phase "failed" is an assertion of `del_node` or
`del_label`; "crashed" is a search that runs off a label's list, a null pointer in the code.
`Meaning` is the reference: where execution starts, and for each node that does
something, where it goes from there, through labels, notes and jumps.

### Instructions, Liveness, Simplify, Lending, Optimize

A program is the list that `Jumps` ends with: `code[i]` is the node at place `i`, and a
deleted node stays as one that does nothing. `Instructions` translates `jit_classify` as sets of operands
(`Changed`, `Used`, `Paired`), as the code has them: where a class leaves out that an instruction
reads or changes an operand, so does the model, and the reference (`Effect` for values; `Reads`, `Sets` and
`Needed` for liveness) says what the instruction does. Which deviations the references leave out is said at
each of them; those that the code gets wrong are findings or hazards.

| action of `Optimize` | code |
|---|---|
| `SetupBlocks` | `do_setup` |
| `FollowBlock` | one block of `do_follow` |
| `Heading` | the loop of `jit_optimize` that marks labels |
| `SimplifyNode` | one node of `simplify` |
| `StartStores`, `DropStores`, `KeepStores` | the loop over branches with `redundant_store` |
| `EndStores`, `EndFollow` | second setup if instructions were removed |
| `VisitUpdates`, `VisitKeeps`, `CheckAgain` | `check_block_again`, with `block_update_set` and `propagate_backward` |
| `EndOptimize` | the registers that the prolog has to save |
| `EmitBegin`, `EmitGet`, `EmitRefused`, `EmitAct`, `EmitUnget`, `EmitFinish` | a node of `emit_code`: `jit_regarg_set`, each `jit_get_reg`, the instruction, each `jit_unget_reg`, `jit_regarg_clr` and `jit_reglive` |

`Heading` follows the code in what it takes for run into (`FallsInto`): labels and notes leave `jump` as it is, so that of `jmpi; L1: note; L2:`
neither label is flagged, though L1 runs into L2. `RunsInto` is what is so, and `HeadsKnown` that the code knows: without it
`redundant_store` may remove what is needed (`optimize_heads`), and a block may not hear of what the next one needs. `LiveKept`, `Undisturbed` and
`SimplifiedAlike` are claimed with it. It also leaves out harmless lists, in which the first of the two labels is reached by nothing. `regset` is one set
for each prolog, as in the code, where a node outside of functions adds to none (`EndOptimize`, `Function`).

`WellFormed` says what `Jumps` leaves behind and what the program owes: jumps and labels divide the list into blocks, a prolog
is behind something that does not fall through, and only nodes of a function ask for registers, since
`jit_get_reg` may not save a register, nor lend one that is callee-save, where `_jitc->function` is NULL.

What a node asks for (`ask`) is a list of requests: by name, any, or any without a spill. `needed` is
computed once, by the reference, when generation starts. The properties compare two walks that the code makes
independently: `LiveKept` the search for live registers with the needs of the program, and `Undisturbed` the
bookkeeping of `jit_reglive`, node by node, with the same needs, through the values that registers hold
after all that was lent. `SimplifiedAlike` executes each function from its prolog,
with all states of registers and memory, and compares what each instruction does then with what it did in the program.

### ConstantTable, DataPool

`DataPool` has the fields of `_jitc->data` and `_jit->data`: the nodes in the order in which they
were added, with their offsets, the pool's length, the hash table. `Data` is `jit_data`: the pool grows
(`Grown`, before it is known whether the constant is there), and then `Share` or `Add`, which
may double the table. `ConstantTable` is a set of pairs of a constant and its place that only grows,
and in which no two overlap; `DataPool` implements it.

### Notes

Built over `DataPool`: each `jit_name` and `jit_note` asks for its string, counts the room for its table entry
and appends a node. `Realize` and `RealizeNode` are the loop of `jit_optimize` that puts immediates
into the pool; `AnnotateName`, `AnnotateNote` and `EndAnnotate` are `jit_annotate`, `GetNote` is
`jit_get_note`. The three binary searches are recursive functions with the indices of the code. `NoteFails` is a
null pointer in the code.

### Frames

One function, in three stages. *Build*: one action per call of the interface; `args` and `pushes` are what was
handed out, `blocks` what `jit_allocai` gave. *Emit*: `Prolog` lays out the frame; `Spill`, `SaveMore` and `CheckFrame` are the
ways in which the code between prolog and epilog changes the function; `Again` is the epilog that starts it anew, `OutOfRoom` a pass that ends behind
the prolog, after which the next one begins with what this one left. `Prolog` has two cases by which varargs differ: one of `jit_tramp` returns before
it saves argument registers; and for `jit_allocar` it is lent a register, which may be %rax (`borrowed`), where the caller says whether it passes floats. It
could only be lent another register that has an argument if %rax, %r10, %r11 and all callee-save registers were live there,
which is not modelled.
*Run*: `Enter`, `RunAllocar`, `VaStart`, `VaArgSaved`, `VaArgOver` are what the generated code does to the
stack pointer and the `va_list`. The references are the calling convention of C (`Convention`), the
parts of the stack as intervals (`Parts`), and what is at an address (`Content`).

## Runs

Every bound is a constant of the cfg or a definition of `MCEmitCode`. All runs have
`CHECK_DEADLOCK FALSE`, because each of these systems ends: code is returned, a context is destroyed,
the passes are over.

| run | shows |
|---|---|
| `emit_code` | For 75 programs, two bases and five lengths: no overrun, patches apply to the jump they were made for, jumps are linked, prolog and epilog agree, displacements are right if no pass ran out of room after a prolog, `again` is raised only for a gain, `Emission` is implemented with its liveness. `IInv` is checked here before it is proved |
| `emit_retry` | violation: displacements after a pass that ran out of room |
| `context` | In every order of calls: released if code was returned; constants and notes readable; protections right; callers' buffers untouched; `Emission!Safety` implemented |
| `context_release` | violation: the pool is kept if no code was returned |
| `context_notes` | violation: names of notes freed if data is disabled |
| `jumps` | All programs within the bounds: threading keeps the meaning at every step; label merging and splitting keep it if threading left the labels *tame*; lists of users agree, up to the first reversed branch or jump to a register; free nodes stay apart; blocks end up in order; the passes end if jumps do not lead only to each other |
| `jumps_loop` | violation: jumps that only lead to each other are threaded for ever |
| `jumps_indirect` | violation: a label marked by `jit_indirect` is dropped |
| `optimize` | For 7,686 programs, if each label that is run into is flagged: each block knows what is needed where it starts; a register that is needed behind a node has its value, whatever was lent; removing instructions does not change what the program does. For all of them: nothing is lent twice; the prolog of each function saves what is changed in it; the passes end |
| `optimize_heads` | violation: without that condition, `redundant_store` removes a `movi` behind a label that is run into but not flagged |
| `optimize_values` | violation: a register lent in front of `boaddi`, in front of a `casr` of which it is half of the pair, or by a call over its own result, loses its value |
| `interface` | For every five names, notes and instructions: constants keep their places, fit and are aligned, `jit_get_note` finds what was said of each instruction, the tables fit. For every five calls that declare, pass and allocate: arguments are where C puts them, the parts of the frame are apart when the function runs, variable arguments are found, but for the two cases in the table below |

### Bounds, and why they are enough

*emit_code.* Three program shapes: a loop over a stack argument with a forward jump out of
it; two functions that jump into each other and to their epilogs, and code outside both; a function whose prolog itself
asks for a register. Two of the instructions ask for each of five sets of resources, so that a function
is generated again or not, before and after a patch was recorded, and may have acquired part of what it
needs in a pass that ended early. Lengths run from room for a node or two to "fits at once", and growth
is smaller than a function, so that passes run out of room outside, at the start and in the middle of
functions, several times in a row. A third function, or a third asking instruction, repeats what
two do: `undo` only remembers one function, and functions share only `patches` and `patched`.
The proofs do not depend on the bounds.

*context.* There is no bound: the state space is finite.

*jumps.* `N` = 9 nodes, of which `MaxCode` = 5 are built besides prolog and epilog, and two
are left for `split_branches`, all that three jumps can ask for; up to 3 instructions (`MaxInsns`; marks of `jit_indirect` count) and 4
labels (`MaxLabels`), one node before the prolog (`MaxBefore`). The patterns of the passes
involve at most a branch, the jump after it, their two targets and a third user of one of them, or three
labels in a row; each fits. Patches are made after the list is complete: only the order of the
users of one label matters, and all orders are explored. `movi` of a label and notes are in the
model but not in the run, whose state space they would multiply; a run of 1.3 million states with `movi` and
`MaxBefore` = 0 also passed.

*optimize.* Three registers: two caller-save, of which one is the result, and one callee-save; with two requests at a
node whose operands take one or two of them, every case of `jit_get_reg` is met: idle and dead, idle and
unknown, spilled, by name, refused. Programs have three blocks, with all combinations of two to seven instructions and
ends in each, so that needs travel through a block, back over a jump, and around two loops that share a
block, in either order of the list; with four blocks there would be one more block to pass through. Four labels with nothing, a note or an
instruction between them, in front of them code or a jump, are what the flags of labels depend on (`Labels`); and two functions in a row, whether the registers of one get into the set of the other (`Functions`). Straight lines of three and four
instructions are all there are over five moves and four accesses of memory: a value can be remembered,
copied, and changed behind its copy. Two words (`Word`, what a register, a constant or an address can be) tell apart equal and different. `Fuel` = 10 executed
instructions cover every straight line, and each loop once. The proof depends on neither.

*interface.* `MaxNodes` = 5: a name, two files, and what lies between and behind; two notes at one offset.
`Page` = 16 and `TableSize` = 2: the pool grows twice, once by a name longer than a page and once with an odd length,
and the table is rehashed twice. `MaxCalls` = 5 with one register of each class: a class overflows with its second argument,
and there are three more calls to mix in the other class, blocks of two alignments, `jit_allocar`,
the ellipsis, or a call. `Saves` = 2, since with 1 the two sizes of a frame would be the same. `MaxSpills` = 1, `MaxRun` = 2:
a register is spilled in the first generation, two blocks of `jit_allocar` or two variable arguments, so that one
is behind the registers. `Requests` = {64} leaves the blocks of some functions without room (`PrologFails`) and has enough
for others; so does a register spilled by a pass that ran out of room. `Lengths` = {1, 200}: small blocks that need padding, and blocks with which the offset that
`jit_allocar` begins with comes to a multiple of 256. There are 2.2 million states. The two modules share no state, so each is explored from the initial state of the other.

*What "tame" means.* In `thread_jumps`: no jumps that lead only to each other (`jumps_loop`). Then: no three
labels that could be merged in a row, no unused label at the head followed by another label, and every jump to a
label that will be merged is on its list. The code needs these conditions and does not establish them:
the first is `jumps_indirect`, and each of them was reproduced with
the compiled library.

### Fairness

The caller owes nothing: no fairness on `SetCode`, `Emit`, or on building. The library's own
steps, `Generate` in `EmitCode`, `Passes` in `Jumps` and all of `Optimize`, are weakly fair, since each is the loop of
a function that runs, without waiting for anything, until it returns. That `Optimize` ends is not
obvious, as `check_block_again` starts over as long as some block gained a register; it does since
`regmask` only shrinks. `Context`, `DataPool`, `Notes` and `Frames` have no liveness of their own.

### Disagreements between the code and what is said of it

Six, one run each, under `findings` in `PROJECT.json`, with the line quoted. All but the leak of `context_release`, which
can be read off the code, were reproduced with the compiled library. Consequences of the stale
`prev` were seen there too and are listed as hazards: two redundant jumps in a row trip the assertion of `del_node`.

The following were met while the code was modelled. They have no run of their own: a property leaves them
out, and says so in its comment, or an action of the model ends there. Those marked with a star were seen with
the compiled library; the others can be read off the lines given.

| where | what | in the model |
|---|---|---|
| `lightning.c:2616` * | `jit_emit` maps `code.length` bytes readable, writable and executable and protects `code.protect` of them, so that pages behind the code stay so; `src/docs/lightning.txt:1702` says that the code buffer's memory is not modifiable then. Of six pages two were protected | the tail is a map of its own, which no call protects; `Protected` is about the pages that hold code |
| `lightning.c:3568`, `3362` * | a jump that `reverse_jump` deletes stays on its label's list, which loses the users behind it, though the comment at line 1843 says that `link` is the "list of nodes associated with a given label"; a jump shortened to a register cuts the list likewise, and has its register number overwritten when the old label is merged. A later search runs off the list and crashes, or a lost user of a merged label jumps into unrelated code | the same; `LinksAgreeIfPlain` and *tame* leave it out |
| `jit_x86-cpu.c:4806` | the prolog of a function of `jit_tramp` returns before it saves the registers of variable arguments | `VarargsFound` leaves these functions out |
| `jit_x86-cpu.c:4863` * | for `jit_allocar` the prolog puts `aoff` in a register, which may be %rax, and then tests %al for floats: none are saved if `aoff` is a multiple of 256. A variable `double` read as 0 with 40 bytes given out, and right with 32 | `FloatsLost`; `VarargsFound` leaves such floats out |
| `jit_x86-cpu.c:4805` * | a function of `jit_frame` that spilled a register in a pass that ran out of room fails the assertion of the prolog in the next | `OutOfRoom`, then `PrologFails` |
| `jit_x86.c:1172` * | `pushargr_f` asks whether the *function* has float registers left, not the call | `Side`; `ByConvention` leaves out what lies behind (`Misjudged`) |
| `jit_x86.c:2503` * | a function of `jit_frame` spills registers below its frame, where arguments of calls are, though `src/docs/lightning.txt:895` says that the frame is adjusted for what the backend needs | `FrameApart` leaves these slots out |
| `lightning.c:2696` | the padding of blocks may exceed what `jit_frame` adds, and the assertion of the prolog fails, though the same sentence promises to adjust for alignment | `PrologFails` |
| `lightning.c:2961` * | blocks in front of a jump to a register are not told that callee-save registers are needed | `Needed` does not look behind such a jump |
| `lightning.c:1706`, `1740` * | classes of `movnr`, `movzr`, `ldxai`, `ldxbi` leave out what they change, so that `simplify` keeps old values, and the prolog does not save the base of `ldxai` | `SimplifiedAlike` leaves these programs out; `SavedIfChanged` goes by the class |
| `lightning.c:2738`, `3050` | the halves of a pair, which `casr` reads, are no longer unknown in front of it but are not made live: a half that the block sets may be lent, unsaved | `NeededBehind` leaves such a pair out, `ValuesKept` (violated) has it |
| `lightning.c:3810` | only `stxi` makes `simplify` forget what was loaded; other stores do not | the same |
| `jit_note.c:91` | `jit_note(NULL, n)` and then `jit_note(name, m)` compares a name with NULL | `NoteFails` |
| `zjit.zig:66` | `getNote` hands over the file and the name in each other's place | not modelled |
| `examples/*.zig` | `jit_destroy_state` without `jit_clear_state` leaves the compiler state allocated | `Context` explores it; `Released` is about both calls |

## Proofs

`EmitCodeProofs`: for every set of well-formed programs, sizes, buffers and resources,
from `ProgramsAssumption` (the shape `jit_prolog`, `jit_epilog` and `jit_patch_at` give a list: functions do
not nest, only nodes of a function ask for its resources), `LayoutAssumption` (ranges) and
`SizeAssumption` (no node is larger than `jit_get_max_instr`).

The properties are not inductive. `IInv` strengthens them with

- `Position`: `function` is the function the cursor is in, `undo` remembers its prolog;
- `Room`: there was room at the prolog `again` goes back to, for which no check is made;
- `Frames`: `again` is up exactly when the function has more than its prolog provided,
  and finished functions have just that, which is why the epilog can trust the flag;
- `Layout`: instructions follow each other, so that a patch site belongs to one node only;
- `Links`: only labels this pass has met are known, each jump is linked or waits for a
  patch not yet applied, and the patches `again` drops are exactly those of the current function;
- `Displaced`: until a pass fails behind a prolog, an argument's displacement is the one its prolog made of the frame
  that was written, and 0 in front of it.

`IInv` is preserved by each action (one lemma or step per action, one step per conjunct it can disturb). From
it follow `TypeOK`, `NoOverrun`, `PatchSites`, `JumpsLinked`, `FramesAgree`, `ArgumentsInFrameIfFits` (`ArgumentsDisplaced`), the action property
`AgainOnlyIfStale`, and that every step is a step of `Emission` or a stutter (`PromiseKept`).

`ContextProofs`: no assumption. `IInv` = `TypeOK` with `Order` (what the flags say about which
calls were made), `PoolPlace` (where the pool is at each stage), `Mapped` (what is mapped and who points to it) and
`Protected`. From it: `ReleasedIfEmitted`, `ConstantsReadable`, `NotesReadableWithData`, `Protected` (of the pages that hold code; nothing is claimed of the tail),
`CallersUntouched`, and the refinement of `Emission!Safety`.

`DataPoolProofs`: for every set of constants, lengths, hash function, page and table size, from
`PoolAssumption`. The invariant `PoolInv` says that each node is in the chain of its hash (`InBuckets`), that
no two nodes have the same constant (`Distinct`, which rests on the former: a constant that is there is found),
that nodes lie one behind the other in front of `offset` (`InFront`), that a node has the
alignment of the call that added it (`Asked`), and that the pool's length is a multiple of the page, or one more: `& -4095` keeps the
lowest bit. `Fits` needs it for pools of odd length. From it: `ConstantsFit`, `ConstantsAligned` and `PoolRefinesTable`, the
refinement of `ConstantTable`. `NotesProofs`, from `NotesAssumption`: every step of `Notes` is a step of
the pool or leaves it alone, so that all three hold of a whole program.

`NotesProofs` also proves `NotesTyped` and `WhatWasSaidIsFound`, for every list of names, notes and instructions. `SearchFinds` and `InsertBehind`
say of the three binary searches, by induction on the width of the range that is left, that they find the last key that is not larger. `Addresses`
and `Sides` say on which side of an instruction a node is from their addresses alone, pieces of code of no bytes included.
The invariant (`Annotating`) relates each note to the node that began it: an order `o` of nodes with the notes in that order
(`Starts`), each with its address, name and size (`PartsHold`), and each with lines that stand, in order, for the files
and lines said behind that node and in front of the next (`LinesHold`). As `jit_annotate` goes through the nodes in order, what it inserts is
always behind what is there. `NoteFound` and `NoNoteFound` then take `GetNote` apart at an instruction.

`SpaceSuffices` is about sums (`Total`, a recursive function; `TotalStep` to `TotalChanged` are what is known of it). `Costs` is what
was reserved for each node. `Reserves`: `space` is one note more than their sum, and the note that `jit_note` compares with is followed by instructions only.
`Spends`: as `jit_annotate` goes, the tables need no more than what was reserved for the nodes up to `place`, less the first note if no
file in front of all names has taken it. What makes it inductive is that a file `jit_note` found repeated (`Repeats`) is
the file of the last line when `jit_annotate` comes to it (`FileContinues`), so that no line is added.

`FramesProofs`: for any number of registers, lengths, sizes and calls, from `FramesAssumption` (ranges, and at most 16
registers of a class, so that an offset is never taken for the number of a register). `FrameApart` speaks only of functions
that run; `FrameInv` follows the frame to there: blocks are handed out downward and never meet (`Blocked`), with
`aoff` below all of them until `jit_frame` takes over; what the prolog laid out covers them, or the function is to be generated
again (`Laid`); of one that was not generated to its end (`Young`), where a pass may have run out of room and left its blocks, less is known; a function with blocks or stack arguments has a frame pointer (`Needy`); each argument on the stack is behind the
one before (`Placed`); as the function runs the stack pointer stays below what `jit_allocar` gave, aligned (`Running`).
`FrameTyped` and `FramePartsApart` follow, the latter by stacking the parts one on another.

Two more invariants are about who gets which argument.

- `ByConvention` (`ArgumentsByConvention`): `ArgsAgree` says that `argi`, `argf` and `size` count the arguments of each class in front as C
  does. For what a call pushes, `PushesAgree` says the same up to the first float that `pushargr_f` misjudges (`Misjudged`), and no further.
- `VarargsFound` (`VarargsWhereCPutsThem`): `VarInv` follows an object of `jit_va_start`. Behind g words and f doubles, named or taken since, `gp` is 8 g and `fp` is the end of
  the words with 16 f more, as long as there are registers; then they stay at their ends, and `over` is behind
  all that went to the stack. What the prolog saved begins with the first register that is not named, and so is where `jit_va_arg` looks. Not claimed: functions
  of `jit_tramp`, and floats if `aoff` was put in %rax and is a multiple of 256 (`FloatsLost`).

`OptimizeProofs`: `OptimizeLive`, `LoansUnseen` and `RemovalsUnseen` are about programs in which each label that is run into is flagged (`HeadsKnown`, see
above); the others about all. For every program, however long, and every set of registers, from `ProgramsAssumption` (`WellFormed`)
`RegAssumption`, and `WordAssumption` (words are the numbers below some bound, and sums wrap around). `Typed` and `Looping` follow the list, which stays divided into the same blocks as instructions are
removed, and where each loop is (`OptimizeTyped`). `LendInv` says that `regarg` is the operands of the node with what was lent, each once
(`LentOnce`); `SaveInv` that what is altered is in `regset` (`PrologSaves`). Two more theorems connect
walks that the code makes separately, and the last one the passes with what programs do.

- `OptimizeLive`: the invariant `LiveInv` has a part for each phase. Behind `do_setup`, `reglive` is what the block reads first and
  `regmask` what it does not mention. `do_follow` leaves a register in `regmask` only if the walk ahead met no end to
  it. In `check_block_again`, a block that lacks a register its successor needs is still
  to be visited or `again` is up (`Waiting`, `Checking`); when nothing is, blocks agree with those
  they lead to, and the set of what blocks know is closed under the steps of `Earlier`, of which `Needed` is the
  least. That `Needed`, defined by as many steps as there are nodes, is closed itself (`NeededIsComplete`) is
  the lemma `ChainStops`: sets that only grow within `1 .. n` stop after `n` steps.
- `LoansUnseen`: the invariant `LoanInv` says that each register due at a node (needed by what follows, or an argument that the block of a
  call sets) holds its own value or is saved in its slot (`Intact`), and is in `reglive` when the node is
  done. Going to the next node uses `UpdateLive`: what is due behind a node and not found
  live by the walk to the end of the block is not due, by `OptimizeLive` where the walk leaves the block.
- `RemovalsUnseen` is `SimplifiedAlike`, for programs that do not have `str`, `casr`, `movnr` or `ldxai`, about which what `simplify` keeps is wrong (see
  the table above). `Met` is the set of all nodes with all machines, registers and memory, that some execution of the program as it was written
  meets there: the least set with the prologs that is closed under a step. The invariant `MeansInv` is about them, with no word of where
  an execution comes from. At each node of the list, the instruction that the code has now does to every machine met there what
  the one of the program does (`Same`), and while `simplify` goes through a block, what `values` says of a register is true of every machine
  met at `node` (`Known`): it holds that constant, what memory has at that address, or what another register holds that did
  not change since, which is what `gen` counts (`Correct`; `Fresh` says that no value is of a generation to come). `FreshGrown`, `FreshNode` and
  `Meant...` go through what `simplify` does to a node. `redundant_store` goes beyond a block: a label that nothing falls into and
  one branch leads to is met only with the register equal to the constant compared with (`MetBranch`, `ConstantBehind`). Then both programs
  meet the same machines, and an execution, a recursive function of the number of steps, stays in `Met`, and so finds no difference (`RunsExist`, `AllAlike`).

`JumpsProofs`: for a pool of any size, every set of kinds of instructions and all bounds on what is built. `JumpsInv` says that there
are two sequences without a common node, `p` and `q`, which are the lists that start at `head` and `list` (`Lists`), and
relates what each pass keeps to places in them. It is claimed of every program while it is built and threaded, and of those that
`thread_jumps` leaves tame from then on; for others it is false, since `sequential_labels` may then merge a label into one it deleted.

- `BuildInv`: the free nodes are those not given yet; each head of a block has its own slot.
- `ThreadInv`: `node` is in the program, with `prev` at it or just in front, so that `del_node` unlinks it where it is; or
  `node` was deleted at the head and the loop goes on among the free nodes, where no code makes it do anything.
- `LabelsInv`: no three labels in a row could be merged, from `node` on, and the `prev` that was deleted is not ahead. This is where tame is
  needed, and why `MergeLabel` cannot happen to such a program (`MergeStep`): its labels are merged one step earlier.
- `SplitInv`: up to `node` the blocks are in their new slots, in order; behind it they are in the old ones.

`JumpsTyped`, `FreeNodesApart` and `BlocksComeInOrder` follow. `ReachedOfList` connects the model's way of following
pointers, N steps of a recursive function, to a sequence: a list with no node twice has at most N of them (`NoLonger`).

`LinksAreUsers` is `LinksAgreeIfPlain`: until a branch is turned round or a jump made one to a register, the list at the link of
each label has all the nodes patched to it and no others. Its invariant, `UsersInv`, needs more than the lists:

- `Targets`: a patched node of the program goes to a label or the epilog of the program. So the node that `Off` takes off a list is on
  it, and after a jump is redirected its new label is not a freed one.
- `Turns`: no `jmpi` is behind a branch that was turned round. Otherwise it could be turned back, and the program would look
  as if nothing had happened while a list still had the jump that was freed. It holds since what `ReverseJump`
  makes the next node comes where the branch went: it is on the way to that label, or the label.
- `Untouched`: nodes that are not given yet have no users and use no label.
- `Cut`: a jump that was deleted behind a branch turned round, or made one to a register, stays on the list of its label, but with no
  link, so that the list ends there. The invariant therefore knows the set of nodes cut off so, and holds to the end of
  `thread_jumps`: each list has all the users of its label, or some of them and a node that was cut off (`Covers`). As long as no branch is
  turned round and no jump made one to a register the set is empty.

`ThreadingMeansTheSame` is `ThreadingKeepsMeaning`, for every program, tame or not. `MeantInv` adds to the invariant above what is to
be shown: the program in the list means what it meant at `jit_optimize`; and `Aimed`, without which it would not follow: all that goes somewhere is
patched, so that nothing goes to an instruction or a jump that is taken out (`NotAimed`). The proof is in three layers:

- Where execution lands (`LandsAt`, `LandsOn`, `LandsBack`): `Landing` takes N steps, which is enough, since a way that has not come to rest
  by then has been at some node twice (`NoLate`, by counting) and goes round for ever. So it is the same from a place and from the one after it.
- When two programs land alike: if each one does, up to where both land, what the other does (`Mimics`, `BothLand`). A place that only
  goes on may be bypassed (`BypassLands`), and a place may go on elsewhere if both ways land alike before and after (`RerouteLands`).
- The four steps: `RedundantJump` bypasses a jump, and `ReverseJump` bypasses one and swaps what the branch does; `ShortcutJump` and
  `ShortcutToRegister` make a jump go elsewhere. What a search over labels and notes finds lands where the search started (`SearchLands`,
  `SecondLands`); when it passes the node itself, as in a loop of jumps, both still never land.

`LabelsMeanTheSame` is `LabelsKeepMeaning`: for a program that `thread_jumps` left tame, `sequential_labels` and `split_branches`
keep its meaning too, on to the end. Its invariant, `StillMeant`, is that the program in the list means what it meant, and, in `sequential_labels`:

- `Unlinked`: a label with no list has no users, so that one that is dropped is no place to jump to. It comes from `Covers`: a list
  that is empty was not cut off.
- `Exact`: the list of a label right behind another, with which it is going to be merged, has all its users. `Tame` says so
  where the pass begins (`EndThreadingMeans`); it stays so since a deletion puts no such label behind another (`DeletedStays`).

`MergeNextLabel` is two steps: the users of the label go to the one before it, which comes to the same (`MovedMeans`); then the label has
none, and is bypassed like one that is dropped (`DropMeans`). `SplitBlock` is a bypass backwards: without the new label, the program is the
old one (`SplitMeans`). The other steps change slots at most (`SlotsMean`).

`Induction` gives induction over numbers as a fact about sets (`SetInduction`: a set that holds 0, and `n + 1` with `n`, holds all of `Nat`),
which the provers can use where a scheme over predicates they cannot.

Only model-checked:

- liveness (`KeepsPromise` of `EmitCode` in part, `PassesEndIfNoLoop`, `OptimizeEnds`): out of the prover's reach;
- in `Jumps`, `TypeOK` of programs that are not tame, after `thread_jumps`: `sequential_labels` may merge a label into one it deleted.

## Not modelled

- The bytes of x86 instructions (`jit_x86-cpu.c`, `-sse.c`, `-x87.c`): no state but `pc`.
- Other ports (`jit_arm*`, `jit_mips*`, `jit_ppc*`, `jit_ia64*`, and so on) and fallbacks: the same structure, other encodings and other tables of
  registers. Only one is compiled.
- The printer, the disassembler, the collection of sizes, the memory functions, tests and examples: no state that
  a property could be about.
- `jit_align`, `jit_skip` nodes, `jit_patch_abs`, patches to absolute addresses or data, and `calli` in `Jumps`.
- Allocation failure (the library exits) and growth of its vectors.
- The binding: one-line wrappers.
- In `Optimize`: jumps to a label through a register beyond what the code does with them (see above), `jit_live`, float
  registers (a second class of the same kind), `patch_registers` for register pairs.
- In `Frames`: the conventions of Windows and of 32 bits; where `jit_getarg` and `jit_putarg` look is modelled
  (`PlaceOf`), the moves they make are not.

Ports, encodings, tests and their expected output are more than nine tenths of the repository's lines. They are what
the share of mapped lines leaves out: one case of a switch, or one row of a table, per instruction and processor, with no state
that steps could reach in a wrong order. What the models cover is the logic of `lightning.c`,
`jit_note.c` and of `jit_x86.c` outside its tables.

## Plan

Done, in this order, the most important behaviour first: `Emission`, `EmitCode`
(with proofs), `Context` (with proofs), `Jumps` (with proofs); then `Instructions` to `Optimize` (with proofs), `DataPool` and `Notes`
(with proofs), `Frames` (with proofs).

Next:

1. `jit_align` and `jit_skip` nodes in `EmitCode`, whose size the margin does not bound.
