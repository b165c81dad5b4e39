-------------------------------- MODULE Notes --------------------------------
(***************************************************************************)
(* The debug annotation of code.  While nodes are added, jit_name and      *)
(* jit_note keep their strings in the pool of constants and reserve room   *)
(* in the data buffer; jit_realize adds the immediates of instructions to  *)
(* the pool; and when the code is there, jit_annotate builds the tables in *)
(* which jit_get_note looks for the function, file and line of an address. *)
(*                                                                         *)
(* Instructions are of one byte, and code starts at 0.                     *)
(***************************************************************************)
EXTENDS DataPool, SequencesExt

CONSTANTS
  Names,      \* strings given to jit_name
  Files,      \* strings given to jit_note
  Lines,
  Immediates, \* pairs of a constant in an instruction, and its alignment
  MaxNodes    \* bound: nodes of a program

ASSUME NotesAssumption ==
  /\ Names \subseteq Constants /\ Files \subseteq Constants
  /\ \A p \in Immediates : p[1] \in Constants /\ p[2] \in Alignments(p[1])

VARIABLES
  list,  \* the nodes: names, notes and instructions
  last,  \* _jitc->note.note: the last note, if it was added after the last name
  space, \* _jitc->note.size
  phase, \* what the program does: build, realize, annotate, done; or failed
  place, \* the node at which the last two look
  notes  \* _jit->note: the tables

noteVars == <<list, last, space, phase, place, notes>>
vars == <<poolVars, noteVars>>

NULL == 0
SizeofNote == 40
SizeofLine == 32
SizeofInt  == 4

\* One note is reserved for a jit_note in front of the first jit_name.
Init ==
  /\ PoolInit
  /\ list = <<>> /\ last = NULL /\ space = SizeofNote
  /\ phase = "build" /\ place = 1 /\ notes = <<>>

NodeOf(kind, data, line) == [kind |-> kind, data |-> data, line |-> line, imm |-> {}]

-----------------------------------------------------------------------------
Building == phase = "build" /\ Len(list) < MaxNodes

AddName(data) ==
  /\ list' = Append(list, NodeOf("name", data, 0))
  /\ space' = space + SizeofNote /\ last' = NULL
  /\ UNCHANGED <<phase, place, notes>>

Name(c)    == Building /\ Data(c, 1) /\ AddName(Node(c))
NameOfNone == Building /\ AddName(NULL) /\ UNCHANGED poolVars

(***************************************************************************)
(* jit_note: a line of the table is reserved, unless the file is that of   *)
(* the last note, and two numbers.                                         *)
(***************************************************************************)
Unnamed == last # NULL /\ list[last].data = NULL
BugReserved(c) == IF last = NULL THEN SizeofLine ELSE 0
Reserved(c) == IF last # NULL /\ nodes[list[last].data].data = c THEN 0 ELSE SizeofLine

AddNote(data, line, bytes) ==
  /\ list' = Append(list, NodeOf("note", data, line))
  /\ last' = Len(list) + 1
  /\ space' = space + bytes + 2 * SizeofInt
  /\ UNCHANGED <<phase, place, notes>>

Note(c, line) ==
  /\ Building /\ ~Unnamed /\ Data(c, 1)
  /\ AddNote(Node(c), line, Reserved(c))

NoteOfNoFile ==
  /\ Building /\ AddNote(NULL, 0, SizeofLine)
  /\ UNCHANGED poolVars

\* The name of the last note is compared, and it has none.
NoteFails ==
  /\ Building /\ Unnamed
  /\ phase' = "failed" /\ UNCHANGED <<poolVars, list, last, space, place, notes>>

Instruction(imm) ==
  /\ Building
  /\ list' = Append(list, [NodeOf("code", NULL, 0) EXCEPT !.imm = imm])
  /\ UNCHANGED <<poolVars, last, space, phase, place, notes>>

-----------------------------------------------------------------------------
(***************************************************************************)
(* The end of jit_optimize: the constants of instructions.                 *)
(***************************************************************************)
Ahead(S) == Min({i \in S : i >= place} \cup {Len(list) + 1})
Kind(kinds) == {i \in DOMAIN list : list[i].kind \in kinds}
Immediate == Ahead({i \in Kind({"code"}) : list[i].imm # {}})

Realize ==
  /\ phase = "build" /\ phase' = "realize"
  /\ UNCHANGED <<poolVars, list, last, space, place, notes>>

RealizeNode ==
  /\ phase = "realize" /\ Immediate \in DOMAIN list
  /\ \E p \in list[Immediate].imm : Data(p[1], p[2])
  /\ place' = Immediate + 1
  /\ UNCHANGED <<list, last, space, phase, notes>>

EndRealize ==
  /\ phase = "realize" /\ Immediate \notin DOMAIN list
  /\ phase' = "annotate" /\ place' = 1
  /\ UNCHANGED <<poolVars, list, last, space, notes>>

-----------------------------------------------------------------------------
(***************************************************************************)
(* The binary searches, over keys that do not decrease.  Positions count   *)
(* from 0.  The first gives the place behind all keys up to x.             *)
(***************************************************************************)
\* From bot to top, without top; where all that is left is one place, bot = top.
Ranges(n) == (0..n) \X (0..n)
Middle(range) == (range[1] + range[2]) \div 2

BugInsertIndex(keys, x) == Cardinality({k \in DOMAIN keys : keys[k] < x})
InsertIndex(keys, x) ==
  LET find[range \in Ranges(Len(keys))] ==
        LET index == Middle(range) IN
        IF range[1] >= range[2] THEN index
        ELSE IF x < keys[index + 1] THEN find[<<range[1], index>>]
        ELSE find[<<index + 1, range[2]>>]
  IN find[<<0, Len(keys)>>]

SearchIndex(keys, x) ==
  LET n == Len(keys)
      find[range \in Ranges(n)] ==
        LET index == Middle(range) IN
        IF range[1] >= range[2] THEN index
        ELSE IF x < keys[index + 1] THEN find[<<range[1], index>>]
        ELSE IF index = n - 1 \/ x < keys[index + 2] THEN index
        ELSE find[<<index + 1, range[2]>>]
  IN find[<<0, n>>]

\* note_search_index also asks whether the address is within the note.
NoteIndex(code) ==
  LET find[range \in Ranges(Len(notes))] ==
        LET index == Middle(range)
            note == notes[index + 1] IN
        IF range[1] >= range[2] THEN index
        ELSE IF code < note.code THEN find[<<range[1], index>>]
        ELSE IF code - note.code < note.size THEN index
        ELSE find[<<index + 1, range[2]>>]
  IN find[<<0, Len(notes)>>]

-----------------------------------------------------------------------------
(***************************************************************************)
(* jit_annotate.  A note is a named piece of code, with lines; a line is a *)
(* file with pairs of an offset and a line number.                         *)
(***************************************************************************)
At(i) == Cardinality({j \in Kind({"code"}) : j < i})
Annotated == Ahead({i \in Kind({"name", "note"}) : list[i].kind = "note" => list[i].data # NULL})

\* The last note reaches as far as code; a new one starts there.
Ended(code) == [k \in DOMAIN notes |->
  IF k = Len(notes) THEN [notes[k] EXCEPT !.size = code - notes[k].code] ELSE notes[k]]
WithNote(code, name) ==
  Append(Ended(code), [code |-> code, name |-> name, lines |-> <<>>, size |-> 0])

Offsets(entries) == [k \in DOMAIN entries |-> entries[k].offset]
Firsts(lines) == [k \in DOMAIN lines |-> lines[k].entries[1].offset]

(***************************************************************************)
(* The entries of a line with one more.  (The code moves those behind it   *)
(* if index is less than the number of lines, not of entries; offsets come *)
(* in order, so that there are none.)                                      *)
(***************************************************************************)
WithEntry(entries, entry) ==
  LET index == InsertIndex(Offsets(entries), entry.offset)
      next == entries[index + 1] IN
  IF index < Len(entries) /\ next.offset = entry.offset
  THEN [entries EXCEPT ![index + 1].line = IF @ < entry.line THEN entry.line ELSE @]
  ELSE IF index < Len(entries) /\ next.line = entry.line
  THEN [entries EXCEPT ![index + 1].offset = IF @ > entry.offset THEN entry.offset ELSE @]
  ELSE InsertAt(entries, index + 1, entry)

WithLine(lines, file, entry) ==
  LET behind == InsertIndex(Firsts(lines), entry.offset)
      index == IF behind > 0 /\ behind = Len(lines) /\ lines[behind].file = file
               THEN behind - 1 ELSE behind IN
  IF index >= Len(lines) \/ lines[index + 1].file # file
  THEN InsertAt(lines, index + 1, [file |-> file, entries |-> <<entry>>])
  ELSE [lines EXCEPT ![index + 1].entries = WithEntry(@, entry)]

SetNote(all, i) == LET n == list[i] IN
  [all EXCEPT ![Len(all)].lines =
     WithLine(@, n.data, [offset |-> At(i) - all[Len(all)].code, line |-> n.line])]

AnnotateName ==
  /\ phase = "annotate" /\ Annotated \in Kind({"name"})
  /\ notes' = WithNote(At(Annotated), list[Annotated].data)
  /\ place' = Annotated + 1
  /\ UNCHANGED <<poolVars, list, last, space, phase>>

AnnotateNote ==
  /\ phase = "annotate" /\ Annotated \in Kind({"note"})
  /\ notes' = SetNote(IF notes = <<>> THEN WithNote(At(Annotated), NULL) ELSE notes, Annotated)
  /\ place' = Annotated + 1
  /\ UNCHANGED <<poolVars, list, last, space, phase>>

EndAnnotate ==
  /\ phase = "annotate" /\ Annotated \notin DOMAIN list
  /\ notes' = Ended(At(Len(list) + 1))
  /\ phase' = "done"
  /\ UNCHANGED <<poolVars, list, last, space, place>>

Build == \/ \E c \in Names : Name(c)
         \/ NameOfNone
         \/ \E c \in Files, line \in Lines : Note(c, line)
         \/ NoteOfNoFile \/ NoteFails
         \/ \E imm \in {{}} \cup {{p} : p \in Immediates} : Instruction(imm)
Next == \/ Build \/ Realize \/ RealizeNode \/ EndRealize
        \/ AnnotateName \/ AnnotateNote \/ EndAnnotate
Spec == Init /\ [][Next]_vars

-----------------------------------------------------------------------------
NotFound == <<>>

(***************************************************************************)
(* jit_get_note                                                            *)
(***************************************************************************)
GetNote(code) ==
  LET note   == notes[NoteIndex(code) + 1]
      within == code - note.code
      line   == note.lines[SearchIndex(Firsts(note.lines), within) + 1]
      entry  == line.entries[SearchIndex(Offsets(line.entries), within) + 1]
  IN IF \/ NoteIndex(code) >= Len(notes) \/ code < note.code \/ code >= note.code + note.size
        \/ note.lines = <<>> \/ within < Firsts(note.lines)[1]
     THEN NotFound
     ELSE <<note.name, line.file, entry.line>>

(***************************************************************************)
(* The reference: the last name in front of an instruction, and the last   *)
(* note with a file behind that name.                                      *)
(***************************************************************************)
LastOf(S) == Max(S \cup {0})
Expected(i) ==
  LET name == LastOf({j \in Kind({"name"}) : j < i})
      note == LastOf({j \in Kind({"note"}) : name < j /\ j < i /\ list[j].data # NULL})
  IN IF note = 0 THEN NotFound
     ELSE <<IF name = 0 THEN NULL ELSE list[name].data, list[note].data, list[note].line>>

-----------------------------------------------------------------------------
(***************************************************************************)
(* The type invariant.                                                     *)
(***************************************************************************)
TypeOK ==
  /\ DOMAIN table = 0..size - 1 /\ \A b \in DOMAIN table : table[b] \subseteq DOMAIN nodes
  /\ {nodes[i].data : i \in DOMAIN nodes} \subseteq Constants
  /\ {offset, length, space} \cup {nodes[i].at : i \in DOMAIN nodes} \subseteq Nat
  /\ last \in {NULL} \cup Kind({"note"})
  /\ \A i \in Kind({"name", "note"}) : list[i].data \in {NULL} \cup DOMAIN nodes
  /\ phase \in {"build", "realize", "annotate", "done", "failed"}
  /\ place \in 1..Len(list) + 1
  /\ \A k \in DOMAIN notes : notes[k].size \in Nat /\ notes[k].code \in Nat

(***************************************************************************)
(* For each instruction, jit_get_note finds what was said of it, in the    *)
(* tables that were built and with the binary searches; and nothing if     *)
(* nothing was.                                                            *)
(***************************************************************************)
NotesFound ==
  phase = "done" => \A i \in Kind({"code"}) : GetNote(At(i)) = Expected(i)

\* The sum of a sequence of numbers.
Total(s) ==
  LET sum[k \in 0..Len(s)] == IF k = 0 THEN 0 ELSE s[k] + sum[k - 1]
  IN sum[Len(s)]

(***************************************************************************)
(* The tables fit in the room that was reserved node by node, when it was  *)
(* not known what they would be.                                           *)
(***************************************************************************)
Bytes(note) == SizeofNote + Total(
  [k \in DOMAIN note.lines |-> SizeofLine + 2 * SizeofInt * Len(note.lines[k].entries)])
SpaceReserved ==
  phase \in {"annotate", "done"} => Total([k \in DOMAIN notes |-> Bytes(notes[k])]) =< space
=============================================================================
