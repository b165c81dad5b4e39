SPECIFICATION Spec
INVARIANT NotesReadable
CHECK_DEADLOCK FALSE
