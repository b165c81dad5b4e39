SPECIFICATION Spec
INVARIANTS
  TypeOK
  ReleasedIfEmitted
  ConstantsReadable
  NotesReadableWithData
  Protected
PROPERTIES
  CallersUntouched
  KeepsPromise
CHECK_DEADLOCK FALSE
