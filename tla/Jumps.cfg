SPECIFICATION Spec
CONSTANTS
  N = 9
  Kinds = {"insn", "branch", "jmpi", "jmpr"}
  MaxCode = 5
  MaxInsns = 3
  MaxLabels = 4
  MaxBefore = 1
INVARIANTS
  TypeOK
  ThreadingKeepsMeaning
  LabelsKeepMeaning
  LinksAgreeIfPlain
  FreeApart
  BlocksInOrder
PROPERTY
  PassesEndIfNoLoop
CHECK_DEADLOCK FALSE
