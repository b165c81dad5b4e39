SPECIFICATION Spec
CONSTANTS
  N = 9
  Kinds = {"insn", "branch", "jmpi", "jmpr"}
  MaxCode = 5
  MaxInsns = 3
  MaxLabels = 3
  MaxBefore = 0
INVARIANT IndirectStays
CHECK_DEADLOCK FALSE
