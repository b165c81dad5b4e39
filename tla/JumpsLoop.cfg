SPECIFICATION Spec
CONSTANTS
  N = 9
  Kinds = {"insn", "branch", "jmpi", "jmpr"}
  MaxCode = 3
  MaxInsns = 3
  MaxLabels = 2
  MaxBefore = 0
PROPERTY PassesEnd
CHECK_DEADLOCK FALSE
