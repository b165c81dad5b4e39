SPECIFICATION Spec
CONSTANTS
  Programs <- MCPrograms
  Resources <- MCResources
  Saved <- MCSaved
  Bases <- MCBases
  Lengths <- MCLengths
  Growth = 3
  MaxInstr = 6
  Word = 2
  StackFrame = 5
  Size <- MCSize
  Unlinked = Unlinked
INVARIANT ArgumentsInFrame
CHECK_DEADLOCK FALSE
