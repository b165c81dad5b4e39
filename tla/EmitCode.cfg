SPECIFICATION FairSpec
CONSTANTS
  Programs <- MCPrograms
  Resources <- MCResources
  Saved <- MCSaved
  Bases <- MCBases
  Lengths <- MCLengths
  Growth = 3
  MaxInstr = 6
  Word = 2
  StackFrame = 5
  Size <- MCSize
  Unlinked = Unlinked
INVARIANTS
  TypeOK
  IInv
  NoOverrun
  PatchSites
  JumpsLinked
  FramesAgree
  ArgumentsInFrameIfFits
PROPERTIES
  AgainOnlyIfStale
  KeepsPromise
CHECK_DEADLOCK FALSE
