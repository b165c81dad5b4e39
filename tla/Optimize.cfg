SPECIFICATION Spec
CONSTANTS
  Reg <- MCReg
  Saved <- MCSaved
  Ret <- MCRet
  Word <- MCWord
  Programs <- MCPrograms
  Fuel = 10
CHECK_DEADLOCK FALSE
INVARIANTS
  TypeOK SimplifiedAlike LiveKept Undisturbed LentApart SavedIfChanged
PROPERTY OptimizeEnds
