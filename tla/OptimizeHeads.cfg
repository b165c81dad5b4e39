SPECIFICATION Spec
CONSTANTS
  Reg <- MCReg
  Saved <- MCSaved
  Ret <- MCRet
  Word <- MCWord
  Programs <- MCPrograms
  Fuel = 10
CHECK_DEADLOCK FALSE
INVARIANT RemovalsAlike
