SPECIFICATION InterfaceSpec
CONSTANTS
  Constants <- MCConstants
  Length <- MCLength
  Hash <- MCHash
  Page = 16
  TableSize = 2
  Names = {"h"}
  Files = {"e", "g"}
  Lines = {1, 2}
  Immediates <- MCImmediates
  MaxNodes = 5
  ArgRegs = 1
  FloatRegs = 1
  Saves = 2
  Lengths = {1, 200}
  Sizes = {17}
  Requests = {64}
  MaxCalls = 5
  MaxSpills = 1
  MaxRun = 2
CHECK_DEADLOCK FALSE
INVARIANTS TypeOK Fits AlignedIfOnce NotesFound SpaceReserved
  FrameTypeOK ByConvention FrameApart VarargsFound
PROPERTY OnePlaceEach
