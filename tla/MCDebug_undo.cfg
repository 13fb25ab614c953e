SPECIFICATION UndoSpec
CONSTANTS
  HazardDetection = TRUE
  Forwarding = TRUE
  InitGpr <- MCInitGpr
  InitMem <- MCInitMem
  Word <- MCWord
  Zero = 0
  RegNum <- MCRegNum
  Mem <- MCMem
  ImmVal <- MCImmVal
  InstrSet <- DebugInstrs
  Programs <- DebugPrograms
  SyscallReg = 2
  Add <- MCAdd
  Alu <- MCAlu
  FAlu <- MCFAlu
  FFlags <- MCFFlags
  Taken <- MCTaken
  BranchTarget <- MCBranchTarget
  JumpTarget <- MCJumpTarget
  PcWord <- MCPcWord
  UpperZ <- MCUpperZ
  UpperS <- MCUpperS
  GprMask <- RV64
  NanBox <- MCNanBox
  Low <- MCLow
  QNaN = 14
  Load <- MCLoad
  Store <- MCStore
  Misaligned <- HalfAccess
  IsExit <- MCIsExit
  OldBytes <- MCOldBytes
  ClearMem <- MCClearMem
  OutOfRange <- MCOutOfRange
  MaxUndo = 3
  MaxStalls = 1
  MaxRetired = 2
INVARIANTS DebugTypeOK StepInOrder StallsCounted
PROPERTIES StepsBack
CHECK_DEADLOCK FALSE
