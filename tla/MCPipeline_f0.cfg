SPECIFICATION LiveSpec
CONSTANTS
  HazardDetection = TRUE
  Forwarding = FALSE
  InitGpr <- MCInitGpr
  InitMem <- MCInitMem
  Word <- MCWord
  Zero = 0
  RegNum <- MCRegNum
  Mem <- MCMem
  ImmVal <- MCImmVal
  InstrSet <- ZeroFprInstrs
  Programs <- ZeroFprPrograms
  SyscallReg = 2
  Add <- MCAdd
  Alu <- MCAlu
  FAlu <- MCFAlu
  FFlags <- MCFFlags
  Taken <- MCTaken
  BranchTarget <- MCBranchTarget
  JumpTarget <- MCJumpTarget
  PcWord <- MCPcWord
  UpperZ <- MCUpperZ
  UpperS <- MCUpperS
  GprMask <- RV64
  NanBox <- MCNanBox
  Low <- MCLow
  QNaN = 14
  Load <- MCLoad
  Store <- MCStore
  Misaligned <- ByteAccess
  IsExit <- MCIsExit
INVARIANTS OperandsFresh
CHECK_DEADLOCK FALSE
