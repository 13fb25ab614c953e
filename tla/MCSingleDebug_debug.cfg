SPECIFICATION UndoSpec
CONSTANTS
  Byte <- MCByte
  BlockSize = 2
  MemorySize = 3
  AddressSpace = 4
  RegNum <- MCRegNum
  CsrNum <- MCCsrNum
  Fcsr = 3
  InstrSet <- MCInstrs
  Programs <- MCPrograms
  InitGpr <- MCInitGpr
  LoadedMem <- MCLoadedMem
  FloatSize = 1
  DoubleSize = 2
  Alu <- MCAlu
  FAlu <- MCFAlu
  FFlags <- MCFFlags
  Taken <- MCTaken
  JumpTarget <- MCJumpTarget
  PcWord <- MCPcWord
  Join <- MCJoin
  ByteOf <- MCByteOf
  Extend <- MCExtend
  Low <- MCLow
  NanBox <- MCNanBox
  Or <- MCOr
  AndNot <- MCAndNot
  MaxSteps = 3
  LaterPrograms <- MCLaterPrograms
INVARIANTS DebugTypeOK
PROPERTIES StepsBack StepsAgain
CHECK_DEADLOCK FALSE
