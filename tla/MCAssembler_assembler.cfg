SPECIFICATION Spec
CONSTANTS
  Sources <- MCSources
  BranchReach = 8
  JumpReach = 12
  LiReach = 1048576
  FloatReach = 7
  HostMemory = 9
  DataSectionStart = 268435456
INVARIANTS
  TypeOK AcceptedIsResolved BranchesLand AddressesAddUp LayoutsAgree EveryStatementAnswered
  RefusedIsReported LineMapExact OnlyTheseAbort
PROPERTIES
  TextLabelsStand Terminates
CHECK_DEADLOCK FALSE
