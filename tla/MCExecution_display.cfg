SPECIFICATION FairSpec
CONSTANTS
  Programs <- Endless
  NoProgram <- Empty
  Drain = 1
  MaxInstructions = 2
  MaxSteps = 2
  SignalEvery = 2
  Timers = {1}
  MaxPosted = 0
  Patient = FALSE
  Timely = TRUE
PROPERTIES UpdatesEnd
CHECK_DEADLOCK FALSE
