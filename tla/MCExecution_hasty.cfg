SPECIFICATION FairSpec
CONSTANTS
  Programs <- Endless
  NoProgram <- Empty
  Drain = 1
  MaxInstructions = 2
  MaxSteps = 2
  SignalEvery = 3
  Timers = {1}
  MaxPosted = 0
  Patient = FALSE
  Timely = FALSE
PROPERTIES WorkerReturns TimersEnd
CHECK_DEADLOCK FALSE
