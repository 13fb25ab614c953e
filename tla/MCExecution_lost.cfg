SPECIFICATION Spec
CONSTANTS
  Programs <- NormalPrograms
  NoProgram <- Empty
  Drain = 1
  MaxInstructions = 2
  MaxSteps = 2
  SignalEvery = 2
  Timers = {1}
  MaxPosted = 0
  Patient = FALSE
  Timely = TRUE
PROPERTIES ResetsAlone
CHECK_DEADLOCK FALSE
