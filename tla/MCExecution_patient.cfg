SPECIFICATION FairSpec
CONSTANTS
  Programs <- ShortPrograms
  NoProgram <- Empty
  Drain = 1
  MaxInstructions = 2
  MaxSteps = 1
  SignalEvery = 2
  Timers = {1, 2}
  MaxPosted = 0
  Patient = TRUE
  Timely = TRUE
INVARIANTS TypeOK
PROPERTIES ResetsAlone PausedStandsStill UpdatesEnd
CHECK_DEADLOCK FALSE
