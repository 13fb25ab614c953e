\* None of these five properties holds.  TLC reports the one with the shortest counterexample;
\* without its name in this file it reports the next.
SPECIFICATION Spec
CONSTANTS
  Programs <- OtherPrograms
  NoProgram <- Empty
  Drain = 1
  MaxInstructions = 2
  MaxSteps = 2
  SignalEvery = 2
  Timers = {1, 2}
  MaxPosted = 0
  Patient = TRUE
  Timely = TRUE
INVARIANTS OneStepper NeverRunsBroken ExitEnds
PROPERTIES CompletionIsTrue SwitchStops
CHECK_DEADLOCK FALSE
