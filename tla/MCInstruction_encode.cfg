\* four-bit registers with two-bit halves in place of 64 and 32
CONSTANTS
  Width = 4
  Half = 2
  Units <- MCUnits
  Contents <- MCContents

SPECIFICATION Spec
CHECK_DEADLOCK FALSE

INVARIANTS
  OperandsSurvive
  ImmediateSurvives
  ToldApart
  OnlyFclassFails
  AluComputesTheMeaning
  StepDoesWhatIsWritten
  OnlyDivisionTraps
