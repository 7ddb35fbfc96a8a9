SPECIFICATION Spec
CONSTANTS
  Inputs     <- MCInputs
  MaxStrings = 2
  Garbage    = {TRUE, FALSE}
INVARIANTS
  FlagsTrackConstruction
CHECK_DEADLOCK FALSE
