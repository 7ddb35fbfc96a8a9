SPECIFICATION FairSpec
CONSTANTS
  Inputs     <- MCInputs
  MaxStrings = 4
  Garbage    = {TRUE, FALSE}
INVARIANTS
  TypeOK
  NothingLeft
  DestroyedOnce
  StackFollowsBadStrings
PROPERTIES
  FollowsTheComment
  AdvanceReturns
CHECK_DEADLOCK FALSE
