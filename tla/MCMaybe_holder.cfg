SPECIFICATION Spec
CONSTANTS
  Functions  = {"chained", "throws"}
  Arguments <- MCEvery
  Garbage   <- MCGarbage
PROPERTIES
  PointerExists
CHECK_DEADLOCK FALSE
