SPECIFICATION Spec
CONSTANTS
  Functions  = {"header"}
  Arguments <- MCEvery
  Garbage   <- MCGarbage
INVARIANTS
  SameAsWithoutCoroutine
CHECK_DEADLOCK FALSE
