SPECIFICATION Spec
CONSTANTS
  Functions  = {"chained", "header", "throws"}
  Arguments <- MCHeaderEngaged
  Garbage   <- MCGarbage
INVARIANTS
  TypeOK
  SameAsWithoutCoroutine
  EmplacedBeforeConversion
  DestroyedOnce
CHECK_DEADLOCK FALSE
