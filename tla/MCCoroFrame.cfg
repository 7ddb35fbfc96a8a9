SPECIFICATION Spec
CONSTANTS
  InitialAwaiters = {"ready", "void", "transfer"}
  BodyAwaiters    = {"ready", "void", "selfDestroy", "transfer"}
  FinalAwaiters   = {"ready", "void", "transfer"}
  ResumeMayThrow  = FALSE
  IsNoexcept      = FALSE
  PromiseDelete   = "none"
  Locals          = {"x", "y"}
  SuspendPoints   = {1, 2}
  ReturnPoints    = {3, 4}
  CatchPoints     = {5, 6}
  LiveAt         <- MCLiveAt
INVARIANTS
  TypeOK
  NoLeak
  BuffersDestroyedOnce
  ResultTellsTruth
  AwaitRule
PROPERTIES
  FinishedStaysFinished
  ImplementsCoroutine
CHECK_DEADLOCK FALSE
