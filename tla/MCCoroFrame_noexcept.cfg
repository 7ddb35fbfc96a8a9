SPECIFICATION Spec
CONSTANTS
  InitialAwaiters = {"ready", "void", "selfDestroy", "transfer"}
  BodyAwaiters    = {"ready", "void", "selfDestroy", "transfer"}
  FinalAwaiters   = {"ready", "void", "selfDestroy", "transfer"}
  ResumeMayThrow  = TRUE
  IsNoexcept      = TRUE
  PromiseDelete   = "sized"
  Locals          = {"x", "y", "z"}
  SuspendPoints   = {1, 2, 5}
  ReturnPoints    = {3, 4, 6}
  CatchPoints     = {}
  LiveAt         <- MCLiveAt
INVARIANTS
  NoLeak
  BuffersDestroyedOnce
PROPERTIES
  ImplementsCoroutine
CHECK_DEADLOCK FALSE
