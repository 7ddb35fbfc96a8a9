SPECIFICATION Spec
CONSTANTS
  InitialAwaiters = {"ready", "void", "transfer"}
  BodyAwaiters    = {"ready", "void", "selfDestroy", "transfer"}
  FinalAwaiters   = {"ready", "void", "transfer"}
  ResumeMayThrow  = TRUE
  IsNoexcept      = FALSE
  PromiseDelete   = "none"
  Locals          = {"x", "y"}
  SuspendPoints   = {1, 2}
  ReturnPoints    = {3, 4}
  CatchPoints     = {5, 6}
  LiveAt         <- MCLiveAt
INVARIANTS
  NoLeak
CHECK_DEADLOCK FALSE
