SPECIFICATION Spec
CONSTANTS
  InitialAwaiters = {"ready", "void", "transfer"}
  BodyAwaiters    = {"ready", "void", "boolTrue", "boolFalse"}
  FinalAwaiters   = {"ready", "void", "transfer"}
  ResumeMayThrow  = FALSE
  IsNoexcept      = FALSE
  PromiseDelete   = "none"
  Locals          = {"x", "y"}
  SuspendPoints   = {1, 2}
  ReturnPoints    = {3, 4}
  CatchPoints     = {5, 6}
  LiveAt         <- MCLiveAt
INVARIANTS
  AwaitRule
CHECK_DEADLOCK FALSE
