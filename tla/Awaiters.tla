------------------------------- MODULE Awaiters -------------------------------
(***************************************************************************)
(* The awaiter protocol as this library lowers it.  An awaiter is what     *)
(* initial_suspend(), final_suspend(), yield_value() or a co_awaited       *)
(* expression evaluates to; all that matters of it is how its await_ready  *)
(* and await_suspend decide whether the coroutine suspends:                *)
(*   "ready"       await_ready() is true                 (SuspendNever)    *)
(*   "void"        await_suspend returns void            (SuspendAlways)   *)
(*   "selfDestroy" it returns void and has called destroy() on the handle  *)
(*                 it was given                          (maybe_awaiter)   *)
(*   "boolTrue", "boolFalse"   it returns that bool                        *)
(*   "transfer"    it returns a handle to resume next    (task_awaiter,    *)
(*                                                   task_final_awaiter)   *)
(*                                                                         *)
(* In this and the other modules a definition X_Y is the definition X with *)
(* the defect Y.  Nothing uses it: replacing X by it shows that the        *)
(* property named in its comment can fail.                                 *)
(***************************************************************************)

AwaiterKind == {"ready", "void", "selfDestroy", "boolTrue", "boolFalse", "transfer"}

SuspendAlways == "void"
SuspendNever  == "ready"

(* The type of awaiter.await_suspend(handle), on which both awaiting code  *)
(* paths dispatch with `if constexpr`.                                     *)
AwaitSuspendType(k) ==
  CASE k \in {"boolTrue", "boolFalse"} -> "bool"
    [] k = "transfer"                  -> "handle"
    [] OTHER                           -> "void"

(* CO_AWAIT_IMPL_IMPL: does the enclosing function return at this await?   *)
AwaitReturns(k) ==
  /\ k # "ready"
  /\ AwaitSuspendType(k) = "bool" => k = "boolFalse"

(* AwaitRule: unhandled_exception() without the test of await_ready()      *)
UnhandledAwaitReturns_Unasked(k) == AwaitSuspendType(k) = "bool" => k = "boolTrue"

(* The same decision as unhandled_exception() takes it for final_suspend() *)
UnhandledAwaitReturns(k) ==
  /\ k # "ready"
  /\ AwaitSuspendType(k) = "bool" => k = "boolTrue"

(* The rule the macro's comment states, which is the one of the language:  *)
(* the coroutine is not suspended if await_ready returned true or          *)
(* await_suspend returned false, and is suspended otherwise.               *)
ShouldSuspend(k) == k \notin {"ready", "boolFalse"}

(* The awaiters for which the library's two code paths agree with the rule *)
UnambiguousKind == {"ready", "void", "selfDestroy", "transfer"}
===============================================================================
