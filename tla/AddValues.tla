------------------------------- MODULE AddValues -------------------------------
(***************************************************************************)
(* add_values(a, b) and the compute_value(x) it awaits (task_example.h):   *)
(* the loop of a task whose every iteration makes, awaits and destroys two *)
(* other tasks in the same two buffers of its frame, run by the loop of    *)
(* stackless_handle_base::resume().  Numbers are size_t.                   *)
(***************************************************************************)
EXTENDS Naturals

CONSTANTS Args,      \* the pairs <<a, b>> it is called with
          Width      \* of size_t

SizeT   == 0..(2 ^ Width - 1)
Wrap(n) == n % 2 ^ Width

ASSUME WidthAssumption == Width \in Nat \ {0} /\ 2 ^ Width \in Nat \ {0}
ASSUME ArgsAssumption  == Args \subseteq SizeT \X SizeT

VARIABLES
  args,            \* what it is called with
  a, b, res, va,   \* the members of the frame; vb_ is used where it is set
  suspendIdx,
  live,            \* the objects that exist in the frame
  inner,           \* the frame of the task in task_storage_
  pc,              \* the code that runs
  next,            \* the handle in the loop of resume()
  value            \* value_ in the promise of add_values()

vars == <<args, a, b, res, va, suspendIdx, live, inner, pc, next, value>>

Objects == {"promise_", "initial_awaiter_", "task_storage_", "awaiter_storage_", "final_awaiter_"}

NoTask == [x |-> 0, value |-> 0, continuation |-> "null"]

TypeOK ==
  /\ args \in Args
  /\ {a, b, res, va, value} \subseteq SizeT
  /\ suspendIdx \in 0..2
  /\ live \in SUBSET Objects
  /\ inner \in [x : SizeT, value : SizeT, continuation : {"null", "add_values"}]
  /\ pc \in {"owner", "loop", "while", "second"}
  /\ next \in {"null", "noop", "add_values", "compute_value"}

Exists == "promise_" \in live
Done   == "final_awaiter_" \in live

Init ==
  /\ args \in Args
  /\ a = 0 /\ b = 0 /\ res = 0 /\ va = 0 /\ value = 0
  /\ suspendIdx = 0
  /\ live = {}
  /\ inner = NoTask
  /\ pc = "owner"
  /\ next = "null"

-------------------------------------------------------------------------------
(* auto t = add_values(...): ramp() suspends at the initial awaiter.       *)
Make ==
  /\ pc = "owner" /\ ~Exists
  /\ a' = args[1] /\ b' = args[2]
  /\ suspendIdx' = 0
  /\ live' = {"promise_", "initial_awaiter_"}
  /\ UNCHANGED <<args, res, va, inner, pc, next, value>>

Start ==
  /\ pc = "owner" /\ "initial_awaiter_" \in live
  /\ pc' = "loop"
  /\ next' = "add_values"
  /\ UNCHANGED <<args, a, b, res, va, suspendIdx, live, inner, value>>

(* The loop calls resumeFunc of add_values().                              *)
Resumed(index) == pc = "loop" /\ next = "add_values" /\ suspendIdx = index /\ next' = "null"

EnterBody ==
  /\ Resumed(0)
  /\ res' = 0
  /\ live' = live \ {"initial_awaiter_"}
  /\ pc' = "while"
  /\ UNCHANGED <<args, a, b, va, suspendIdx, inner, value>>

(* Terminates: await_suspend() does not say who waits                      *)
Continuation_Unset == "null"

Continuation == "add_values"

(* TypeOK: a and b pass each other                                         *)
MoreToDo_NotEqual == a # b

MoreToDo == a < b

(* CO_INIT(task_storage_, (compute_value(x))); CO_AWAIT(index, ...): the   *)
(* new task is not done, so the loop gets its handle.                      *)
Await(index, from, x) ==
  /\ pc = from /\ MoreToDo
  /\ inner' = [NoTask EXCEPT !.x = x, !.continuation = Continuation]
  /\ live' = live \cup {"task_storage_", "awaiter_storage_"}
  /\ suspendIdx' = index
  /\ pc' = "loop"
  /\ next' = "compute_value"
  /\ UNCHANGED <<args, a, b, res, va, value>>

FinalTransfer(continuation) == IF continuation # "null" THEN continuation ELSE "noop"

(* compute_value() is resumed: co_return x * 2                             *)
RunInner ==
  /\ pc = "loop" /\ next = "compute_value"
  /\ inner' = [inner EXCEPT !.value = Wrap(@ + 2 * inner.x)]
  /\ next' = FinalTransfer(inner.continuation)
  /\ UNCHANGED <<args, a, b, res, va, suspendIdx, live, pc, value>>

Finished == live' = live \ {"awaiter_storage_", "task_storage_"} /\ inner' = NoTask

AfterFirst ==
  /\ Resumed(1)
  /\ Finished
  /\ va' = inner.value
  /\ pc' = "second"
  /\ UNCHANGED <<args, a, b, res, suspendIdx, value>>

(* ResultIsSum: --b is forgotten                                           *)
Narrowed_Once == <<a + 1, b>>

Narrowed == <<a + 1, b - 1>>

AfterSecond ==
  /\ Resumed(2)
  /\ Finished
  /\ res' = Wrap(res + va + inner.value)
  /\ a' = Narrowed[1] /\ b' = Narrowed[2]
  /\ pc' = "while"
  /\ UNCHANGED <<args, va, suspendIdx, value>>

Return ==
  /\ pc = "while" /\ ~MoreToDo
  /\ value' = res
  /\ live' = live \cup {"final_awaiter_"}
  /\ pc' = "loop"
  /\ next' = FinalTransfer("null")
  /\ UNCHANGED <<args, a, b, res, va, suspendIdx, inner>>

(* The loop calls noop_resume(), or ends.                                  *)
LoopEnds ==
  /\ pc = "loop" /\ next \in {"noop", "null"}
  /\ next' = "null"
  /\ pc' = IF next = "noop" THEN "loop" ELSE "owner"
  /\ UNCHANGED <<args, a, b, res, va, suspendIdx, live, inner, value>>

(* BuffersExact: one case for the two awaits, without the task             *)
HeldAt_AwaiterOnly(index) == IF index = 0 THEN {"initial_awaiter_"} ELSE {"awaiter_storage_"}

(* destroySuspendedCoro(index)                                             *)
HeldAt(index) ==
  IF index = 0 THEN {"initial_awaiter_"} ELSE {"awaiter_storage_", "task_storage_"}

(* What ~task() would destroy                                              *)
Held == {"promise_"} \cup (IF Done THEN {"final_awaiter_"} ELSE HeldAt(suspendIdx))

Destroy ==
  /\ pc = "owner" /\ Exists
  /\ live' = live \ Held
  /\ a' = 0 /\ b' = 0 /\ res' = 0 /\ va' = 0 /\ value' = 0
  /\ UNCHANGED <<args, suspendIdx, inner, pc, next>>

Running == EnterBody \/ Await(1, "while", a) \/ Await(2, "second", b) \/ RunInner
           \/ AfterFirst \/ AfterSecond \/ Return \/ LoopEnds

Next == Make \/ Start \/ Running \/ Destroy

Spec == Init /\ [][Next]_vars

FairSpec == Spec /\ WF_vars(Running)      \* start() is a call that goes on

-------------------------------------------------------------------------------
(* t.result() is what the same loop adds up without any task, although     *)
(* every number came through a frame that was made and freed for it, and   *)
(* sums wrap around (task_example.h:90-106).                               *)
SumFrom[p \in SizeT \X SizeT] ==
  IF p[1] < p[2] THEN Wrap(2 * p[1] + 2 * p[2] + SumFrom[<<p[1] + 1, p[2] - 1>>]) ELSE 0

ResultIsSum == (pc = "owner" /\ Done) => value = SumFrom[args]

(* Wherever the frame is suspended destroy() would find exactly what is in *)
(* its buffers, although two awaits share the same two of them.            *)
BuffersExact == pc \in {"owner", "loop"} /\ Exists => live = Held

(* start() comes back with a result: the pairs come closer, and every      *)
(* chain of handles in the loop ends (coroutine_handle.h:87-92).           *)
Terminates == pc = "loop" ~> (pc = "owner" /\ Done)
===============================================================================
