------------------------------- MODULE Coroutine -------------------------------
(***************************************************************************)
(* What a coroutine promises to the code that owns its handle, whatever    *)
(* the frame behind the handle looks like: the life cycle that the         *)
(* hand-lowered frame (module CoroFrame) has to implement.                 *)
(*                                                                         *)
(* A coroutine runs until an awaiter tells it to suspend, is resumed where *)
(* it stopped, ends exactly once (by co_return or by an escaping           *)
(* exception), has destroyed its local variables by then, and has          *)
(* destroyed everything when its frame goes away.                          *)
(***************************************************************************)
EXTENDS Awaiters

CONSTANTS Locals          \* the local variables of the coroutine's body

VARIABLES
  status,    \* where the coroutine is in its life
  live,      \* the objects whose lifetime has begun and not ended
  outcome,   \* how the body ended, "none" while it has not
  awaited    \* the awaiter the last step evaluated, "none" if it was no await

vars == <<status, live, outcome, awaited>>

Status  == {"absent", "running", "suspended", "final", "destroyed", "terminated"}
Outcome == {"none", "returned", "threw"}

TypeOK ==
  /\ status \in Status
  /\ live \subseteq {"promise"} \cup Locals
  /\ outcome \in Outcome
  /\ awaited \in AwaiterKind \cup {"none"}

Init ==
  /\ status = "absent"
  /\ live = {}
  /\ outcome = "none"
  /\ awaited = "none"

(* Evaluating an awaiter leaves the coroutine suspended or lets it go on;  *)
(* an awaiter that destroyed the coroutine leaves nothing behind.          *)
Evaluate(k, suspended, resumed) ==
  /\ awaited' = k
  /\ status' = IF k = "selfDestroy" THEN "destroyed"
               ELSE IF ShouldSuspend(k) THEN suspended ELSE resumed

Start(k) ==      \* the coroutine function is called, initial_suspend() is awaited
  /\ status = "absent"
  /\ Evaluate(k, "suspended", "running")
  /\ live' = IF status' = "destroyed" THEN {} ELSE {"promise"}
  /\ UNCHANGED outcome

Resume ==        \* handle.resume()
  /\ status = "suspended"
  /\ status' = "running"
  /\ awaited' = "none"
  /\ UNCHANGED <<live, outcome>>

Work ==          \* the body runs, its locals come and go
  /\ status = "running"
  /\ \E L \in SUBSET Locals : live' = {"promise"} \cup L
  /\ awaited' = "none"
  /\ UNCHANGED <<status, outcome>>

Await(k) ==      \* co_await or co_yield
  /\ status = "running"
  /\ Evaluate(k, "suspended", "running")
  /\ live' = IF status' = "destroyed" THEN {} ELSE live
  /\ UNCHANGED outcome

Finish(k, how) == \* the body ends and final_suspend() is awaited
  /\ status = "running"
  /\ Evaluate(k, "final", "destroyed")
  /\ live' = IF status' = "destroyed" THEN {} ELSE {"promise"}
  /\ outcome' = how

Destroy ==       \* handle.destroy(), legal at any suspension point
  /\ status \in {"suspended", "final"}
  /\ status' = "destroyed"
  /\ live' = {}
  /\ awaited' = "none"
  /\ UNCHANGED outcome

Terminate ==     \* an exception leaves a coroutine declared noexcept, be it
                 \* the first thing a resumption runs into
  /\ status \in {"running", "suspended"}
  /\ status' = "terminated"
  /\ awaited' = "none"
  /\ UNCHANGED <<live, outcome>>

Next ==
  \/ \E k \in AwaiterKind :
       \/ Start(k)
       \/ Await(k)
       \/ \E how \in {"returned", "threw"} : Finish(k, how)
  \/ Resume
  \/ Work
  \/ Destroy
  \/ Terminate

Spec == Init /\ [][Next]_vars
===============================================================================
