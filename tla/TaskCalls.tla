------------------------------- MODULE TaskCalls -------------------------------
(***************************************************************************)
(* What tasks promise to the code written with them: co_await on a task    *)
(* behaves like a function call.  Every task that its owner starts has a   *)
(* call stack of its own; only the task on top of a stack runs; when it    *)
(* ends, by a value or an exception, its caller goes on and sees which.    *)
(* A stack may be paused (its top waits for an event) and be continued     *)
(* later where it stopped, or be cancelled as a whole.                     *)
(***************************************************************************)
EXTENDS Sequences, SequencesExt

CONSTANTS
  Tasks, Owner,
  Catchers        \* the tasks whose bodies have a try-block

VARIABLES
  stack,      \* stack[r]: the calls in progress below the task r, r first
  control,    \* the task that runs, or the Owner
  unwinding   \* is an exception on its way in the task that runs?

vars == <<stack, control, unwinding>>

TypeOK ==
  /\ stack \in [Tasks -> Seq(Tasks)]
  /\ control \in Tasks \cup {Owner}
  /\ unwinding \in BOOLEAN

Init ==
  /\ stack = [r \in Tasks |-> <<>>]
  /\ control = Owner
  /\ unwinding = FALSE

Runs(r) == stack[r] # <<>> /\ control = Last(stack[r])

Begin(r) ==
  /\ control = Owner
  /\ \A s \in Tasks : ~Contains(stack[s], r)
  /\ stack' = [stack EXCEPT ![r] = <<r>>]
  /\ control' = r
  /\ UNCHANGED unwinding

Call(r, c) ==
  /\ Runs(r)
  /\ ~unwinding
  /\ \A s \in Tasks : ~Contains(stack[s], c)
  /\ stack' = [stack EXCEPT ![r] = Append(@, c)]
  /\ control' = c
  /\ UNCHANGED unwinding

(* An exception that leaves the last call is kept for the owner.           *)
Leave(r) ==
  /\ Runs(r)
  /\ stack' = [stack EXCEPT ![r] = Front(@)]
  /\ control' = IF stack'[r] = <<>> THEN Owner ELSE Last(stack'[r])
  /\ unwinding' = (unwinding /\ stack'[r] # <<>>)

Raise(r) == Runs(r) /\ ~unwinding /\ unwinding' = TRUE /\ UNCHANGED <<stack, control>>

Catch(r) ==
  /\ Runs(r)
  /\ unwinding
  /\ control \in Catchers
  /\ unwinding' = FALSE
  /\ UNCHANGED <<stack, control>>

Pause(r) ==
  /\ Runs(r)
  /\ ~unwinding
  /\ control' = Owner
  /\ UNCHANGED <<stack, unwinding>>

Continue(r) ==
  /\ control = Owner
  /\ stack[r] # <<>>
  /\ control' = Last(stack[r])
  /\ UNCHANGED <<stack, unwinding>>

Cancel(r) ==
  /\ control = Owner
  /\ stack' = [stack EXCEPT ![r] = <<>>]
  /\ UNCHANGED <<control, unwinding>>

Next ==
  \E r \in Tasks :
    \/ Begin(r) \/ Leave(r) \/ Raise(r) \/ Catch(r)
    \/ Pause(r) \/ Continue(r) \/ Cancel(r)
    \/ \E c \in Tasks : Call(r, c)

Spec == Init /\ [][Next]_vars
===============================================================================
