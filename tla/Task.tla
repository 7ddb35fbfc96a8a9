--------------------------------- MODULE Task ---------------------------------
(***************************************************************************)
(* task<T> (task.h) on the trampoline of stackless_handle_base::resume()   *)
(* (coroutine_handle.h): tasks that own and await other tasks, started,    *)
(* resumed and destroyed by an owner outside of any coroutine.             *)
(*                                                                         *)
(* A co_await never nests one resume() in another: every doStep() returns  *)
(* the handle to go on with, and the loop in resume() calls that.  So the  *)
(* call stack of the tasks exists only as continuation_ pointers.          *)
(* An address freed with a frame may be the address of the next frame.     *)
(***************************************************************************)
EXTENDS Naturals, Sequences

CONSTANTS
  Tasks,       \* the addresses of frames
  Catchers,    \* those of the frames whose bodies have a try-block; an
               \* address is used again by bodies of its kind only
  Owner,       \* the code that holds the outermost task objects
  null,        \* the null handle
  noop,        \* noop_coroutine()
  MaxAwaits    \* bound: awaits and caught exceptions per body

ASSUME ConstantsAssumption ==
  /\ {Owner, null, noop} \cap Tasks = {}
  /\ Catchers \subseteq Tasks
  /\ Owner # null /\ Owner # noop /\ null # noop
  /\ MaxAwaits \in Nat

VARIABLES
  at,        \* at[t]: where the coroutine t is
  owner,     \* owner[t]: who holds the task object with the handle of t
  cont,      \* cont[t]: continuation_ in the promise of t
  waits,     \* waits[t]: the task whose awaiter lives in the frame of t
  res,       \* res[t]: value_ or exception_ in the promise of t
  left,      \* left[t]: how many awaits the body of t may still do
  control,   \* the owner's code, a body, resume()'s loop, or destroy()
  next,      \* the handle in that loop
  dying      \* the frames whose destroy() is on the stack

vars == <<at, owner, cont, waits, res, left, control, next, dying>>

Where == {"free", "initial", "running", "throwing", "awaiting", "external", "done"}

TypeOK ==
  /\ at \in [Tasks -> Where]
  /\ owner \in [Tasks -> Tasks \cup {Owner}]
  /\ cont \in [Tasks -> Tasks \cup {null}]
  /\ waits \in [Tasks -> Tasks \cup {null}]
  /\ res \in [Tasks -> {"none", "value", "exception"}]
  /\ left \in [Tasks -> 0..MaxAwaits]
  /\ control \in {"owner", "body", "loop", "destroy"}
  /\ next \in Tasks \cup {null, noop}
  /\ dying \in SUBSET Tasks

Children(p) == {c \in Tasks : at[c] # "free" /\ owner[c] = p}

Init ==
  /\ at = [t \in Tasks |-> "free"]
  /\ owner = [t \in Tasks |-> Owner]
  /\ cont = [t \in Tasks |-> null]
  /\ waits = [t \in Tasks |-> null]
  /\ res = [t \in Tasks |-> "none"]
  /\ left = [t \in Tasks |-> 0]
  /\ control = "owner"
  /\ next = null
  /\ dying = {}

-------------------------------------------------------------------------------
(* ContinuationsFollowAwaits: a promise that keeps what was in its memory  *)
NewContinuation_Uninitialised(t) == cont[t]

NewContinuation(t) == null

(* A coroutine function is called, by the owner or by a body: ramp() makes *)
(* a frame, get_return_object() the task object that holds its handle, and *)
(* initial_suspend() always suspends.                                      *)
Make(o, t) ==
  /\ at[t] = "free"
  /\ at' = [at EXCEPT ![t] = "initial"]
  /\ owner' = [owner EXCEPT ![t] = o]
  /\ cont' = [cont EXCEPT ![t] = NewContinuation(t)]
  /\ waits' = [waits EXCEPT ![t] = null]
  /\ res' = [res EXCEPT ![t] = "none"]
  /\ left' = [left EXCEPT ![t] = MaxAwaits]
  /\ UNCHANGED <<control, next, dying>>

OwnerMakes(t) == control = "owner" /\ Make(Owner, t)
BodyMakes(p, t) == control = "body" /\ at[p] = "running" /\ Make(p, t)

(* handle.resume(): the first call of resumeFunc is made as if the handle  *)
(* had been returned by one.                                               *)
EnterLoop(t) ==
  /\ control = "owner"
  /\ control' = "loop"
  /\ next' = t
  /\ UNCHANGED <<at, owner, cont, waits, res, left, dying>>

Start(r) == at[r] = "initial" /\ owner[r] = Owner /\ EnterLoop(r)   \* task::start()

(* The event a body waits for comes about; whoever signals it was given    *)
(* the handle by that awaiter.                                             *)
Event(t) == at[t] = "external" /\ EnterLoop(t)

(* AwaitIsACall: result() without the test of exception_                   *)
AfterAwait_Unchecked(c) == "running"

(* task_awaiter::await_resume(): promise().result() gives the value, or    *)
(* rethrows in the frame that awaits.                                      *)
AfterAwait(c) == IF res[c] = "exception" THEN "throwing" ELSE "running"

(* One call of resumeFunc from the loop.                                   *)
LoopResumes(t) ==
  /\ control = "loop"
  /\ next = t
  /\ control' = "body"
  /\ next' = null
  /\ at' = [at EXCEPT ![t] = IF @ = "awaiting" THEN AfterAwait(waits[t]) ELSE "running"]
  /\ waits' = [waits EXCEPT ![t] = null]
  /\ UNCHANGED <<owner, cont, res, left, dying>>

(* ControlReturns: noop_resume() gives the handle to itself                *)
NoopResume_Itself == noop

NoopResume == null

LoopResumesNoop ==
  /\ control = "loop"
  /\ next = noop
  /\ next' = NoopResume
  /\ UNCHANGED <<at, owner, cont, waits, res, left, control, dying>>

LoopEnds ==
  /\ control = "loop"
  /\ next = null
  /\ control' = "owner"
  /\ UNCHANGED <<at, owner, cont, waits, res, left, next, dying>>

(* A body runs until it returns a handle to the loop.                      *)
BodyReturns(h) == control = "body" /\ control' = "loop" /\ next' = h

(* LoopTargetReady: await_ready() does not ask done()                      *)
AwaitReady_Never(c) == FALSE

AwaitReady(c) == at[c] = "done"

(* co_await on a task: task_awaiter's await_ready(), then await_suspend(). *)
Awaits(p, c) ==
  /\ at[p] = "running"
  /\ owner[c] = p
  /\ at[c] \in {"initial", "done"}
  /\ left[p] > 0
  /\ left' = [left EXCEPT ![p] = @ - 1]

AwaitDone(p, c) ==
  /\ control = "body"
  /\ Awaits(p, c) /\ AwaitReady(c)
  /\ at' = [at EXCEPT ![p] = AfterAwait(c)]
  /\ UNCHANGED <<owner, cont, waits, res, control, next, dying>>

AwaitSuspend(p, c) ==
  /\ Awaits(p, c) /\ ~AwaitReady(c)
  /\ BodyReturns(c)
  /\ cont' = [cont EXCEPT ![c] = p]
  /\ at' = [at EXCEPT ![p] = "awaiting"]
  /\ waits' = [waits EXCEPT ![p] = c]
  /\ UNCHANGED <<owner, res, dying>>

(* co_await on anything else that suspends with a void await_suspend()     *)
AwaitEvent(p) ==
  /\ at[p] = "running"
  /\ left[p] > 0
  /\ BodyReturns(null)
  /\ at' = [at EXCEPT ![p] = "external"]
  /\ left' = [left EXCEPT ![p] = @ - 1]
  /\ UNCHANGED <<owner, cont, waits, res, dying>>

(* The body destroys a task object: a child that has run or never started. *)
BodyDrops(p, c) ==
  /\ control = "body"
  /\ at[p] = "running"
  /\ owner[c] = p
  /\ at[c] \in {"initial", "done"}
  /\ at' = [at EXCEPT ![c] = "free"]
  /\ UNCHANGED <<owner, cont, waits, res, left, control, next, dying>>

Throws(p) ==
  /\ control = "body"
  /\ at[p] = "running"
  /\ at' = [at EXCEPT ![p] = "throwing"]
  /\ UNCHANGED <<owner, cont, waits, res, left, control, next, dying>>

Catches(p) ==
  /\ control = "body"
  /\ p \in Catchers
  /\ at[p] = "throwing"
  /\ left[p] > 0
  /\ at' = [at EXCEPT ![p] = "running"]
  /\ left' = [left EXCEPT ![p] = @ - 1]
  /\ UNCHANGED <<owner, cont, waits, res, control, next, dying>>

(* NoLostWakeup, StartedEnds: the final awaiter never transfers            *)
FinalTransfer_Noop(p) == noop

(* TypeOK: it transfers to whoever holds the task object                   *)
FinalTransfer_ToOwner(p) == owner[p]

(* NoOrphans: co_return without the destruction of the locals              *)
ChildrenInScope_Kept(p) == {}

ChildrenInScope(p) == Children(p)

(* co_return, or unhandled_exception() once nothing catches: the locals,   *)
(* and with them the children, are destroyed; the promise has the result;  *)
(* task_final_awaiter transfers to the continuation or to noop.            *)
FinalTransfer(p) == IF cont[p] # null THEN cont[p] ELSE noop

Finish(p) ==
  /\ at[p] \in {"running", "throwing"}
  /\ BodyReturns(FinalTransfer(p))
  /\ at' = [t \in Tasks |-> IF t = p THEN "done"
                            ELSE IF t \in ChildrenInScope(p) THEN "free" ELSE at[t]]
  /\ res' = [res EXCEPT ![p] = IF at[p] = "running" THEN "value" ELSE "exception"]
  /\ UNCHANGED <<owner, cont, waits, left, dying>>

(* ~task() or a move assignment over it, at any time the owner's code runs *)
OwnerDrops(r) ==
  /\ control = "owner"
  /\ owner[r] = Owner
  /\ at[r] # "free"
  /\ control' = "destroy"
  /\ dying' = {r}
  /\ UNCHANGED <<at, owner, cont, waits, res, left, next>>

(* destroy() of a suspended frame destroys the task objects in it first.   *)
DestroyChild(t, c) ==
  /\ control = "destroy"
  /\ t \in dying
  /\ c \in Children(t) \ dying
  /\ dying' = dying \cup {c}
  /\ UNCHANGED <<at, owner, cont, waits, res, left, control, next>>

DestroyFrame(t) ==
  /\ control = "destroy"
  /\ t \in dying
  /\ Children(t) = {}
  /\ at' = [at EXCEPT ![t] = "free"]
  /\ dying' = dying \ {t}
  /\ control' = IF dying' = {} THEN "owner" ELSE "destroy"
  /\ UNCHANGED <<owner, cont, waits, res, left, next>>

Loop == LoopResumesNoop \/ LoopEnds \/ \E t \in Tasks : LoopResumes(t)

Body ==
  \E p \in Tasks :
    \/ Throws(p) \/ Catches(p) \/ AwaitEvent(p) \/ Finish(p)
    \/ \E c \in Tasks : \/ BodyMakes(p, c) \/ BodyDrops(p, c)
                        \/ AwaitDone(p, c) \/ AwaitSuspend(p, c)

Destroying == \E t \in Tasks : DestroyFrame(t) \/ \E c \in Tasks : DestroyChild(t, c)

Outside == \E t \in Tasks : OwnerMakes(t) \/ Start(t) \/ Event(t) \/ OwnerDrops(t)

Next == Loop \/ Body \/ Destroying \/ Outside

Spec == Init /\ [][Next]_vars

-------------------------------------------------------------------------------
(* The loop never resumes a frame that was freed, has finished or is not   *)
(* suspended, and a task that awaits is resumed only when the result it    *)
(* is going to read is there (`*value_` on an empty optional otherwise).   *)
LoopTargetReady ==
  (control = "loop" /\ next \in Tasks) =>
    /\ at[next] \in {"initial", "awaiting", "external"}
    /\ at[next] = "awaiting" => res[waits[next]] # "none" /\ at[waits[next]] = "done"

(* When control is back at the owner, no task waits for one that cannot    *)
(* wake it any more: whatever a task awaits is itself awaiting something   *)
(* or can be resumed by its event.                                         *)
NoLostWakeup ==
  control = "owner" =>
    \A p \in Tasks : at[p] = "awaiting" => at[waits[p]] \in {"awaiting", "external"}

(* The continuation of an unfinished task is a live frame that awaits this *)
(* very task: addresses are used again, continuation_ is never reset.  Not *)
(* even a destroy() under way leaves one that dangles.                     *)
ContinuationsFollowAwaits ==
  \A c \in Tasks :
    (at[c] \notin {"free", "done"} /\ cont[c] # null) =>
      at[cont[c]] = "awaiting" /\ waits[cont[c]] = c /\ owner[c] = cont[c]

(* A frame is never left without the frame or the owner that will destroy  *)
(* it, not even while a recursive destroy() is under way.                  *)
NoOrphans ==
  \A c \in Tasks : (at[c] # "free" /\ owner[c] # Owner) => at[owner[c]] \notin {"free", "done"}

-------------------------------------------------------------------------------
(* The calls in progress below r, found along the frames.                  *)
CallsBelow(r) ==
  LET below[t \in Tasks] ==
        IF at[t] = "awaiting" /\ at[waits[t]] # "done"
        THEN <<t>> \o below[waits[t]] ELSE <<t>>
  IN  below[r]

Root(t) == owner[t] = Owner /\ at[t] \notin {"free", "done"} /\ t \notin dying

(* A handle the loop holds is on its way into control: a task it will      *)
(* start or continue counts as running, save one that nobody awaited yet.  *)
InControl ==
  IF control = "body" THEN {t \in Tasks : at[t] \in {"running", "throwing"}}
  ELSE IF control = "loop" THEN {next} \cap Tasks ELSE {}

Called(t) == at[t] # "initial" \/ (control = "loop" /\ next = t)

Unwinding ==
  \E t \in InControl :
    at[t] = "throwing" \/ (at[t] = "awaiting" /\ res[waits[t]] = "exception")

(* The call stacks that the frames of the tasks amount to.                 *)
CallStacks == [r \in Tasks |-> IF Root(r) /\ Called(r) THEN CallsBelow(r) ELSE <<>>]

(* The task whose code runs next, if the owner is not in control.          *)
InCharge == IF InControl = {} THEN Owner ELSE CHOOSE t \in InControl : TRUE

Calls == INSTANCE TaskCalls
  WITH stack <- CallStacks, control <- InCharge, unwinding <- Unwinding

(* co_await on a task is a function call (module TaskCalls): control comes *)
(* back to who awaits, and an exception goes up to the nearest try-block.  *)
AwaitIsACall == Calls!Spec

-------------------------------------------------------------------------------
(* resume() and destroy() are ordinary calls: the thread that runs them    *)
(* goes on, and a body that could end does not make and drop tasks for     *)
(* ever instead.                                                           *)
Fairness ==
  /\ WF_vars(Loop)
  /\ WF_vars(Destroying)
  /\ \A p \in Tasks : WF_vars(Finish(p))

(* Whoever signals an event gets to do so, however busy the owner is.      *)
FairSpec == Spec /\ Fairness /\ \A t \in Tasks : SF_vars(Event(t))

(* Every resume(), start() and destroy() returns to the owner.             *)
ControlReturns == control # "owner" ~> control = "owner"

(* If events come, a task that was started ends or is destroyed.           *)
StartedEnds == \A t \in Tasks : at[t] \in {"running", "throwing", "awaiting", "external"}
                                  ~> at[t] \in {"done", "free"}
===============================================================================
