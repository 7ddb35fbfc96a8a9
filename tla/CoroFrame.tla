------------------------------- MODULE CoroFrame -------------------------------
(***************************************************************************)
(* A heap-allocated coroutine frame: stackless_coro_crtp and the CO_*      *)
(* macros that every doStepImpl() is written with (coroutine_frame.h,      *)
(* macros.h).                                                              *)
(*                                                                         *)
(* The coroutine itself (Derived) is any body that keeps the rules the     *)
(* library sets: between two awaits it may create and destroy its locals   *)
(* as it likes, but at the point with index i exactly LiveAt[i] are alive, *)
(* because that is what its destroySuspendedCoro(i) destroys.              *)
(* The owner of the handle is any code that calls resume() and destroy()   *)
(* only where std::coroutine_handle allows it.                             *)
(***************************************************************************)
EXTENDS Awaiters, Naturals

CONSTANTS
  InitialAwaiters,    \* what initial_suspend() may return
  BodyAwaiters,       \* what the body may await or yield
  FinalAwaiters,      \* what final_suspend() may return
  ResumeMayThrow,     \* can await_resume() of a body's awaiter throw?
  IsNoexcept,         \* the template parameter isNoexcept
  PromiseDelete,      \* the operator delete the promise type declares
  Locals,             \* the local variables of the body
  SuspendPoints,      \* indices of its CO_AWAIT and CO_YIELD
  ReturnPoints,       \* indices of its CO_RETURN_*
  CatchPoints,        \* the labels its catch clauses continue at
  LiveAt              \* the locals alive at each of these

AwaiterSlots == {"initial_awaiter", "final_awaiter", "awaiter"}
Objects      == {"promise"} \cup AwaiterSlots \cup Locals
Points       == {0} \cup SuspendPoints \cup ReturnPoints \cup CatchPoints

ASSUME KindAssumption ==
  /\ InitialAwaiters \subseteq AwaiterKind
  /\ BodyAwaiters \subseteq AwaiterKind
  /\ FinalAwaiters \subseteq AwaiterKind
  /\ ResumeMayThrow \in BOOLEAN
  /\ IsNoexcept \in BOOLEAN
  /\ PromiseDelete \in {"sized", "unsized", "none"}

ASSUME BodyAssumption ==
  /\ 0 \notin SuspendPoints \cup ReturnPoints \cup CatchPoints
  /\ SuspendPoints \cap ReturnPoints = {}
  /\ CatchPoints \cap (SuspendPoints \cup ReturnPoints) = {}
  /\ LiveAt \in [Points -> SUBSET Locals]
  /\ LiveAt[0] = {}
  /\ Locals \cap ({"promise"} \cup AwaiterSlots) = {}

(* What a coroutine has to keep to for the library to hold its promises:   *)
(* no awaiter whose await_suspend() returns bool, and none whose           *)
(* await_resume() throws or that destroys the coroutine from               *)
(* unhandled_exception().  The awaiters of this repository keep to it,     *)
(* except that task_awaiter::await_resume() throws.                        *)
Disciplined ==
  /\ InitialAwaiters \cup BodyAwaiters \cup FinalAwaiters \subseteq UnambiguousKind
  /\ ~IsNoexcept => ("selfDestroy" \notin FinalAwaiters /\ ~ResumeMayThrow)

VARIABLES
  frame,      \* the frame object, see Frame
  pc,         \* what is running: the owner of the handle ("caller"), the body,
              \* doStep()'s handler before ("thrown") and after ("caught")
              \* handleException(), or nothing after std::terminate()
  result,     \* ExceptionResult::frame_destroyed of the last handleException()
  outcome,    \* how the body ended
  awaited     \* the awaiter the last step evaluated

vars == <<frame, pc, result, outcome, awaited>>

Frame ==
  [ mem        : {"none", "alive", "freed"},
    resumeFunc : {"resume", "null"},                    \* null once done
    suspendIdx : {0} \cup SuspendPoints \cup CatchPoints,
    live       : SUBSET Objects,  \* constructed and not yet destroyed
    dead       : SUBSET Objects ] \* ghost: destroyed when not alive

(* At a suspension point no frame code is on the stack, `frame` is all     *)
(* that is left of the coroutine.                                          *)
TypeOK ==
  /\ frame \in Frame
  /\ pc \in {"caller", "body", "thrown", "caught", "terminated"}
  /\ result \in BOOLEAN
  /\ outcome \in {"none", "returned", "threw"}
  /\ awaited \in AwaiterKind \cup {"none"}

Done(f)    == f.resumeFunc = "null"

(* ImplementsCoroutine: a return that forgets setDone()                    *)
SetDone_Forgotten(f) == f

SetDone(f) == [f EXCEPT !.resumeFunc = "null"]

(* CO_STORAGE_CONSTRUCT and coro_storage::destroy(): neither knows whether *)
(* its buffer holds an object.                                             *)
Construct(f, x)      == [f EXCEPT !.live = @ \cup {x}]
DestroyObjects(f, S) == [f EXCEPT !.live = @ \ S, !.dead = @ \cup (S \ f.live)]

(* What Derived::destroySuspendedCoro(idx) destroys                        *)
HeldAt(idx) ==
  LiveAt[idx] \cup (IF idx = 0 THEN {"initial_awaiter"}
                    ELSE IF idx \in SuspendPoints THEN {"awaiter"} ELSE {})

DestroySuspendedCoro(f, idx) == DestroyObjects(f, HeldAt(idx))

(* ~Derived() destroys the promise (the storage buffers have no destructor *)
(* of their own); without an operator delete in the promise type           *)
(* `delete this` then runs the destructor of the base class once more.     *)
DeleteFrame(f) ==
  LET g == DestroyObjects(f, {"promise"})
      h == IF PromiseDelete = "none" THEN DestroyObjects(g, {"promise"}) ELSE g
  IN  [h EXCEPT !.mem = "freed"]

(* NoLeak: the final awaiter is left in its buffer                         *)
DestroyFrame_KeepingFinalAwaiter(f) ==
  DeleteFrame(IF Done(f) THEN f ELSE DestroySuspendedCoro(f, f.suspendIdx))

(* BuffersDestroyedOnce: done() is not asked                               *)
DestroyFrame_IgnoringDone(f) == DeleteFrame(DestroySuspendedCoro(f, f.suspendIdx))

DestroyFrame(f) ==
  DeleteFrame(IF Done(f) THEN DestroyObjects(f, {"final_awaiter"})
                         ELSE DestroySuspendedCoro(f, f.suspendIdx))

(* An awaiter's await_suspend(handle) may have destroyed the coroutine.    *)
AwaitSuspend(f, k) == IF k = "selfDestroy" THEN DestroyFrame(f) ELSE f

(* CO_RESUME: await_resume() on the awaiter, then its destruction          *)
CoResume(f) == DestroyObjects(f, {IF f.suspendIdx = 0 THEN "initial_awaiter" ELSE "awaiter"})

(* NoLeak, ImplementsCoroutine: suspendIdx_ is set after await_suspend()   *)
CoAwait_LateIndex(f, p, k) ==
  [AwaitSuspend(Construct(f, "awaiter"), k) EXCEPT !.suspendIdx = p]

(* co_await up to the point where it either returns or falls through       *)
CoAwait(f, p, k) ==
  AwaitSuspend([Construct(f, "awaiter") EXCEPT !.suspendIdx = p], k)

(* TypeOK: co_return stores its index like co_await does                   *)
CoReturnImpl_StoringIndex(f, r, k) ==
  LET g == [Construct(SetDone(DestroySuspendedCoro(f, r)), "final_awaiter") EXCEPT !.suspendIdx = r]
  IN  IF AwaitReturns(k) THEN AwaitSuspend(g, k) ELSE DestroyFrame(g)

(* co_return at index r: the locals go, then final_suspend() is awaited    *)
CoReturnImpl(f, r, k) ==
  LET g == Construct(SetDone(DestroySuspendedCoro(f, r)), "final_awaiter")
  IN  IF AwaitReturns(k) THEN AwaitSuspend(g, k) ELSE DestroyFrame(g)

(* ResultTellsTruth: the frame goes, the result denies it                  *)
UnhandledException_Silent(f, k) ==
  LET g == Construct(SetDone(f), "final_awaiter")
  IN  [frame |-> IF UnhandledAwaitReturns(k) THEN AwaitSuspend(g, k) ELSE DestroyFrame(g),
       frame_destroyed |-> FALSE]

(* unhandled_exception(), after Derived has destroyed its locals           *)
UnhandledException(f, k) ==
  LET g == Construct(SetDone(f), "final_awaiter")
  IN  IF UnhandledAwaitReturns(k)
      THEN [frame |-> AwaitSuspend(g, k), frame_destroyed |-> FALSE]
      ELSE [frame |-> DeleteFrame(DestroyObjects(g, {"final_awaiter"})),
            frame_destroyed |-> TRUE]

BodyHolds(p) == frame.live \cap Locals = LiveAt[p]

NewFrame ==
  [mem |-> "alive", resumeFunc |-> "resume", suspendIdx |-> 0,
   live |-> {"promise"}, dead |-> {}]

Init ==
  /\ frame = [NewFrame EXCEPT !.mem = "none", !.live = {}]
  /\ pc = "caller"
  /\ result = FALSE
  /\ outcome = "none"
  /\ awaited = "none"

-------------------------------------------------------------------------------
(* ramp(): allocate, construct, await initial_suspend(); without a         *)
(* suspension handle.resume() enters the body at index 0.                  *)
Ramp(k) ==
  /\ frame.mem = "none"
  /\ LET f == Construct(NewFrame, "initial_awaiter")
     IN  IF AwaitReturns(k)
         THEN frame' = AwaitSuspend(f, k) /\ pc' = "caller"
         ELSE frame' = CoResume(f) /\ pc' = "body"
  /\ awaited' = k
  /\ UNCHANGED <<result, outcome>>

(* The owner may use a handle to a coroutine that is suspended.            *)
Suspended == pc = "caller" /\ frame.mem = "alive"

(* handle.resume(): resume(), doStep(), doStepImpl()                       *)
Resume ==
  /\ Suspended
  /\ ~Done(frame)
  /\ frame' = CoResume(frame)
  /\ pc' = "body"
  /\ awaited' = "none"
  /\ UNCHANGED <<result, outcome>>

(* An exception leaves doStepImpl(): doStep() is a noexcept function or    *)
(* catches it.                                                             *)
Throw == pc' = IF IsNoexcept THEN "terminated" ELSE "thrown"

(* The same, but await_resume() throws: the awaiter is still there, and    *)
(* CO_AWAIT has no __constructed flag for it.                              *)
ResumeThrows ==
  /\ ResumeMayThrow
  /\ Suspended
  /\ ~Done(frame)
  /\ frame.suspendIdx # 0
  /\ Throw
  /\ awaited' = "none"
  /\ UNCHANGED <<frame, result, outcome>>

(* The body goes on to some place between two awaits.                      *)
BodyWork ==
  /\ pc = "body"
  /\ \E L \in SUBSET Locals : frame' = [frame EXCEPT !.live = (@ \ Locals) \cup L]
  /\ awaited' = "none"
  /\ UNCHANGED <<pc, result, outcome>>

(* CO_AWAIT, CO_YIELD                                                      *)
BodyAwait(p, k) ==
  /\ pc = "body"
  /\ BodyHolds(p)
  /\ LET f == CoAwait(frame, p, k)
     IN  IF AwaitReturns(k)
         THEN frame' = f /\ pc' = "caller"
         ELSE frame' = CoResume(f) /\ pc' = "body"
  /\ awaited' = k
  /\ UNCHANGED <<result, outcome>>

(* CO_RETURN_VOID, CO_RETURN_VALUE                                         *)
CoReturn(r, k) ==
  /\ pc = "body"
  /\ BodyHolds(r)
  /\ frame' = CoReturnImpl(frame, r, k)
  /\ pc' = "caller"
  /\ outcome' = "returned"
  /\ awaited' = k
  /\ UNCHANGED result

BodyThrow ==
  /\ pc = "body"
  /\ Throw
  /\ awaited' = "none"
  /\ UNCHANGED <<frame, result, outcome>>

(* dispatchExceptionHandling() finds a catch clause that takes the         *)
(* exception and continues at label q.                                     *)
Catch(q) ==
  /\ pc = "thrown"
  /\ LiveAt[q] \subseteq frame.live
  /\ frame' = [DestroyObjects(frame, (frame.live \cap Locals) \ LiveAt[q])
                 EXCEPT !.suspendIdx = q]
  /\ result' = FALSE
  /\ pc' = "caught"
  /\ awaited' = "none"
  /\ UNCHANGED outcome

(* dispatchExceptionHandling() finds none.                                 *)
Unhandled(k) ==
  /\ pc = "thrown"
  /\ LET u == UnhandledException(DestroyObjects(frame, frame.live \cap Locals), k)
     IN  frame' = u.frame /\ result' = u.frame_destroyed
  /\ pc' = "caught"
  /\ outcome' = "threw"
  /\ awaited' = k

(* FinishedStaysFinished: done() is not asked before the next step         *)
AfterHandle_IgnoringDone ==
  /\ pc = "caught"
  /\ pc' = IF result THEN "caller" ELSE "body"
  /\ UNCHANGED <<frame, result, outcome, awaited>>

(* The end of doStep()'s handler: another step unless the coroutine is     *)
(* gone or done.                                                           *)
AfterHandle ==
  /\ pc = "caught"
  /\ pc' = IF result \/ Done(frame) THEN "caller" ELSE "body"
  /\ UNCHANGED <<frame, result, outcome, awaited>>

(* handle.destroy(), through the function pointer of the HandleFrame      *)
Destroy ==
  /\ Suspended
  /\ frame' = DestroyFrame(frame)
  /\ awaited' = "none"
  /\ UNCHANGED <<pc, result, outcome>>

Next ==
  \/ \E k \in InitialAwaiters : Ramp(k)
  \/ Resume
  \/ ResumeThrows
  \/ BodyWork
  \/ \E p \in SuspendPoints, k \in BodyAwaiters : BodyAwait(p, k)
  \/ \E r \in ReturnPoints, k \in FinalAwaiters : CoReturn(r, k)
  \/ BodyThrow
  \/ \E q \in CatchPoints : Catch(q)
  \/ \E k \in FinalAwaiters : Unhandled(k)
  \/ AfterHandle
  \/ Destroy

Spec == Init /\ [][Next]_vars

-------------------------------------------------------------------------------
(* Whatever the order of awaits, throws, resumptions and destroy(): once   *)
(* the frame is freed no object in it was forgotten (deleteFrame() runs no *)
(* destructor of a storage buffer, so destroySuspendedCoro() must have).   *)
NoLeak == frame.mem = "freed" => frame.live = {}

(* No buffer is destroyed that holds no object: destroy() goes by done()   *)
(* and suspendIdx_ alone, so these must always describe what is alive.     *)
BuffersDestroyedOnce == frame.dead \subseteq {"promise"}

(* ExceptionResult::frame_destroyed says what happened to the frame        *)
(* (coroutine_frame.h:13-17), so that doStep() never asks a frame that was *)
(* freed whether it is done().                                             *)
ResultTellsTruth == pc = "caught" => (result <=> frame.mem = "freed")

(* A coroutine that is done() never runs its body again, whichever of      *)
(* resume() and doStep()'s own retry (coroutine_frame.h:212-220) asks.     *)
FinishedStaysFinished == [][Done(frame) => pc' # "body"]_vars

(* The rule macros.h:7-10 states for every awaiter, wherever it is awaited:*)
(* the coroutine is suspended unless await_ready() returned true or        *)
(* await_suspend() returned false.                                         *)
AwaitRule ==
  (awaited \notin {"none", "selfDestroy"} /\ frame.mem = "alive") =>
     ((pc \in {"caller", "caught"}) <=> ShouldSuspend(awaited))

(* The life cycle the owner of the handle sees, and nothing else, is that  *)
(* of a coroutine.                                                         *)
Status ==
  IF pc = "terminated" THEN "terminated"
  ELSE IF frame.mem = "none" THEN "absent"
  ELSE IF frame.mem = "freed" THEN "destroyed"
  ELSE IF pc \in {"body", "thrown"} \/ (pc = "caught" /\ ~Done(frame)) THEN "running"
  ELSE IF Done(frame) THEN "final" ELSE "suspended"

Contract == INSTANCE Coroutine
  WITH status <- Status, live <- frame.live \cap ({"promise"} \cup Locals)

(* The lowered frame implements a coroutine (module Coroutine).            *)
ImplementsCoroutine == Contract!Spec

-------------------------------------------------------------------------------
(* The inductive invariant behind all of this, one conjunct for each place *)
(* control can be.  A suspended frame holds exactly what destroy() will    *)
(* destroy in it: that makes done() and suspendIdx_ enough to clean up.    *)
SuspendedFrame(f) ==
  f.live = {"promise"} \cup (IF Done(f) THEN {"final_awaiter"} ELSE HeldAt(f.suspendIdx))

RunningFrame(f) == ~Done(f) /\ f.live \ Locals = {"promise"}

IInv ==
  /\ TypeOK
  /\ BuffersDestroyedOnce /\ NoLeak
  /\ frame.mem = "none" =>
       pc = "caller" /\ awaited = "none" /\ outcome = "none" /\ frame.live = {} /\ ~Done(frame)
  /\ Suspended => SuspendedFrame(frame) /\ (Done(frame) \/ frame.suspendIdx \in {0} \cup SuspendPoints)
  /\ pc \in {"body", "thrown"} => frame.mem = "alive" /\ RunningFrame(frame)
  /\ pc = "thrown" => ~IsNoexcept
  /\ pc = "caught" =>
       /\ ~IsNoexcept
       /\ result <=> frame.mem = "freed"
       /\ frame.mem = "alive" => IF Done(frame) THEN SuspendedFrame(frame)
                                 ELSE RunningFrame(frame) /\ awaited = "none"
===============================================================================
