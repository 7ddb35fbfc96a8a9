---------------------------- MODULE CoroFrameProofs ----------------------------
(***************************************************************************)
(* Proofs about CoroFrame for every body, every set of awaiters that is    *)
(* Disciplined, and every promise type.                                    *)
(***************************************************************************)
EXTENDS CoroFrame, TLAPS

(* What destroySuspendedCoro(idx) goes through are objects of the frame,   *)
(* never the promise or the final awaiter.                                 *)
LEMMA HeldObjects ==
  ASSUME NEW i \in Points
  PROVE  /\ HeldAt(i) \subseteq Objects
         /\ "promise" \notin HeldAt(i)
         /\ "final_awaiter" \notin HeldAt(i)
BY BodyAssumption DEF HeldAt, Objects, AwaiterSlots, Points

(* Destroying objects that are all alive marks none as destroyed twice.    *)
LEMMA DestroyLive ==
  ASSUME NEW f \in Frame, NEW S \in SUBSET Objects
  PROVE  /\ DestroyObjects(f, S) \in Frame
         /\ DestroyObjects(f, S).live = f.live \ S
         /\ DestroyObjects(f, S).dead = f.dead \cup (S \ f.live)
         /\ S \subseteq f.live => DestroyObjects(f, S).dead = f.dead
         /\ DestroyObjects(f, S).mem = f.mem
         /\ DestroyObjects(f, S).resumeFunc = f.resumeFunc
         /\ DestroyObjects(f, S).suspendIdx = f.suspendIdx
BY DEF DestroyObjects, Frame

(* deleteFrame() on a frame that holds the promise and nothing else.       *)
LEMMA DeleteFrameFacts ==
  ASSUME NEW f \in Frame, f.live = {"promise"}, f.dead \subseteq {"promise"}
  PROVE  /\ DeleteFrame(f) \in Frame
         /\ DeleteFrame(f).live = {}
         /\ DeleteFrame(f).dead \subseteq {"promise"}
         /\ DeleteFrame(f).mem = "freed"
<1> DEFINE g == DestroyObjects(f, {"promise"})
           h == DestroyObjects(g, {"promise"})
<1>1. {"promise"} \in SUBSET Objects
  BY DEF Objects
<1>2. g \in Frame /\ g.live = {} /\ g.dead \subseteq {"promise"}
  BY <1>1, DestroyLive
<1> HIDE DEF g
<1>3. h \in Frame /\ h.live = {} /\ h.dead \subseteq {"promise"}
  BY <1>1, <1>2, DestroyLive
<1> HIDE DEF h
<1>4. DeleteFrame(f) = [g EXCEPT !.mem = "freed"] \/ DeleteFrame(f) = [h EXCEPT !.mem = "freed"]
  BY DEF DeleteFrame, g, h
<1>. QED
  BY <1>2, <1>3, <1>4 DEF Frame

(* destroy() on a suspended frame finds exactly what it destroys.          *)
LEMMA DestroyFrameFacts ==
  ASSUME NEW f \in Frame, SuspendedFrame(f), f.dead \subseteq {"promise"},
         Done(f) \/ f.suspendIdx \in {0} \cup SuspendPoints
  PROVE  /\ DestroyFrame(f) \in Frame
         /\ DestroyFrame(f).live = {}
         /\ DestroyFrame(f).dead \subseteq {"promise"}
         /\ DestroyFrame(f).mem = "freed"
<1> DEFINE S == IF Done(f) THEN {"final_awaiter"} ELSE HeldAt(f.suspendIdx)
           g == DestroyObjects(f, S)
<1>1. f.suspendIdx \in Points
  BY DEF Frame, Points
<1>2. S \in SUBSET Objects /\ "promise" \notin S
  BY <1>1, HeldObjects DEF Objects, AwaiterSlots
<1>3. f.live = {"promise"} \cup S
  BY DEF SuspendedFrame
<1> HIDE DEF S
<1>4. g \in Frame /\ g.live = {"promise"} /\ g.dead \subseteq {"promise"}
  BY <1>2, <1>3, DestroyLive
<1>5. DestroyFrame(f) = DeleteFrame(g)
  BY DEF DestroyFrame, DestroySuspendedCoro, g, S
<1> HIDE DEF g
<1>. QED
  BY <1>4, <1>5, DeleteFrameFacts

(* A frame whose body is running becomes one suspended at p.               *)
LEMMA CoAwaitFacts ==
  ASSUME NEW f \in Frame, RunningFrame(f), f.dead \subseteq {"promise"},
         NEW p \in SuspendPoints, f.live \cap Locals = LiveAt[p],
         NEW k, k # "selfDestroy"
  PROVE  /\ CoAwait(f, p, k) \in Frame
         /\ SuspendedFrame(CoAwait(f, p, k))
         /\ ~Done(CoAwait(f, p, k))
         /\ CoAwait(f, p, k).suspendIdx = p
         /\ CoAwait(f, p, k).dead = f.dead
         /\ CoAwait(f, p, k).mem = f.mem
<1> DEFINE g == [Construct(f, "awaiter") EXCEPT !.suspendIdx = p]
<1>1. CoAwait(f, p, k) = g
  BY DEF CoAwait, AwaitSuspend
<1>2. f.live \cup {"awaiter"} = {"promise"} \cup HeldAt(p)
  BY BodyAssumption DEF RunningFrame, HeldAt, AwaiterSlots
<1>3. /\ g \in Frame /\ g.live = f.live \cup {"awaiter"} /\ g.suspendIdx = p
      /\ g.resumeFunc = f.resumeFunc /\ g.dead = f.dead /\ g.mem = f.mem
  BY DEF Construct, Frame, Objects, AwaiterSlots
<1> HIDE DEF g
<1>. QED
  BY <1>1, <1>2, <1>3 DEF SuspendedFrame, Done, RunningFrame

(* The same when the awaiter destroys the coroutine it suspends.           *)
LEMMA CoAwaitSelfDestroyFacts ==
  ASSUME NEW f \in Frame, RunningFrame(f), f.dead \subseteq {"promise"},
         NEW p \in SuspendPoints, f.live \cap Locals = LiveAt[p]
  PROVE  /\ CoAwait(f, p, "selfDestroy") \in Frame
         /\ CoAwait(f, p, "selfDestroy").live = {}
         /\ CoAwait(f, p, "selfDestroy").dead \subseteq {"promise"}
         /\ CoAwait(f, p, "selfDestroy").mem = "freed"
<1> DEFINE g == CoAwait(f, p, "void")
<1>1. CoAwait(f, p, "selfDestroy") = DestroyFrame(g)
  BY DEF CoAwait, AwaitSuspend
<1>2. g \in Frame /\ SuspendedFrame(g) /\ g.dead = f.dead /\ g.suspendIdx = p
  BY CoAwaitFacts
<1> HIDE DEF g
<1>. QED
  BY <1>1, <1>2, DestroyFrameFacts

(* CO_RESUME leaves a suspended frame as the body left it.                 *)
LEMMA CoResumeFacts ==
  ASSUME NEW f \in Frame, SuspendedFrame(f), ~Done(f), f.suspendIdx \in {0} \cup SuspendPoints
  PROVE  /\ CoResume(f) \in Frame
         /\ RunningFrame(CoResume(f))
         /\ CoResume(f).live = {"promise"} \cup LiveAt[f.suspendIdx]
         /\ CoResume(f).dead = f.dead
         /\ CoResume(f).mem = f.mem
<1> DEFINE x == IF f.suspendIdx = 0 THEN "initial_awaiter" ELSE "awaiter"
<1>1. {x} \in SUBSET Objects
  BY DEF Objects, AwaiterSlots
<1>2. x \in f.live /\ f.live \ {x} = {"promise"} \cup LiveAt[f.suspendIdx]
  BY BodyAssumption DEF SuspendedFrame, HeldAt, AwaiterSlots, Points
<1>3. CoResume(f) = DestroyObjects(f, {x})
  BY DEF CoResume
<1> HIDE DEF x
<1>4. LiveAt[f.suspendIdx] \subseteq Locals /\ "promise" \notin Locals
  BY BodyAssumption DEF Points
<1> DEFINE g == DestroyObjects(f, {x})
<1>5. /\ g \in Frame /\ g.live = {"promise"} \cup LiveAt[f.suspendIdx]
      /\ g.dead = f.dead /\ g.mem = f.mem
      /\ g.resumeFunc = f.resumeFunc
  BY <1>1, <1>2, DestroyLive
<1> HIDE DEF g
<1>6. RunningFrame(g)
  BY <1>4, <1>5 DEF RunningFrame, Done
<1>. QED
  BY <1>3, <1>5, <1>6 DEF g

(* Both ends of a body await final_suspend() on a frame like this one.     *)
LEMMA FinalFacts ==
  ASSUME NEW f \in Frame, f.live = {"promise"}, f.dead \subseteq {"promise"}
  PROVE  LET g == Construct(SetDone(f), "final_awaiter")
         IN  /\ g \in Frame /\ SuspendedFrame(g) /\ Done(g)
             /\ g.dead = f.dead /\ g.mem = f.mem
             /\ g.live = {"promise", "final_awaiter"}
BY DEF Construct, SetDone, Frame, SuspendedFrame, Done, Objects, AwaiterSlots

(* co_return leaves a finished frame, or none.                             *)
LEMMA CoReturnFacts ==
  ASSUME NEW f \in Frame, RunningFrame(f), f.dead \subseteq {"promise"},
         NEW r \in ReturnPoints, f.live \cap Locals = LiveAt[r],
         NEW k \in UnambiguousKind
  PROVE  LET g == CoReturnImpl(f, r, k)
         IN  /\ g \in Frame /\ g.dead \subseteq {"promise"}
             /\ k \in {"void", "transfer"} =>
                  g.mem = f.mem /\ Done(g) /\ SuspendedFrame(g) /\ g.live = {"promise", "final_awaiter"}
             /\ k \in {"ready", "selfDestroy"} => g.mem = "freed" /\ g.live = {}
<1> DEFINE d == DestroySuspendedCoro(f, r)
           g == Construct(SetDone(d), "final_awaiter")
<1>1. HeldAt(r) = LiveAt[r] /\ LiveAt[r] \in SUBSET Objects /\ LiveAt[r] \subseteq f.live
  BY BodyAssumption DEF HeldAt, Points, Objects
<1>2. f.live \ LiveAt[r] = {"promise"}
  BY BodyAssumption DEF RunningFrame
<1>3. d \in Frame /\ d.live = {"promise"} /\ d.dead = f.dead /\ d.mem = f.mem
  <2>1. d = DestroyObjects(f, LiveAt[r])
    BY <1>1 DEF DestroySuspendedCoro
  <2>. QED
    BY <1>1, <1>2, <2>1, DestroyLive
<1> HIDE DEF d
<1>4. /\ g \in Frame /\ SuspendedFrame(g) /\ Done(g)
      /\ g.dead = f.dead /\ g.mem = f.mem
      /\ g.live = {"promise", "final_awaiter"}
  BY <1>3, FinalFacts
<1>5. CoReturnImpl(f, r, k) = IF k \in {"void", "transfer"} THEN g ELSE DestroyFrame(g)
  BY DEF CoReturnImpl, AwaitReturns, AwaitSuspend, AwaitSuspendType, UnambiguousKind, d, g
<1> HIDE DEF g
<1>. QED
  BY <1>4, <1>5, DestroyFrameFacts

(* unhandled_exception() does, too, and says which.                        *)
LEMMA UnhandledFacts ==
  ASSUME NEW f \in Frame, f.live = {"promise"}, f.dead \subseteq {"promise"},
         NEW k \in UnambiguousKind \ {"selfDestroy"}
  PROVE  LET u == UnhandledException(f, k)
         IN  /\ u.frame \in Frame /\ u.frame.dead \subseteq {"promise"}
             /\ u.frame_destroyed \in BOOLEAN
             /\ k \in {"void", "transfer"} =>
                  /\ u.frame.mem = f.mem /\ ~u.frame_destroyed
                  /\ Done(u.frame) /\ SuspendedFrame(u.frame)
                  /\ u.frame.live = {"promise", "final_awaiter"}
             /\ k = "ready" => u.frame.mem = "freed" /\ u.frame.live = {} /\ u.frame_destroyed
<1> DEFINE g == Construct(SetDone(f), "final_awaiter")
           d == DestroyObjects(g, {"final_awaiter"})
           u == UnhandledException(f, k)
<1>1. /\ g \in Frame /\ SuspendedFrame(g) /\ Done(g)
      /\ g.dead = f.dead /\ g.mem = f.mem
      /\ g.live = {"promise", "final_awaiter"}
  BY FinalFacts
<1>2. /\ k \in {"void", "transfer"} => u = [frame |-> g, frame_destroyed |-> FALSE]
      /\ k = "ready" => u = [frame |-> DeleteFrame(d), frame_destroyed |-> TRUE]
      /\ k \in {"void", "transfer", "ready"}
  BY DEF UnhandledException, UnhandledAwaitReturns, AwaitSuspend, AwaitSuspendType, UnambiguousKind
<1> HIDE DEF g, u
<1>3. d \in Frame /\ d.live = {"promise"} /\ d.dead = g.dead
  <2>1. {"final_awaiter"} \in SUBSET Objects
    BY DEF Objects, AwaiterSlots
  <2>2. {"promise", "final_awaiter"} \ {"final_awaiter"} = {"promise"}
    OBVIOUS
  <2>. QED
    BY <1>1, <2>1, <2>2, DestroyLive
<1> HIDE DEF d
<1>4. CASE k \in {"void", "transfer"}
  <2>1. u.frame = g /\ u.frame_destroyed = FALSE
    BY <1>2, <1>4
  <2>. QED
    BY <1>1, <1>4, <2>1 DEF u
<1>5. CASE k = "ready"
  <2>1. u.frame = DeleteFrame(d) /\ u.frame_destroyed = TRUE
    BY <1>2, <1>5
  <2>. QED
    BY <1>1, <1>3, <1>5, <2>1, DeleteFrameFacts DEF u
<1>. QED
  BY <1>2, <1>4, <1>5

-------------------------------------------------------------------------------
(* Every initial state satisfies the invariant.                            *)
LEMMA InitInv == Init => IInv
<1> SUFFICES ASSUME Init PROVE IInv
  OBVIOUS
<1>1. frame \in Frame
  BY BodyAssumption DEF Init, NewFrame, Frame, Objects, Points
<1>. QED
  BY <1>1 DEF Init, NewFrame, IInv, TypeOK, BuffersDestroyedOnce, NoLeak, Suspended, Done

(* Every step keeps the invariant: one step of the proof per action.       *)
LEMMA StepInv ==
  ASSUME Disciplined, IInv, [Next]_vars
  PROVE  IInv'
<1> USE DEF IInv, TypeOK, BuffersDestroyedOnce, NoLeak, Suspended
<1>a. /\ InitialAwaiters \cup BodyAwaiters \cup FinalAwaiters \subseteq UnambiguousKind
      /\ ~IsNoexcept => ("selfDestroy" \notin FinalAwaiters /\ ~ResumeMayThrow)
      /\ UnambiguousKind \subseteq AwaiterKind
  BY DEF Disciplined, UnambiguousKind, AwaiterKind
<1>b. \A k \in UnambiguousKind : AwaitReturns(k) <=> k # "ready"
  BY DEF UnambiguousKind, AwaitReturns, AwaitSuspendType
<1>1. ASSUME NEW k \in InitialAwaiters, Ramp(k) PROVE IInv'
  <2> DEFINE f == Construct(NewFrame, "initial_awaiter")
  <2>1. /\ f \in Frame /\ SuspendedFrame(f) /\ ~Done(f) /\ f.suspendIdx = 0
        /\ f.dead = {} /\ f.mem = "alive"
    <3>1. f = [NewFrame EXCEPT !.live = {"promise", "initial_awaiter"}]
      BY DEF Construct, NewFrame
    <3>2. HeldAt(0) = {"initial_awaiter"}
      BY BodyAssumption DEF HeldAt
    <3>. QED
      BY <3>1, <3>2 DEF NewFrame, Frame, SuspendedFrame, Done, Objects, AwaiterSlots
  <2>2. /\ pc = "caller" /\ awaited' = k /\ k \in UnambiguousKind
        /\ IF k # "ready" THEN frame' = AwaitSuspend(f, k) /\ pc' = "caller"
                          ELSE frame' = CoResume(f) /\ pc' = "body"
        /\ UNCHANGED <<result, outcome>>
    BY <1>1, <1>a, <1>b DEF Ramp
  <2> HIDE DEF f
  <2>3. CASE k = "ready"
    BY <1>a, <2>1, <2>2, <2>3, CoResumeFacts
  <2>4. CASE k = "selfDestroy"
    BY <1>a, <2>1, <2>2, <2>4, DestroyFrameFacts DEF AwaitSuspend
  <2>5. CASE k \notin {"ready", "selfDestroy"}
    BY <1>a, <2>1, <2>2, <2>5 DEF AwaitSuspend
  <2>. QED
    BY <2>3, <2>4, <2>5
<1>2. ASSUME Resume PROVE IInv'
  BY <1>2, CoResumeFacts DEF Resume
<1>3. ASSUME ResumeThrows PROVE IInv'
  BY <1>3, <1>a DEF ResumeThrows, Throw
<1>4. ASSUME BodyWork PROVE IInv'
  <2>1. PICK L \in SUBSET Locals : frame' = [frame EXCEPT !.live = (@ \ Locals) \cup L]
    BY <1>4 DEF BodyWork
  <2>2. /\ frame' \in Frame /\ frame'.live \ Locals = {"promise"} /\ ~Done(frame')
        /\ frame'.dead = frame.dead /\ frame'.mem = frame.mem
    BY <1>4, <2>1 DEF BodyWork, Frame, Objects, RunningFrame, Done
  <2>. QED
    BY <1>4, <2>2 DEF BodyWork, RunningFrame
<1>5. ASSUME NEW p \in SuspendPoints, NEW k \in BodyAwaiters, BodyAwait(p, k) PROVE IInv'
  <2> DEFINE f == CoAwait(frame, p, k)
  <2>1. /\ pc = "body" /\ awaited' = k /\ k \in UnambiguousKind
        /\ frame.live \cap Locals = LiveAt[p]
        /\ IF k # "ready" THEN frame' = f /\ pc' = "caller"
                          ELSE frame' = CoResume(f) /\ pc' = "body"
        /\ UNCHANGED <<result, outcome>>
    BY <1>5, <1>a, <1>b DEF BodyAwait, BodyHolds
  <2>2. CASE k = "selfDestroy"
    BY <1>a, <2>1, <2>2, CoAwaitSelfDestroyFacts
  <2>3. CASE k # "selfDestroy"
    <3>1. /\ f \in Frame /\ SuspendedFrame(f) /\ ~Done(f) /\ f.suspendIdx = p
          /\ f.dead = frame.dead /\ f.mem = frame.mem
      BY <2>1, <2>3, CoAwaitFacts
    <3> HIDE DEF f
    <3>2. CASE k = "ready"
      BY <1>a, <2>1, <3>1, <3>2, CoResumeFacts
    <3>3. CASE k # "ready"
      BY <1>a, <2>1, <3>1, <3>3
    <3>. QED
      BY <3>2, <3>3
  <2>. QED
    BY <2>2, <2>3
<1>6. ASSUME NEW r \in ReturnPoints, NEW k \in FinalAwaiters, CoReturn(r, k) PROVE IInv'
  <2>1. k \in UnambiguousKind /\ k \in {"void", "transfer", "ready", "selfDestroy"}
    BY <1>a DEF UnambiguousKind
  <2>. QED
    BY <1>6, <1>a, <2>1, CoReturnFacts DEF CoReturn, BodyHolds
<1>7. ASSUME BodyThrow PROVE IInv'
  BY <1>7, KindAssumption DEF BodyThrow, Throw
<1>8. ASSUME NEW q \in CatchPoints, Catch(q) PROVE IInv'
  <2> DEFINE S == (frame.live \cap Locals) \ LiveAt[q]
             g == DestroyObjects(frame, S)
  <2>1. S \in SUBSET Objects /\ S \subseteq frame.live /\ S \subseteq Locals
    BY DEF Objects
  <2> HIDE DEF S
  <2>2. /\ g \in Frame /\ g.live = frame.live \ S /\ g.dead = frame.dead
        /\ g.mem = frame.mem /\ g.resumeFunc = frame.resumeFunc
    BY <2>1, DestroyLive
  <2>3. frame' = [g EXCEPT !.suspendIdx = q]
    BY <1>8 DEF Catch, g, S
  <2> HIDE DEF g
  <2>4. /\ frame' \in Frame /\ frame'.live = g.live /\ frame'.dead = g.dead
        /\ frame'.mem = g.mem /\ frame'.resumeFunc = g.resumeFunc
    BY <2>2, <2>3 DEF Frame
  <2>5. RunningFrame(frame')
    BY <1>8, <2>1, <2>2, <2>4, BodyAssumption DEF Catch, RunningFrame, Done
  <2>. QED
    BY <1>8, <2>2, <2>4, <2>5 DEF Catch, RunningFrame
<1>9. ASSUME NEW k \in FinalAwaiters, Unhandled(k) PROVE IInv'
  <2> DEFINE S == frame.live \cap Locals
             f == DestroyObjects(frame, S)
             u == UnhandledException(f, k)
  <2>1. S \in SUBSET Objects /\ S \subseteq frame.live /\ frame.live \ S = frame.live \ Locals
    BY DEF Objects
  <2>2. f \in Frame /\ f.live = {"promise"} /\ f.dead = frame.dead /\ f.mem = "alive"
    BY <1>9, <2>1, DestroyLive DEF Unhandled, RunningFrame
  <2>3. /\ pc = "thrown" /\ frame' = u.frame /\ result' = u.frame_destroyed
        /\ pc' = "caught" /\ outcome' = "threw" /\ awaited' = k
    BY <1>9 DEF Unhandled
  <2> HIDE DEF f, S
  <2>4. k \in UnambiguousKind \ {"selfDestroy"} /\ k \in {"void", "transfer", "ready"}
    BY <1>9, <1>a DEF Unhandled, UnambiguousKind
  <2>5. /\ u.frame \in Frame /\ u.frame.dead \subseteq {"promise"}
        /\ u.frame_destroyed \in BOOLEAN
        /\ k \in {"void", "transfer"} =>
             u.frame.mem = "alive" /\ ~u.frame_destroyed /\ Done(u.frame) /\ SuspendedFrame(u.frame)
        /\ k = "ready" => u.frame.mem = "freed" /\ u.frame.live = {} /\ u.frame_destroyed
    BY <2>2, <2>4, UnhandledFacts
  <2> HIDE DEF u
  <2>. QED
    BY <1>a, <2>3, <2>4, <2>5
<1>10. ASSUME AfterHandle PROVE IInv'
  <2>1. /\ frame' = frame
        /\ pc = "caught" /\ pc' = IF result \/ Done(frame) THEN "caller" ELSE "body"
        /\ UNCHANGED <<result, outcome, awaited>>
    BY <1>10 DEF AfterHandle
  <2>2. frame.mem \in {"alive", "freed"}
    BY <2>1 DEF Frame
  <2>. QED
    BY <2>1, <2>2
<1>11. ASSUME Destroy PROVE IInv'
  BY <1>11, DestroyFrameFacts DEF Destroy
<1>12. ASSUME UNCHANGED vars PROVE IInv'
  BY <1>12 DEF vars, SuspendedFrame, RunningFrame, Done
<1>. QED
  BY <1>1, <1>2, <1>3, <1>4, <1>5, <1>6, <1>7, <1>8, <1>9, <1>10, <1>11, <1>12 DEF Next

(* The invariant holds in every reachable state of a disciplined coroutine.*)
THEOREM Inductive == ASSUME Disciplined PROVE Spec => []IInv
<1>1. Init => IInv
  BY InitInv
<1>2. IInv /\ [Next]_vars => IInv'
  BY StepInv
<1>. QED
  BY <1>1, <1>2, PTL DEF Spec

(* The frame is always a well-formed frame.                                *)
THEOREM TypeCorrect == ASSUME Disciplined PROVE Spec => []TypeOK
<1>1. IInv => TypeOK
  BY DEF IInv
<1>. QED
  BY <1>1, Inductive, PTL

(* destroySuspendedCoro() and the final awaiter's destruction between them *)
(* destroy everything before deleteFrame(), at every suspension point.     *)
THEOREM NothingLeaks == ASSUME Disciplined PROVE Spec => []NoLeak
<1>1. IInv => NoLeak
  BY DEF IInv
<1>. QED
  BY <1>1, Inductive, PTL

(* ... and destroy nothing that is not there, the promise excepted.        *)
THEOREM BuffersSafe == ASSUME Disciplined PROVE Spec => []BuffersDestroyedOnce
<1>1. IInv => BuffersDestroyedOnce
  BY DEF IInv
<1>. QED
  BY <1>1, Inductive, PTL

(* doStep() trusts ExceptionResult and may: it is right, so that the frame *)
(* is not read after it was freed.                                         *)
THEOREM ResultTrustworthy == ASSUME Disciplined PROVE Spec => []ResultTellsTruth
<1>1. IInv => ResultTellsTruth
  BY DEF IInv, ResultTellsTruth
<1>. QED
  BY <1>1, Inductive, PTL

(* No step takes a coroutine that is done back into its body.              *)
THEOREM StaysFinished == ASSUME Disciplined PROVE Spec => FinishedStaysFinished
<1>1. IInv /\ [Next]_vars => [Done(frame) => pc' # "body"]_vars
  <2> SUFFICES ASSUME IInv, Next, Done(frame) PROVE pc' # "body"
    OBVIOUS
  <2>1. pc \notin {"body", "thrown"} /\ frame.mem # "none"
    BY DEF IInv, RunningFrame, Done, TypeOK, Frame
  <2>. QED
    BY <2>1 DEF Next, Ramp, Resume, ResumeThrows, BodyWork, BodyAwait, CoReturn, BodyThrow,
       Catch, Unhandled, AfterHandle, Destroy, Suspended, Throw
<1>. QED
  BY <1>1, Inductive, PTL DEF Spec, FinishedStaysFinished

(* The code suspends at every await where the rule says so, in the body,   *)
(* in ramp() and in unhandled_exception() alike.                           *)
THEOREM AwaitsByTheRule == ASSUME Disciplined PROVE Spec => []AwaitRule
<1>1. Init => AwaitRule
  BY DEF Init, AwaitRule
<1>2. ASSUME IInv, IInv', AwaitRule, [Next]_vars PROVE AwaitRule'
  <2>a. /\ InitialAwaiters \cup BodyAwaiters \cup FinalAwaiters \subseteq UnambiguousKind
        /\ \A k \in UnambiguousKind :
             (AwaitReturns(k) <=> ShouldSuspend(k)) /\ (UnhandledAwaitReturns(k) <=> ShouldSuspend(k))
    BY DEF Disciplined, UnambiguousKind, AwaitReturns, UnhandledAwaitReturns, AwaitSuspendType, ShouldSuspend
  <2>1. ASSUME NEW k \in InitialAwaiters, Ramp(k) PROVE AwaitRule'
    BY <2>a, <2>1 DEF Ramp, AwaitRule
  <2>2. ASSUME NEW p \in SuspendPoints, NEW k \in BodyAwaiters, BodyAwait(p, k) PROVE AwaitRule'
    BY <2>a, <2>2 DEF BodyAwait, AwaitRule
  <2>3. ASSUME NEW r \in ReturnPoints, NEW k \in FinalAwaiters, CoReturn(r, k) PROVE AwaitRule'
    <3>1. k \in UnambiguousKind /\ frame \in Frame /\ RunningFrame(frame) /\ frame.dead \subseteq {"promise"}
      BY <1>2, <2>a, <2>3 DEF CoReturn, IInv, TypeOK, BuffersDestroyedOnce
    <3>2. k = "ready" => frame'.mem = "freed"
      BY <2>3, <3>1, CoReturnFacts DEF CoReturn, BodyHolds
    <3>3. awaited' = k /\ pc' = "caller" /\ (ShouldSuspend(k) <=> k # "ready")
      BY <2>3, <3>1 DEF CoReturn, ShouldSuspend, UnambiguousKind
    <3>. QED
      BY <3>2, <3>3 DEF AwaitRule
  <2>4. ASSUME NEW k \in FinalAwaiters, Unhandled(k) PROVE AwaitRule'
    <3>1. awaited' = k /\ pc' = "caught" /\ (result' <=> ~ShouldSuspend(k))
      BY <2>a, <2>4 DEF Unhandled, UnhandledException
    <3>. QED
      BY <1>2, <3>1 DEF AwaitRule, IInv
  <2>5. ASSUME AfterHandle PROVE AwaitRule'
    <3>1. frame.mem # "none" /\ frame'.mem = frame.mem
      BY <1>2, <2>5 DEF AfterHandle, IInv, TypeOK, Frame
    <3>. QED
      BY <1>2, <2>5, <3>1 DEF AfterHandle, AwaitRule, IInv, TypeOK, Frame
  <2>6. ASSUME Resume \/ ResumeThrows \/ BodyWork \/ BodyThrow \/ Destroy
               \/ \E q \in CatchPoints : Catch(q)
        PROVE  AwaitRule'
    BY <2>6 DEF Resume, ResumeThrows, BodyWork, BodyThrow, Destroy, Catch, AwaitRule
  <2>7. CASE UNCHANGED vars
    BY <1>2, <2>7 DEF vars, AwaitRule
  <2>. QED
    BY <1>2, <2>1, <2>2, <2>3, <2>4, <2>5, <2>6, <2>7 DEF Next
<1>. QED
  BY <1>1, <1>2, Inductive, PTL DEF Spec

-------------------------------------------------------------------------------
(* The objects of the frame the owner of the handle knows of.              *)
Visible(f) == f.live \cap ({"promise"} \cup Locals)

(* A step of the frame is a step of the coroutine it implements, or none.  *)
LEMMA StepImplements ==
  ASSUME Disciplined, IInv, IInv', [Next]_vars
  PROVE  [Contract!Next]_(Contract!vars)
<1> USE DEF Visible
<1>a. /\ InitialAwaiters \cup BodyAwaiters \cup FinalAwaiters \subseteq UnambiguousKind
      /\ UnambiguousKind \subseteq Contract!AwaiterKind
      /\ ~IsNoexcept => ("selfDestroy" \notin FinalAwaiters /\ ~ResumeMayThrow)
      /\ \A k \in UnambiguousKind :
           (AwaitReturns(k) <=> k # "ready") /\ (Contract!ShouldSuspend(k) <=> k # "ready")
  BY DEF Disciplined, UnambiguousKind, Contract!AwaiterKind, AwaitReturns, AwaitSuspendType,
     Contract!ShouldSuspend
<1>b. frame \in Frame /\ frame' \in Frame /\ frame.dead \subseteq {"promise"}
  BY DEF IInv, TypeOK, BuffersDestroyedOnce
<1>c. /\ pc \in {"body", "thrown"} => Status = "running"
      /\ pc' \in {"body", "thrown"} => Status' = "running"
      /\ Suspended => Status = IF Done(frame) THEN "final" ELSE "suspended"
      /\ (pc' = "caller" /\ frame'.mem = "alive") =>
           Status' = IF Done(frame') THEN "final" ELSE "suspended"
      /\ (pc' = "caller" /\ frame'.mem = "freed") => Status' = "destroyed" /\ Visible(frame') = {}
  BY DEF IInv, Status, Suspended, NoLeak
<1>d. "promise" \notin AwaiterSlots /\ Locals \cap ({"promise"} \cup AwaiterSlots) = {}
      /\ "final_awaiter" \notin Locals /\ "initial_awaiter" \notin Locals /\ "awaiter" \notin Locals
  BY BodyAssumption DEF AwaiterSlots
<1>e. pc \in {"body", "thrown"} => "promise" \in frame.live /\ "promise" \in Visible(frame)
  BY DEF IInv, RunningFrame
<1>1. ASSUME NEW k \in InitialAwaiters, Ramp(k) PROVE Contract!Start(k)
  <2> DEFINE f == Construct(NewFrame, "initial_awaiter")
  <2>1. /\ f \in Frame /\ SuspendedFrame(f) /\ ~Done(f) /\ f.suspendIdx = 0
        /\ f.mem = "alive" /\ Visible(f) = {"promise"} /\ f.dead = {}
    <3>1. f = [NewFrame EXCEPT !.live = {"promise", "initial_awaiter"}]
      BY DEF Construct, NewFrame
    <3>2. HeldAt(0) = {"initial_awaiter"}
      BY BodyAssumption DEF HeldAt
    <3>. QED
      BY <1>d, <3>1, <3>2 DEF NewFrame, Frame, SuspendedFrame, Done, Objects, AwaiterSlots
  <2>2. /\ frame.mem = "none" /\ pc = "caller" /\ awaited' = k /\ k \in UnambiguousKind
        /\ IF k # "ready" THEN frame' = AwaitSuspend(f, k) /\ pc' = "caller"
                          ELSE frame' = CoResume(f) /\ pc' = "body"
        /\ UNCHANGED outcome
    BY <1>1, <1>a DEF Ramp, IInv
  <2> HIDE DEF f
  <2>3. Status = "absent"
    BY <2>2 DEF Status
  <2>4. CASE k = "ready"
    <3>1. CoResume(f).live = {"promise"} \cup LiveAt[0]
      BY <2>1, CoResumeFacts
    <3>2. Visible(frame') = {"promise"} /\ Status' = "running"
      BY <1>c, <2>2, <2>4, <3>1, BodyAssumption
    <3>. QED
      BY <1>a, <2>2, <2>3, <2>4, <3>2 DEF Contract!Start, Contract!Evaluate
  <2>5. CASE k = "selfDestroy"
    <3>1. frame'.mem = "freed"
      BY <2>1, <2>2, <2>5, DestroyFrameFacts DEF AwaitSuspend
    <3>2. Status' = "destroyed" /\ Visible(frame') = {}
      BY <1>c, <2>2, <2>5, <3>1
    <3>. QED
      BY <1>a, <2>2, <2>3, <2>5, <3>2 DEF Contract!Start, Contract!Evaluate
  <2>6. CASE k \notin {"ready", "selfDestroy"}
    <3>1. frame' = f
      BY <2>2, <2>6 DEF AwaitSuspend
    <3>2. Status' = "suspended" /\ Visible(frame') = {"promise"}
      BY <1>c, <2>1, <2>2, <2>6, <3>1
    <3>. QED
      BY <1>a, <2>2, <2>3, <2>6, <3>2 DEF Contract!Start, Contract!Evaluate
  <2>. QED
    BY <2>4, <2>5, <2>6
<1>2. ASSUME Resume PROVE Contract!Resume
  <2>1. /\ SuspendedFrame(frame) /\ ~Done(frame) /\ frame.suspendIdx \in {0} \cup SuspendPoints
        /\ frame' = CoResume(frame) /\ pc' = "body" /\ Status = "suspended"
    BY <1>2, <1>c DEF Resume, IInv
  <2>2. /\ CoResume(frame).live = {"promise"} \cup LiveAt[frame.suspendIdx]
        /\ LiveAt[frame.suspendIdx] \subseteq Locals
    BY <1>b, <2>1, CoResumeFacts, BodyAssumption DEF Points
  <2>3. frame.live = {"promise"} \cup HeldAt(frame.suspendIdx)
    BY <2>1 DEF SuspendedFrame
  <2>4. Visible(frame') = Visible(frame)
    BY <1>d, <2>1, <2>2, <2>3 DEF HeldAt
  <2>. QED
    BY <1>2, <1>c, <2>1, <2>4 DEF Resume, Contract!Resume
<1>3. ASSUME ResumeThrows PROVE Contract!Terminate
  <2>1. Status \in {"running", "suspended"} /\ pc' = "terminated" /\ frame' = frame
    BY <1>3, <1>a, <1>c DEF ResumeThrows, Throw
  <2>2. Status' = "terminated"
    BY <2>1 DEF Status
  <2>. QED
    BY <1>3, <2>1, <2>2 DEF ResumeThrows, Contract!Terminate
<1>4. ASSUME BodyWork PROVE Contract!Work
  <2>1. PICK L \in SUBSET Locals : frame' = [frame EXCEPT !.live = (@ \ Locals) \cup L]
    BY <1>4 DEF BodyWork
  <2>2. frame'.live = {"promise"} \cup L
    BY <1>4, <1>b, <2>1 DEF BodyWork, IInv, RunningFrame, Frame
  <2>3. Visible(frame') = {"promise"} \cup L
    BY <2>2
  <2>. QED
    BY <1>4, <1>c, <2>3 DEF BodyWork, Contract!Work
<1>5. ASSUME NEW p \in SuspendPoints, NEW k \in BodyAwaiters, BodyAwait(p, k) PROVE Contract!Await(k)
  <2> DEFINE f == CoAwait(frame, p, k)
  <2>1. /\ pc = "body" /\ awaited' = k /\ k \in UnambiguousKind
        /\ frame.live \cap Locals = LiveAt[p] /\ RunningFrame(frame) /\ frame.mem = "alive"
        /\ IF k # "ready" THEN frame' = f /\ pc' = "caller"
                          ELSE frame' = CoResume(f) /\ pc' = "body"
        /\ UNCHANGED outcome
    BY <1>5, <1>a DEF BodyAwait, BodyHolds, IInv
  <2>2. frame.live = {"promise"} \cup LiveAt[p] /\ LiveAt[p] \subseteq Locals
    BY <2>1 DEF RunningFrame
  <2>3. CASE k = "selfDestroy"
    <3>1. frame'.mem = "freed"
      BY <1>b, <2>1, <2>3, CoAwaitSelfDestroyFacts
    <3>. QED
      BY <1>a, <1>c, <2>1, <2>3, <3>1 DEF Contract!Await, Contract!Evaluate
  <2>4. CASE k # "selfDestroy"
    <3>1. /\ f \in Frame /\ SuspendedFrame(f) /\ ~Done(f) /\ f.suspendIdx = p /\ f.mem = "alive"
      BY <1>b, <2>1, <2>4, CoAwaitFacts
    <3> HIDE DEF f
    <3>2. CASE k = "ready"
      <4>1. frame'.live = {"promise"} \cup LiveAt[p]
        BY <2>1, <3>1, <3>2, CoResumeFacts
      <4>2. Visible(frame') = Visible(frame) /\ Status' = "running"
        BY <1>c, <2>1, <2>2, <3>2, <4>1
      <4>. QED
        BY <1>a, <1>c, <2>1, <3>2, <4>2 DEF Contract!Await, Contract!Evaluate
    <3>3. CASE k # "ready"
      <4>1. frame'.live = {"promise"} \cup HeldAt(p) /\ Status' = "suspended"
        BY <1>c, <2>1, <3>1, <3>3 DEF SuspendedFrame
      <4>2. Visible(frame') = Visible(frame)
        BY <1>d, <2>2, <4>1, BodyAssumption DEF HeldAt
      <4>. QED
        BY <1>a, <1>c, <2>1, <2>4, <3>3, <4>1, <4>2 DEF Contract!Await, Contract!Evaluate
    <3>. QED
      BY <3>2, <3>3
  <2>. QED
    BY <2>3, <2>4
<1>6. ASSUME NEW r \in ReturnPoints, NEW k \in FinalAwaiters, CoReturn(r, k)
      PROVE  Contract!Finish(k, "returned")
  <2>1. /\ pc = "body" /\ awaited' = k /\ k \in UnambiguousKind
        /\ k \in {"void", "transfer", "ready", "selfDestroy"}
        /\ frame.live \cap Locals = LiveAt[r] /\ RunningFrame(frame) /\ frame.mem = "alive"
        /\ frame' = CoReturnImpl(frame, r, k) /\ pc' = "caller" /\ outcome' = "returned"
    BY <1>6, <1>a DEF CoReturn, BodyHolds, IInv, UnambiguousKind
  <2>2. /\ k \in {"void", "transfer"} =>
             frame'.mem = "alive" /\ Done(frame') /\ frame'.live = {"promise", "final_awaiter"}
        /\ k \in {"ready", "selfDestroy"} => frame'.mem = "freed"
    BY <1>b, <2>1, CoReturnFacts
  <2>3. CASE k \in {"void", "transfer"}
    <3>1. Status' = "final" /\ Visible(frame') = {"promise"}
      BY <1>c, <1>d, <2>1, <2>2, <2>3
    <3>. QED
      BY <1>a, <1>c, <2>1, <2>3, <3>1 DEF Contract!Finish, Contract!Evaluate
  <2>4. CASE k \in {"ready", "selfDestroy"}
    BY <1>a, <1>c, <2>1, <2>2, <2>4 DEF Contract!Finish, Contract!Evaluate
  <2>. QED
    BY <2>1, <2>3, <2>4
<1>7. ASSUME BodyThrow PROVE Contract!Work \/ Contract!Terminate
  <2>1. Status = "running" /\ frame' = frame /\ awaited' = "none" /\ UNCHANGED outcome
    BY <1>7, <1>c DEF BodyThrow
  <2>2. CASE IsNoexcept
    <3>1. Status' = "terminated"
      BY <1>7, <2>2 DEF BodyThrow, Throw, Status
    <3>. QED
      BY <2>1, <3>1 DEF Contract!Terminate
  <2>3. CASE ~IsNoexcept
    <3>1. Status' = "running" /\ Visible(frame') = {"promise"} \cup (frame.live \cap Locals)
      BY <1>7, <1>c, <1>e, <2>1, <2>3 DEF BodyThrow, Throw
    <3>. QED
      BY <2>1, <3>1 DEF Contract!Work
  <2>. QED
    BY <2>2, <2>3
<1>8. ASSUME NEW q \in CatchPoints, Catch(q) PROVE Contract!Work
  <2> DEFINE S == (frame.live \cap Locals) \ LiveAt[q]
             g == DestroyObjects(frame, S)
  <2>1. S \in SUBSET Objects /\ S \subseteq Locals
    BY DEF Objects
  <2> HIDE DEF S
  <2>2. g \in Frame /\ g.live = frame.live \ S /\ g.mem = frame.mem /\ g.resumeFunc = frame.resumeFunc
    BY <1>b, <2>1, DestroyLive
  <2>3. frame' = [g EXCEPT !.suspendIdx = q]
    BY <1>8 DEF Catch, g, S
  <2> HIDE DEF g
  <2>4. frame'.live = frame.live \ S /\ frame'.mem = frame.mem /\ frame'.resumeFunc = frame.resumeFunc
    BY <2>2, <2>3 DEF Frame
  <2>5. Visible(frame') = {"promise"} \cup ((frame.live \ S) \cap Locals)
    BY <1>8, <1>d, <1>e, <2>1, <2>4 DEF Catch
  <2>6. Status' = "running"
    BY <1>8, <2>4 DEF Catch, Status, IInv, RunningFrame, Done
  <2>. QED
    BY <1>8, <1>c, <2>5, <2>6 DEF Catch, Contract!Work
<1>9. ASSUME NEW k \in FinalAwaiters, Unhandled(k) PROVE Contract!Finish(k, "threw")
  <2> DEFINE S == frame.live \cap Locals
             f == DestroyObjects(frame, S)
             u == UnhandledException(f, k)
  <2>0. RunningFrame(frame) /\ frame.mem = "alive" /\ Status = "running" /\ ~IsNoexcept
    BY <1>9, <1>c DEF Unhandled, IInv
  <2>1. S \in SUBSET Objects /\ S \subseteq frame.live /\ frame.live \ S = frame.live \ Locals
    BY DEF Objects
  <2>2. f \in Frame /\ f.live = {"promise"} /\ f.dead = frame.dead /\ f.mem = "alive"
    BY <1>b, <2>0, <2>1, DestroyLive DEF RunningFrame
  <2>3. frame' = u.frame /\ pc' = "caught" /\ outcome' = "threw" /\ awaited' = k
    BY <1>9 DEF Unhandled
  <2> HIDE DEF f, S
  <2>4. k \in UnambiguousKind \ {"selfDestroy"} /\ k \in {"void", "transfer", "ready"}
    BY <1>a, <2>0 DEF UnambiguousKind
  <2>5. /\ k \in {"void", "transfer"} =>
             u.frame.mem = "alive" /\ Done(u.frame) /\ u.frame.live = {"promise", "final_awaiter"}
        /\ k = "ready" => u.frame.mem = "freed" /\ u.frame.live = {}
    BY <1>b, <2>2, <2>4, UnhandledFacts
  <2> HIDE DEF u
  <2>6. CASE k \in {"void", "transfer"}
    <3>1. Visible(frame') = {"promise"} /\ Status' = "final"
      BY <1>d, <2>3, <2>5, <2>6 DEF Status
    <3>. QED
      BY <1>a, <2>0, <2>3, <2>4, <2>6, <3>1 DEF Contract!Finish, Contract!Evaluate
  <2>7. CASE k = "ready"
    <3>1. Visible(frame') = {} /\ Status' = "destroyed"
      BY <2>3, <2>5, <2>7 DEF Status
    <3>. QED
      BY <1>a, <2>0, <2>3, <2>4, <2>7, <3>1 DEF Contract!Finish, Contract!Evaluate
  <2>. QED
    BY <2>4, <2>6, <2>7
<1>10. ASSUME AfterHandle PROVE UNCHANGED Contract!vars
  <2>1. /\ frame'.live = frame.live /\ frame'.mem = frame.mem /\ frame'.resumeFunc = frame.resumeFunc
        /\ UNCHANGED <<outcome, awaited>>
    BY <1>10, <1>b DEF AfterHandle, Frame
  <2>2. Status' = Status
    <3>1. /\ pc = "caught" /\ pc' = IF result \/ Done(frame) THEN "caller" ELSE "body"
          /\ result <=> frame.mem = "freed"
          /\ frame.mem \in {"alive", "freed"}
      BY <1>10, <1>b DEF AfterHandle, IInv, Frame
    <3>. QED
      BY <2>1, <3>1 DEF Status, Done
  <2>. QED
    BY <2>1, <2>2 DEF Contract!vars
<1>11. ASSUME Destroy PROVE Contract!Destroy
  <2>1. /\ SuspendedFrame(frame) /\ (Done(frame) \/ frame.suspendIdx \in {0} \cup SuspendPoints)
        /\ pc' = "caller" /\ frame' = DestroyFrame(frame)
    BY <1>11 DEF Destroy, IInv, Suspended
  <2>2. frame'.mem = "freed"
    BY <1>b, <2>1, DestroyFrameFacts
  <2>. QED
    BY <1>11, <1>c, <2>1, <2>2 DEF Destroy, Contract!Destroy
<1>12. ASSUME UNCHANGED vars PROVE UNCHANGED Contract!vars
  BY <1>12 DEF vars, Contract!vars, Status, Done
<1>. QED
  BY <1>a, <1>1, <1>2, <1>3, <1>4, <1>5, <1>6, <1>7, <1>8, <1>9, <1>10, <1>11, <1>12
  DEF Next, Contract!Next

(* The hand-lowered frame implements a coroutine: what the owner of the    *)
(* handle can observe of it is a behaviour of module Coroutine.            *)
THEOREM FrameImplementsCoroutine == ASSUME Disciplined PROVE Spec => ImplementsCoroutine
<1>1. Init => Contract!Init
  BY DEF Init, NewFrame, Contract!Init, Status
<1>2. IInv /\ IInv' /\ [Next]_vars => [Contract!Next]_(Contract!vars)
  BY StepImplements
<1>. QED
  BY <1>1, <1>2, Inductive, PTL DEF Spec, ImplementsCoroutine, Contract!Spec
===============================================================================
