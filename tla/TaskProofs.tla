------------------------------ MODULE TaskProofs ------------------------------
(***************************************************************************)
(* Proofs about Task for every set of addresses and any number of awaits:  *)
(* continuations, the handle in the loop and ownership always fit together.*)
(***************************************************************************)
EXTENDS Task, TLAPS

Runs(t) == at[t] \in {"running", "throwing"}
Begun(t) == Runs(t) \/ at[t] \in {"awaiting", "external"}

(* One body runs at a time, and none while the loop or the owner has       *)
(* control.                                                                *)
OneRuns ==
  /\ control # "body" => \A t \in Tasks : ~Runs(t)
  /\ \A t, u \in Tasks : Runs(t) /\ Runs(u) => t = u

(* destroy() works down from an object of the owner.                       *)
DyingIsAPath ==
  /\ control # "destroy" => dying = {}
  /\ \A t \in dying : at[t] # "free" /\ (owner[t] = Owner \/ owner[t] \in dying)

(* Who awaits and who is awaited point to each other.  A task that awaits  *)
(* one that does not pause is the business of the loop or the body.        *)
AwaitsArePairs ==
  \A p \in Tasks : at[p] = "awaiting" /\ p \notin dying =>
    /\ waits[p] \in Tasks
    /\ at[waits[p]] # "free"
    /\ owner[waits[p]] = p
    /\ at[waits[p]] = "initial" => control = "loop" /\ next = waits[p]
    /\ at[waits[p]] = "done" => control = "loop" /\ next = p

(* What is in a frame belongs to a body that has begun and not ended; a    *)
(* task that has begun itself is awaited by it.                            *)
Owned ==
  \A c \in Tasks :
    at[c] # "free" /\ owner[c] # Owner =>
      /\ Begun(owner[c])
      /\ Begun(c) => cont[c] = owner[c]

NextIsReady ==
  control = "loop" /\ next \in Tasks =>
    /\ at[next] \in {"initial", "awaiting", "external"}
    /\ at[next] = "initial" /\ owner[next] # Owner => cont[next] = owner[next]
    /\ at[next] = "awaiting" => at[waits[next]] = "done"

(* A result is there once a task is done.                                  *)
DoneHasResult == \A t \in Tasks : at[t] = "done" => res[t] # "none"

IInv ==
  /\ TypeOK
  /\ OneRuns
  /\ DyingIsAPath
  /\ AwaitsArePairs
  /\ ContinuationsFollowAwaits
  /\ Owned
  /\ NextIsReady
  /\ DoneHasResult

(* No frame exists at first.                                               *)
LEMMA InitInv == Init => IInv
  BY ConstantsAssumption DEF Init, IInv, TypeOK, Where, OneRuns, Runs, DyingIsAPath,
     AwaitsArePairs, ContinuationsFollowAwaits, Owned, NextIsReady, DoneHasResult

(* Every step preserves the invariant.                                     *)
LEMMA StepInv == IInv /\ [Next]_vars => IInv'
<1> SUFFICES ASSUME IInv, [Next]_vars PROVE IInv'
  OBVIOUS
<1>1. ASSUME NEW o \in Tasks \cup {Owner}, NEW t \in Tasks,
           (OwnerMakes(t) /\ o = Owner) \/ (BodyMakes(o, t) /\ o \in Tasks)
      PROVE  IInv'
  <2>1. TypeOK'
    BY <1>1, ConstantsAssumption DEF IInv, TypeOK, Where, Make, OwnerMakes,
       BodyMakes, NewContinuation
  <2>2. OneRuns'
    BY <1>1 DEF IInv, OneRuns, TypeOK, Runs, Make, OwnerMakes, BodyMakes
  <2>3. DyingIsAPath'
    BY <1>1 DEF IInv, DyingIsAPath, Make, OwnerMakes, BodyMakes
  <2>4. AwaitsArePairs'
    BY <1>1 DEF IInv, AwaitsArePairs, TypeOK, Make, OwnerMakes, BodyMakes
  <2>5. ContinuationsFollowAwaits'
    BY <1>1 DEF IInv, ContinuationsFollowAwaits, TypeOK, Make, OwnerMakes,
       BodyMakes, NewContinuation
  <2>6. Owned'
    BY <1>1 DEF IInv, Owned, TypeOK, Runs, Begun, Make, OwnerMakes, BodyMakes
  <2>7. NextIsReady'
    BY <1>1 DEF IInv, NextIsReady, Make, OwnerMakes, BodyMakes
  <2>8. DoneHasResult'
    BY <1>1 DEF IInv, DoneHasResult, TypeOK, Make, OwnerMakes, BodyMakes
  <2>. QED
    BY <2>1, <2>2, <2>3, <2>4, <2>5, <2>6, <2>7, <2>8 DEF IInv
<1>2. ASSUME NEW t \in Tasks, Start(t) \/ Event(t) PROVE IInv'
  BY <1>2 DEF IInv, TypeOK, OneRuns, DyingIsAPath, AwaitsArePairs,
     ContinuationsFollowAwaits, Owned, NextIsReady, DoneHasResult, EnterLoop,
     Start, Event, Runs, Begun
<1>3. ASSUME NEW t \in Tasks, LoopResumes(t) PROVE IInv'
  <2>1. TypeOK'
    BY <1>3 DEF IInv, TypeOK, Where, LoopResumes, AfterAwait
  <2>2. AwaitsArePairs'
    BY <1>3 DEF IInv, AwaitsArePairs, TypeOK, LoopResumes, AfterAwait
  <2>3. ContinuationsFollowAwaits'
    BY <1>3 DEF IInv, ContinuationsFollowAwaits, NextIsReady, LoopResumes
  <2>4. Owned'
    BY <1>3 DEF IInv, Owned, NextIsReady, Runs, Begun, LoopResumes, AfterAwait
  <2>5. DoneHasResult'
    BY <1>3 DEF IInv, DoneHasResult, LoopResumes, AfterAwait
  <2>6. OneRuns' /\ DyingIsAPath' /\ NextIsReady'
    BY <1>3 DEF IInv, OneRuns, DyingIsAPath, NextIsReady, Runs, LoopResumes
  <2>. QED
    BY <2>1, <2>2, <2>3, <2>4, <2>5, <2>6 DEF IInv
<1>4. CASE LoopResumesNoop
  BY <1>4, ConstantsAssumption DEF IInv, TypeOK, OneRuns, DyingIsAPath,
     AwaitsArePairs, ContinuationsFollowAwaits, Owned, NextIsReady,
     DoneHasResult, LoopResumesNoop, NoopResume, Runs, Begun
<1>5. CASE LoopEnds
  BY <1>5, ConstantsAssumption DEF IInv, TypeOK, OneRuns, DyingIsAPath,
     AwaitsArePairs, ContinuationsFollowAwaits, Owned, NextIsReady,
     DoneHasResult, LoopEnds, Runs, Begun
<1>6. ASSUME NEW p \in Tasks, NEW c \in Tasks, AwaitDone(p, c) PROVE IInv'
  <2>1. TypeOK'
    BY <1>6, ConstantsAssumption DEF IInv, TypeOK, Where, AwaitDone, Awaits,
       AfterAwait
  <2>2. OneRuns'
    BY <1>6 DEF IInv, OneRuns, Runs, AwaitDone, Awaits
  <2>3. AwaitsArePairs'
    BY <1>6 DEF IInv, AwaitsArePairs, AwaitDone, AfterAwait
  <2>4. ContinuationsFollowAwaits'
    BY <1>6 DEF IInv, ContinuationsFollowAwaits, AwaitDone, Awaits
  <2>5. Owned'
    BY <1>6 DEF IInv, Owned, Runs, Begun, AwaitDone, Awaits, AfterAwait
  <2>6. DoneHasResult'
    BY <1>6 DEF IInv, DoneHasResult, AwaitDone, AfterAwait
  <2>7. DyingIsAPath' /\ NextIsReady'
    BY <1>6 DEF IInv, DyingIsAPath, NextIsReady, AwaitDone
  <2>. QED
    BY <2>1, <2>2, <2>3, <2>4, <2>5, <2>6, <2>7 DEF IInv
<1>7. ASSUME NEW p \in Tasks, NEW c \in Tasks, AwaitSuspend(p, c) PROVE IInv'
  <2>1. TypeOK'
    BY <1>7, ConstantsAssumption DEF IInv, TypeOK, Where, AwaitSuspend, Awaits,
       BodyReturns
  <2>2. OneRuns'
    BY <1>7 DEF IInv, OneRuns, TypeOK, Runs, AwaitSuspend, Awaits
  <2>3. DyingIsAPath'
    BY <1>7 DEF IInv, DyingIsAPath, AwaitSuspend, BodyReturns
  <2>4. AwaitsArePairs'
    BY <1>7 DEF IInv, AwaitsArePairs, TypeOK, AwaitSuspend, Awaits, AwaitReady,
       BodyReturns
  <2>5. ContinuationsFollowAwaits'
    BY <1>7 DEF IInv, ContinuationsFollowAwaits, TypeOK, AwaitSuspend, Awaits
  <2>6. Owned'
    BY <1>7 DEF IInv, Owned, Runs, Begun, AwaitSuspend, Awaits
  <2>7. NextIsReady'
    BY <1>7 DEF IInv, NextIsReady, TypeOK, AwaitSuspend, Awaits, AwaitReady,
       BodyReturns
  <2>8. DoneHasResult'
    BY <1>7 DEF IInv, DoneHasResult, AwaitSuspend
  <2>. QED
    BY <2>1, <2>2, <2>3, <2>4, <2>5, <2>6, <2>7, <2>8 DEF IInv
<1>8. ASSUME NEW p \in Tasks, AwaitEvent(p) PROVE IInv'
  <2>1. TypeOK'
    BY <1>8, ConstantsAssumption DEF IInv, TypeOK, Where, AwaitEvent,
       BodyReturns
  <2>2. OneRuns'
    BY <1>8 DEF IInv, OneRuns, TypeOK, Runs, AwaitEvent
  <2>3. DyingIsAPath'
    BY <1>8 DEF IInv, DyingIsAPath, AwaitEvent, BodyReturns
  <2>4. AwaitsArePairs'
    BY <1>8 DEF IInv, AwaitsArePairs, AwaitEvent, BodyReturns
  <2>5. NextIsReady'
    BY <1>8, ConstantsAssumption DEF IInv, NextIsReady, AwaitEvent, BodyReturns
  <2>6. ContinuationsFollowAwaits' /\ Owned' /\ DoneHasResult'
    BY <1>8 DEF IInv, ContinuationsFollowAwaits, Owned, DoneHasResult,
       AwaitEvent, Runs, Begun
  <2>. QED
    BY <2>1, <2>2, <2>3, <2>4, <2>5, <2>6 DEF IInv
<1>9. ASSUME NEW p \in Tasks, NEW c \in Tasks, BodyDrops(p, c) PROVE IInv'
  <2>1. TypeOK'
    BY <1>9 DEF IInv, TypeOK, Where, BodyDrops
  <2>2. OneRuns' /\ DyingIsAPath' /\ AwaitsArePairs'
       /\ ContinuationsFollowAwaits' /\ Owned' /\ NextIsReady'
       /\ DoneHasResult'
    BY <1>9 DEF IInv, OneRuns, DyingIsAPath, AwaitsArePairs,
       ContinuationsFollowAwaits, Owned, NextIsReady, DoneHasResult, Runs,
       BodyDrops, Begun
  <2>. QED
    BY <2>1, <2>2 DEF IInv
<1>10. ASSUME NEW p \in Tasks, Throws(p) PROVE IInv'
  <2>1. TypeOK'
    BY <1>10 DEF IInv, TypeOK, Where, Throws
  <2>2. OneRuns' /\ DyingIsAPath' /\ AwaitsArePairs'
       /\ ContinuationsFollowAwaits' /\ Owned' /\ NextIsReady'
       /\ DoneHasResult'
    BY <1>10 DEF IInv, OneRuns, DyingIsAPath, AwaitsArePairs,
       ContinuationsFollowAwaits, Owned, NextIsReady, DoneHasResult, Runs,
       Throws, Begun
  <2>. QED
    BY <2>1, <2>2 DEF IInv
<1>11. ASSUME NEW p \in Tasks, Catches(p) PROVE IInv'
  <2>1. TypeOK'
    BY <1>11, ConstantsAssumption DEF IInv, TypeOK, Where, Catches
  <2>2. OneRuns' /\ DyingIsAPath' /\ AwaitsArePairs'
       /\ ContinuationsFollowAwaits' /\ Owned' /\ NextIsReady'
       /\ DoneHasResult'
    BY <1>11 DEF IInv, OneRuns, DyingIsAPath, AwaitsArePairs,
       ContinuationsFollowAwaits, Owned, NextIsReady, DoneHasResult, Runs,
       Catches, Begun
  <2>. QED
    BY <2>1, <2>2 DEF IInv
<1>12. ASSUME NEW p \in Tasks, Finish(p) PROVE IInv'
  <2>1. TypeOK'
    BY <1>12 DEF IInv, TypeOK, Where, Finish, BodyReturns, FinalTransfer
  <2>2. DyingIsAPath'
    BY <1>12 DEF IInv, DyingIsAPath, Finish, BodyReturns
  <2>3. AwaitsArePairs'
    BY <1>12, ConstantsAssumption DEF IInv, AwaitsArePairs, Owned, Runs, Begun,
       Finish, BodyReturns, FinalTransfer, ChildrenInScope, Children
  <2>4. ContinuationsFollowAwaits'
    BY <1>12, ConstantsAssumption DEF IInv, ContinuationsFollowAwaits, TypeOK,
       Owned, Finish, ChildrenInScope, Children
  <2>5. Owned'
    BY <1>12, ConstantsAssumption DEF IInv, Owned, TypeOK,
       ContinuationsFollowAwaits, Runs, Begun, Finish, ChildrenInScope,
       Children
  <2>6. NextIsReady'
    BY <1>12, ConstantsAssumption DEF IInv, NextIsReady,
       ContinuationsFollowAwaits, Owned, Finish, BodyReturns, FinalTransfer,
       ChildrenInScope, Children
  <2>7. DoneHasResult'
    BY <1>12 DEF IInv, DoneHasResult, TypeOK, Finish
  <2>8. OneRuns'
    BY <1>12 DEF IInv, OneRuns, Runs, Finish
  <2>. QED
    BY <2>1, <2>2, <2>3, <2>4, <2>5, <2>6, <2>7, <2>8 DEF IInv
<1>13. ASSUME NEW r \in Tasks, OwnerDrops(r) PROVE IInv'
  <2>1. AwaitsArePairs'
    BY <1>13 DEF IInv, AwaitsArePairs, DyingIsAPath, OwnerDrops
  <2>2. TypeOK' /\ OneRuns' /\ DyingIsAPath' /\ ContinuationsFollowAwaits'
       /\ Owned' /\ NextIsReady' /\ DoneHasResult'
    BY <1>13 DEF IInv, TypeOK, OneRuns, DyingIsAPath,
       ContinuationsFollowAwaits, Owned, NextIsReady, DoneHasResult,
       OwnerDrops, Runs, Begun
  <2>. QED
    BY <2>1, <2>2 DEF IInv
<1>14. ASSUME NEW t \in Tasks, NEW c \in Tasks, DestroyChild(t, c) PROVE IInv'
  <2>1. DyingIsAPath'
    BY <1>14 DEF IInv, DyingIsAPath, DestroyChild, Children
  <2>2. TypeOK' /\ OneRuns' /\ AwaitsArePairs' /\ ContinuationsFollowAwaits'
       /\ Owned' /\ NextIsReady' /\ DoneHasResult'
    BY <1>14 DEF IInv, TypeOK, OneRuns, AwaitsArePairs,
       ContinuationsFollowAwaits, Owned, NextIsReady, DoneHasResult,
       DestroyChild, Runs, Begun
  <2>. QED
    BY <2>1, <2>2 DEF IInv
<1>15. ASSUME NEW t \in Tasks, DestroyFrame(t) PROVE IInv'
  <2>1. TypeOK'
    BY <1>15 DEF IInv, TypeOK, Where, DestroyFrame
  <2>2. DyingIsAPath'
    BY <1>15 DEF IInv, DyingIsAPath, TypeOK, DestroyFrame, Children
  <2>3. AwaitsArePairs'
    BY <1>15, ConstantsAssumption DEF IInv, AwaitsArePairs, TypeOK,
       DyingIsAPath, DestroyFrame
  <2>4. ContinuationsFollowAwaits'
    BY <1>15 DEF IInv, ContinuationsFollowAwaits, DestroyFrame, Children
  <2>5. Owned'
    BY <1>15 DEF IInv, Owned, Runs, Begun, DestroyFrame, Children
  <2>6. OneRuns' /\ NextIsReady' /\ DoneHasResult'
    BY <1>15 DEF IInv, OneRuns, NextIsReady, DoneHasResult, Runs, DestroyFrame
  <2>. QED
    BY <2>1, <2>2, <2>3, <2>4, <2>5, <2>6 DEF IInv
<1>16. CASE UNCHANGED vars
  BY <1>16 DEF vars, IInv, TypeOK, OneRuns, DyingIsAPath, AwaitsArePairs,
     ContinuationsFollowAwaits, Owned, NextIsReady, DoneHasResult, Runs, Begun
<1>. QED
  BY <1>1, <1>2, <1>3, <1>4, <1>5, <1>6, <1>7, <1>8, <1>9, <1>10, <1>11, <1>12,
     <1>13, <1>14, <1>15, <1>16 DEF Next, Loop, Body, Destroying, Outside

(* IInv holds in every state that can be reached.                          *)
THEOREM Inductive == Spec => []IInv
<1>1. Init => IInv
  BY InitInv
<1>2. IInv /\ [Next]_vars => IInv'
  BY StepInv
<1>. QED
  BY <1>1, <1>2, PTL DEF Spec

(* The variables have the types TypeOK gives them, for every set of        *)
(* addresses.                                                              *)
THEOREM TypeCorrect == Spec => []TypeOK
<1>1. IInv => TypeOK
  BY DEF IInv
<1>. QED
  BY <1>1, Inductive, PTL

(* The loop in resume() never resumes a frame that is gone, has ended or   *)
(* runs, nor a task whose awaited result is missing, however long the chain*)
(* of awaits and however often addresses are used again.                   *)
THEOREM TargetsReady == Spec => []LoopTargetReady
<1>1. IInv => LoopTargetReady
  BY DEF IInv, NextIsReady, AwaitsArePairs, DyingIsAPath, DoneHasResult,
     LoopTargetReady
<1>. QED
  BY <1>1, Inductive, PTL

(* When control is back at the owner every task that awaits is above one   *)
(* that can still be woken.                                                *)
THEOREM WakeupsKept == Spec => []NoLostWakeup
<1>1. IInv => NoLostWakeup
  BY DEF IInv, OneRuns, Runs, DyingIsAPath, AwaitsArePairs, TypeOK, Where,
     NoLostWakeup
<1>. QED
  BY <1>1, Inductive, PTL

(* No continuation_ of an unfinished task dangles.                         *)
THEOREM ContinuationsAlive == Spec => []ContinuationsFollowAwaits
<1>1. IInv => ContinuationsFollowAwaits
  BY DEF IInv
<1>. QED
  BY <1>1, Inductive, PTL

(* A frame always has someone left who will destroy it.                    *)
THEOREM NobodyOrphaned == Spec => []NoOrphans
<1>1. IInv => NoOrphans
  BY DEF IInv, Owned, Begun, Runs, TypeOK, NoOrphans
<1>. QED
  BY <1>1, Inductive, PTL

===============================================================================
