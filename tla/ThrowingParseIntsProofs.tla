------------------------ MODULE ThrowingParseIntsProofs ------------------------
(***************************************************************************)
(* Proofs about ThrowingParseInts, for ranges of any length and whatever   *)
(* the uninitialised flags read as: the state stays within its types, and  *)
(* every object in the frame is destroyed, once.                           *)
(***************************************************************************)
EXTENDS ThrowingParseInts, FiniteSetTheorems, TLAPS

(* Where the body is entered next while it is suspended at the start or at *)
(* the co_yield                                                            *)
Suspended ==
  /\ ~done /\ suspendIdx \in {0, 1}
  /\ currentTryBlock = (IF suspendIdx = 0 THEN NoTry ELSE "block_0")
  /\ suspendIdx = 0 => /\ alive = {"promise_", "initial_awaiter_"}
                       /\ handlers = 0
  /\ suspendIdx = 1 => /\ alive = {"promise_", "initial_awaiter_", "parsed_", "it_", "end_"}
                       /\ constructed["it_"] /\ constructed["end_"]
                       /\ ~constructed["initial_awaiter_"]
                       /\ it <= Len(strings)
                       /\ handlers = 0

(* Inside of the loop only its iterators are alive, and their flags say so;*)
(* that of parsed_ may say anything before the first element.              *)
InLoop ==
  /\ ~done
  /\ alive = {"promise_", "it_", "end_"}
  /\ constructed["it_"] /\ constructed["end_"] /\ ~constructed["initial_awaiter_"]

(* At its end, by the end of the loop or by an exception                   *)
Ended ==
  /\ done
  /\ alive = {"promise_", "final_awaiter_"} \cup (IF m_has_exception THEN {"m_exception"} ELSE {})

Control ==
  /\ pc = "loop" => /\ Suspended \/ (Ended /\ ~m_has_exception)
                    /\ done => saw \in {"end", "exception"}
                    /\ handlers = 0
  /\ pc = "step" => \/ Suspended
                    \/ InLoop /\ suspendIdx \in {20, 21} /\ it <= Len(strings) /\ handlers <= it
  /\ pc = "for" => InLoop /\ handlers < it
  /\ pc = "thrown" => InLoop /\ it <= Len(strings) /\ handlers <= it /\ exc # "none"
  /\ pc = "caught" => /\ \/ InLoop /\ suspendIdx \in {20, 21} /\ it <= Len(strings)
                         \/ Ended /\ m_has_exception
                      /\ handlers <= it
  /\ pc = "returned" => /\ (Suspended /\ suspendIdx = 1) \/ Ended
                        /\ handlers = 0
  /\ pc = "freed" => alive = {}
  /\ ~done => ~m_has_exception

IInv == TypeOK /\ Control /\ DestroyedOnce

(* The lengths of the ranges                                               *)
LEMMA Lengths == ASSUME TypeOK PROVE strings \in Seq(Words) /\ Len(strings) \in Nat
BY InputAssumption DEF TypeOK

(* The frame waits at its start.                                           *)
LEMMA InitInv == Init => IInv
<1> SUFFICES ASSUME Init PROVE IInv
  OBVIOUS
<1>1. strings \in Seq(Words) /\ Len(strings) \in Nat
  BY InputAssumption DEF Init
<1>2. TypeOK
  <2>1. /\ suspendIdx \in {0, 1, 20, 21, 12} /\ currentTryBlock \in {"block_0", NoTry}
        /\ constructed \in [Flags -> BOOLEAN] /\ alive \in SUBSET Objects
        /\ misdestroyed \in SUBSET Objects
    BY DEF Init, Objects, Flags
  <2>2. it \in 1..(Len(strings) + 1) /\ {m_value, handlers, value} \subseteq 0..Len(strings)
    BY <1>1 DEF Init
  <2>. QED
    BY <2>1, <2>2 DEF Init, TypeOK, Pc
<1>. QED
  BY <1>2 DEF Init, IInv, Control, Suspended, DestroyedOnce

(* Every step preserves the invariant.                                     *)
LEMMA StepInv == IInv /\ [Next]_vars => IInv'
<1> SUFFICES ASSUME IInv, [Next]_vars PROVE IInv'
  OBVIOUS
<1>0. strings \in Seq(Words) /\ Len(strings) \in Nat
  BY Lengths DEF IInv
<1>1. CASE UNCHANGED vars
  BY <1>1 DEF vars, args, frame, promise, client, IInv, TypeOK, Control, Suspended, InLoop, Ended,
              DestroyedOnce
<1>2. CASE Advance
  BY <1>2 DEF Advance, args, frame, promise, client, IInv, TypeOK, Control, Suspended, InLoop, Ended,
              DestroyedOnce, Pc
<1>3. CASE EnterAtStart
  <2>1. TypeOK'
    BY <1>0, <1>3 DEF EnterAtStart, Lifetimes, args, promise, client, IInv, TypeOK, Objects, Flags, Pc
  <2>2. Control'
    BY <1>0, <1>3 DEF EnterAtStart, Lifetimes, args, promise, client, IInv, TypeOK, Flags, Control,
                      Suspended, InLoop
  <2>3. DestroyedOnce'
    BY <1>3 DEF EnterAtStart, Lifetimes, IInv, Control, Suspended, InLoop, DestroyedOnce
  <2>. QED
    BY <2>1, <2>2, <2>3 DEF IInv
<1>4. CASE EnterAtYield
  <2>0. Suspended /\ suspendIdx = 1
    BY <1>4 DEF EnterAtYield, IInv, Control
  <2>1. TypeOK'
    BY <1>0, <1>4, <2>0 DEF EnterAtYield, Suspended, NextIt, Flag, Lifetimes, args, promise, client,
                            IInv, TypeOK, Objects, Flags, Pc
  <2>2. Control'
    BY <1>0, <1>4, <2>0 DEF EnterAtYield, NextIt, Flag, Lifetimes, args, promise, client, IInv,
                            TypeOK, Flags, Control, Suspended, InLoop
  <2>3. DestroyedOnce'
    BY <1>4, <2>0 DEF EnterAtYield, Lifetimes, IInv, Suspended, DestroyedOnce
  <2>. QED
    BY <2>1, <2>2, <2>3 DEF IInv
<1>5. CASE EnterAtContinue
  <2>0. InLoop /\ it <= Len(strings) /\ handlers <= it /\ ~done
    BY <1>5 DEF EnterAtContinue, IInv, Control, Suspended, InLoop
  <2>1. TypeOK'
    BY <1>0, <1>5, <2>0 DEF EnterAtContinue, NextIt, args, promise, client, IInv, TypeOK, Pc
  <2>2. Control'
    BY <1>0, <1>5, <2>0 DEF EnterAtContinue, NextIt, args, promise, client, IInv, TypeOK, Control,
                            InLoop
  <2>. QED
    BY <1>5, <2>1, <2>2 DEF EnterAtContinue, IInv, DestroyedOnce
<1>6. CASE Return
  <2>0. InLoop
    BY <1>6 DEF Return, IInv, Control, Suspended
  <2>1. TypeOK'
    BY <1>0, <1>6 DEF Return, Flag, Lifetimes, args, promise, client, IInv, TypeOK, Objects, Flags, Pc
  <2>2. Control'
    BY <1>0, <1>6, <2>0 DEF Return, Lifetimes, args, promise, client, IInv, TypeOK, Control, InLoop,
                            Ended
  <2>3. DestroyedOnce'
    BY <1>6, <2>0 DEF Return, Lifetimes, IInv, InLoop, DestroyedOnce
  <2>. QED
    BY <2>1, <2>2, <2>3 DEF IInv
<1>7. CASE Yield
  <2>0. InLoop
    BY <1>7 DEF Yield, IInv, Control
  <2>1. TypeOK'
    BY <1>0, <1>7 DEF Yield, Flag, Lifetimes, args, promise, client, IInv, TypeOK, Objects, Flags, Pc
  <2>2. Control'
    BY <1>0, <1>7, <2>0 DEF Yield, Flag, Lifetimes, args, promise, client, IInv, TypeOK, Flags,
                            Control, InLoop, Suspended
  <2>3. DestroyedOnce'
    BY <1>7, <2>0 DEF Yield, Lifetimes, IInv, InLoop, DestroyedOnce
  <2>. QED
    BY <2>1, <2>2, <2>3 DEF IInv
<1>8. CASE Throw
  <2>0. InLoop /\ handlers < it /\ strings[it] \in {"invalid", "range"}
    BY <1>0, <1>8 DEF Throw, IInv, TypeOK, Control, Words
  <2>1. TypeOK'
    BY <1>0, <1>8, <2>0 DEF Throw, args, promise, client, IInv, TypeOK, Pc
  <2>2. Control'
    BY <1>0, <1>8, <2>0 DEF Throw, args, promise, client, IInv, TypeOK, Control, InLoop
  <2>. QED
    BY <1>8, <2>1, <2>2 DEF Throw, IInv, DestroyedOnce
<1>9. CASE HandleCatchClause_0
  <2>0. InLoop /\ it <= Len(strings) /\ handlers <= it /\ exc # "none"
    BY <1>9 DEF HandleCatchClause_0, IInv, Control
  <2> DEFINE parsed == Asked({"parsed_"})
  <2>1. parsed \subseteq {"parsed_"}
    BY DEF Asked
  <2> HIDE DEF parsed
  <2>2. /\ alive' = alive \ parsed /\ misdestroyed' = misdestroyed \cup (parsed \ alive)
        /\ constructed' = Flag(parsed, FALSE) /\ currentTryBlock' = NoTry
        /\ UNCHANGED <<args, done, it, promise, handlers, client>>
        /\ \/ pc' = "caught" /\ exc' = "none" /\ suspendIdx' \in {20, 21}
           \/ pc' = "thrown" /\ exc' = exc /\ suspendIdx' = 12
    BY <1>9 DEF HandleCatchClause_0, Lifetimes, parsed, ContinueAt, ParentTryBlock
  <2>3. InLoop'
    BY <2>0, <2>1, <2>2 DEF InLoop, Flag, Flags, IInv, TypeOK
  <2>4. TypeOK'
    BY <1>0, <2>0, <2>1, <2>2 DEF Flag, args, promise, client, IInv, TypeOK, Objects, Flags, Pc
  <2>5. Control'
    BY <2>0, <2>2, <2>3 DEF args, promise, client, IInv, TypeOK, Control
  <2>6. DestroyedOnce'
    BY <2>1, <2>2 DEF IInv, DestroyedOnce
  <2>. QED
    BY <2>4, <2>5, <2>6 DEF IInv
<1>10. CASE Escape
  <2>0. InLoop /\ it <= Len(strings) /\ handlers <= it
    BY <1>10 DEF Escape, IInv, Control
  <2>1. Asked(Flags \ {"parsed_"}) = {"it_", "end_"}
    BY <2>0 DEF Asked, InLoop, Flags
  <2>2. /\ alive' = {"promise_", "final_awaiter_", "m_exception"}
        /\ misdestroyed' = misdestroyed
        /\ constructed' = Flag({"it_", "end_"}, FALSE)
        /\ done' /\ m_has_exception' /\ pc' = "caught" /\ done' = TRUE /\ m_has_exception' = TRUE
        /\ UNCHANGED <<args, suspendIdx, currentTryBlock, it, m_value, exc, handlers, client>>
    BY <1>10, <2>0, <2>1 DEF Escape, Lifetimes, InLoop
  <2>3. TypeOK'
    BY <1>0, <2>2 DEF Flag, args, client, IInv, TypeOK, Objects, Flags, Pc
  <2>4. Control'
    BY <2>0, <2>2 DEF args, IInv, Control, Ended
  <2>. QED
    BY <2>2, <2>3, <2>4 DEF IInv, DestroyedOnce
<1>11. CASE AfterHandle
  <2>1. TypeOK'
    BY <1>0, <1>11 DEF AfterHandle, args, frame, promise, client, IInv, TypeOK, Pc
  <2>2. Control'
    BY <1>0, <1>11 DEF AfterHandle, args, frame, promise, client, IInv, TypeOK, Control, Suspended,
                       InLoop, Ended
  <2>. QED
    BY <1>11, <2>1, <2>2 DEF AfterHandle, frame, IInv, DestroyedOnce
<1>12. CASE Observe
  <2>0. (Suspended /\ suspendIdx = 1) \/ Ended
    BY <1>12 DEF Observe, IInv, Control
  <2>1. TypeOK'
    BY <1>0, <1>12 DEF Observe, Lifetimes, args, IInv, TypeOK, Objects, Pc
  <2>2. Control'
    BY <1>0, <1>12, <2>0 DEF Observe, Lifetimes, args, IInv, TypeOK, Control, Suspended, Ended
  <2>3. DestroyedOnce'
    BY <1>12, <2>0 DEF Observe, Lifetimes, IInv, DestroyedOnce, Suspended, Ended
  <2>. QED
    BY <2>1, <2>2, <2>3 DEF IInv
<1>13. CASE Discard
  <2> DEFINE held == IF done THEN {"final_awaiter_"} ELSE HeldAt(suspendIdx)
  <2>1. alive = {"promise_"} \cup held
    BY <1>13 DEF Discard, IInv, Control, Suspended, Ended, HeldAt
  <2> HIDE DEF held
  <2>2. /\ alive' = {} /\ misdestroyed' = misdestroyed \cup {"promise_"}
        /\ pc' = "freed" /\ saw' = "gone"
        /\ UNCHANGED <<args, suspendIdx, currentTryBlock, done, constructed, it, promise, exc,
                       handlers, value>>
    BY <1>13, <2>1 DEF Discard, held
  <2>3. TypeOK'
    BY <1>0, <2>2 DEF args, promise, IInv, TypeOK, Objects, Pc
  <2>4. Control'
    BY <2>2 DEF promise, IInv, Control
  <2>. QED
    BY <2>2, <2>3, <2>4 DEF IInv, DestroyedOnce
<1>. QED
  BY <1>1, <1>2, <1>3, <1>4, <1>5, <1>6, <1>7, <1>8, <1>9, <1>10, <1>11, <1>12, <1>13
     DEF Next, Resumed

(* Reachable states: the place of control determines what is alive.        *)
THEOREM Inductive == Spec => []IInv
BY InitInv, StepInv, PTL DEF Spec

(* The state stays within its types, the iterator within the range.        *)
THEOREM TypeCorrect == Spec => []TypeOK
<1>1. IInv => TypeOK
  BY DEF IInv
<1>. QED
  BY <1>1, Inductive, PTL

(* No object is left in a frame that was destroyed.                        *)
THEOREM EverythingDestroyed == Spec => []NothingLeft
<1>1. IInv => NothingLeft
  BY DEF IInv, Control, NothingLeft
<1>. QED
  BY <1>1, Inductive, PTL

(* Flags, suspendIdx and body agree on what is to be destroyed.            *)
THEOREM NothingDestroyedTwice == Spec => []DestroyedOnce
<1>1. IInv => DestroyedOnce
  BY DEF IInv
<1>. QED
  BY <1>1, Inductive, PTL

-------------------------------------------------------------------------------
(* The bad strings in a row that end with the n-th                         *)
BadRun(n) == {k \in 1..n : \A j \in k..n : strings[j] # "int"}

(* A bad string makes the run longer by one, an int ends it.               *)
LEMMA RunFacts ==
  ASSUME strings \in Seq(Words), NEW n \in Nat
  PROVE  /\ n = 0 => Cardinality(BadRun(n)) = 0
         /\ n > 0 /\ strings[n] = "int" => Cardinality(BadRun(n)) = 0
         /\ n > 0 /\ strings[n] # "int" => Cardinality(BadRun(n)) = Cardinality(BadRun(n - 1)) + 1
<1>1. n = 0 => BadRun(n) = {}
  BY DEF BadRun
<1>2. n > 0 /\ strings[n] = "int" => BadRun(n) = {}
  BY DEF BadRun
<1>3. ASSUME n > 0, strings[n] # "int"
      PROVE  Cardinality(BadRun(n)) = Cardinality(BadRun(n - 1)) + 1
  <2>1. BadRun(n) = BadRun(n - 1) \cup {n}
    <3>1. ASSUME NEW k \in BadRun(n), k # n PROVE k \in BadRun(n - 1)
      BY <3>1 DEF BadRun
    <3>2. ASSUME NEW k \in BadRun(n - 1) PROVE k \in BadRun(n)
      <4>1. k \in 1..n /\ \A j \in k..(n - 1) : strings[j] # "int"
        BY <1>3 DEF BadRun
      <4>. QED
        BY <1>3, <4>1 DEF BadRun
    <3>3. n \in BadRun(n)
      BY <1>3 DEF BadRun
    <3>. QED
      BY <3>1, <3>2, <3>3
  <2>2. n \notin BadRun(n - 1)
    BY DEF BadRun
  <2>3. IsFiniteSet(BadRun(n - 1))
    BY FS_Interval, FS_Subset, BadRun(n - 1) \subseteq 1..(n - 1), n - 1 \in Int, 1 \in Int DEF BadRun
  <2>. QED
    BY <2>1, <2>2, <2>3, FS_AddElement
<1>. QED
  BY <1>1, <1>2, <1>3, FS_EmptySet

(* The handlers on the stack are those of the run that is looked at.       *)
Stack ==
  /\ pc = "loop" /\ suspendIdx = 1 /\ ~done => strings[it] = "int"
  /\ pc = "step" => IF suspendIdx \in {0, 1} THEN suspendIdx = 1 => strings[it] = "int"
                    ELSE handlers = Cardinality(BadRun(it))
  /\ pc = "for" => handlers = Cardinality(BadRun(it - 1))
  /\ pc = "thrown" => handlers = Cardinality(BadRun(it))
  /\ pc = "caught" /\ ~done => handlers = Cardinality(BadRun(it))
  /\ pc = "returned" /\ ~done => strings[it] = "int"

(* Every step keeps the handlers and the strings in line.                  *)
LEMMA StackStep == IInv /\ Stack /\ [Next]_vars => Stack'
<1> SUFFICES ASSUME IInv, Stack, [Next]_vars PROVE Stack'
  OBVIOUS
<1>0. /\ strings \in Seq(Words) /\ Len(strings) \in Nat
      /\ it \in Nat /\ it > 0 /\ it - 1 \in Nat /\ (it + 1) - 1 = it
  BY Lengths DEF IInv, TypeOK
<1>1. strings' = strings => \A n : BadRun(n)' = BadRun(n)
  BY DEF BadRun
<1> USE DEF Stack, args, frame, promise, client
<1>2. CASE UNCHANGED vars
  <2>1. UNCHANGED <<strings, it, pc, handlers, done, suspendIdx>>
    BY <1>2 DEF vars
  <2>. QED
    BY <1>1, <2>1
<1>3. CASE Advance
  <2>1. pc = "loop" /\ pc' = "step" /\ UNCHANGED <<strings, it, suspendIdx, done>>
    BY <1>3 DEF Advance
  <2>2. ~done /\ suspendIdx \in {0, 1}
    BY <1>3 DEF Advance, IInv, Control, Suspended, Ended
  <2>. QED
    BY <2>1, <2>2
<1>4. CASE EnterAtStart
  <2>1. handlers = 0 /\ handlers' = handlers /\ it' = 1 /\ pc' = "for" /\ strings' = strings
    BY <1>4 DEF EnterAtStart, IInv, Control, Suspended
  <2>. QED
    BY <1>0, <1>1, <2>1, RunFacts
<1>5. CASE EnterAtYield
  <2>1. /\ handlers = 0 /\ handlers' = handlers /\ it' = it + 1 /\ pc' = "for"
        /\ strings' = strings /\ strings[it] = "int"
    BY <1>5 DEF EnterAtYield, NextIt, IInv, Control, Suspended
  <2>2. Cardinality(BadRun(it)) = 0
    BY <1>0, <2>1, RunFacts
  <2>. QED
    BY <1>0, <1>1, <2>1, <2>2
<1>6. CASE EnterAtContinue
  BY <1>0, <1>1, <1>6 DEF EnterAtContinue, NextIt, IInv, Control, Suspended
<1>7. CASE Return
  BY <1>7 DEF Return
<1>8. CASE Yield
  BY <1>8 DEF Yield
<1>9. CASE Throw
  <2>1. /\ handlers' = handlers + 1 /\ it' = it /\ pc' = "thrown" /\ strings' = strings
        /\ strings[it] # "int" /\ handlers = Cardinality(BadRun(it - 1))
    BY <1>9 DEF Throw
  <2>2. Cardinality(BadRun(it)) = Cardinality(BadRun(it - 1)) + 1
    BY <1>0, <2>1, RunFacts
  <2>. QED
    BY <1>1, <2>1, <2>2
<1>10. CASE HandleCatchClause_0
  BY <1>1, <1>10 DEF HandleCatchClause_0
<1>11. CASE Escape
  BY <1>11 DEF Escape
<1>12. CASE AfterHandle
  BY <1>1, <1>12 DEF AfterHandle, IInv, Control, InLoop
<1>13. CASE Observe
  BY <1>13 DEF Observe
<1>14. CASE Discard
  BY <1>14 DEF Discard
<1>. QED
  BY <1>2, <1>3, <1>4, <1>5, <1>6, <1>7, <1>8, <1>9, <1>10, <1>11, <1>12, <1>13, <1>14
     DEF Next, Resumed

(* For a range of any length the stack is as deep as the run of bad        *)
(* strings before the one the loop looks at.                               *)
THEOREM StackIsTheBadRun == Spec => []StackFollowsBadStrings
<1>1. Init => Stack
  BY DEF Init, Stack
<1>2. Stack => StackFollowsBadStrings
  BY DEF Stack, StackFollowsBadStrings, BadRun
<1>. QED
  BY <1>1, <1>2, Inductive, StackStep, PTL DEF Spec

-------------------------------------------------------------------------------
(* Since the element the loop saw last nothing up to the n-th string was an*)
(* int or ended the generator.                                             *)
Skipped(n) == \A j \in (value + 1)..n : strings[j] # "int" /\ ~Documented!Stops(j)

(* Where the exception ends the generator, where the `break` does          *)
StopsHere(stops) == value < it /\ it <= Len(strings) /\ Skipped(it - 1) /\ stops
ThrowsHere == StopsHere(~catch_errors /\ strings[it] # "int")
BreaksHere == StopsHere(catch_errors /\ strings[it] = "range")

(* At the label that a catch clause leaves                                 *)
Label ==
  \/ suspendIdx = 20 /\ value < it /\ it <= Len(strings) /\ Skipped(it)
  \/ suspendIdx = 21 /\ BreaksHere

(* Where the loop saw what the generator yielded last                      *)
Seen == value = IF suspendIdx = 0 THEN 0 ELSE it

Progress ==
  /\ pc = "loop" /\ saw \in {"nothing", "value"} => ~done /\ suspendIdx \in {0, 1} /\ Seen
  /\ pc = "step" => IF suspendIdx \in {0, 1} THEN Seen ELSE Label
  /\ pc = "for" => value < it /\ Skipped(it - 1)
  /\ pc = "thrown" => /\ StopsHere(strings[it] = exc) /\ exc \in {"invalid", "range"}
                      /\ currentTryBlock = NoTry => ~catch_errors
  /\ pc = "caught" => IF done THEN ThrowsHere ELSE Label
  /\ pc = "returned" =>
       IF ~done THEN StopsHere(strings[it] = "int") /\ m_value = it
       ELSE IF m_has_exception THEN ThrowsHere
       ELSE (it > Len(strings) /\ Skipped(Len(strings))) \/ BreaksHere
  /\ pc \notin {"loop", "freed"} => saw \in {"nothing", "value"}
  /\ pc # "freed" => saw # "gone"

(* The next int is the first one that the loop has not seen.               *)
LEMMA IntFacts ==
  ASSUME IInv, StopsHere(strings[it] = "int")
  PROVE  Documented!Ints # {} /\ Documented!Min(Documented!Ints) = it
<1>1. /\ value \in Nat /\ it \in Nat /\ Len(strings) \in Nat /\ it \in (value + 1)..Len(strings)
      /\ \A j \in (value + 1)..(it - 1) : strings[j] # "int" /\ ~Documented!Stops(j)
  BY Lengths DEF IInv, TypeOK, StopsHere, Skipped
<1>2. strings[it] = "int" /\ ~Documented!Stops(it)
  BY DEF StopsHere, Documented!Stops
<1>3. it \in Documented!Ints
  BY <1>1, <1>2 DEF Documented!Ints, Documented!Reachable, Documented!Rest
<1>4. \A k \in Documented!Ints : it <= k
  BY <1>1 DEF Documented!Ints, Documented!Reachable, Documented!Rest
<1>5. \A k \in Documented!Ints : k \in Nat
  BY <1>1 DEF Documented!Ints, Documented!Reachable, Documented!Rest
<1> DEFINE S == Documented!Ints
           m == CHOOSE x \in S : \A y \in S : x <= y
<1>6. m \in S /\ \A y \in S : m <= y
  <2> HIDE DEF S
  <2>. QED
    BY <1>3, <1>4 DEF S
<1> HIDE DEF m
<1>7. m = it
  BY <1>1, <1>3, <1>4, <1>5, <1>6
<1>. QED
  BY <1>3, <1>7 DEF m, Documented!Min

(* There is none where the generator ends.                                 *)
LEMMA NoIntFacts ==
  ASSUME IInv
  PROVE  /\ ThrowsHere => Documented!Ints = {} /\ Documented!Reachable # Documented!Rest
         /\ BreaksHere => Documented!Ints = {}
         /\ Skipped(Len(strings)) => Documented!Ints = {} /\ Documented!Reachable = Documented!Rest
<1>1. value \in Nat /\ it \in Nat /\ Len(strings) \in Nat
  BY Lengths DEF IInv, TypeOK
<1>2. ASSUME StopsHere(Documented!Stops(it))
      PROVE  Documented!Ints = {} /\ Documented!Reachable # Documented!Rest
  <2>1. it \in Documented!Rest /\ it \notin Documented!Reachable
    BY <1>1, <1>2 DEF StopsHere, Documented!Rest, Documented!Reachable
  <2>2. \A k \in Documented!Reachable : k \in (value + 1)..(it - 1)
    BY <1>1, <1>2, <2>1 DEF StopsHere, Documented!Rest, Documented!Reachable
  <2>. QED
    BY <1>2, <2>1, <2>2 DEF StopsHere, Skipped, Documented!Ints
<1>3. ThrowsHere => StopsHere(Documented!Stops(it))
  <2>1. ThrowsHere => strings[it] \in Words
    BY <1>1, Lengths DEF IInv, ThrowsHere, StopsHere
  <2>. QED
    BY <2>1 DEF ThrowsHere, StopsHere, Documented!Stops, Words
<1>4. BreaksHere => StopsHere(Documented!Stops(it))
  BY DEF BreaksHere, StopsHere, Documented!Stops
<1>5. Skipped(Len(strings)) => Documented!Ints = {} /\ Documented!Reachable = Documented!Rest
  BY DEF Skipped, Documented!Ints, Documented!Reachable, Documented!Rest
<1>. QED
  BY <1>2, <1>3, <1>4, <1>5

(* Every step of the lowering keeps track of what was skipped.             *)
LEMMA ProgressStep == IInv /\ Progress /\ [Next]_vars => Progress'
<1> SUFFICES ASSUME IInv, Progress, [Next]_vars PROVE Progress'
  OBVIOUS
<1>0. /\ strings \in Seq(Words) /\ Len(strings) \in Nat /\ value \in Nat
      /\ it \in Nat /\ it > 0 /\ it - 1 \in Nat /\ (it + 1) - 1 = it
  BY Lengths DEF IInv, TypeOK
<1>1. UNCHANGED <<args, value>> => \A n : Skipped(n)' = Skipped(n)
  BY DEF Skipped, Documented!Stops, args
<1>2. UNCHANGED <<args, value, it>> => /\ ThrowsHere' = ThrowsHere /\ BreaksHere' = BreaksHere
                                       /\ Skipped(it)' = Skipped(it)
                                       /\ Skipped(it - 1)' = Skipped(it - 1)
  BY DEF ThrowsHere, BreaksHere, StopsHere, Skipped, Documented!Stops, args
<1>3. UNCHANGED <<args, value, it, suspendIdx>> => Label' = Label /\ Seen' = Seen
  BY <1>2 DEF Label, Seen, args
<1>4. CASE UNCHANGED vars
  <2>1. UNCHANGED <<args, value, it, suspendIdx, pc, saw, done, exc, currentTryBlock, m_value,
                    m_has_exception, strings, catch_errors>>
    BY <1>4 DEF vars, args, frame, promise, client
  <2>2. Skipped(Len(strings))' = Skipped(Len(strings))
    BY <1>1, <2>1
  <2>3. Label' = Label /\ Seen' = Seen /\ ThrowsHere' = ThrowsHere /\ BreaksHere' = BreaksHere
        /\ Skipped(it - 1)' = Skipped(it - 1)
    BY <1>2, <1>3, <2>1
  <2>4. /\ StopsHere(strings[it] = exc)' = StopsHere(strings[it] = exc)
        /\ StopsHere(strings[it] = "int")' = StopsHere(strings[it] = "int")
    BY <2>1, <2>3 DEF StopsHere
  <2>. QED
    BY <2>1, <2>2, <2>3, <2>4 DEF Progress
<1>5. CASE Advance
  <2>1. /\ pc = "loop" /\ pc' = "step" /\ saw \in {"nothing", "value"}
        /\ UNCHANGED <<args, value, it, suspendIdx, saw>>
    BY <1>5 DEF Advance, frame, client
  <2>. QED
    BY <1>3, <2>1 DEF Progress
<1>6. CASE EnterAtStart
  <2>1. /\ pc = "step" /\ suspendIdx = 0 /\ it' = 1 /\ pc' = "for"
        /\ UNCHANGED <<args, value, saw>>
    BY <1>6 DEF EnterAtStart, client
  <2>2. value = 0
    BY <2>1 DEF Progress, Seen
  <2>3. Skipped(it - 1)'
    BY <2>1, <2>2 DEF Skipped
  <2>. QED
    BY <2>1, <2>2, <2>3 DEF Progress
<1>7. CASE EnterAtYield
  <2>1. /\ pc = "step" /\ suspendIdx = 1 /\ it' = it + 1 /\ pc' = "for"
        /\ UNCHANGED <<args, value, saw>>
    BY <1>7 DEF EnterAtYield, NextIt, client
  <2>2. value = it
    BY <2>1 DEF Progress, Seen
  <2>3. Skipped(it - 1)'
    BY <1>0, <2>1, <2>2 DEF Skipped
  <2>. QED
    BY <1>0, <2>1, <2>2, <2>3 DEF Progress
<1>8. CASE EnterAtContinue
  <2>1. /\ pc = "step" /\ suspendIdx \in {12, 20} /\ it' = it + 1 /\ pc' = "for"
        /\ UNCHANGED <<args, value, saw>>
    BY <1>8 DEF EnterAtContinue, NextIt, client
  <2>2. value < it /\ Skipped(it)
    BY <2>1 DEF Progress, Label
  <2>3. Skipped(it - 1)'
    BY <1>0, <1>1, <2>1, <2>2 DEF Skipped
  <2>. QED
    BY <1>0, <2>1, <2>2, <2>3 DEF Progress
<1>9. CASE Return
  <2>1. /\ \/ pc = "for" /\ it > Len(strings)
           \/ pc = "step" /\ suspendIdx = 21
        /\ done' = TRUE /\ pc' = "returned" /\ UNCHANGED <<args, it, value, saw, m_has_exception>>
    BY <1>9 DEF Return, promise, client
  <2>2. ~m_has_exception
    BY <2>1 DEF IInv, Control, InLoop, Suspended
  <2>3. (it > Len(strings) /\ Skipped(Len(strings))) \/ BreaksHere
    <3>1. CASE pc = "for" /\ it > Len(strings)
      <4>1. it = Len(strings) + 1 /\ Skipped(it - 1)
        BY <1>0, <3>1 DEF IInv, TypeOK, Progress
      <4>. QED
        BY <1>0, <4>1
    <3>2. CASE pc = "step" /\ suspendIdx = 21
      BY <3>2 DEF Progress, Label
    <3>. QED
      BY <2>1, <3>1, <3>2
  <2>4. strings' = strings
    BY <2>1 DEF args
  <2>5. ((it > Len(strings) /\ Skipped(Len(strings))) \/ BreaksHere)'
    BY <1>1, <1>2, <2>1, <2>3, <2>4
  <2>6. pc = "for" \/ pc = "step"
    BY <2>1
  <2>. QED
    BY <2>1, <2>2, <2>5, <2>6 DEF Progress
<1>10. CASE Yield
  <2>1. /\ pc = "for" /\ it <= Len(strings) /\ strings[it] = "int" /\ m_value' = it
        /\ pc' = "returned" /\ UNCHANGED <<args, it, value, saw, done>>
    BY <1>10 DEF Yield, client
  <2>2. StopsHere(strings[it] = "int") /\ ~done
    BY <2>1 DEF Progress, StopsHere, IInv, Control, InLoop
  <2>3. StopsHere(strings[it] = "int")'
    BY <1>2, <2>1, <2>2 DEF StopsHere, args
  <2>. QED
    BY <2>1, <2>2, <2>3 DEF Progress
<1>11. CASE Throw
  <2>1. /\ pc = "for" /\ it <= Len(strings) /\ strings[it] # "int" /\ exc' = strings[it]
        /\ pc' = "thrown" /\ currentTryBlock' = "block_0" /\ UNCHANGED <<args, it, value, saw>>
    BY <1>11 DEF Throw, client
  <2>2. value < it /\ Skipped(it - 1) /\ strings[it] \in {"invalid", "range"}
    BY <1>0, <2>1 DEF Progress, Words
  <2>3. StopsHere(strings[it] = exc)'
    BY <1>2, <2>1, <2>2 DEF StopsHere, args
  <2>. QED
    BY <2>1, <2>2, <2>3 DEF Progress, NoTry
<1>12. CASE HandleCatchClause_0
  <2>1. /\ pc = "thrown" /\ UNCHANGED <<args, it, value, saw, done>>
        /\ \/ /\ catch_errors /\ suspendIdx' = ContinueAt(exc) /\ pc' = "caught"
           \/ /\ ~catch_errors /\ pc' = "thrown" /\ exc' = exc
    BY <1>12 DEF HandleCatchClause_0, client
  <2>2. StopsHere(strings[it] = exc) /\ exc \in {"invalid", "range"} /\ saw \in {"nothing", "value"}
    BY <2>1 DEF Progress
  <2>3. ~done
    BY <2>1 DEF IInv, Control, InLoop
  <2>4. strings' = strings /\ catch_errors' = catch_errors
    BY <2>1 DEF args
  <2>5. CASE catch_errors /\ suspendIdx' = ContinueAt(exc) /\ pc' = "caught"
    <3>1. CASE exc = "invalid"
      <4>1. suspendIdx' = 20
        BY <2>5, <3>1 DEF ContinueAt
      <4>2. Skipped(it)
        <5>1. strings[it] # "int" /\ ~Documented!Stops(it)
          BY <2>2, <2>5, <3>1 DEF StopsHere, Documented!Stops
        <5>2. ASSUME NEW j \in (value + 1)..it PROVE j = it \/ j \in (value + 1)..(it - 1)
          BY <1>0
        <5>. QED
          BY <2>2, <5>1, <5>2 DEF StopsHere, Skipped
      <4>3. Label'
        BY <1>2, <2>1, <2>2, <2>4, <4>1, <4>2 DEF Label, StopsHere
      <4>. QED
        BY <2>1, <2>2, <2>3, <2>5, <4>3 DEF Progress
    <3>2. CASE exc = "range"
      <4>1. suspendIdx' = 21
        BY <2>5, <3>2 DEF ContinueAt
      <4>2. BreaksHere
        BY <2>2, <2>5, <3>2 DEF BreaksHere, StopsHere
      <4>3. Label'
        BY <1>2, <2>1, <4>1, <4>2 DEF Label
      <4>. QED
        BY <2>1, <2>2, <2>3, <2>5, <4>3 DEF Progress
    <3>. QED
      BY <2>2, <3>1, <3>2
  <2>6. CASE ~catch_errors /\ pc' = "thrown" /\ exc' = exc
    <3>1. StopsHere(strings[it] = exc)'
      BY <1>2, <2>1, <2>2, <2>4, <2>6 DEF StopsHere
    <3>. QED
      BY <2>1, <2>2, <2>4, <2>6, <3>1 DEF Progress
  <2>. QED
    BY <2>1, <2>5, <2>6
<1>13. CASE Escape
  <2>1. /\ pc = "thrown" /\ currentTryBlock = NoTry /\ done' = TRUE /\ pc' = "caught"
        /\ UNCHANGED <<args, it, value, saw>>
    BY <1>13 DEF Escape, client
  <2>2. ThrowsHere /\ saw \in {"nothing", "value"}
    BY <2>1 DEF Progress, ThrowsHere, StopsHere
  <2>. QED
    BY <1>2, <2>1, <2>2 DEF Progress
<1>14. CASE AfterHandle
  <2>1. /\ pc = "caught" /\ pc' = IF done THEN "returned" ELSE "step"
        /\ UNCHANGED <<args, it, value, saw, done, suspendIdx, m_has_exception>>
    BY <1>14 DEF AfterHandle, frame, promise, client
  <2>2. done => m_has_exception /\ ThrowsHere
    BY <2>1 DEF IInv, Control, InLoop, Progress
  <2>3. ~done => Label /\ suspendIdx \in {20, 21}
    BY <2>1 DEF Progress, Label
  <2>. QED
    BY <1>2, <1>3, <2>1, <2>2, <2>3 DEF Progress
<1>15. CASE Observe
  <2>1. /\ pc = "returned" /\ pc' = "loop" /\ UNCHANGED <<args, it, suspendIdx, done>>
        /\ saw' = IF done THEN IF m_has_exception THEN "exception" ELSE "end" ELSE "value"
        /\ value' = IF done THEN value ELSE m_value
    BY <1>15 DEF Observe
  <2>2. ~done => m_value = it /\ suspendIdx = 1
    BY <2>1 DEF Progress, IInv, Control, Ended
  <2>. QED
    BY <2>1, <2>2 DEF Progress, Seen
<1>16. CASE Discard
  BY <1>16 DEF Discard, Progress
<1>. QED
  BY <1>4, <1>5, <1>6, <1>7, <1>8, <1>9, <1>10, <1>11, <1>12, <1>13, <1>14, <1>15, <1>16
     DEF Next, Resumed

(* Only Observe and Discard are steps of the generator in the comment.     *)
LEMMA StepFollows ==
  IInv /\ Progress /\ [Next]_vars => [Documented!Next]_(Documented!vars)
<1> SUFFICES ASSUME IInv, Progress, [Next]_vars
             PROVE  Documented!Next \/ UNCHANGED <<strings, catch_errors, saw, value>>
  BY DEF Documented!vars
<1>1. CASE UNCHANGED vars
  BY <1>1 DEF vars, args, client
<1>2. CASE Advance \/ EnterAtStart \/ EnterAtYield \/ EnterAtContinue
  BY <1>2 DEF Advance, EnterAtStart, EnterAtYield, EnterAtContinue, args, client
<1>3. CASE Return \/ Yield \/ Throw
  BY <1>3 DEF Return, Yield, Throw, args, client
<1>4. CASE HandleCatchClause_0 \/ Escape \/ AfterHandle
  BY <1>4 DEF HandleCatchClause_0, Escape, AfterHandle, args, client
<1>5. CASE Observe
  <2>1. /\ pc = "returned" /\ strings' = strings /\ catch_errors' = catch_errors
        /\ saw' = IF done THEN IF m_has_exception THEN "exception" ELSE "end" ELSE "value"
        /\ value' = IF done THEN value ELSE m_value
    BY <1>5 DEF Observe, args
  <2>2. saw \in {"nothing", "value"}
    BY <2>1 DEF Progress
  <2>3. CASE ~done
    <3>1. StopsHere(strings[it] = "int") /\ m_value = it
      BY <2>1, <2>3 DEF Progress
    <3>2. Documented!Ints # {} /\ Documented!Min(Documented!Ints) = it
      BY <3>1, IntFacts
    <3>. QED
      BY <2>1, <2>2, <2>3, <3>1, <3>2 DEF Documented!Next, Documented!Advance
  <2>4. CASE done /\ m_has_exception
    <3>1. ThrowsHere
      BY <2>1, <2>4 DEF Progress
    <3>2. Documented!Ints = {} /\ Documented!Reachable # Documented!Rest /\ ~catch_errors
      BY <3>1, NoIntFacts DEF ThrowsHere, StopsHere
    <3>. QED
      BY <2>1, <2>2, <2>4, <3>2 DEF Documented!Next, Documented!Advance
  <2>5. CASE done /\ ~m_has_exception
    <3>1. Skipped(Len(strings)) \/ BreaksHere
      BY <2>1, <2>5 DEF Progress
    <3>2. Documented!Ints = {} /\ (catch_errors \/ Documented!Reachable = Documented!Rest)
      BY <3>1, NoIntFacts DEF BreaksHere, StopsHere
    <3>. QED
      BY <2>1, <2>2, <2>5, <3>2 DEF Documented!Next, Documented!Advance, IInv, TypeOK
  <2>. QED
    BY <2>3, <2>4, <2>5
<1>6. CASE Discard
  <2>1. saw # "gone"
    BY <1>6 DEF Discard, Progress
  <2>. QED
    BY <1>6, <2>1 DEF Discard, args, Documented!Next, Documented!Discard
<1>. QED
  BY <1>1, <1>2, <1>3, <1>4, <1>5, <1>6 DEF Next, Resumed

(* The lowered generator does what the coroutine in the comment does, for  *)
(* every range of strings.                                                 *)
THEOREM LoweringFollowsTheComment == Spec => FollowsTheComment
<1>1. Init => Documented!Init
  BY InputAssumption DEF Init, Documented!Init, Words, Documented!Words
<1>2. Init => Progress
  BY DEF Init, Progress, Seen
<1>. QED
  BY <1>1, <1>2, Inductive, ProgressStep, StepFollows, PTL
     DEF Spec, FollowsTheComment, Documented!Spec
===============================================================================
