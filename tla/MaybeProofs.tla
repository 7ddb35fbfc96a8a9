------------------------------ MODULE MaybeProofs ------------------------------
(***************************************************************************)
(* Proofs about Maybe, for all arguments: the result is there when it is   *)
(* read and is that of the same calculation without a coroutine, no object *)
(* of a frame is destroyed twice although an awaiter destroys it, and the  *)
(* holder of the result finds its pointer if the frame is on the stack.    *)
(***************************************************************************)
EXTENDS Maybe, LeastNumber, TLAPS

(* The awaits of the header's variant do not short-circuit, see            *)
(* SameAsWithoutCoroutine in the run of the header: they get no empty      *)
(* optional here.                                                          *)
HeaderDiscipline ==
  "header" \in Functions =>
    \A x \in Arguments["header"] :
      safe_divide(x.a, x.b) # nullopt /\ safe_sqrt(x.c) # nullopt

(* What is alive at each place; a frame on the heap is gone at its end.    *)
Places ==
  /\ fn \in Functions /\ args \in Arguments[fn]
  /\ pc = "ramp" => alive = {"promise_", "initial_awaiter_"} /\ dead = {}
  /\ pc \in {"loop", "second", "thrown"} => alive = {"promise_"} /\ dead = {}
  /\ pc \in {"ramp", "loop", "second", "thrown"} => ~freed
  /\ pc = "end" => /\ freed <=> fn = "throws"
                   /\ ~freed => "promise_" \in alive
  /\ dead = IF fn = "throws" /\ freed THEN {"promise_"} ELSE {}

(* Whoever ends the coroutine has emplaced a result: an awaiter, return or *)
(* unhandled_exception().                                                  *)
Emplaced == pc \in {"end", "moved", "converted"} => stage # empty

(* Every step keeps the result.                                            *)
LEMMA EmplacedStep == Emplaced /\ [Next]_vars => Emplaced'
<1> SUFFICES ASSUME Emplaced, [Next]_vars PROVE Emplaced'
  OBVIOUS
<1> USE DEF Emplaced
<1>1. CASE UNCHANGED vars
  BY <1>1 DEF vars
<1>2. CASE EnterBody \/ DoubleThrows
  BY <1>2 DEF EnterBody, DoubleThrows
<1>3. CASE AwaitFirst \/ AwaitSecond
  <2>1. ShortCircuit \/ pc' \in {"loop", "second"}
    BY <1>3 DEF AwaitFirst, AwaitSecond
  <2>. QED
    BY <2>1 DEF ShortCircuit, emplace, empty
<1>4. CASE HeaderFirst \/ HeaderSecond
  BY <1>4 DEF HeaderFirst, HeaderSecond
<1>5. CASE ChainReturns \/ DoubleReturns \/ UnhandledException
  BY <1>5 DEF ChainReturns, DoubleReturns, UnhandledException, CoReturn, ExceptionToResult,
              emplace, empty
<1>6. CASE ReturnHolder \/ Convert
  BY <1>6 DEF ReturnHolder, Convert
<1>. QED
  BY <1>1, <1>2, <1>3, <1>4, <1>5, <1>6 DEF Next

(* The conversion to optional never reads an empty holder, whichever       *)
(* optionals are empty.                                                    *)
THEOREM ResultIsThere == Spec => []EmplacedBeforeConversion
<1>1. Init => Emplaced
  BY DEF Init, Emplaced
<1>2. Emplaced => EmplacedBeforeConversion
  BY DEF Emplaced, EmplacedBeforeConversion
<1>. QED
  BY <1>1, <1>2, EmplacedStep, PTL DEF Spec

(* Every step preserves what is said of the places.                        *)
LEMMA PlacesStep == ASSUME HeaderDiscipline PROVE Places /\ [Next]_vars => Places'
<1> SUFFICES ASSUME Places, [Next]_vars PROVE Places'
  OBVIOUS
<1>1. CASE UNCHANGED vars
  BY <1>1 DEF vars, Places
<1>2. CASE EnterBody
  <2>1. /\ alive' = {"promise_"} /\ dead' = {} /\ pc' \in {"loop", "second"}
        /\ UNCHANGED <<fn, args, freed, stage>> /\ ~freed
    BY <1>2 DEF EnterBody, Lifetimes, Places
  <2>. QED
    BY <2>1 DEF Places
<1>3. ASSUME ShortCircuit, alive = {"promise_"}, dead = {}, ~freed, fn = "chained",
             UNCHANGED <<fn, args, freed>>
      PROVE  Places'
  <2>1. alive' = {"promise_", "awaiter_storage_"} /\ dead' = {} /\ pc' = "end"
    BY <1>3 DEF ShortCircuit, Lifetimes, HeldAtAwait, AfterSuspend
  <2>. QED
    BY <1>3, <2>1 DEF Places
<1>4. CASE AwaitFirst
  <2>1. /\ fn = "chained" /\ alive = {"promise_"} /\ dead = {} /\ ~freed
        /\ UNCHANGED <<fn, args, freed>>
    BY <1>4 DEF AwaitFirst, Places
  <2>2. ShortCircuit \/ (pc' = "second" /\ UNCHANGED <<alive, dead, stage>>)
    BY <1>4 DEF AwaitFirst
  <2>. QED
    BY <1>3, <2>1, <2>2 DEF Places
<1>5. CASE AwaitSecond
  <2>1. /\ fn = "chained" /\ alive = {"promise_"} /\ dead = {} /\ ~freed
        /\ UNCHANGED <<fn, args, freed>>
    BY <1>5 DEF AwaitSecond, Places
  <2>2. ShortCircuit \/ (pc' = "loop" /\ UNCHANGED <<alive, dead, stage>>)
    BY <1>5 DEF AwaitSecond
  <2>. QED
    BY <1>3, <2>1, <2>2 DEF Places
<1>6. CASE HeaderFirst \/ HeaderSecond
  <2>1. /\ fn = "header" /\ pc \in {"loop", "second"} /\ pc' \in {"loop", "second"}
        /\ UNCHANGED <<fn, args, freed>>
    BY <1>6 DEF HeaderFirst, HeaderSecond
  <2>2. safe_divide(args.a, args.b) # nullopt /\ safe_sqrt(args.c) # nullopt
    BY <2>1 DEF HeaderDiscipline, Places
  <2>3. UNCHANGED <<stage, alive, dead>>
    BY <1>6, <2>2 DEF HeaderFirst, HeaderSecond, HeaderAwait
  <2>. QED
    BY <2>1, <2>3 DEF Places
<1>7. CASE ChainReturns \/ DoubleReturns \/ UnhandledException
  <2>1. pc \in {"loop", "second", "thrown"} /\ FinalSuspend
    BY <1>7 DEF ChainReturns, DoubleReturns, UnhandledException, CoReturn
  <2>2. /\ pc' = "end" /\ freed' = (fn = "throws") /\ UNCHANGED <<fn, args>>
        /\ fn # "throws" => UNCHANGED <<alive, dead>>
        /\ fn = "throws" => dead' = dead \cup {"promise_"}
    BY <2>1 DEF FinalSuspend
  <2>. QED
    BY <2>1, <2>2 DEF Places
<1>8. CASE DoubleThrows
  BY <1>8 DEF DoubleThrows, Places
<1>9. CASE ReturnHolder
  <2>1. /\ dead' = dead /\ pc = "end" /\ pc' = "moved" /\ UNCHANGED <<fn, args, stage>>
        /\ freed' /\ (freed <=> fn = "throws")
    BY <1>9 DEF ReturnHolder, Lifetimes, Places
  <2>. QED
    BY <2>1 DEF Places
<1>10. CASE Convert
  BY <1>10 DEF Convert, Places
<1>. QED
  BY <1>1, <1>2, <1>4, <1>5, <1>6, <1>7, <1>8, <1>9, <1>10 DEF Next

(* What is alive at each place, in every reachable state.                  *)
THEOREM PlacesHold == ASSUME HeaderDiscipline PROVE Spec => []Places
<1>1. Init => Places
  BY DEF Init, Places
<1>. QED
  BY <1>1, PlacesStep, PTL DEF Spec

(* An eager frame on the stack is not destroyed again when it goes out of  *)
(* scope, and one on the heap destroys nothing but its promise twice.      *)
THEOREM NothingDestroyedTwice == ASSUME HeaderDiscipline PROVE Spec => []DestroyedOnce
<1>1. Places => DestroyedOnce
  BY DEF Places, DestroyedOnce
<1>. QED
  BY <1>1, PlacesHold, PTL

(* A frame on the stack outlives everything its functions do in ramp().    *)
FrameThere == fn # "throws" /\ (pc \notin {"moved", "converted"} => ~freed)

(* If no function has its frame on the heap, the holder that is moved out  *)
(* of ramp() writes to a promise that still exists.                        *)
THEOREM PointerKept == ASSUME "throws" \notin Functions PROVE Spec => PointerExists
<1>1. Init => FrameThere
  BY DEF Init, FrameThere
<1>2. FrameThere /\ [Next]_vars => FrameThere'
  <2> SUFFICES ASSUME FrameThere, [Next]_vars PROVE FrameThere'
    OBVIOUS
  <2> USE DEF FrameThere
  <2>1. CASE UNCHANGED vars
    BY <2>1 DEF vars
  <2>2. CASE EnterBody \/ DoubleThrows \/ ReturnHolder \/ Convert
    BY <2>2 DEF EnterBody, DoubleThrows, ReturnHolder, Convert
  <2>3. CASE AwaitFirst \/ AwaitSecond \/ HeaderFirst \/ HeaderSecond
    BY <2>3 DEF AwaitFirst, AwaitSecond, HeaderFirst, HeaderSecond
  <2>4. CASE ChainReturns \/ DoubleReturns \/ UnhandledException
    BY <2>4 DEF ChainReturns, DoubleReturns, UnhandledException, CoReturn, FinalSuspend
  <2>. QED
    BY <2>1, <2>2, <2>3, <2>4 DEF Next
<1>3. FrameThere /\ [Next]_vars => [data_' # data_ => ~freed]_vars
  <2> SUFFICES ASSUME FrameThere, Next, data_' # data_ PROVE ~freed
    OBVIOUS
  <2>1. ReturnHolder
    BY DEF Next, EnterBody, AwaitFirst, AwaitSecond, HeaderFirst, HeaderSecond, ChainReturns,
           DoubleReturns, DoubleThrows, UnhandledException, CoReturn, FinalSuspend, Convert
  <2>. QED
    BY <2>1 DEF ReturnHolder, FrameThere
<1>. QED
  BY <1>1, <1>2, <1>3, PTL DEF Spec, PointerExists

-------------------------------------------------------------------------------
(* The two calculations of one iteration give an int, or nothing.          *)
LEMMA QuotientType == ASSUME NEW n \in Int, NEW d \in Int, d # 0 PROVE Quotient(n, d) \in Int
<1> DEFINE abs(x) == IF x < 0 THEN -x ELSE x
           q == abs(n) \div abs(d)
<1>1. abs(n) \in Nat /\ abs(d) \in Nat \ {0}
  OBVIOUS
<1> HIDE DEF abs
<1>2. q \in Int /\ -q \in Int
  BY <1>1
<1>3. Quotient(n, d) = IF (n < 0) = (d < 0) THEN q ELSE -q
  BY DEF Quotient, abs
<1>. QED
  BY <1>2, <1>3

(* The least r with x < (r + 1)^2 is the root: r^2 > x would say that r - 1*)
(* is one.                                                                 *)
LEMMA RootType == ASSUME NEW x \in Nat PROVE Root(x) \in 0..x
<1> DEFINE T == {r \in Nat : x < (r + 1) * (r + 1)}
<1>1. x \in T
  OBVIOUS
<1>2. PICK m \in T : \A n \in T : m <= n
  BY <1>1, LeastElement
<1>3. m \in 0..x
  BY <1>1, <1>2
<1>4. m * m <= x
  <2>1. CASE m = 0
    BY <2>1
  <2>2. CASE m # 0
    <3>1. m - 1 \in Nat /\ ~(m <= m - 1) /\ (m - 1) + 1 = m
      BY <1>3, <2>2
    <3>2. ~(x < ((m - 1) + 1) * ((m - 1) + 1))
      BY <1>2, <3>1
    <3>3. m * m \in Nat
      BY <1>3
    <3>. QED
      BY <3>1, <3>2, <3>3
  <2>. QED
    BY <2>1, <2>2
<1>5. \E r \in 0..x : r * r <= x /\ x < (r + 1) * (r + 1)
  BY <1>2, <1>3, <1>4
<1>. QED
  BY <1>5 DEF Root

(* The operands of the awaits hold an int if they hold anything.           *)
LEMMA OptionalsType ==
  /\ \A n, d \in Int : safe_divide(n, d) # nullopt => safe_divide(n, d)[1] \in Int
  /\ \A x \in Int : safe_sqrt(x) # nullopt => safe_sqrt(x)[1] \in Int
  BY QuotientType, RootType DEF safe_divide, safe_sqrt, nullopt

(* The loop without a coroutine adds the same number in every iteration.   *)
Engaged(x) == safe_divide(x.a, x.b) # nullopt /\ safe_sqrt(x.c) # nullopt
Step(x)    == safe_divide(x.a, x.b)[1] + safe_sqrt(x.c)[1]

After(x, n) == IF n = 0 THEN <<0>> ELSE IF Engaged(x) THEN <<n * Step(x)>> ELSE nullopt

(* What an iteration adds is an int.                                       *)
LEMMA StepType ==
  ASSUME NEW x \in [a : Int, b : Int, c : Int, reps : Nat], Engaged(x)
  PROVE  /\ safe_divide(x.a, x.b)[1] \in Int /\ safe_sqrt(x.c)[1] \in Int
         /\ Step(x) \in Int
  BY OptionalsType DEF Engaged, Step

AfterSolves(x, f) ==
  f = [n \in 0..x.reps |->
         IF n = 0 THEN <<0>>
         ELSE IF nullopt \in {f[n - 1], safe_divide(x.a, x.b), safe_sqrt(x.c)} THEN nullopt
         ELSE <<f[n - 1][1] + safe_divide(x.a, x.b)[1] + safe_sqrt(x.c)[1]>>]

(* The formula follows the recursion of ChainedNoCoro.                     *)
LEMMA AfterStep ==
  ASSUME NEW x \in [a : Int, b : Int, c : Int, reps : Nat], NEW n \in Nat \ {0}
  PROVE  After(x, n) =
           IF nullopt \in {After(x, n - 1), safe_divide(x.a, x.b), safe_sqrt(x.c)} THEN nullopt
           ELSE <<After(x, n - 1)[1] + safe_divide(x.a, x.b)[1] + safe_sqrt(x.c)[1]>>
<1>1. CASE ~Engaged(x)
  BY <1>1 DEF After, Engaged
<1>2. CASE Engaged(x)
  <2> DEFINE d == safe_divide(x.a, x.b)[1]
             r == safe_sqrt(x.c)[1]
  <2>1. d \in Int /\ r \in Int /\ Step(x) = d + r
    BY <1>2, StepType DEF Step
  <2>2. safe_divide(x.a, x.b) # nullopt /\ safe_sqrt(x.c) # nullopt
    BY <1>2 DEF Engaged
  <2> HIDE DEF d, r
  <2>3. After(x, n - 1) = <<(n - 1) * (d + r)>>
    <3>1. CASE n = 1
      <4>1. (n - 1) * (d + r) = 0
        BY <3>1, <2>1
      <4>. QED
        BY <3>1, <4>1 DEF After
    <3>2. CASE n # 1
      BY <1>2, <2>1, <3>2 DEF After
    <3>. QED
      BY <3>1, <3>2
  <2>4. After(x, n) = <<n * (d + r)>>
    BY <1>2, <2>1 DEF After
  <2>5. n * (d + r) = (n - 1) * (d + r) + d + r
    BY <2>1
  <2>6. After(x, n - 1) # nullopt /\ After(x, n - 1)[1] = (n - 1) * (d + r)
    BY <2>3 DEF nullopt
  <2>. QED
    BY <2>2, <2>4, <2>5, <2>6 DEF d, r
<1>. QED
  BY <1>1, <1>2

(* Whatever solves the recursion of ChainedNoCoro is this formula.         *)
LEMMA ChainedClosed ==
  ASSUME NEW x \in [a : Int, b : Int, c : Int, reps : Nat]
  PROVE  ChainedNoCoro(x) = After(x, x.reps)
<1> DEFINE after[n \in 0..x.reps] ==
             IF n = 0 THEN <<0>>
             ELSE IF nullopt \in {after[n - 1], safe_divide(x.a, x.b), safe_sqrt(x.c)} THEN nullopt
             ELSE <<after[n - 1][1] + safe_divide(x.a, x.b)[1] + safe_sqrt(x.c)[1]>>
<1>1. ChainedNoCoro(x) = after[x.reps]
  BY DEF ChainedNoCoro
<1> DEFINE g == [n \in 0..x.reps |-> After(x, n)]
<1>2. AfterSolves(x, g)
  <2>1. ASSUME NEW n \in 0..x.reps
        PROVE  g[n] = IF n = 0 THEN <<0>>
                      ELSE IF nullopt \in {g[n - 1], safe_divide(x.a, x.b), safe_sqrt(x.c)}
                      THEN nullopt
                      ELSE <<g[n - 1][1] + safe_divide(x.a, x.b)[1] + safe_sqrt(x.c)[1]>>
    <3>1. CASE n = 0
      BY <3>1 DEF After
    <3>2. CASE n # 0
      <4>1. n \in Nat \ {0} /\ n - 1 \in 0..x.reps /\ g[n] = After(x, n) /\ g[n - 1] = After(x, n - 1)
        BY <3>2
      <4>. QED
        BY <3>2, <4>1, AfterStep
    <3>. QED
      BY <3>1, <3>2
  <2>. QED
    BY <2>1 DEF AfterSolves
<1> HIDE DEF g
<1>3. AfterSolves(x, after)
  BY <1>2, Zenon DEF AfterSolves, after
<1> HIDE DEF after
<1> DEFINE T == {n \in 0..x.reps : after[n] # After(x, n)}
<1>4. \A n \in 0..x.reps :
        after[n] = IF n = 0 THEN <<0>>
                   ELSE IF nullopt \in {after[n - 1], safe_divide(x.a, x.b), safe_sqrt(x.c)}
                   THEN nullopt
                   ELSE <<after[n - 1][1] + safe_divide(x.a, x.b)[1] + safe_sqrt(x.c)[1]>>
  BY <1>3 DEF AfterSolves
<1>5. T = {}
  <2> SUFFICES ASSUME T # {} PROVE FALSE
    OBVIOUS
  <2>0. T \subseteq Nat
    OBVIOUS
  <2>1. PICK m \in T : \A n \in T : m <= n
    BY <2>0, LeastElement
  <2>2. m # 0
    BY <1>4 DEF After
  <2>3. m \in Nat \ {0} /\ m - 1 \in 0..x.reps /\ m - 1 \notin T
    BY <2>1, <2>2
  <2>4. after[m - 1] = After(x, m - 1)
    BY <2>3
  <2>. QED
    BY <1>4, <2>2, <2>3, <2>4, AfterStep
<1>. QED
  BY <1>1, <1>5

-------------------------------------------------------------------------------
(* Whatever an awaiter reads from an empty optional, and wherever the body *)
(* ends, every number is an int and i stays within the iterations.         *)
Types ==
  /\ TypeOK
  /\ args \in [a : Int, b : Int, c : Int, reps : Nat]
  /\ fn = "header" => args.reps = 1
  /\ pc = "second" /\ fn = "chained" => i < args.reps

(* What the stages of the holder may hold: nothing, nullopt or a number.   *)
LEMMA Optionals ==
  /\ <<>> \in Optional(Optional(Int))
  /\ <<nullopt>> \in Optional(Optional(Int))
  /\ \A v \in Int : <<<<v>>>> \in Optional(Optional(Int))
<1>1. <<>> \in Optional(Int) /\ \A v \in Int : <<v>> \in Optional(Int)
  BY DEF Optional
<1>2. <<>> \in Optional(Optional(Int)) /\ \A o \in Optional(Int) : <<o>> \in Optional(Optional(Int))
  BY DEF Optional
<1>. QED
  BY <1>1, <1>2 DEF nullopt

(* Every call begins with its numbers in range.                            *)
LEMMA TypesInit == Init => Types
<1> SUFFICES ASSUME Init PROVE Types
  OBVIOUS
<1>1. args \in [a : Int, b : Int, c : Int, reps : Nat]
  BY ArgumentAssumption DEF Init
<1>2. i \in 0..args.reps
  BY <1>1 DEF Init
<1>3. stage \in Optional(Optional(Int)) /\ returned \in Optional(Optional(Int))
  BY Optionals DEF Init, empty
<1>4. /\ freed \in BOOLEAN
      /\ result1 \in Int /\ result \in Int /\ pc = "ramp"
  <2>1. freed \in BOOLEAN
    BY Zenon DEF Init
  <2>2. result1 \in Int /\ result \in Int
    <3>1. result1 = 0 /\ result = 0
      BY Zenon DEF Init
    <3>. QED
      BY <3>1
  <2>3. pc = "ramp"
    BY DEF Init
  <2>. QED
    BY <2>1, <2>2, <2>3, Zenon
<1>5. alive \in SUBSET Objects /\ dead \in SUBSET Objects
  BY DEF Init, Objects
<1>6. fn \in Functions /\ args \in Arguments[fn] /\ (fn = "header" => args.reps = 1)
  BY DEF Init
<1>7. data_ = "ramp"
  BY DEF Init
<1>. QED
  BY <1>1, <1>2, <1>3, <1>4, <1>5, <1>6, <1>7 DEF Types, TypeOK

(* No step of the body, its awaits or its holder leaves the types.         *)
LEMMA TypesStep == Types /\ [Next]_vars => Types'
<1> SUFFICES ASSUME Types, [Next]_vars PROVE Types'
  OBVIOUS
<1> USE DEF Types
<1>0. /\ args \in [a : Int, b : Int, c : Int, reps : Nat]
      /\ args.a \in Int /\ args.b \in Int /\ args.c \in Int /\ args.reps \in Nat
      /\ i \in 0..args.reps /\ result1 \in Int /\ result \in Int
  BY DEF TypeOK
<1>1. CASE UNCHANGED vars
  BY <1>1 DEF vars, TypeOK
<1>2. CASE EnterBody
  BY <1>2 DEF EnterBody, Lifetimes, TypeOK, Objects
<1>3. ASSUME ShortCircuit, UNCHANGED <<fn, args, freed, data_, returned>> PROVE Types'
  <2>1. stage' \in Optional(Optional(Int))
    BY <1>3, Optionals DEF ShortCircuit, emplace
  <2>. QED
    BY <1>3, <2>1 DEF ShortCircuit, Lifetimes, AfterSuspend, HeldAtAwait, TypeOK, Objects
<1>4. CASE AwaitFirst
  <2>1. CASE ShortCircuit
    BY <1>3, <1>4, <2>1 DEF AwaitFirst
  <2>2. CASE ~ShortCircuit
    <3> DEFINE opt == safe_divide(args.a, args.b)
    <3>1. opt # nullopt /\ result1' = opt[1]
      BY <1>4, <2>2 DEF AwaitFirst
    <3>2. opt[1] \in Int
      BY <1>0, <3>1, OptionalsType
    <3>. QED
      BY <1>0, <1>4, <2>2, <3>1, <3>2 DEF AwaitFirst, MoreToDo, TypeOK
  <2>. QED
    BY <2>1, <2>2
<1>5. CASE AwaitSecond
  <2>1. CASE ShortCircuit
    BY <1>3, <1>5, <2>1 DEF AwaitSecond
  <2>2. CASE ~ShortCircuit
    <3> DEFINE opt == safe_sqrt(args.c)
    <3>1. opt # nullopt /\ result' = result + result1 + opt[1]
      BY <1>5, <2>2 DEF AwaitSecond
    <3>2. opt[1] \in Int
      BY <1>0, <3>1, OptionalsType
    <3>3. result' \in Int /\ i + 1 \in 0..args.reps
      BY <1>0, <1>5, <3>1, <3>2 DEF AwaitSecond
    <3>. QED
      BY <1>0, <1>5, <2>2, <3>3 DEF AwaitSecond, TypeOK
  <2>. QED
    BY <2>1, <2>2
<1>6. ASSUME NEW opt, HeaderAwait(opt) PROVE /\ stage' \in Optional(Optional(Int))
                                              /\ alive' \in SUBSET Objects
                                              /\ dead' \in SUBSET Objects
  <2>1. CASE opt # nullopt
    BY <1>6, <2>1 DEF HeaderAwait, TypeOK
  <2>2. CASE opt = nullopt
    BY <1>6, <2>2, Optionals DEF HeaderAwait, emplace, Lifetimes, TypeOK, Objects
  <2>. QED
    BY <2>1, <2>2
<1>7. CASE HeaderFirst
  <2>1. result1' \in Int
    BY <1>0, <1>7, OptionalsType, ArgumentAssumption DEF HeaderFirst, await_resume
  <2>. QED
    BY <1>0, <1>6, <1>7, <2>1 DEF HeaderFirst, TypeOK
<1>8. CASE HeaderSecond
  <2>1. \A r \in await_resume(safe_sqrt(args.c)) : r \in Int
    BY <1>0, OptionalsType, ArgumentAssumption DEF await_resume
  <2>2. result' \in Int
    BY <1>0, <1>8, <2>1 DEF HeaderSecond
  <2>. QED
    BY <1>0, <1>6, <1>8, <2>2 DEF HeaderSecond, TypeOK
<1>9. CASE ChainReturns \/ DoubleReturns \/ UnhandledException
  <2>1. stage' \in Optional(Optional(Int)) /\ FinalSuspend
    <3>1. args.a * 2 \in Int
      BY <1>0
    <3>. QED
      BY <1>0, <1>9, <3>1, Optionals
      DEF ChainReturns, DoubleReturns, UnhandledException, CoReturn, ExceptionToResult, emplace
  <2>2. alive' \in SUBSET Objects /\ dead' \in SUBSET Objects /\ freed' \in BOOLEAN
    BY <2>1 DEF FinalSuspend, TypeOK, Objects
  <2>. QED
    BY <2>1, <2>2 DEF FinalSuspend, TypeOK
<1>10. CASE DoubleThrows
  BY <1>10 DEF DoubleThrows, TypeOK
<1>11. CASE ReturnHolder
  <2>1. alive' \in SUBSET Objects /\ dead' \in SUBSET Objects
    BY <1>11 DEF ReturnHolder, Lifetimes, TypeOK, Objects
  <2>. QED
    BY <1>11, <2>1 DEF ReturnHolder, TypeOK
<1>12. CASE Convert
  BY <1>12 DEF Convert, TypeOK
<1>. QED
  BY <1>1, <1>2, <1>4, <1>5, <1>7, <1>8, <1>9, <1>10, <1>11, <1>12 DEF Next

(* The types and what they need, in every reachable state.                 *)
LEMMA TypesHold == Spec => []Types
  BY TypesInit, TypesStep, PTL DEF Spec

(* The state stays within its types without any assumption about what the  *)
(* awaits of the header get.                                               *)
THEOREM TypeCorrect == Spec => []TypeOK
<1>1. Types => TypeOK
  BY DEF Types
<1>. QED
  BY <1>1, TypesHold, PTL

-------------------------------------------------------------------------------
(* What the coroutine is to give, and what it has added up on its way: the *)
(* two awaits of an iteration have given its numbers, and an empty optional*)
(* has ended the body at once.                                             *)
Expected == IF fn = "throws" THEN ThrowsNoCoro(args) ELSE After(args, args.reps)

Computed ==
  /\ pc = "ramp" => i = 0 /\ result = 0
  /\ pc \in {"loop", "second"} /\ fn # "throws" => <<result>> = After(args, i)
  /\ pc = "loop" => fn # "throws"
  /\ pc = "second" /\ fn # "throws" =>
       /\ safe_divide(args.a, args.b) # nullopt
       /\ result1 = safe_divide(args.a, args.b)[1]
       /\ i < args.reps
  /\ pc = "thrown" => fn = "throws" /\ args.a < 0
  /\ pc \in {"end", "moved"} => stage = <<Expected>>
  /\ pc = "converted" => returned = <<Expected>>

(* Each iteration adds one Step to result, an empty optional or an         *)
(* exception ends the body with what the calculation without a coroutine   *)
(* returns, and the holder passes it on.                                   *)
LEMMA ComputedStep ==
  ASSUME HeaderDiscipline
  PROVE  Types /\ Computed /\ [Next]_vars => Computed'
<1> SUFFICES ASSUME Types, Computed, [Next]_vars PROVE Computed'
  OBVIOUS
<1> DEFINE r1 == safe_divide(args.a, args.b)
           r2 == safe_sqrt(args.c)
<1>0. /\ args \in [a : Int, b : Int, c : Int, reps : Nat]
      /\ fn \in Functions /\ args \in Arguments[fn]
      /\ args.a \in Int /\ args.b \in Int /\ args.c \in Int /\ args.reps \in Nat
      /\ i \in 0..args.reps /\ i \in Nat /\ result1 \in Int /\ result \in Int
  BY DEF Types, TypeOK
<1>1. Expected' = Expected \/ fn' # fn \/ args' # args
  BY DEF Expected
<1>2. CASE UNCHANGED vars
  BY <1>2 DEF vars, Computed, Expected
<1>3. CASE EnterBody
  <2>1. After(args, 0) = <<0>>
    BY DEF After
  <2>. QED
    BY <1>3, <2>1 DEF EnterBody, Computed
<1>4. ASSUME i < args.reps, r1 = nullopt \/ r2 = nullopt, fn = "chained"
      PROVE  Expected = nullopt
  BY <1>0, <1>4 DEF Expected, After, Engaged
<1>5. ASSUME ShortCircuit, i < args.reps, r1 = nullopt \/ r2 = nullopt, fn = "chained",
             UNCHANGED <<fn, args>>
      PROVE  Computed'
  <2>1. stage' = <<nullopt>> /\ pc' = "end"
    BY <1>5 DEF ShortCircuit, emplace, AfterSuspend
  <2>. QED
    BY <1>1, <1>4, <1>5, <2>1 DEF Computed
(* An iteration whose awaits both get a number adds them.                  *)
<1>6. ASSUME r1 # nullopt, r2 # nullopt, <<result>> = After(args, i),
             result1 = r1[1], i < args.reps
      PROVE  <<result + result1 + r2[1]>> = After(args, i + 1)
  <2>1. i + 1 \in Nat \ {0} /\ (i + 1) - 1 = i
    BY <1>0
  <2>2. After(args, i) # nullopt /\ After(args, i)[1] = result
    BY <1>6 DEF nullopt
  <2>3. nullopt \notin {After(args, i), r1, r2}
    BY <1>6, <2>2
  <2>4. After(args, i + 1) = <<After(args, i)[1] + r1[1] + r2[1]>>
    BY <1>0, <2>1, <2>3, AfterStep
  <2>. QED
    BY <1>6, <2>2, <2>4
<1>7. CASE AwaitFirst
  <2>1. pc = "loop" /\ fn = "chained" /\ i < args.reps /\ UNCHANGED <<fn, args>>
    BY <1>7 DEF AwaitFirst, MoreToDo
  <2>2. CASE r1 = nullopt
    BY <1>5, <1>7, <2>1, <2>2 DEF AwaitFirst
  <2>3. CASE r1 # nullopt
    <3>1. result1' = r1[1] /\ pc' = "second" /\ i' = i /\ result' = result
      BY <1>7, <2>3 DEF AwaitFirst
    <3>. QED
      BY <2>1, <2>3, <3>1 DEF Computed
  <2>. QED
    BY <2>2, <2>3
<1>8. CASE AwaitSecond
  <2>1. pc = "second" /\ fn = "chained" /\ i < args.reps /\ UNCHANGED <<fn, args>>
    BY <1>8 DEF AwaitSecond, Computed
  <2>2. CASE r2 = nullopt
    BY <1>5, <1>8, <2>1, <2>2 DEF AwaitSecond
  <2>3. CASE r2 # nullopt
    <3>1. result' = result + result1 + r2[1] /\ pc' = "loop" /\ i' = i + 1
      BY <1>8, <2>3 DEF AwaitSecond
    <3>2. <<result'>> = After(args', i')
      BY <1>6, <2>1, <2>3, <3>1 DEF Computed
    <3>. QED
      BY <2>1, <3>1, <3>2 DEF Computed
  <2>. QED
    BY <2>2, <2>3
<1>9. fn = "header" => r1 # nullopt /\ r2 # nullopt /\ args.reps = 1
  BY <1>0 DEF HeaderDiscipline, Types
<1>10. CASE HeaderFirst
  <2>1. /\ fn = "header" /\ pc = "loop" /\ i = 0 /\ pc' = "second" /\ UNCHANGED <<fn, args, i, result>>
        /\ result1' = r1[1]
    BY <1>9, <1>10 DEF HeaderFirst, await_resume
  <2>. QED
    BY <1>9, <2>1 DEF Computed
<1>11. CASE HeaderSecond
  <2>1. fn = "header" /\ pc = "second" /\ i' = 1 /\ pc' = "loop" /\ UNCHANGED <<fn, args>>
    BY <1>11 DEF HeaderSecond
  <2>2. i = 0 /\ i < args.reps
    BY <1>0, <1>9, <2>1 DEF Computed
  <2>3. await_resume(r2) = {r2[1]}
    BY <1>9, <2>1 DEF await_resume
  <2>4. result' = result1 + r2[1] /\ result = 0
    <3>1. <<result>> = <<0>>
      BY <2>1, <2>2 DEF Computed, After
    <3>. QED
      BY <1>11, <2>3, <3>1 DEF HeaderSecond
  <2>5. r2[1] \in Int
    BY <1>0, <1>9, <2>1, OptionalsType
  <2>6. <<result'>> = After(args', i')
    BY <1>0, <1>6, <1>9, <2>1, <2>2, <2>4, <2>5 DEF Computed
  <2>. QED
    BY <2>1, <2>6 DEF Computed
<1>12. CASE ChainReturns
  <2>1. fn # "throws" /\ pc = "loop" /\ i = args.reps /\ stage' = <<<<result>>>> /\ FinalSuspend
    BY <1>0, <1>12 DEF ChainReturns, CoReturn, emplace, MoreToDo
  <2>2. Expected = <<result>>
    BY <2>1 DEF Computed, Expected
  <2>. QED
    BY <1>1, <2>1, <2>2 DEF FinalSuspend, Computed
<1>13. CASE DoubleReturns
  <2>1. Expected = <<args.a * 2>>
    BY <1>0, <1>13 DEF DoubleReturns, Expected, ThrowsNoCoro
  <2>. QED
    BY <1>1, <1>13, <2>1 DEF DoubleReturns, CoReturn, emplace, FinalSuspend, Computed
<1>14. CASE DoubleThrows
  BY <1>14 DEF DoubleThrows, Computed
<1>15. CASE UnhandledException
  <2>1. Expected = nullopt
    BY <1>0, <1>15 DEF UnhandledException, Computed, Expected, ThrowsNoCoro
  <2>. QED
    BY <1>1, <1>15, <2>1 DEF UnhandledException, ExceptionToResult, emplace, FinalSuspend, Computed
<1>16. CASE ReturnHolder
  BY <1>1, <1>16 DEF ReturnHolder, Computed
<1>17. CASE Convert
  BY <1>1, <1>17 DEF Convert, Computed
<1>. QED
  BY <1>2, <1>3, <1>7, <1>8, <1>10, <1>11, <1>12, <1>13, <1>14, <1>15, <1>16, <1>17 DEF Next

(* The coroutine gives what the same calculation gives without one, for    *)
(* any arguments and any number of iterations.                             *)
THEOREM ResultIsTheSame == ASSUME HeaderDiscipline PROVE Spec => []SameAsWithoutCoroutine
<1>1. Init => Computed
  BY DEF Init, Computed
<1>2. Types /\ Computed => SameAsWithoutCoroutine
  BY ChainedClosed DEF Types, Computed, Expected, SameAsWithoutCoroutine
<1>. QED
  BY <1>1, <1>2, TypesHold, ComputedStep, PTL DEF Spec
===============================================================================
