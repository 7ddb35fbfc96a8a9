---------------------------- MODULE AddValuesProofs ----------------------------
(***************************************************************************)
(* Proofs about AddValues, for all arguments and any width of size_t: the  *)
(* two buffers that every iteration uses twice hold what destroy() expects *)
(* whenever add_values() is suspended, and the result is that of the loop  *)
(* without tasks.                                                          *)
(***************************************************************************)
EXTENDS AddValues, LeastNumber, TLAPS

(* Who runs next says what the frame of add_values() holds: while the inner*)
(* task is between its start and its final transfer the outer frame is     *)
(* suspended at one of its awaits.                                         *)
IInv ==
  /\ pc = "owner" => \/ live = {}
                     \/ live = {"promise_", "initial_awaiter_"} /\ suspendIdx = 0
                     \/ live = {"promise_", "final_awaiter_"}
  /\ pc \in {"while", "second"} => live = {"promise_"}
  /\ (pc = "loop" /\ next \in {"add_values", "compute_value"}) =>
       \/ live = {"promise_", "initial_awaiter_"} /\ suspendIdx = 0 /\ next = "add_values"
       \/ live = {"promise_", "task_storage_", "awaiter_storage_"} /\ suspendIdx \in {1, 2}
  /\ (pc = "loop" /\ next \in {"noop", "null"}) => live = {"promise_", "final_awaiter_"}
  /\ next = "compute_value" => inner.continuation = "add_values"
  /\ pc \in {"owner", "loop", "while", "second"}
  /\ next \in {"null", "noop", "add_values", "compute_value"}

(* Every step preserves the invariant.                                     *)
LEMMA StepInv == IInv /\ [Next]_vars => IInv'
<1> SUFFICES ASSUME IInv, [Next]_vars PROVE IInv'
  OBVIOUS
<1>1. CASE UNCHANGED vars
  BY <1>1 DEF vars, IInv
<1>2. CASE Make
  BY <1>2 DEF Make, Exists, IInv
<1>3. CASE Start
  BY <1>3 DEF Start, IInv
<1>4. CASE EnterBody
  BY <1>4 DEF EnterBody, Resumed, IInv
<1>5. ASSUME NEW index \in {1, 2}, NEW from \in {"while", "second"}, NEW x, Await(index, from, x)
      PROVE  IInv'
  <2>1. inner'.continuation = "add_values"
    BY <1>5 DEF Await, NoTask, Continuation
  <2>2. live' = {"promise_", "task_storage_", "awaiter_storage_"}
    BY <1>5 DEF Await, IInv
  <2>. QED
    BY <1>5, <2>1, <2>2 DEF Await, IInv
<1>6. CASE RunInner
  <2>1. next' = "add_values"
    BY <1>6 DEF RunInner, FinalTransfer, IInv
  <2>. QED
    BY <1>6, <2>1 DEF RunInner, IInv
<1>7. CASE AfterFirst \/ AfterSecond
  <2>1. /\ suspendIdx \in {1, 2} /\ pc = "loop" /\ next = "add_values" /\ next' = "null"
        /\ live' = live \ {"awaiter_storage_", "task_storage_"} /\ pc' \in {"while", "second"}
    BY <1>7 DEF AfterFirst, AfterSecond, Resumed, Finished
  <2>. QED
    BY <2>1 DEF IInv
<1>8. CASE Return
  <2>1. next' = "noop"
    BY <1>8 DEF Return, FinalTransfer
  <2>. QED
    BY <1>8, <2>1 DEF Return, IInv
<1>9. CASE LoopEnds
  BY <1>9 DEF LoopEnds, IInv
<1>10. CASE Destroy
  <2>1. live' = {}
    BY <1>10 DEF Destroy, Held, HeldAt, Done, Exists, IInv
  <2>. QED
    BY <1>10, <2>1 DEF Destroy, IInv
<1>. QED
  BY <1>1, <1>2, <1>3, <1>4, <1>5, <1>6, <1>7, <1>8, <1>9, <1>10 DEF Next, Running

(* The buffers hold exactly what destroySuspendedCoro() destroys at the    *)
(* suspension point the frame is at, in every iteration.                   *)
THEOREM BuffersAlwaysExact == Spec => []BuffersExact
<1>1. Init => IInv
  BY DEF Init, IInv
<1>2. IInv => BuffersExact
  BY DEF IInv, BuffersExact, Held, HeldAt, Done, Exists
<1>. QED
  BY <1>1, <1>2, StepInv, PTL DEF Spec

-------------------------------------------------------------------------------
(* Unsigned numbers: a sum may be taken modulo 2^w in between.             *)
LEMMA WrapTypes == \A n \in Nat : Wrap(n) \in SizeT
  BY WidthAssumption DEF Wrap, SizeT

(* A number of that many bits is itself.                                   *)
LEMMA WrapSizeT == \A n \in SizeT : Wrap(n) = n
  BY WidthAssumption DEF Wrap, SizeT

(* The remainder of a multiple of d and something less than d.             *)
LEMMA Remainder ==
  ASSUME NEW d \in Nat \ {0}, NEW q \in Nat, NEW r \in 0..(d - 1)
  PROVE  (d * q + r) % d = r
  OBVIOUS

(* Taking a part of a sum modulo 2^w before the rest is added changes      *)
(* nothing.                                                                *)
LEMMA WrapInside ==
  ASSUME NEW m \in Nat, NEW n \in Nat
  PROVE  Wrap(m + Wrap(n)) = Wrap(m + n)
<1> DEFINE d == 2 ^ Width
           q == n \div d
           r == n % d
           p == (m + r) \div d
           t == (m + r) % d
<1>1. d \in Nat \ {0}
  BY WidthAssumption
<1> HIDE DEF d
<1>2. q \in Nat /\ r \in 0..(d - 1) /\ n = (d * q) + r
  BY <1>1
<1> HIDE DEF q, r
<1>3. p \in Nat /\ t \in 0..(d - 1) /\ m + r = (d * p) + t
  BY <1>1, <1>2
<1> HIDE DEF p, t
<1>4. m + n = (d * (p + q)) + t /\ p + q \in Nat
  <2>1. d * (p + q) = (d * p) + (d * q)
    BY <1>1, <1>2, <1>3
  <2>2. d * p \in Nat /\ d * q \in Nat
    BY <1>1, <1>2, <1>3
  <2>. QED
    BY <1>1, <1>2, <1>3, <2>1, <2>2
<1>5. (m + n) % d = t
  BY <1>1, <1>3, <1>4, Remainder
<1>. QED
  BY <1>5 DEF Wrap, d, r, t

(* The sum in one formula: as many pairs as there are steps until the two  *)
(* numbers meet, and each pair has the same sum.                           *)
Pairs(p) == (p[2] - p[1] + 1) \div 2
Total(p) == IF p[1] < p[2] THEN Wrap(2 * (p[1] + p[2]) * Pairs(p)) ELSE 0

(* One iteration of the loop takes one pair off.                           *)
LEMMA TotalStep ==
  ASSUME NEW p \in SizeT \X SizeT, p[1] < p[2]
  PROVE  /\ <<p[1] + 1, p[2] - 1>> \in SizeT \X SizeT
         /\ Total(p) = Wrap(2 * p[1] + 2 * p[2] + Total(<<p[1] + 1, p[2] - 1>>))
<1> DEFINE x == p[1]
           y == p[2]
           q == <<x + 1, y - 1>>
<1>1. x \in Nat /\ y \in Nat /\ x < y /\ q \in SizeT \X SizeT /\ q[1] = x + 1 /\ q[2] = y - 1
  BY WidthAssumption DEF SizeT
<1>2. Pairs(p) = (y - x + 1) \div 2 /\ Pairs(q) = (y - x - 1) \div 2
  BY <1>1 DEF Pairs
<1>3. CASE x + 1 < y - 1
  <2>1. Pairs(q) \in Nat /\ Pairs(p) = Pairs(q) + 1
    BY <1>1, <1>2, <1>3
  <2> DEFINE s == x + y
             k == Pairs(q)
  <2>2. s \in Nat /\ q[1] + q[2] = s
    BY <1>1
  <2> HIDE DEF s, k
  <2>3. 2 * s * (k + 1) = 2 * s + 2 * s * k /\ 2 * s * k \in Nat
    BY <2>1, <2>2 DEF k
  <2>4. Total(q) = Wrap(2 * s * k)
    BY <1>1, <1>3, <2>2 DEF Total, k
  <2>5. Total(p) = Wrap(2 * s * (k + 1))
    BY <1>1, <2>1 DEF Total, k, s
  <2>6. 2 * x + 2 * y = 2 * s
    BY <1>1 DEF s
  <2>. QED
    BY <1>1, <2>2, <2>3, <2>4, <2>5, <2>6, WrapInside
<1>4. CASE ~(x + 1 < y - 1)
  <2>1. Pairs(p) = 1
    BY <1>1, <1>2, <1>4
  <2>2. Total(q) = 0 /\ Total(p) = Wrap(2 * (x + y) * 1)
    BY <1>1, <1>4, <2>1 DEF Total
  <2>. QED
    BY <1>1, <2>2
<1>. QED
  BY <1>1, <1>3, <1>4

(* The recursive definition of SumFrom has a solution, so that it says     *)
(* what it seems to say.                                                   *)
SumSolves(f) ==
  f = [p \in SizeT \X SizeT |->
         IF p[1] < p[2] THEN Wrap(2 * p[1] + 2 * p[2] + f[<<p[1] + 1, p[2] - 1>>]) ELSE 0]

(* The function that SumFrom is defined to be does what its definition     *)
(* says.                                                                   *)
LEMMA SumFromUnfolds == SumSolves(SumFrom)
<1> DEFINE g == [q \in SizeT \X SizeT |-> Total(q)]
<1>1. ASSUME NEW q \in SizeT \X SizeT
      PROVE  g[q] = IF q[1] < q[2] THEN Wrap(2 * q[1] + 2 * q[2] + g[<<q[1] + 1, q[2] - 1>>])
                    ELSE 0
  <2>1. CASE q[1] < q[2]
    BY <2>1, TotalStep
  <2>2. CASE ~(q[1] < q[2])
    BY <2>2 DEF Total
  <2>. QED
    BY <2>1, <2>2
<1>2. SumSolves(g)
  BY <1>1 DEF SumSolves
<1> HIDE DEF g
<1>. QED
  BY <1>2, Zenon DEF SumFrom, SumSolves

(* Whatever solves it is the formula, by induction on the distance: of all  *)
(* counterexamples take one whose numbers are closest.                     *)
LEMMA SumIsTotal == ASSUME NEW p \in SizeT \X SizeT PROVE SumFrom[p] = Total(p)
<1> DEFINE Wrong(q) == q[1] < q[2] /\ SumFrom[q] # Total(q)
           T == {q[2] - q[1] : q \in {q \in SizeT \X SizeT : Wrong(q)}}
<1>0. \A q \in SizeT \X SizeT :
        SumFrom[q] = IF q[1] < q[2]
                     THEN Wrap(2 * q[1] + 2 * q[2] + SumFrom[<<q[1] + 1, q[2] - 1>>]) ELSE 0
  BY SumFromUnfolds DEF SumSolves
<1>1. \A q \in SizeT \X SizeT : ~(q[1] < q[2]) => SumFrom[q] = Total(q)
  BY <1>0 DEF Total
<1>2. ASSUME NEW q \in SizeT \X SizeT, Wrong(q) PROVE FALSE
  <2>1. T \subseteq Nat /\ T # {}
    BY <1>2, WidthAssumption DEF SizeT
  <2>2. PICK m \in T : \A n \in T : m <= n
    BY <2>1, LeastElement
  <2>3. PICK r \in SizeT \X SizeT : Wrong(r) /\ m = r[2] - r[1]
    OBVIOUS
  <2> DEFINE t == <<r[1] + 1, r[2] - 1>>
  <2>4. t \in SizeT \X SizeT /\ Total(r) = Wrap(2 * r[1] + 2 * r[2] + Total(t))
    BY <2>3, TotalStep
  <2>5. SumFrom[t] # Total(t)
    BY <1>0, <2>3, <2>4
  <2>6. Wrong(t)
    BY <1>1, <2>4, <2>5
  <2>7. t[2] - t[1] \in T
    BY <2>4, <2>6
  <2>8. t[2] - t[1] = r[2] - r[1] - 2 /\ r[2] - r[1] \in Int
    BY <2>3, WidthAssumption DEF SizeT
  <2>. QED
    BY <2>2, <2>3, <2>7, <2>8
<1>. QED
  BY <1>1, <1>2

(* The sum is a number of that many bits.                                  *)
LEMMA SumFromType == ASSUME NEW p \in SizeT \X SizeT PROVE SumFrom[p] \in SizeT
<1>1. p[1] \in Nat /\ p[2] \in Nat
  BY WidthAssumption DEF SizeT
<1>2. CASE p[1] < p[2]
  <2>1. Pairs(p) \in Nat
    BY <1>1, <1>2 DEF Pairs
  <2>2. 2 * (p[1] + p[2]) * Pairs(p) \in Nat
    BY <1>1, <2>1
  <2>. QED
    BY <1>2, <2>2, WrapTypes, SumIsTotal DEF Total
<1>3. CASE ~(p[1] < p[2])
  BY <1>3, SumIsTotal, WidthAssumption DEF Total, SizeT
<1>. QED
  BY <1>2, <1>3

-------------------------------------------------------------------------------
(* What the loop has added and what it has yet to add is the whole sum; a  *)
(* loop that has not ended has two numbers to take.                        *)
SumSoFar == Wrap(res + SumFrom[<<a, b>>]) = SumFrom[args]
InLoop   == a < b /\ SumSoFar

(* The argument of the task that is awaited at a suspension point, and the *)
(* value of the one awaited before.                                        *)
Awaiting ==
  /\ InLoop
  /\ inner.x = (IF suspendIdx = 1 THEN a ELSE b)
  /\ suspendIdx = 2 => va = Wrap(2 * a)

Sums ==
  /\ TypeOK
  /\ "initial_awaiter_" \in live => <<a, b>> = args
  /\ pc = "while" => SumSoFar
  /\ pc = "second" => InLoop /\ va = Wrap(2 * a)
  /\ (pc = "loop" /\ next = "compute_value") => Awaiting /\ inner.value = 0
  /\ (pc = "loop" /\ next = "add_values" /\ "initial_awaiter_" \notin live) =>
       Awaiting /\ inner.value = Wrap(2 * inner.x)
  /\ Done => value = SumFrom[args]

(* The numbers of one pair are added one by one, each modulo 2^w.          *)
LEMMA OnePair ==
  ASSUME NEW r \in Nat, NEW x \in Nat, NEW y \in Nat, NEW s \in Nat
  PROVE  Wrap(Wrap(r + Wrap(x) + Wrap(y)) + s) = Wrap(r + Wrap(x + y + s))
<1>1. Wrap(x) \in Nat /\ Wrap(y) \in Nat /\ Wrap(r + y + x) \in Nat /\ Wrap(x + y + s) \in Nat
  BY WrapTypes, WidthAssumption DEF SizeT
<1>2. Wrap((r + Wrap(x)) + Wrap(y)) = Wrap((r + Wrap(x)) + y)
  <2>1. r + Wrap(x) \in Nat
    BY <1>1
  <2>. QED
    BY <2>1, WrapInside
<1>3. (r + Wrap(x)) + y = (r + y) + Wrap(x)
  BY <1>1
<1>4. Wrap((r + y) + Wrap(x)) = Wrap((r + y) + x)
  <2>1. r + y \in Nat
    OBVIOUS
  <2>. QED
    BY <2>1, WrapInside
<1>5. Wrap(r + y + x) + s = s + Wrap(r + y + x)
  BY <1>1
<1>6. Wrap(s + Wrap(r + y + x)) = Wrap(s + (r + y + x))
  <2>1. r + y + x \in Nat
    OBVIOUS
  <2>. QED
    BY <2>1, WrapInside
<1>7. Wrap(r + Wrap(x + y + s)) = Wrap(r + (x + y + s))
  <2>1. x + y + s \in Nat
    OBVIOUS
  <2>. QED
    BY <2>1, WrapInside
<1>8. s + (r + y + x) = r + (x + y + s)
  OBVIOUS
<1>. QED
  BY <1>2, <1>3, <1>4, <1>5, <1>6, <1>7, <1>8

(* What the steps of the body need of numbers of that many bits.           *)
LEMMA SizeTArithmetic ==
  \A n \in SizeT : n \in Nat /\ 0 + n = n /\ 2 * n \in Nat
  BY WidthAssumption DEF SizeT

(* Before anything is called no iteration is done.                         *)
LEMMA SumsInit == Init => Sums
  BY WidthAssumption, ArgsAssumption
  DEF Init, Sums, TypeOK, Objects, NoTask, Done, SizeT

(* The frame of the tasks inside is made, run and gone in one iteration.   *)
LEMMA SumsStep == IInv /\ Sums /\ [Next]_vars => Sums'
<1> SUFFICES ASSUME IInv, Sums, [Next]_vars PROVE Sums'
  OBVIOUS
<1> USE DEF SumSoFar, InLoop, Awaiting, Done
<1>0. /\ SizeT \subseteq Nat /\ 0 \in SizeT
      /\ args \in SizeT \X SizeT /\ a \in SizeT /\ b \in SizeT /\ res \in SizeT
  BY WidthAssumption, ArgsAssumption DEF Sums, TypeOK, SizeT
<1>1. CASE UNCHANGED vars
  BY <1>1 DEF vars, Sums, TypeOK
<1>2. CASE Make
  BY <1>0, <1>2 DEF Make, Sums, TypeOK, Objects
<1>3. CASE Start
  BY <1>3 DEF Start, IInv, Sums, TypeOK
<1>4. CASE EnterBody
  <2>1. <<a, b>> = args
    BY <1>4 DEF EnterBody, Resumed, IInv, Sums
  <2>2. Wrap(0 + SumFrom[args]) = SumFrom[args]
    <3>1. SumFrom[args] \in SizeT
      BY <1>0, SumFromType
    <3>2. 0 + SumFrom[args] = SumFrom[args]
      BY <3>1, SizeTArithmetic
    <3>. QED
      BY <3>1, <3>2, WrapSizeT
  <2>3. res' = 0 /\ a' = a /\ b' = b /\ args' = args /\ live' = live \ {"initial_awaiter_"}
        /\ pc' = "while" /\ value' = value
    BY <1>4 DEF EnterBody
  <2>4. TypeOK'
    BY <1>0, <1>4 DEF EnterBody, Resumed, Sums, TypeOK
  <2>5. ~Done'
    BY <1>4, <2>3 DEF EnterBody, Resumed, IInv
  <2>. QED
    BY <2>1, <2>2, <2>3, <2>4, <2>5 DEF Sums
<1>5. CASE Await(1, "while", a)
  <2>1. inner' = [x |-> a, value |-> 0, continuation |-> "add_values"]
    BY <1>5 DEF Await, NoTask, Continuation
  <2>2. TypeOK'
    BY <1>0, <1>5, <2>1 DEF Await, Sums, TypeOK, Objects
  <2>3. /\ pc' = "loop" /\ next' = "compute_value" /\ suspendIdx' = 1
        /\ a' = a /\ b' = b /\ res' = res /\ va' = va /\ args' = args
    BY <1>5 DEF Await
  <2>4. "initial_awaiter_" \notin live' /\ ~Done'
    BY <1>5 DEF Await, IInv
  <2>5. a < b /\ SumSoFar 
    BY <1>5 DEF Await, MoreToDo, Sums
  <2>. QED
    BY <2>1, <2>2, <2>3, <2>4, <2>5 DEF Sums
<1>6. CASE Await(2, "second", b)
  <2>1. inner' = [x |-> b, value |-> 0, continuation |-> "add_values"]
    BY <1>6 DEF Await, NoTask, Continuation
  <2>2. TypeOK'
    BY <1>0, <1>6, <2>1 DEF Await, Sums, TypeOK, Objects
  <2>3. /\ pc' = "loop" /\ next' = "compute_value" /\ suspendIdx' = 2
        /\ a' = a /\ b' = b /\ res' = res /\ va' = va /\ args' = args
    BY <1>6 DEF Await
  <2>4. "initial_awaiter_" \notin live' /\ ~Done'
    BY <1>6 DEF Await, IInv
  <2>5. a < b /\ SumSoFar /\ va = Wrap(2 * a)
    BY <1>6 DEF Await, MoreToDo, Sums
  <2>. QED
    BY <2>1, <2>2, <2>3, <2>4, <2>5 DEF Sums
<1>7. CASE RunInner
  <2>1. inner.value = 0 /\ inner.x \in SizeT /\ inner.continuation = "add_values"
    BY <1>7 DEF RunInner, IInv, Sums, TypeOK
  <2>2. inner' = [inner EXCEPT !.value = Wrap(2 * inner.x)] /\ next' = "add_values"
    BY <1>0, <1>7, <2>1 DEF RunInner, FinalTransfer
  <2>3. Wrap(2 * inner.x) \in SizeT
    <3>1. 2 * inner.x \in Nat
      BY <2>1, SizeTArithmetic
    <3>. QED
      BY <3>1, WrapTypes
  <2>4. inner' \in [x : SizeT, value : SizeT, continuation : {"null", "add_values"}]
        /\ inner'.x = inner.x /\ inner'.value = Wrap(2 * inner'.x)
    BY <2>1, <2>2, <2>3 DEF Sums, TypeOK
  <2>. QED
    BY <1>7, <2>2, <2>4 DEF RunInner, IInv, Sums, TypeOK
<1>8. CASE AfterFirst
  <2>1. "initial_awaiter_" \notin live
    BY <1>8 DEF AfterFirst, Resumed, IInv
  <2>2. va' = Wrap(2 * a) /\ InLoop
    BY <1>8, <2>1 DEF AfterFirst, Resumed, Sums
  <2>3. TypeOK'
    BY <1>0, <1>8 DEF AfterFirst, Resumed, Finished, NoTask, Sums, TypeOK
  <2>. QED
    BY <1>8, <2>1, <2>2, <2>3 DEF AfterFirst, Resumed, Finished, IInv, Sums
<1>9. CASE AfterSecond
  <2>1. "initial_awaiter_" \notin live
    BY <1>9 DEF AfterSecond, Resumed, IInv
  <2>2. va = Wrap(2 * a) /\ inner.value = Wrap(2 * b) /\ InLoop
    BY <1>9, <2>1 DEF AfterSecond, Resumed, Sums
  <2>3. a' = a + 1 /\ b' = b - 1 /\ res' = Wrap(res + va + inner.value)
    BY <1>9 DEF AfterSecond, Narrowed
  <2> DEFINE q == <<a + 1, b - 1>>
  <2>4. q \in SizeT \X SizeT /\ SumFrom[<<a, b>>] = Wrap(2 * a + 2 * b + SumFrom[q])
    BY <1>0, <2>2, TotalStep, SumFromUnfolds DEF SumSolves
  <2>5. SumFrom[q] \in Nat
    BY <1>0, <2>4, SumFromType
  <2>6. Wrap(res' + SumFrom[q]) = SumFrom[args]
    <3> DEFINE x == 2 * a
               y == 2 * b
               s == SumFrom[q]
    <3>1. res \in Nat /\ x \in Nat /\ y \in Nat /\ s \in Nat
      BY <1>0, <2>5, SizeTArithmetic
    <3> HIDE DEF x, y, s
    <3>2. Wrap(Wrap(res + Wrap(x) + Wrap(y)) + s) = Wrap(res + Wrap(x + y + s))
      BY <3>1, OnePair
    <3>3. res' = Wrap(res + Wrap(x) + Wrap(y))
      BY <2>2, <2>3 DEF x, y
    <3>4. SumFrom[<<a, b>>] = Wrap(x + y + s)
      BY <2>4 DEF x, y, s
    <3>. QED
      BY <2>2, <3>2, <3>3, <3>4 DEF s
  <2>7. res' \in SizeT /\ a' \in SizeT /\ b' \in SizeT
    <3>1. res + va + inner.value \in Nat
      <4>1. res \in Nat /\ va \in Nat /\ inner.value \in Nat
        BY <1>0 DEF Sums, TypeOK
      <4>. QED
        BY <4>1
    <3>. QED
      BY <2>3, <2>4, <3>1, WrapTypes
  <2>8. TypeOK'
    BY <1>0, <1>9, <2>7 DEF AfterSecond, Resumed, Finished, NoTask, Sums, TypeOK
  <2>. QED
    BY <1>9, <2>1, <2>3, <2>6, <2>8 DEF AfterSecond, Resumed, Finished, IInv, Sums
<1>10. CASE Return
  <2>1. SumFrom[<<a, b>>] = 0
    BY <1>0, <1>10, SumFromUnfolds DEF Return, MoreToDo, SumSolves
  <2>2. value' = SumFrom[args]
    BY <1>0, <1>10, <2>1, WrapSizeT DEF Return, Sums
  <2>3. next' = "noop"
    BY <1>10 DEF Return, FinalTransfer
  <2>4. TypeOK'
    BY <1>0, <1>10, <2>3 DEF Return, Sums, TypeOK, Objects
  <2>. QED
    BY <1>10, <2>2, <2>3, <2>4 DEF Return, IInv, Sums
<1>11. CASE LoopEnds
  BY <1>11 DEF LoopEnds, IInv, Sums, TypeOK
<1>12. CASE Destroy
  <2>1. live' = {}
    BY <1>12 DEF Destroy, Held, HeldAt, Exists, IInv
  <2>2. TypeOK'
    BY <1>0, <1>12, <2>1 DEF Destroy, Sums, TypeOK
  <2>. QED
    BY <1>12, <2>1, <2>2 DEF Destroy, Sums
<1>. QED
  BY <1>1, <1>2, <1>3, <1>4, <1>5, <1>6, <1>7, <1>8, <1>9, <1>10, <1>11, <1>12 DEF Next, Running

(* At each place of control the numbers are those of the iterations done   *)
(* so far.                                                                 *)
LEMMA SumsHold == Spec => [](IInv /\ Sums)
<1>1. Init => IInv
  BY DEF Init, IInv
<1>. QED
  BY <1>1, StepInv, SumsInit, SumsStep, PTL DEF Spec

(* No number leaves the range of size_t: a and b do not pass each other.   *)
THEOREM TypeCorrect == Spec => []TypeOK
<1>1. Sums => TypeOK
  BY DEF Sums
<1>. QED
  BY <1>1, SumsHold, PTL

(* What start() leaves in the promise is the sum of the loop without tasks.*)
THEOREM SumIsRight == Spec => []ResultIsSum
<1>1. Sums => ResultIsSum
  BY DEF Sums, ResultIsSum
<1>. QED
  BY <1>1, SumsHold, PTL
===============================================================================
