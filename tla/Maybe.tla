--------------------------------- MODULE Maybe ---------------------------------
(***************************************************************************)
(* The coroutines that return std::optional<int> (optional_monad/):        *)
(*   "chained"  chained_calculation()        in a frame on the stack       *)
(*   "header"   chained_calculation_header() in a frame on the stack       *)
(*   "throws"   with_exceptions()            in a frame on the heap        *)
(* None of them is ever resumed: ramp() runs the body to its end, or until *)
(* an empty optional is awaited, whose awaiter gives the result and        *)
(* destroys the coroutine (maybe.h).  The result goes into a               *)
(* return_object_holder in ramp(), found through a pointer in the promise  *)
(* that the holder updates when it is moved out of ramp().                 *)
(***************************************************************************)
EXTENDS Integers, Sequences

CONSTANTS
  Functions,     \* which of the functions are called
  Arguments,     \* what each is called with; with_exceptions() only gets a
  Garbage        \* what *opt_ may read if opt_ is empty

nullopt == <<>>        \* an optional is nullopt or <<value>>,
empty   == <<>>        \* a holder's stage is empty or <<optional>>

ASSUME ArgumentAssumption ==
  /\ Functions \subseteq {"chained", "header", "throws"}
  /\ \A f \in Functions : Arguments[f] \subseteq [a : Int, b : Int, c : Int, reps : Nat]
  /\ Garbage \subseteq Int

Optional(S) == {v \in Seq(S) : Len(v) <= 1}

(* int / int rounds towards zero, static_cast<int>(std::sqrt(x)) down.     *)
Quotient(n, d) == LET abs(x) == IF x < 0 THEN -x ELSE x
                      q == abs(n) \div abs(d)
                  IN  IF (n < 0) = (d < 0) THEN q ELSE -q
Root(x) == CHOOSE r \in 0..x : r * r <= x /\ x < (r + 1) * (r + 1)

safe_divide(n, d) == IF d = 0 THEN nullopt ELSE <<Quotient(n, d)>>
safe_sqrt(x)      == IF x < 0 THEN nullopt ELSE <<Root(x)>>

(* chained_calculation_no_coro(), with_exceptions_no_coro()                *)
ChainedNoCoro(x) ==
  LET r1 == safe_divide(x.a, x.b)
      r2 == safe_sqrt(x.c)
      after[i \in 0..x.reps] ==        \* result after i iterations
        IF i = 0 THEN <<0>>
        ELSE IF nullopt \in {after[i - 1], r1, r2} THEN nullopt
        ELSE <<after[i - 1][1] + r1[1] + r2[1]>>
  IN  after[x.reps]

ThrowsNoCoro(x) == IF x.a < 0 THEN nullopt ELSE <<x.a * 2>>

VARIABLES
  fn, args,
  pc,            \* "ramp", "loop", "second", "thrown", "end", "moved", "converted"
  i, result1, result,
  alive,         \* the objects that exist in the frame
  dead,          \* ghost: objects destroyed that did not exist
  freed,         \* the frame is gone, and with it the pointer data_
  data_,         \* the holder last written to data_: that in ramp(), or
                 \* the one ramp() returns
  stage,         \* what that holder contains
  returned       \* the optional the caller has

vars == <<fn, args, pc, i, result1, result, alive, dead, freed, data_, stage, returned>>

Objects == {"promise_", "initial_awaiter_", "awaiter_storage_", "final_awaiter_"}

TypeOK ==
  /\ fn \in Functions /\ args \in Arguments[fn]
  /\ pc \in {"ramp", "loop", "second", "thrown", "end", "moved", "converted"}
  /\ i \in 0..args.reps
  /\ result1 \in Int /\ result \in Int
  /\ alive \in SUBSET Objects /\ dead \in SUBSET Objects
  /\ freed \in BOOLEAN
  /\ data_ \in {"ramp", "returned"}
  /\ stage \in Optional(Optional(Int)) /\ returned \in Optional(Optional(Int))

Init ==
  /\ fn \in Functions /\ args \in Arguments[fn]
  /\ fn = "header" => args.reps = 1
  /\ pc = "ramp"
  /\ i = 0 /\ result1 = 0 /\ result = 0
  /\ alive = {"promise_", "initial_awaiter_"} /\ dead = {}
  /\ freed = FALSE
  /\ data_ = "ramp"
  /\ stage = empty /\ returned = empty

Lifetimes(made, gone) ==
  /\ alive' = (alive \ gone) \cup made
  /\ dead' = dead \cup (gone \ (alive \cup made))

(* data_->emplace(...), which each of the promise's functions is           *)
emplace(x) == stage' = <<x>>

-------------------------------------------------------------------------------
(* TypeOK: one iteration too many                                          *)
MoreToDo_OneMore == i <= args.reps

MoreToDo == i < args.reps

(* ramp(): SuspendNever from initial_suspend(), so the body starts at once *)
EnterBody ==
  /\ pc = "ramp"
  /\ Lifetimes({}, {"initial_awaiter_"})
  /\ pc' = IF fn = "throws" THEN "second" ELSE "loop"
  /\ UNCHANGED <<fn, args, i, result1, result, freed, data_, stage, returned>>

(* SameAsWithoutCoroutine: the macro does not return from the body         *)
AfterSuspend_Body == "second"

AfterSuspend == "end"

(* DestroyedOnce: suspendIdx_ still has the initial suspension point       *)
HeldAtAwait_StaleIndex == {"initial_awaiter_"}

HeldAtAwait == {}

(* maybe_awaiter::await_suspend(): the result is nullopt, h.destroy() goes *)
(* to destroySuspendedCoro(), which has no case for these two awaits; the  *)
(* macro returns from the body.                                            *)
ShortCircuit ==
  /\ emplace(nullopt)
  /\ Lifetimes({"awaiter_storage_"}, HeldAtAwait)
  /\ pc' = AfterSuspend
  /\ UNCHANGED <<i, result1, result>>

AwaitFirst ==
  /\ fn = "chained" /\ pc = "loop" /\ MoreToDo
  /\ LET opt == safe_divide(args.a, args.b)
     IN  \/ opt = nullopt /\ ShortCircuit
         \/ /\ opt # nullopt
            /\ result1' = opt[1]
            /\ pc' = "second"
            /\ UNCHANGED <<i, result, alive, dead, stage>>
  /\ UNCHANGED <<fn, args, freed, data_, returned>>

AwaitSecond ==
  /\ fn = "chained" /\ pc = "second"
  /\ LET opt == safe_sqrt(args.c)
     IN  \/ opt = nullopt /\ ShortCircuit
         \/ /\ opt # nullopt
            /\ result' = result + result1 + opt[1]
            /\ i' = i + 1
            /\ pc' = "loop"
            /\ UNCHANGED <<result1, alive, dead, stage>>
  /\ UNCHANGED <<fn, args, freed, data_, returned>>

(* The header spells the two awaits out, with awaiters of its own on the   *)
(* stack and no return after await_suspend(); suspendIdx_ is still 0.      *)
HeaderAwait(opt) ==
  IF opt # nullopt THEN UNCHANGED <<stage, alive, dead>>
  ELSE emplace(nullopt) /\ Lifetimes({}, {"initial_awaiter_"})

await_resume(opt) == IF opt # nullopt THEN {opt[1]} ELSE Garbage

HeaderFirst ==
  /\ fn = "header" /\ pc = "loop" /\ i = 0
  /\ HeaderAwait(safe_divide(args.a, args.b))
  /\ result1' \in await_resume(safe_divide(args.a, args.b))
  /\ pc' = "second"
  /\ UNCHANGED <<fn, args, i, result, freed, data_, returned>>

HeaderSecond ==
  /\ fn = "header" /\ pc = "second"
  /\ HeaderAwait(safe_sqrt(args.c))
  /\ \E result2 \in await_resume(safe_sqrt(args.c)) : result' = result1 + result2
  /\ i' = 1
  /\ pc' = "loop"
  /\ UNCHANGED <<fn, args, result1, freed, data_, returned>>

(* CO_RETURN_VALUE: SuspendNever from final_suspend(), so destroy() at     *)
(* once; on the heap that frees the frame, and `delete this` destroys the  *)
(* promise once more.                                                      *)
FinalSuspend ==
  /\ pc' = "end"
  /\ freed' = (fn = "throws")
  /\ IF fn = "throws"
     THEN alive' = alive \ {"promise_"} /\ dead' = dead \cup {"promise_"}
     ELSE UNCHANGED <<alive, dead>>
  /\ UNCHANGED <<fn, args, i, result1, result, data_, returned>>

CoReturn(v) == emplace(v) /\ FinalSuspend

ChainReturns == fn # "throws" /\ pc = "loop" /\ ~MoreToDo /\ CoReturn(<<result>>)
DoubleReturns == fn = "throws" /\ pc = "second" /\ args.a >= 0 /\ CoReturn(<<args.a * 2>>)

DoubleThrows ==
  /\ fn = "throws" /\ pc = "second" /\ args.a < 0
  /\ pc' = "thrown"
  /\ UNCHANGED <<fn, args, i, result1, result, alive, dead, freed, data_, stage, returned>>

(* EmplacedBeforeConversion: a promise that ignores exceptions             *)
ExceptionToResult_Ignored == UNCHANGED stage

ExceptionToResult == emplace(nullopt)

(* stackless_coro_crtp::unhandled_exception(): the final awaiter does not  *)
(* suspend, the frame is deleted.                                          *)
UnhandledException == pc = "thrown" /\ ExceptionToResult /\ FinalSuspend

(* `return ret;` in ramp() moves the holder, because ret is not the only   *)
(* thing ramp() returns: the stage goes along, and data_ is written. Then  *)
(* a frame on the stack goes.                                              *)
ReturnHolder ==
  /\ pc = "end"
  /\ data_' = "returned"
  /\ IF freed THEN UNCHANGED <<alive, dead>> ELSE Lifetimes({}, {"promise_"})
  /\ freed' = TRUE
  /\ pc' = "moved"
  /\ UNCHANGED <<fn, args, i, result1, result, stage, returned>>

(* return_object_holder::operator T()                                      *)
Convert ==
  /\ pc = "moved"
  /\ returned' = stage
  /\ pc' = "converted"
  /\ UNCHANGED <<fn, args, i, result1, result, alive, dead, freed, data_, stage>>

Next == EnterBody \/ AwaitFirst \/ AwaitSecond \/ HeaderFirst \/ HeaderSecond \/ ChainReturns
        \/ DoubleReturns \/ DoubleThrows \/ UnhandledException \/ ReturnHolder \/ Convert

Spec == Init /\ [][Next]_vars

-------------------------------------------------------------------------------
(* The coroutine gives what the same calculation without one gives: an     *)
(* empty optional or an exception anywhere makes the whole result empty    *)
(* (maybe_example.h:29-30, maybe_example.cpp:42-43).                       *)
SameAsWithoutCoroutine ==
  pc = "converted" =>
    returned = <<IF fn = "throws" THEN ThrowsNoCoro(args) ELSE ChainedNoCoro(args)>>

(* The conversion to optional reads a holder something was emplaced in     *)
(* (return_object_holder.h:41-42), on every path through the coroutine.    *)
EmplacedBeforeConversion == pc = "moved" => stage # empty

(* An awaiter may destroy the coroutine that is suspended on it: nothing   *)
(* is destroyed a second time when the frame on the stack goes.  A frame on*)
(* the heap destroys its promise twice whenever it ends: deleteFrame()     *)
(* calls the destructor and deletes (coroutine_frame.h:145, 156).          *)
DestroyedOnce == dead = IF fn = "throws" /\ freed THEN {"promise_"} ELSE {}

(* "To move, we just update the pointer to point at the new object"        *)
(* (return_object_holder.h:24): the pointer is in a frame that still is.   *)
PointerExists == [][data_' # data_ => ~freed]_vars
===============================================================================
