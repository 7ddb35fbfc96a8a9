--------------------------- MODULE ThrowingParseInts ---------------------------
(***************************************************************************)
(* throwing_parse_ints(): a generator with a try-catch in its body, lowered*)
(* by hand (throwing_parse_ints.h), in the frame of stackless_coro_crtp    *)
(* (coroutine_frame.h), owned by a heap unified_generator                  *)
(* (unified_generator.h) that a range-for loop iterates over.              *)
(*                                                                         *)
(* The catch clauses run outside the body: doStep() catches, dispatches on *)
(* currentTryBlock_, and the clause leaves a label in suspendIdx_ where    *)
(* the body is entered again.  What was constructed when the exception     *)
(* came is only known from the __constructed flags.                        *)
(***************************************************************************)
EXTENDS Naturals, Sequences, FiniteSets

CONSTANTS
  Inputs,     \* the ranges of strings, by what std::stoi does with each
  Garbage     \* what an uninitialised flag may read as

Words   == {"int", "invalid", "range"}
Flags   == {"initial_awaiter_", "it_", "end_", "parsed_"}
Objects == Flags \cup {"final_awaiter_", "promise_", "m_exception"}
NoTry   == "CO_NO_TRY_BLOCK"

ASSUME InputAssumption == Inputs \subseteq Seq(Words) /\ Garbage \subseteq BOOLEAN

VARIABLES
  strings, catch_errors,   \* the arguments
  suspendIdx, currentTryBlock, done,
  constructed,             \* the __constructed flags
  it,                      \* the position of the iterator it_
  alive,                   \* the objects that exist in the frame
  misdestroyed,            \* ghost: buffers destroyed while empty
  m_value, m_has_exception,
  pc,                      \* where the one thread is
  exc,                     \* the exception in flight
  handlers,                \* the catch clauses of doStep() on the call stack
  saw, value               \* what the loop saw last

args   == <<strings, catch_errors>>
frame  == <<suspendIdx, currentTryBlock, done, constructed, it, alive, misdestroyed>>
promise == <<m_value, m_has_exception>>
client == <<saw, value>>
vars == <<args, frame, promise, pc, exc, handlers, client>>

Pc == {"loop", "step", "for", "thrown", "caught", "returned", "freed"}

TypeOK ==
  /\ strings \in Inputs
  /\ catch_errors \in BOOLEAN
  /\ suspendIdx \in {0, 1, 20, 21, 12}
  /\ currentTryBlock \in {"block_0", NoTry}
  /\ done \in BOOLEAN
  /\ constructed \in [Flags -> BOOLEAN]
  /\ it \in 1..(Len(strings) + 1)
  /\ alive \in SUBSET Objects
  /\ misdestroyed \in SUBSET Objects
  /\ m_value \in 0..Len(strings)
  /\ m_has_exception \in BOOLEAN
  /\ pc \in Pc
  /\ exc \in {"invalid", "range", "none"}
  /\ handlers \in 0..Len(strings)
  /\ saw \in {"nothing", "value", "end", "exception", "gone"}
  /\ value \in 0..Len(strings)

(* ramp(): SuspendAlways from initial_suspend(), so that the frame waits   *)
(* at index 0.  Only the first of the flags has an initialiser.            *)
Init ==
  /\ strings \in Inputs
  /\ catch_errors \in BOOLEAN
  /\ suspendIdx = 0
  /\ currentTryBlock = NoTry
  /\ done = FALSE
  /\ constructed \in {f \in [Flags -> BOOLEAN] :
                        f["initial_awaiter_"] /\ \A x \in Flags \ {"initial_awaiter_"} : f[x] \in Garbage}
  /\ it = 1
  /\ alive = {"promise_", "initial_awaiter_"}
  /\ misdestroyed = {}
  /\ m_value = 0 /\ m_has_exception = FALSE
  /\ pc = "loop"
  /\ exc = "none"
  /\ handlers = 0
  /\ saw = "nothing" /\ value = 0

(* Afterwards `made` exist and `gone` do not; destroy() does not look.     *)
Lifetimes(made, gone) ==
  /\ alive' = (alive \ gone) \cup made
  /\ misdestroyed' = misdestroyed \cup (gone \ (alive \cup made))

(* DestroyedOnce: buffers are destroyed without asking their flags         *)
Asked_Not(S) == S

Asked(S) == {x \in S : constructed[x]}

Flag(S, b) == [x \in Flags |-> IF x \in S THEN b ELSE constructed[x]]

-------------------------------------------------------------------------------
(* TypeOK: the increment once in the body and once at the label            *)
NextIt_Skipping == it + 2

(* StackFollowsBadStrings: a string that was caught is looked at again     *)
NextIt_Same == it

NextIt == it + 1

(* begin(), operator++                                                     *)
Advance ==
  /\ pc = "loop"
  /\ saw \in {"nothing", "value"}
  /\ pc' = "step"
  /\ UNCHANGED <<args, frame, promise, exc, handlers, client>>

(* doStepImpl(): the switch on suspendIdx_, and what the label leads to    *)
EnterAtStart ==
  /\ pc = "step" /\ suspendIdx = 0
  /\ Lifetimes({"it_", "end_"}, {"initial_awaiter_"})
  /\ constructed' = [x \in Flags |-> CASE x = "initial_awaiter_" -> FALSE
                                      [] x \in {"it_", "end_"}   -> TRUE
                                      [] OTHER -> constructed[x]]
  /\ it' = 1
  /\ pc' = "for"
  /\ UNCHANGED <<args, suspendIdx, currentTryBlock, done, promise, exc, handlers, client>>

EnterAtYield ==
  /\ pc = "step" /\ suspendIdx = 1
  /\ Lifetimes({}, {"initial_awaiter_", "parsed_"})
  /\ constructed' = Flag({"parsed_"}, FALSE)
  /\ currentTryBlock' = NoTry
  /\ it' = NextIt
  /\ pc' = "for"
  /\ UNCHANGED <<args, suspendIdx, done, promise, exc, handlers, client>>

EnterAtContinue ==
  /\ pc = "step" /\ suspendIdx \in {12, 20}     \* try_end, for_continue
  /\ it' = NextIt
  /\ pc' = "for"
  /\ UNCHANGED <<args, suspendIdx, currentTryBlock, done, constructed, alive, misdestroyed,
                 promise, exc, handlers, client>>

(* The end of the loop, or for_break: CO_RETURN_VOID(2, final_awaiter_)    *)
Return ==
  /\ \/ pc = "for" /\ it > Len(strings)
     \/ pc = "step" /\ suspendIdx = 21
  /\ Lifetimes({"final_awaiter_"}, {"end_", "it_"})
  /\ constructed' = Flag({"end_", "it_"}, FALSE)
  /\ done' = TRUE
  /\ pc' = "returned"
  /\ handlers' = 0
  /\ UNCHANGED <<args, suspendIdx, currentTryBlock, it, promise, exc, client>>

(* try { co_yield std::stoi(s); }                                          *)
Yield ==
  /\ pc = "for" /\ it <= Len(strings) /\ strings[it] = "int"
  /\ currentTryBlock' = "block_0"
  /\ Lifetimes({"parsed_", "initial_awaiter_"}, {})
  /\ constructed' = Flag({"parsed_"}, TRUE)
  /\ m_value' = it
  /\ suspendIdx' = 1
  /\ pc' = "returned"
  /\ handlers' = 0
  /\ UNCHANGED <<args, done, it, m_has_exception, exc, client>>

Throw ==
  /\ pc = "for" /\ it <= Len(strings) /\ strings[it] # "int"
  /\ currentTryBlock' = "block_0"
  /\ exc' = strings[it]
  /\ pc' = "thrown"
  /\ handlers' = handlers + 1
  /\ UNCHANGED <<args, suspendIdx, done, constructed, it, alive, misdestroyed, promise, client>>

-------------------------------------------------------------------------------
(* dispatchExceptionHandling() inside the catch clause of doStep()         *)

(* FollowsTheComment: break where the comment has continue                 *)
ContinueAt_Break(e) == 21

ContinueAt(e) == IF e = "invalid" THEN 20 ELSE 21

(* AdvanceReturns: the handler stays in force for what it throws           *)
ParentTryBlock_Same == currentTryBlock

ParentTryBlock == NoTry

HandleCatchClause_0 ==
  /\ pc = "thrown" /\ currentTryBlock = "block_0"
  /\ currentTryBlock' = ParentTryBlock
  /\ LET parsed == Asked({"parsed_"})
     IN  /\ Lifetimes({}, parsed)
         /\ constructed' = Flag(parsed, FALSE)
  /\ IF catch_errors
     THEN /\ suspendIdx' = ContinueAt(exc)
          /\ pc' = "caught"
          /\ exc' = "none"
     ELSE /\ suspendIdx' = 12               \* and dispatch once more
          /\ UNCHANGED <<pc, exc>>
  /\ UNCHANGED <<args, done, it, promise, handlers, client>>

(* No try-block left: destroy what the flags say, unhandled_exception(),   *)
(* whose SuspendAlways from final_suspend() keeps the frame.               *)
Escape ==
  /\ pc = "thrown" /\ currentTryBlock = NoTry
  /\ LET gone == Asked(Flags \ {"parsed_"})
     IN  /\ Lifetimes({"final_awaiter_", "m_exception"}, gone)
         /\ constructed' = Flag(gone, FALSE)
  /\ done' = TRUE
  /\ m_has_exception' = TRUE
  /\ pc' = "caught"
  /\ UNCHANGED <<args, suspendIdx, currentTryBlock, it, m_value, exc, handlers, client>>

(* The end of that clause: `return d.doStep()` unless the frame is done    *)
AfterHandle ==
  /\ pc = "caught"
  /\ pc' = IF done THEN "returned" ELSE "step"
  /\ handlers' = IF done THEN 0 ELSE handlers
  /\ UNCHANGED <<args, frame, promise, exc, client>>

(* resume() is back in begin() or operator++; the loop then compares the   *)
(* iterator with end() or gets the exception.                              *)
Observe ==
  /\ pc = "returned"
  /\ IF done /\ m_has_exception
     THEN /\ Lifetimes({}, {"m_exception"})
          /\ m_has_exception' = FALSE
          /\ exc' = "none"
          /\ saw' = "exception"
     ELSE /\ saw' = IF done THEN "end" ELSE "value"
          /\ UNCHANGED <<alive, misdestroyed, m_has_exception, exc>>
  /\ value' = IF done THEN value ELSE m_value
  /\ pc' = "loop"
  /\ UNCHANGED <<args, suspendIdx, currentTryBlock, done, constructed, it, m_value, handlers>>

(* NothingLeft: the local of the inner scope is forgotten                  *)
HeldAt_NoParsed(idx) == {"initial_awaiter_"} \cup (IF idx = 1 THEN {"it_", "end_"} ELSE {})

(* destroySuspendedCoro(suspendIdx_)                                       *)
HeldAt(idx) ==
  CASE idx = 0 -> {"initial_awaiter_"}
    [] idx = 1 -> {"initial_awaiter_", "parsed_", "it_", "end_"}
    [] OTHER   -> {}

(* ~unified_generator(): destroy(), at any iteration; the promise has no   *)
(* operator delete, so deleteFrame() runs its destructor twice.            *)
Discard ==
  /\ pc = "loop"
  /\ LET held == IF done THEN {"final_awaiter_"} ELSE HeldAt(suspendIdx)
     IN  /\ alive' = alive \ ({"promise_"} \cup held)
         /\ misdestroyed' = misdestroyed \cup {"promise_"} \cup (held \ alive)
  /\ pc' = "freed"
  /\ saw' = "gone"
  /\ UNCHANGED <<args, suspendIdx, currentTryBlock, done, constructed, it, promise, exc, handlers, value>>

Resumed == EnterAtStart \/ EnterAtYield \/ EnterAtContinue \/ Return \/ Yield \/ Throw
           \/ HandleCatchClause_0 \/ Escape \/ AfterHandle \/ Observe

Next == Advance \/ Resumed \/ Discard

Spec == Init /\ [][Next]_vars

(* begin() and ++ are plain calls on the thread of the loop.               *)
FairSpec == Spec /\ WF_vars(Resumed)

-------------------------------------------------------------------------------
(* The loop sees exactly the ints, the end or the exception that the       *)
(* coroutine of the comment would have given it, whatever the order of     *)
(* good and bad strings, and although `continue`, `break` and `throw;`     *)
(* are executed far from the loop they are about.                          *)
Documented == INSTANCE ParseInts
FollowsTheComment == Documented!Spec

(* The generator can be thrown away after any number of iterations, before *)
(* the first, after an exception: every object in the frame is destroyed.  *)
NothingLeft == pc = "freed" => alive = {}

(* ... and destroyed once: the exception path goes by the flags, destroy() *)
(* by suspendIdx_, the body by neither, and they agree on what is alive.   *)
(* Excepted are parsed_, see FlagsTrackConstruction, and the promise, which*)
(* deleteFrame() destroys twice (coroutine_frame.h:145, 156).              *)
DestroyedOnce == misdestroyed \subseteq {"parsed_", "promise_"}

(* throwing_parse_ints.h:47-49: every local variable, parsed_ too.         *)
FlagsTrackConstruction ==
  pc = "thrown" => \A x \in Flags : constructed[x] <=> x \in alive

(* After a caught exception doStep() calls itself inside its catch clause  *)
(* (coroutine_frame.h:219): the body runs inside one handler for each bad  *)
(* string since the last element, and inside none that an earlier call of  *)
(* resume() entered.                                                       *)
StackFollowsBadStrings ==
  pc = "for" =>
    handlers = Cardinality({k \in 1..(it - 1) : \A j \in k..(it - 1) : strings[j] # "int"})

(* begin() and ++ come back, however many bad strings there are in a row.  *)
AdvanceReturns == pc = "step" ~> pc = "loop"
===============================================================================
