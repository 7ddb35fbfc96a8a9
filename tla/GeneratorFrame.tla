---------------------------- MODULE GeneratorFrame ----------------------------
(***************************************************************************)
(* The frame of a generator, as far as the generator object that owns it   *)
(* can tell, for three bodies that are written in this repository:         *)
(*   "iota"     iota_unified()                          (iota_unified.h)   *)
(*   "prepend"  string_prepend()                       (string_prepend.h)  *)
(*   "throws"   throwing_parse_ints(strings, false), where a bad string    *)
(*              comes after `len` good ones        (throwing_parse_ints.h) *)
(* iota_unified() has a frame on the heap or in the generator object, the  *)
(* others on the heap.  A step is a function from frames to frames: while  *)
(* the body runs nothing else does.                                        *)
(***************************************************************************)
EXTENDS Naturals

Stream == [body : {"iota", "prepend", "throws"}, len : Nat]

(* Variables with a lifetime of their own: of the body, of an iteration     *)
Locals(b)     == IF b = "iota" THEN {} ELSE {"it_", "end_"}
PerElement(b) == CASE b = "iota" -> {} [] b = "prepend" -> {"tmp_"} [] b = "throws" -> {"parsed_"}

AllLocals == UNION {Locals(b) \cup PerElement(b) : b \in {"iota", "prepend", "throws"}}

Buffers == AllLocals \cup {"initial_awaiter_", "final_awaiter_", "m_exception"}

Frame ==
  [ stream     : Stream,
    pos        : Nat,           \* how many elements the loop has gone past
    suspendIdx : {0, 1},
    m_value    : Nat,           \* the element last yielded, 0: uninitialised
    done       : BOOLEAN,
    live       : SUBSET Buffers ]

(* ramp(): initial_suspend() is SuspendAlways in every generator.          *)
NewFrame(s) ==
  [stream |-> s, pos |-> 0, suspendIdx |-> 0, m_value |-> 0, done |-> FALSE,
   live |-> {"initial_awaiter_"}]

Begun(f) == f.m_value # 0

(* HoldsWhatItDestroys: the temporary of the co_yield is forgotten         *)
HeldAtYield_NoTemporary(b) == {"initial_awaiter_"}

(* What destroySuspendedCoro(1) destroys; string_prepend()'s knows nothing *)
(* of its iterators.                                                       *)
HeldAtYield(b) ==
  {"initial_awaiter_"} \cup PerElement(b) \cup (IF b = "throws" THEN Locals(b) ELSE {})

(* What destroy() will destroy in this frame                               *)
Held(f) ==
  IF f.done THEN {"final_awaiter_"}
  ELSE IF f.suspendIdx = 0 THEN {"initial_awaiter_"} ELSE HeldAtYield(f.stream.body)

(* doStepImpl() from the switch to the condition of the loop               *)
Enter(f) ==
  LET b == f.stream.body
  IN  IF f.suspendIdx = 0
      THEN [f EXCEPT !.live = (@ \ {"initial_awaiter_"}) \cup Locals(b)]
      ELSE [f EXCEPT !.live = @ \ ({"initial_awaiter_"} \cup PerElement(b)), !.pos = @ + 1]

(* TypeOK: one element too many                                            *)
AtElement_OneMore(f) == f.pos <= f.stream.len

AtElement(f) == f.pos < f.stream.len

(* CO_YIELD(1, ...); an int is copied into the promise, of a string it has *)
(* the address of tmp_.                                                    *)
Yield(f) ==
  [f EXCEPT !.suspendIdx = 1, !.m_value = f.pos + 1,
            !.live = @ \cup {"initial_awaiter_"} \cup PerElement(f.stream.body)]

(* CO_RETURN_VOID(2, ...)                                                  *)
Return(f) == [f EXCEPT !.done = TRUE, !.live = @ \cup {"final_awaiter_"}]

(* The exception leaves the body.  dispatchExceptionHandling() destroys the*)
(* locals, unhandled_exception() stores it in the promise and goes on to   *)
(* final_suspend().                                                        *)
Escape(f) ==
  [f EXCEPT !.done = TRUE, !.live = (@ \ AllLocals) \cup {"m_exception", "final_awaiter_"}]

doStep(f) ==
  LET g == Enter(f)
  IN  IF AtElement(g) THEN Yield(g) ELSE IF g.stream.body = "throws" THEN Escape(g) ELSE Return(g)

(* rethrow_if_exception(): the exception is moved out of the promise.      *)
HasException(f) == "m_exception" \in f.live
Rethrown(f)     == [f EXCEPT !.live = @ \ {"m_exception"}]
===============================================================================
