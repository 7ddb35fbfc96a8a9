------------------------ MODULE UnifiedGeneratorProofs ------------------------
(***************************************************************************)
(* Proofs about UnifiedGenerator, for any number of objects, iterators and *)
(* addresses and any streams: who owns a frame, that no call goes through a*)
(* null handle, that destruction finds what it destroys, and that objects  *)
(* behave like streams.                                                    *)
(***************************************************************************)
EXTENDS UnifiedGenerator, TLAPS

(* Between two steps a frame is at its start, at a co_yield, or done; that *)
(* determines what is alive in it.                                         *)
Leaked(f) ==
  IF f.stream.body = "prepend" /\ (f.suspendIdx = 1 \/ f.done) THEN {"it_", "end_"} ELSE {}

AtRest(f) ==
  /\ f.pos <= f.stream.len /\ f.m_value <= f.stream.len
  /\ (f.suspendIdx = 0 /\ ~f.done) => f.pos = 0 /\ f.m_value = 0
  /\ (f.suspendIdx = 1 /\ ~f.done) => f.pos < f.stream.len /\ f.m_value = f.pos + 1
  /\ f.live = Held(f) \cup Leaked(f)

(* How far the stream in a frame is.                                       *)
At(f) == IF f.done THEN f.stream.len + 1 ELSE f.m_value

(* From the label to the condition of the loop: only the variables of the  *)
(* body are alive.                                                         *)
LEMMA EnterFacts ==
  ASSUME NEW f \in Frame, AtRest(f), ~f.done
  PROVE  /\ Enter(f) \in Frame
         /\ Enter(f).stream = f.stream /\ ~Enter(f).done
         /\ Enter(f).pos <= f.stream.len /\ Enter(f).m_value = f.m_value
         /\ Enter(f).pos = f.m_value
         /\ Enter(f).live = Locals(f.stream.body)
<1>1. f.stream.body \in {"iota", "prepend", "throws"} /\ f.stream.len \in Nat /\ f.pos \in Nat
      /\ f.suspendIdx \in {0, 1} /\ f.live \subseteq Buffers
  BY DEF Frame, Stream
<1>2. Locals(f.stream.body) \subseteq Buffers
  BY <1>1 DEF Locals, Buffers, AllLocals
<1>3. CASE f.suspendIdx = 0
  <2>1. Enter(f) = [f EXCEPT !.live = (@ \ {"initial_awaiter_"}) \cup Locals(f.stream.body)]
    BY <1>3 DEF Enter
  <2>2. f.live = {"initial_awaiter_"}
    BY <1>3 DEF AtRest, Held, Leaked
  <2>3. f.pos = 0 /\ f.m_value = 0
    BY <1>3 DEF AtRest
  <2> DEFINE L == Locals(f.stream.body)
  <2>4. L \subseteq Buffers /\ (f.live \ {"initial_awaiter_"}) \cup L = L
    BY <1>2, <2>2
  <2> HIDE DEF L
  <2>5. Enter(f) = [f EXCEPT !.live = L]
    BY <2>1, <2>4 DEF L
  <2>6. /\ Enter(f) \in Frame /\ Enter(f).stream = f.stream /\ Enter(f).done = f.done
        /\ Enter(f).pos = f.pos /\ Enter(f).m_value = f.m_value /\ Enter(f).live = L
    BY <2>4, <2>5 DEF Frame
  <2>. QED
    BY <1>1, <2>3, <2>6 DEF L
<1>4. CASE f.suspendIdx = 1
  <2>1. Enter(f) = [f EXCEPT !.live = @ \ ({"initial_awaiter_"} \cup PerElement(f.stream.body)),
                             !.pos = @ + 1]
    BY <1>4 DEF Enter
  <2>2. f.live \ ({"initial_awaiter_"} \cup PerElement(f.stream.body)) = Locals(f.stream.body)
    BY <1>1, <1>4 DEF AtRest, Held, HeldAtYield, Leaked, Locals, PerElement
  <2>3. f.pos < f.stream.len /\ f.m_value = f.pos + 1
    BY <1>4 DEF AtRest
  <2> DEFINE L == f.live \ ({"initial_awaiter_"} \cup PerElement(f.stream.body))
  <2>4. Enter(f) = [f EXCEPT !.live = L, !.pos = f.pos + 1]
    BY <2>1
  <2>5. L \subseteq Buffers /\ f.pos + 1 \in Nat /\ f.pos + 1 <= f.stream.len
    BY <1>1, <2>3
  <2> HIDE DEF L
  <2>6. Enter(f) \in Frame
    BY <2>4, <2>5 DEF Frame
  <2>7. /\ Enter(f).stream = f.stream /\ Enter(f).done = f.done /\ Enter(f).pos = f.pos + 1
        /\ Enter(f).m_value = f.m_value /\ Enter(f).live = L
    BY <2>4 DEF Frame
  <2>. QED
    BY <2>2, <2>3, <2>5, <2>6, <2>7 DEF L
<1>. QED
  BY <1>1, <1>3, <1>4

(* What CO_YIELD makes of a frame.                                         *)
LEMMA YieldFacts ==
  ASSUME NEW g \in Frame, PerElement(g.stream.body) \subseteq Buffers
  PROVE  /\ Yield(g) \in Frame /\ Yield(g).stream = g.stream
         /\ Yield(g).pos = g.pos /\ Yield(g).done = g.done
         /\ Yield(g).suspendIdx = 1 /\ Yield(g).m_value = g.pos + 1
         /\ Yield(g).live = g.live \cup {"initial_awaiter_"} \cup PerElement(g.stream.body)
<1> DEFINE n == g.pos + 1
           L == g.live \cup {"initial_awaiter_"} \cup PerElement(g.stream.body)
<1>1. n \in Nat /\ L \subseteq Buffers
  BY DEF Frame, Buffers
<1>2. Yield(g) = [g EXCEPT !.suspendIdx = 1, !.m_value = n, !.live = L]
  BY DEF Yield
<1> HIDE DEF n, L
<1>3. Yield(g) \in Frame
  BY <1>1, <1>2 DEF Frame
<1>4. /\ Yield(g).stream = g.stream /\ Yield(g).pos = g.pos /\ Yield(g).done = g.done
      /\ Yield(g).suspendIdx = 1 /\ Yield(g).m_value = n /\ Yield(g).live = L
  BY <1>1, <1>2 DEF Frame
<1>. QED
  BY <1>3, <1>4 DEF n, L

(* A whole step, with rethrow_if_exception(), leaves the frame at rest.    *)
LEMMA SteppedFacts ==
  ASSUME NEW f \in Frame, AtRest(f), ~f.done
  PROVE  /\ Stepped(f).frame \in Frame /\ AtRest(Stepped(f).frame)
         /\ Stepped(f).frame.stream = f.stream
         /\ At(Stepped(f).frame) = f.m_value + 1
         /\ Stepped(f).threw <=> f.stream.body = "throws" /\ f.m_value + 1 > f.stream.len
<1> DEFINE g == Enter(f)
           b == f.stream.body
<1>1. /\ g \in Frame /\ g.stream = f.stream /\ ~g.done
      /\ g.pos <= f.stream.len /\ g.m_value = f.m_value /\ g.pos = f.m_value /\ g.live = Locals(b)
  BY EnterFacts
<1>2. /\ b \in {"iota", "prepend", "throws"} /\ f.stream.len \in Nat
      /\ g.pos \in Nat /\ g.suspendIdx \in {0, 1} /\ f.m_value <= f.stream.len
  BY <1>1 DEF Frame, Stream, AtRest
<1>3. /\ PerElement(b) \subseteq Buffers /\ Locals(b) \subseteq AllLocals
      /\ AllLocals \subseteq Buffers
  BY <1>2 DEF Buffers, AllLocals, Locals, PerElement
<1> HIDE DEF g
<1>4. CASE AtElement(g)
  <2> DEFINE h == Yield(g)
  <2>1. /\ h \in Frame /\ h.stream = f.stream /\ ~h.done /\ h.suspendIdx = 1
        /\ h.pos = g.pos /\ h.m_value = g.pos + 1
        /\ h.live = Locals(b) \cup {"initial_awaiter_"} \cup PerElement(b)
    BY <1>1, <1>3, YieldFacts
  <2> HIDE DEF h
  <2>2. h.pos < f.stream.len
    BY <1>1, <1>4, <2>1 DEF AtElement
  <2>3. doStep(f) = h
    BY <1>4 DEF doStep, g, h
  <2>4. Stepped(f).frame = h /\ Stepped(f).threw = FALSE
    BY <2>1, <2>3 DEF Stepped
  <2>5. h.live = Held(h) \cup Leaked(h)
    BY <1>2, <2>1 DEF Held, HeldAtYield, Leaked, Locals, PerElement
  <2>. QED
    BY <1>1, <1>2, <2>1, <2>2, <2>4, <2>5 DEF AtRest, At
<1>5. CASE ~AtElement(g) /\ b = "throws"
  <2> DEFINE e == Escape(g)
             h == Rethrown(e)
  <2>1. /\ e \in Frame /\ e.stream = f.stream /\ e.done /\ e.pos = g.pos /\ e.m_value = g.m_value
        /\ e.live = {"m_exception", "final_awaiter_"}
    BY <1>1, <1>3 DEF Escape, Frame, Buffers
  <2> HIDE DEF e
  <2>2. /\ h \in Frame /\ h.stream = f.stream /\ h.done /\ h.pos = g.pos /\ h.m_value = g.m_value
        /\ h.live = {"final_awaiter_"}
    BY <2>1 DEF Rethrown, Frame
  <2>3. doStep(f) = e
    BY <1>1, <1>5 DEF doStep, g, e
  <2>4. Stepped(f).frame = h /\ Stepped(f).threw = TRUE
    BY <2>1, <2>3 DEF Stepped, HasException
  <2> HIDE DEF h
  <2>5. h.live = Held(h) \cup Leaked(h)
    BY <1>5, <2>2 DEF Held, Leaked
  <2>. QED
    BY <1>1, <1>2, <1>5, <2>2, <2>4, <2>5 DEF AtRest, At, AtElement
<1>6. CASE ~AtElement(g) /\ b # "throws"
  <2> DEFINE h == Return(g)
  <2>1. /\ h \in Frame /\ h.stream = f.stream /\ h.done /\ h.pos = g.pos /\ h.m_value = g.m_value
        /\ h.live = Locals(b) \cup {"final_awaiter_"}
    BY <1>1 DEF Return, Frame, Buffers
  <2>2. doStep(f) = h
    BY <1>1, <1>6 DEF doStep, g
  <2> HIDE DEF h
  <2>3. ~HasException(h)
    BY <1>2, <2>1 DEF HasException, Locals
  <2>4. Stepped(f).frame = h /\ Stepped(f).threw = FALSE
    BY <2>2, <2>3 DEF Stepped
  <2>5. h.live = Held(h) \cup Leaked(h)
    BY <1>2, <1>6, <2>1 DEF Held, Leaked, Locals
  <2>. QED
    BY <1>1, <1>2, <1>6, <2>1, <2>4, <2>5 DEF AtRest, At, AtElement
<1>. QED
  BY <1>4, <1>5, <1>6

(* ramp() makes a frame that is at rest.                                   *)
LEMMA NewFrameFacts ==
  ASSUME NEW s \in Stream
  PROVE  NewFrame(s) \in Frame /\ AtRest(NewFrame(s))
BY DEF NewFrame, AtRest, Held, Leaked, Frame, Stream, Buffers

-------------------------------------------------------------------------------
Typed ==
  /\ policy \in Policies
  /\ handle \in [Objects -> {null, gone} \cup Cells]
  /\ \A o \in Objects : handle[o] \in (IF Heap THEN {null, gone} \cup Addresses ELSE {gone, o})
  /\ mem \in [Cells -> {free} \cup Frame]
  /\ moved \subseteq Objects
  /\ iter \in [Iterators -> Objects \cup {nullptr}]
  /\ saw \in {<<"nothing">>, <<"end">>, <<"more">>, <<"exception">>} \cup ({"element"} \X Nat)
  /\ fault \in BOOLEAN

AllAtRest == \A c \in Cells : mem[c] # free => AtRest(mem[c])

(* A moved-from object is an inline one that still has its frame.          *)
MovedFrom == \A o \in moved : ~Heap /\ Exists(o)

IInv == Typed /\ OwnedOnce /\ AllAtRest /\ MovedFrom /\ ~fault

(* An object that is not null has a frame.                                 *)
LEMMA HandleFacts ==
  ASSUME Typed, OwnedOnce, NEW o \in Objects, Exists(o), Bool(handle[o])
  PROVE  /\ handle[o] \in Cells /\ mem[handle[o]] \in Frame /\ IsFrame(handle[o])
         /\ ~Heap => handle[o] = o
         /\ \A p \in Objects : handle[p] = handle[o] => p = o
<1>1. handle[o] \in Cells /\ (~Heap => handle[o] = o)
  BY DEF Typed, Exists, Bool, Cells
<1>2. mem[handle[o]] # free /\ \A p \in Objects : handle[p] = handle[o] => p = o
  BY <1>1 DEF OwnedOnce
<1>. QED
  BY <1>1, <1>2 DEF Typed, IsFrame

(* The initial state has no frames.                                        *)
LEMMA InitInv == Init => IInv
<1> SUFFICES ASSUME Init PROVE IInv
  OBVIOUS
<1>1. Typed
  BY DEF Init, Typed, Cells
<1>2. OwnedOnce
  BY ConstantsAssumption DEF Init, OwnedOnce
<1>. QED
  BY <1>1, <1>2 DEF Init, IInv, AllAtRest, MovedFrom

(* resume() of an object that is not done, in begin() or ++                *)
LEMMA ResumeInv ==
  ASSUME IInv, NEW o \in Objects, Usable(o), Bool(handle[o]), ~Done(handle[o]),
         ResumeHandle(handle[o]), UNCHANGED <<policy, handle, moved>>,
         iter' \in [Iterators -> Objects \cup {nullptr}]
  PROVE  IInv'
<1> DEFINE h == handle[o]
           f == Stepped(mem[h]).frame
<1>1. h \in Cells /\ mem[h] \in Frame /\ IsFrame(h) /\ (~Heap => h = o) /\ ~mem[h].done
  BY HandleFacts DEF IInv, Usable, Done
<1>2. f \in Frame /\ AtRest(f) /\ f # free
  <2>1. AtRest(mem[h])
    BY <1>1, ConstantsAssumption DEF IInv, AllAtRest
  <2>. QED
    BY <1>1, <2>1, SteppedFacts, ConstantsAssumption
<1> HIDE DEF f
<1>3. /\ mem' = [mem EXCEPT ![h] = f]
      /\ saw' \in {<<"exception">>, <<"nothing">>}
      /\ fault' = fault
  BY <1>1 DEF ResumeHandle, Done, f
<1>4. Typed'
  BY <1>1, <1>2, <1>3 DEF IInv, Typed, Heap, Exists
<1>5. OwnedOnce'
  BY <1>1, <1>2, <1>3 DEF IInv, OwnedOnce, Typed
<1>6. AllAtRest'
  BY <1>1, <1>2, <1>3 DEF IInv, AllAtRest, Typed
<1>7. MovedFrom'
  BY DEF IInv, MovedFrom, Heap, Exists
<1>. QED
  BY <1>3, <1>4, <1>5, <1>6, <1>7 DEF IInv

(* A move on the heap hands the frame over.                                *)
LEMMA HeapMoveInv ==
  ASSUME IInv, NEW o \in Objects, NEW p \in Objects, o # p, Heap, Usable(p),
         HeapMove(o, p), UNCHANGED <<policy, iter, saw, fault>>
  PROVE  IInv'
<1>1. /\ mem' = [c \in Cells |-> IF c = handle[o] THEN free ELSE mem[c]]
      /\ handle' = [handle EXCEPT ![o] = handle[p], ![p] = null]
      /\ moved' = moved
  BY DEF HeapMove, Destroyed
<1>2. Typed'
  BY <1>1 DEF IInv, Typed, Heap
<1>3. /\ \A q \in Objects : handle'[q] = IF q = p THEN null
                                          ELSE IF q = o THEN handle[p] ELSE handle[q]
      /\ \A c \in Cells : mem'[c] = IF c = handle[o] THEN free ELSE mem[c]
      /\ null \notin Cells
  BY <1>1, ConstantsAssumption DEF IInv, Typed
<1>4. OwnedOnce'
  <2>1. ASSUME NEW c \in Cells, mem'[c] # free PROVE \E q \in Objects : handle'[q] = c
    <3>1. c # handle[o] /\ mem[c] # free
      BY <1>3, <2>1
    <3>2. PICK q \in Objects : handle[q] = c
      BY <3>1 DEF IInv, OwnedOnce
    <3>. QED
      BY <1>3, <3>1, <3>2
  <2>2. ASSUME NEW q \in Objects, handle'[q] \in Cells
        PROVE  mem'[handle'[q]] # free /\ \A r \in Objects : handle'[r] = handle'[q] => r = q
    BY <1>3, <2>2 DEF IInv, OwnedOnce
  <2>. QED
    BY <2>1, <2>2 DEF OwnedOnce
<1>5. AllAtRest'
  BY <1>3 DEF IInv, AllAtRest
<1>6. MovedFrom'
  BY <1>1 DEF IInv, MovedFrom
<1>. QED
  BY <1>2, <1>4, <1>5, <1>6 DEF IInv

(* A move of an inline generator leaves a copy behind.                     *)
LEMMA InlineMoveInv ==
  ASSUME IInv, NEW o \in Objects, NEW p \in Objects, o # p, ~Heap, Usable(p),
         InlineMove(o, p), UNCHANGED <<policy, iter, saw, fault>>
  PROVE  IInv'
<1>1. /\ mem' = [mem EXCEPT ![o] = mem[p]]
      /\ handle' = [handle EXCEPT ![o] = o]
      /\ moved' = (moved \ {o}) \cup {p}
  BY DEF InlineMove
<1>2. handle[p] = p /\ mem[p] \in Frame /\ mem[p] # free /\ Exists(p) /\ Objects \subseteq Cells
  BY HandleFacts, ConstantsAssumption DEF IInv, Usable, Bool, Cells
<1>3. Typed'
  BY <1>1, <1>2 DEF IInv, Typed, Heap
<1>4. /\ \A q \in Objects : handle'[q] = IF q = o THEN o ELSE handle[q]
      /\ \A c \in Cells : mem'[c] = IF c = o THEN mem[p] ELSE mem[c]
  BY <1>1, <1>2 DEF IInv, Typed
<1>5. OwnedOnce'
  <2>1. \A q \in Objects : handle[q] \in {gone, q} /\ handle'[q] \in {gone, q} /\ gone \notin Cells
    BY <1>4, ConstantsAssumption DEF IInv, Typed
  <2>2. ASSUME NEW c \in Cells, mem'[c] # free PROVE \E q \in Objects : handle'[q] = c
    BY <1>4, <2>1, <2>2 DEF IInv, OwnedOnce
  <2>3. ASSUME NEW q \in Objects, handle'[q] \in Cells
        PROVE  mem'[handle'[q]] # free /\ \A r \in Objects : handle'[r] = handle'[q] => r = q
    BY <1>2, <1>4, <2>1, <2>3 DEF IInv, OwnedOnce
  <2>. QED
    BY <2>2, <2>3 DEF OwnedOnce
<1>6. AllAtRest'
  BY <1>2, <1>4 DEF IInv, AllAtRest
<1>7. MovedFrom'
  <2>1. ASSUME NEW q \in moved' PROVE ~Heap' /\ Exists(q)'
    <3>1. q \in Objects /\ q # o /\ handle'[q] = handle[q]
      BY <1>1, <1>4, <2>1 DEF IInv, Typed
    <3>2. q = p \/ q \in moved
      BY <1>1, <2>1
    <3>. QED
      BY <1>2, <3>1, <3>2 DEF IInv, MovedFrom, Exists, Heap
  <2>. QED
    BY <2>1 DEF MovedFrom
<1>. QED
  BY <1>3, <1>5, <1>6, <1>7 DEF IInv

(* Either kind of move preserves the invariant.                            *)
LEMMA MoveInv ==
  ASSUME IInv, NEW o \in Objects, NEW p \in Objects, o # p, Usable(p),
         MoveHandle(o, p), UNCHANGED <<policy, iter, saw, fault>>
  PROVE  IInv'
BY HeapMoveInv, InlineMoveInv DEF MoveHandle

(* Every step preserves the invariant.                                     *)
LEMMA StepInv == IInv /\ [Next]_vars => IInv'
<1> SUFFICES ASSUME IInv, [Next]_vars PROVE IInv'
  OBVIOUS
<1>1. CASE UNCHANGED vars
  BY <1>1 DEF vars, IInv, Typed, OwnedOnce, AllAtRest, MovedFrom, Heap, Exists
<1>2. ASSUME NEW o \in Objects, Default(o) PROVE IInv'
  <2>1. /\ handle' = [handle EXCEPT ![o] = null] /\ handle[o] = gone /\ Heap
        /\ UNCHANGED <<policy, mem, moved, iter, saw, fault>>
    BY <1>2 DEF Default, Exists
  <2>2. Typed'
    BY <2>1 DEF IInv, Typed, Heap
  <2>3. OwnedOnce'
    BY <2>1, ConstantsAssumption DEF IInv, Typed, OwnedOnce
  <2>4. AllAtRest' /\ MovedFrom'
    BY <2>1 DEF IInv, AllAtRest, MovedFrom
  <2>. QED
    BY <2>1, <2>2, <2>3, <2>4 DEF IInv
<1>3. ASSUME NEW o \in Objects, NEW s \in Streams[policy], Make(o, s) PROVE IInv'
  <2>1. PICK c \in (IF Heap THEN Addresses ELSE {o}) :
               /\ mem[c] = free
               /\ mem' = [mem EXCEPT ![c] = NewFrame(s)]
               /\ handle' = [handle EXCEPT ![o] = c]
    BY <1>3 DEF Make
  <2>2. handle[o] = gone /\ UNCHANGED <<policy, moved, iter, saw, fault>>
    BY <1>3 DEF Make, Exists
  <2>3. c \in Cells /\ gone \notin Cells
    BY <2>1, ConstantsAssumption DEF Cells
  <2>4. NewFrame(s) \in Frame /\ AtRest(NewFrame(s)) /\ NewFrame(s) # free
    BY StreamAssumption, NewFrameFacts, ConstantsAssumption DEF IInv, Typed
  <2>5. /\ \A q \in Objects : handle'[q] = IF q = o THEN c ELSE handle[q]
        /\ \A d \in Cells : mem'[d] = IF d = c THEN NewFrame(s) ELSE mem[d]
    BY <2>1, <2>3 DEF IInv, Typed
  <2>6. Typed'
    BY <2>1, <2>2, <2>3, <2>4 DEF IInv, Typed, Heap
  <2>7. OwnedOnce'
    BY <2>1, <2>2, <2>3, <2>4, <2>5 DEF IInv, OwnedOnce
  <2>8. AllAtRest'
    BY <2>4, <2>5 DEF IInv, AllAtRest
  <2>9. MovedFrom'
    <3>1. ASSUME NEW q \in moved
          PROVE  ~Heap' /\ Exists(q)'
      <4>1. q \in Objects /\ q # o /\ ~Heap
        BY <2>2, <3>1 DEF IInv, Typed, MovedFrom, Exists
      <4>. QED
        BY <2>1, <2>2, <2>5, <4>1 DEF IInv, MovedFrom, Exists, Heap, Cells
    <3>. QED
      BY <2>2, <3>1 DEF MovedFrom
  <2>. QED
    BY <2>2, <2>6, <2>7, <2>8, <2>9 DEF IInv
<1>4. ASSUME NEW o \in Objects, NEW p \in Objects, MoveConstruct(o, p) PROVE IInv'
  BY <1>4, MoveInv DEF MoveConstruct, Usable
<1>5. ASSUME NEW o \in Objects, NEW p \in Objects, MoveAssign(o, p) PROVE IInv'
  <2>1. CASE o = p
    BY <1>5, <2>1
       DEF MoveAssign, SelfAssigned, IInv, Typed, OwnedOnce, AllAtRest, MovedFrom, Heap, Exists
  <2>2. CASE o # p
    BY <1>5, <2>2, MoveInv DEF MoveAssign, SelfAssigned
  <2>. QED
    BY <2>1, <2>2
<1>6. ASSUME NEW o \in Objects, NEW p \in Objects, Swap(o, p) PROVE IInv'
  <2>1. /\ UNCHANGED <<policy, moved, iter, saw, fault>>
        /\ Exists(o) /\ o \notin moved /\ Exists(p) /\ p \notin moved
    BY <1>6 DEF Swap, Usable
  <2>2. CASE Heap
    <3>1. mem' = mem /\ handle' = [handle EXCEPT ![o] = handle[p], ![p] = handle[o]]
      BY <1>6, <2>2 DEF Swap
    <3>2. Typed'
      BY <2>1, <2>2, <3>1 DEF IInv, Typed, Heap
    <3>3. \A q \in Objects : handle'[q] = IF q = p THEN handle[o]
                                          ELSE IF q = o THEN handle[p] ELSE handle[q]
      BY <3>1 DEF IInv, Typed
    <3>4. OwnedOnce'
      <4>1. ASSUME NEW c \in Cells, mem'[c] # free PROVE \E q \in Objects : handle'[q] = c
        <5>1. PICK q \in Objects : handle[q] = c
          BY <3>1, <4>1 DEF IInv, OwnedOnce
        <5>2. handle'[IF q = o THEN p ELSE IF q = p THEN o ELSE q] = c
          BY <3>3, <5>1
        <5>. QED
          BY <5>2
      <4>2. ASSUME NEW q \in Objects, handle'[q] \in Cells
            PROVE  mem'[handle'[q]] # free /\ \A r \in Objects : handle'[r] = handle'[q] => r = q
        <5>1. \A r, t \in Objects : handle[r] \in Cells /\ handle[t] = handle[r] => t = r
          BY DEF IInv, OwnedOnce
        <5>2. mem'[handle'[q]] # free
          <6>1. PICK r \in Objects : handle'[q] = handle[r]
            BY <3>3
          <6>. QED
            BY <3>1, <4>2, <6>1 DEF IInv, OwnedOnce
        <5>3. ASSUME NEW r \in Objects, handle'[r] = handle'[q] PROVE r = q
          BY <3>3, <4>2, <5>1, <5>3
        <5>. QED
          BY <5>2, <5>3
      <4>. QED
        BY <4>1, <4>2 DEF OwnedOnce
    <3>5. AllAtRest' /\ MovedFrom'
      BY <2>1, <2>2, <3>1 DEF IInv, AllAtRest, MovedFrom, Heap
    <3>. QED
      BY <2>1, <3>2, <3>4, <3>5 DEF IInv
  <2>3. CASE ~Heap
    <3>1. handle' = handle /\ mem' = [mem EXCEPT ![o] = mem[p], ![p] = mem[o]]
      BY <1>6, <2>3 DEF Swap
    <3>2. /\ mem[o] \in Frame /\ mem[o] # free /\ mem[p] \in Frame /\ mem[p] # free
          /\ o \in Cells /\ p \in Cells
      BY <2>1, <2>3, HandleFacts, ConstantsAssumption DEF IInv, Bool
    <3>3. \A c \in Cells : mem'[c] = IF c = p THEN mem[o] ELSE IF c = o THEN mem[p] ELSE mem[c]
      BY <3>1, <3>2 DEF IInv, Typed
    <3>4. Typed'
      BY <2>1, <3>1, <3>2 DEF IInv, Typed, Heap
    <3>0. \A c \in Cells : mem'[c] # free <=> mem[c] # free
      BY <3>2, <3>3
    <3>5. OwnedOnce' /\ AllAtRest'
      <4>1. OwnedOnce'
        BY <3>0, <3>1 DEF IInv, OwnedOnce
      <4>2. AllAtRest'
        BY <3>2, <3>3 DEF IInv, AllAtRest
      <4>. QED
        BY <4>1, <4>2
    <3>6. MovedFrom'
      BY <2>1, <3>1, <3>3 DEF IInv, Typed, MovedFrom, Heap, Exists, Cells
    <3>. QED
      BY <2>1, <3>4, <3>5, <3>6 DEF IInv
  <2>. QED
    BY <2>2, <2>3
<1>7. ASSUME NEW o \in Objects, Destroy(o) PROVE IInv'
  <2>1. /\ mem' = [c \in Cells |-> IF c = handle[o] THEN free ELSE mem[c]]
        /\ handle' = [handle EXCEPT ![o] = gone]
        /\ moved' = moved \ {o}
        /\ iter' = [i \in Iterators |-> IF iter[i] = o THEN nullptr ELSE iter[i]]
        /\ UNCHANGED <<policy, saw, fault>>
    BY <1>7 DEF Destroy, Destroyed
  <2>2. Typed'
    BY <2>1 DEF IInv, Typed, Heap
  <2>3. /\ \A q \in Objects : handle'[q] = IF q = o THEN gone ELSE handle[q]
        /\ \A c \in Cells : mem'[c] = IF c = handle[o] THEN free ELSE mem[c]
        /\ gone \notin Cells
    BY <2>1, ConstantsAssumption DEF IInv, Typed
  <2>4. OwnedOnce'
    BY <2>3 DEF IInv, OwnedOnce
  <2>5. AllAtRest'
    BY <2>3 DEF IInv, AllAtRest
  <2>6. MovedFrom'
    BY <2>1, <2>3 DEF IInv, Typed, MovedFrom, Heap, Exists, Cells
  <2>. QED
    BY <2>1, <2>2, <2>4, <2>5, <2>6 DEF IInv
<1>8. ASSUME NEW o \in Objects, NEW i \in Iterators, Begin(o, i) PROVE IInv'
  <2>1. Usable(o) /\ ~Done(handle[o]) /\ UNCHANGED <<policy, handle, moved>>
    BY <1>8 DEF Begin
  <2>2. iter' \in [Iterators -> Objects \cup {nullptr}]
    BY <1>8 DEF Begin, IInv, Typed
  <2>3. CASE Bool(handle[o])
    BY <1>8, <2>1, <2>2, <2>3, ResumeInv DEF Begin
  <2>4. CASE ~Bool(handle[o])
    <3>1. saw' = <<"nothing">> /\ UNCHANGED <<mem, fault>>
      BY <1>8, <2>4 DEF Begin
    <3>. QED
      BY <2>1, <2>2, <3>1 DEF IInv, Typed, OwnedOnce, AllAtRest, MovedFrom, Heap, Exists
  <2>. QED
    BY <2>3, <2>4
<1>9. ASSUME NEW i \in Iterators, Compare(i) PROVE IInv'
  BY <1>9 DEF Compare, IInv, Typed, OwnedOnce, AllAtRest, MovedFrom, Heap, Exists
<1>10. ASSUME NEW i \in Iterators, Increment(i) PROVE IInv'
  <2>1. /\ iter[i] \in Objects /\ Usable(iter[i]) /\ Bool(handle[iter[i]])
        /\ ~Done(handle[iter[i]]) /\ UNCHANGED <<policy, handle, moved, iter>>
        /\ ResumeHandle(handle[iter[i]])
    BY <1>10 DEF Increment, AtEnd, MayUse, IInv, Typed
  <2>2. iter' \in [Iterators -> Objects \cup {nullptr}]
    BY <2>1 DEF IInv, Typed
  <2>. QED
    BY <2>1, <2>2, ResumeInv
<1>11. ASSUME NEW i \in Iterators, Deref(i) PROVE IInv'
  <2>1. iter[i] \in Objects /\ Usable(iter[i]) /\ Bool(handle[iter[i]])
    BY <1>11 DEF Deref, AtEnd, MayUse, IInv, Typed
  <2>2. IsFrame(handle[iter[i]]) /\ mem[handle[iter[i]]] \in Frame
    BY <2>1, HandleFacts DEF IInv, Usable
  <2>3. /\ saw' = <<"element", mem[handle[iter[i]]].m_value>>
        /\ UNCHANGED <<policy, handle, mem, moved, iter, fault>>
    BY <1>11, <2>2 DEF Deref
  <2>4. mem[handle[iter[i]]].m_value \in Nat
    BY <2>2 DEF Frame
  <2>. QED
    BY <2>3, <2>4 DEF IInv, Typed, OwnedOnce, AllAtRest, MovedFrom, Heap, Exists
<1>. QED
  BY <1>1, <1>2, <1>3, <1>4, <1>5, <1>6, <1>7, <1>8, <1>9, <1>10, <1>11 DEF Next

-------------------------------------------------------------------------------
(* Reachable states: every object that is not null has its own frame, and  *)
(* every frame is at rest.                                                 *)
THEOREM Inductive == Spec => []IInv
BY InitInv, StepInv, PTL DEF Spec

(* The objects, frames and iterators stay within their types, and no       *)
(* generator is ever past the end of its stream.                           *)
THEOREM TypeCorrect == Spec => []TypeOK
<1>1. IInv => TypeOK
  BY DEF IInv, Typed, AllAtRest, AtRest, TypeOK
<1>. QED
  BY <1>1, Inductive, PTL

(* Every frame has exactly one object that will destroy it.                *)
THEOREM EveryFrameOwnedOnce == Spec => []OwnedOnce
<1>1. IInv => OwnedOnce
  BY DEF IInv
<1>. QED
  BY <1>1, Inductive, PTL

(* An iterator that is not at its end goes to a frame that exists.         *)
THEOREM IteratorsSafe == Spec => []NoNullCall
<1>1. IInv => NoNullCall
  BY DEF IInv, NoNullCall
<1>. QED
  BY <1>1, Inductive, PTL

(* destroy() finds what it destroys, and leaves string_prepend()'s         *)
(* iterators at most.                                                      *)
THEOREM DestructionFits == Spec => []HoldsWhatItDestroys
<1>1. IInv => HoldsWhatItDestroys
  BY DEF IInv, HoldsWhatItDestroys, AllAtRest, AtRest, Leaked, Locals
<1>. QED
  BY <1>1, Inductive, PTL

-------------------------------------------------------------------------------
(* What an object holds, seen from outside.                                *)
LEMMA StreamFacts ==
  ASSUME IInv, NEW o \in Objects
  PROVE  /\ StreamOf(o) = gone <=> ~Exists(o)
         /\ o \in moved => StreamOf(o) = null
         /\ Usable(o) /\ ~Bool(handle[o]) => StreamOf(o) = null
         /\ Usable(o) /\ Bool(handle[o]) =>
              /\ StreamOf(o) = [stream |-> mem[handle[o]].stream, at |-> At(mem[handle[o]])]
              /\ StreamOf(o) \in [stream : Stream, at : Nat] /\ StreamOf(o) # null
              /\ mem[handle[o]] \in Frame /\ IsFrame(handle[o]) /\ AtRest(mem[handle[o]])
<1>1. /\ null # gone /\ null \notin Cells /\ gone \notin Cells
      /\ null \notin [stream : Stream, at : Nat] /\ gone \notin [stream : Stream, at : Nat]
  BY ConstantsAssumption
<1>2. o \in moved => Exists(o)
  BY DEF IInv, MovedFrom
<1>3. CASE Usable(o) /\ Bool(handle[o])
  <2> DEFINE f == mem[handle[o]]
  <2>1. f \in Frame /\ IsFrame(handle[o]) /\ AtRest(f)
    BY <1>3, HandleFacts DEF IInv, Usable, AllAtRest, IsFrame
  <2>2. f.stream \in Stream /\ At(f) \in Nat
    BY <2>1 DEF Frame, Stream, At
  <2>3. StreamOf(o) = [stream |-> f.stream, at |-> At(f)]
    BY <1>3, <2>1 DEF StreamOf, Usable, Exists, At
  <2>. QED
    BY <1>1, <1>3, <2>1, <2>2, <2>3 DEF Usable
<1>4. CASE ~(Usable(o) /\ Bool(handle[o]))
  BY <1>1, <1>2, <1>4 DEF StreamOf, Usable, Exists, Bool, IsFrame
<1>. QED
  BY <1>3, <1>4

(* An object whose handle, frame and moved-from state stay is the same.    *)
LEMMA StreamSame ==
  ASSUME NEW o \in Objects, handle'[o] = handle[o], o \in moved' <=> o \in moved,
         handle[o] \in Cells => mem'[handle[o]] = mem[handle[o]]
  PROVE  StreamOf(o)' = StreamOf(o)
BY DEF StreamOf, IsFrame

(* The same for all objects                                                *)
LEMMA StreamsSame ==
  ASSUME UNCHANGED <<handle, mem, moved>>
  PROVE  \A o \in Objects : StreamOf(o)' = StreamOf(o)
BY StreamSame

(* resume() advances the stream of one object.                             *)
LEMMA ResumeAdvances ==
  ASSUME IInv, NEW o \in Objects, Usable(o), Bool(handle[o]), ~Done(handle[o]),
         ResumeHandle(handle[o]), UNCHANGED <<policy, handle, moved>>
  PROVE  Contract!Advance(o) /\ ~Contract!Ended(StreamOf(o))
<1> DEFINE h == handle[o]
           r == Stepped(mem[h])
           g == r.frame
<1>1. /\ StreamOf(o) = [stream |-> mem[h].stream, at |-> At(mem[h])] /\ StreamOf(o) # null
      /\ mem[h] \in Frame /\ h \in Cells /\ IsFrame(h) /\ AtRest(mem[h]) /\ ~mem[h].done
  BY StreamFacts DEF IsFrame, Done
<1>2. /\ g \in Frame /\ g.stream = mem[h].stream /\ At(g) = mem[h].m_value + 1
      /\ r.threw <=> mem[h].stream.body = "throws" /\ mem[h].m_value + 1 > mem[h].stream.len
  BY <1>1, SteppedFacts
<1>3. mem[h].stream.len \in Nat /\ mem[h].m_value \in Nat /\ mem[h].m_value <= mem[h].stream.len
      /\ At(mem[h]) = mem[h].m_value
  BY <1>1 DEF Frame, Stream, AtRest, At
<1> HIDE DEF g, r
<1>4. /\ mem' = [mem EXCEPT ![h] = g]
      /\ saw' = IF r.threw THEN <<"exception">> ELSE <<"nothing">>
  BY <1>1 DEF ResumeHandle, Done, g, r
<1>5. mem'[h] = g /\ g # free /\ \A c \in Cells : c # h => mem'[c] = mem[c]
  BY <1>1, <1>2, <1>4, ConstantsAssumption DEF IInv, Typed
<1>6. StreamOf(o)' = [stream |-> mem[h].stream, at |-> mem[h].m_value + 1]
  BY <1>1, <1>2, <1>5 DEF StreamOf, IsFrame, Usable, Exists, At
<1>7. ASSUME NEW p \in Objects, p # o PROVE StreamOf(p)' = StreamOf(p)
  BY <1>1, <1>5, <1>7, StreamSame, HandleFacts DEF IInv, Usable
<1>8. StreamOf(o).stream = mem[h].stream /\ StreamOf(o).at = mem[h].m_value
  BY <1>1, <1>3
<1>9. [q \in Objects |-> StreamOf(q)]' =
        [[q \in Objects |-> StreamOf(q)] EXCEPT ![o].at = @ + 1]
  <2> DEFINE S(q) == StreamOf(q)
             new == [stream |-> mem[h].stream, at |-> mem[h].m_value + 1]
  <2>1. [S(o) EXCEPT !.at = S(o).at + 1] = new
    BY <1>1, <1>3
  <2>2. [q \in Objects |-> S(q)]' = [q \in Objects |-> IF q = o THEN new ELSE S(q)]
    BY <1>6, <1>7
  <2> HIDE DEF S, new
  <2>3. [[q \in Objects |-> S(q)] EXCEPT ![o].at = @ + 1]
          = [q \in Objects |-> IF q = o THEN [S(o) EXCEPT !.at = S(o).at + 1] ELSE S(q)]
    OBVIOUS
  <2>. QED
    BY <2>1, <2>2, <2>3 DEF S
<1>10. ~Contract!Ended(StreamOf(o))
  BY <1>1, <1>3, <1>8 DEF Contract!Ended
<1>11. Contract!Ended(StreamOf(o)') <=> mem[h].m_value + 1 > mem[h].stream.len
  <2>1. StreamOf(o)' \in [stream : Stream, at : Nat]
    BY <1>1, <1>3, <1>6 DEF Frame
  <2>. QED
    BY <1>6, <2>1, ConstantsAssumption DEF Contract!Ended
<1>. QED
  BY <1>2, <1>4, <1>8, <1>9, <1>10, <1>11 DEF Contract!Advance

(* The comparison with end() is that of the stream.                        *)
LEMMA EndFacts ==
  ASSUME IInv, NEW i \in Iterators, MayUse(i)
  PROVE  AtEnd(i) <=> Contract!AtEnd(i)
<1>1. CASE iter[i] = nullptr
  BY <1>1 DEF AtEnd, Contract!AtEnd
<1>2. CASE iter[i] # nullptr
  <2> DEFINE o == iter[i]
  <2>1. o \in Objects /\ Usable(o)
    BY <1>2 DEF IInv, Typed, MayUse
  <2>2. CASE ~Bool(handle[o])
    BY <1>2, <2>1, <2>2, StreamFacts DEF AtEnd, Contract!AtEnd, Contract!Ended
  <2>3. CASE Bool(handle[o])
    <3> DEFINE f == mem[handle[o]]
    <3>1. /\ StreamOf(o) = [stream |-> f.stream, at |-> At(f)] /\ StreamOf(o) # null
          /\ f \in Frame /\ IsFrame(handle[o]) /\ AtRest(f) /\ StreamOf(o) # gone
      BY <2>1, <2>3, StreamFacts DEF Usable
    <3>2. f.stream.len \in Nat /\ f.m_value \in Nat /\ f.m_value <= f.stream.len
      BY <3>1 DEF Frame, Stream, AtRest
    <3>3. Contract!Ended(StreamOf(o)) <=> At(f) > f.stream.len
      BY <3>1 DEF Contract!Ended
    <3>4. At(f) > f.stream.len <=> f.done
      BY <3>2 DEF At
    <3>. QED
      BY <1>2, <2>1, <2>3, <3>1, <3>3, <3>4 DEF AtEnd, Contract!AtEnd, Done
  <2>. QED
    BY <2>2, <2>3
<1>. QED
  BY <1>1, <1>2

(* A move from one object to another takes the stream along.               *)
LEMMA MoveMoves ==
  ASSUME IInv, NEW o \in Objects, NEW p \in Objects, o # p, Usable(p), MoveHandle(o, p),
         UNCHANGED <<policy, iter, saw>>
  PROVE  Contract!Move(o, p)
<1>1. /\ StreamOf(o)' = StreamOf(p) /\ StreamOf(p)' = null
      /\ \A q \in Objects : q # o /\ q # p => StreamOf(q)' = StreamOf(q)
  <2>1. CASE Heap
    <3>1. /\ mem' = [c \in Cells |-> IF c = handle[o] THEN free ELSE mem[c]]
          /\ handle' = [handle EXCEPT ![o] = handle[p], ![p] = null]
          /\ moved' = moved /\ moved = {}
      BY <2>1 DEF MoveHandle, HeapMove, Destroyed, IInv, MovedFrom, Typed
    <3>2. /\ \A q \in Objects : handle'[q] = IF q = p THEN null
                                             ELSE IF q = o THEN handle[p] ELSE handle[q]
          /\ \A c \in Cells : mem'[c] = IF c = handle[o] THEN free ELSE mem[c]
          /\ null \notin Cells /\ null # gone
      BY <3>1, ConstantsAssumption DEF IInv, Typed
    <3>3. \A q, r \in Objects : handle[q] \in Cells /\ q # r => handle[q] # handle[r]
      BY DEF IInv, OwnedOnce
    <3>4. StreamOf(p)' = null
      BY <3>1, <3>2 DEF StreamOf, IsFrame
    <3>5. StreamOf(o)' = StreamOf(p)
      BY <3>1, <3>2, <3>3 DEF StreamOf, IsFrame
    <3>6. ASSUME NEW q \in Objects, q # o, q # p PROVE StreamOf(q)' = StreamOf(q)
      BY <3>1, <3>2, <3>3, <3>6, StreamSame
    <3>. QED
      BY <3>4, <3>5, <3>6
  <2>2. CASE ~Heap
    <3>1. /\ mem' = [mem EXCEPT ![o] = mem[p]]
          /\ handle' = [handle EXCEPT ![o] = o]
          /\ moved' = (moved \ {o}) \cup {p}
      BY <2>2 DEF MoveHandle, InlineMove
    <3>2. /\ handle[p] = p /\ IsFrame(p) /\ p \notin moved /\ gone \notin Cells
          /\ \A q \in Objects : handle[q] \in {gone, q} /\ q \in Cells
      BY <2>2, HandleFacts, ConstantsAssumption DEF IInv, Typed, Usable, Bool, Cells
    <3>3. /\ handle'[o] = o /\ \A q \in Objects : q # o => handle'[q] = handle[q]
          /\ mem'[o] = mem[p] /\ \A c \in Cells : c # o => mem'[c] = mem[c]
      BY <3>1, <3>2 DEF IInv, Typed
    <3>4. StreamOf(p)' = null
      BY <3>1, <3>2, <3>3 DEF StreamOf
    <3>5. StreamOf(o)' = StreamOf(p)
      BY <3>1, <3>2, <3>3 DEF StreamOf, IsFrame
    <3>6. ASSUME NEW q \in Objects, q # o, q # p PROVE StreamOf(q)' = StreamOf(q)
      BY <3>1, <3>2, <3>3, <3>6, StreamSame
    <3>. QED
      BY <3>4, <3>5, <3>6
  <2>. QED
    BY <2>1, <2>2
<1>2. StreamOf(p) # gone
  BY StreamFacts DEF Usable
<1>. QED
  BY <1>1, <1>2 DEF Contract!Move, Contract!Exists

(* Every step is one of the contract, or changes nothing in its terms.     *)
LEMMA StepImplements == IInv /\ [Next]_vars => [Contract!Next]_(Contract!vars)
<1> DEFINE S == [q \in Objects |-> StreamOf(q)]
<1> SUFFICES ASSUME IInv, [Next]_vars PROVE Contract!Next \/ UNCHANGED <<S, iter, saw>>
  BY DEF Contract!vars
<1>0. /\ null \notin Cells /\ gone \notin Cells /\ null # gone /\ nullptr \notin Objects
      /\ null \notin [stream : Stream, at : Nat] /\ gone \notin [stream : Stream, at : Nat]
  BY ConstantsAssumption
<1>1. CASE UNCHANGED vars
  BY <1>1, StreamsSame DEF vars
<1>2. ASSUME NEW o \in Objects, Default(o) PROVE Contract!Construct(o, null)
  <2>1. /\ handle' = [handle EXCEPT ![o] = null] /\ handle[o] = gone /\ ~Exists(o)
        /\ UNCHANGED <<policy, mem, moved, iter, saw>>
    BY <1>2 DEF Default, Exists
  <2>2. handle'[o] = null /\ \A q \in Objects : q # o => handle'[q] = handle[q]
    BY <2>1 DEF IInv, Typed
  <2>3. StreamOf(o)' = null
    BY <1>0, <2>2 DEF StreamOf, IsFrame
  <2>4. ASSUME NEW q \in Objects, q # o PROVE StreamOf(q)' = StreamOf(q)
    BY <2>1, <2>2, <2>4, StreamSame
  <2>. QED
    BY <2>1, <2>3, <2>4, StreamFacts DEF Contract!Construct, Contract!Exists
<1>3. ASSUME NEW o \in Objects, NEW s \in Streams[policy], Make(o, s)
      PROVE  s \in UNION {Streams[p] : p \in Policies} /\ Contract!Construct(o, [stream |-> s, at |-> 0])
  <2>1. PICK c \in (IF Heap THEN Addresses ELSE {o}) :
               /\ mem[c] = free
               /\ mem' = [mem EXCEPT ![c] = NewFrame(s)]
               /\ handle' = [handle EXCEPT ![o] = c]
    BY <1>3 DEF Make
  <2>2. ~Exists(o) /\ handle[o] = gone /\ UNCHANGED <<policy, moved, iter, saw>>
    BY <1>3 DEF Make, Exists
  <2>3. c \in Cells /\ s \in Stream /\ NewFrame(s) # free /\ o \notin moved
    BY <2>1, <2>2, StreamAssumption, NewFrameFacts, ConstantsAssumption
       DEF Cells, IInv, Typed, MovedFrom
  <2>4. /\ handle'[o] = c /\ \A q \in Objects : q # o => handle'[q] = handle[q]
        /\ mem'[c] = NewFrame(s) /\ \A d \in Cells : d # c => mem'[d] = mem[d]
    BY <2>1, <2>3 DEF IInv, Typed
  <2>5. StreamOf(o)' = [stream |-> s, at |-> 0]
    BY <1>0, <2>2, <2>3, <2>4 DEF StreamOf, IsFrame, NewFrame
  <2>6. ASSUME NEW q \in Objects, q # o PROVE StreamOf(q)' = StreamOf(q)
    <3>1. handle[q] # c
      BY <2>1, <2>3 DEF IInv, OwnedOnce
    <3>. QED
      BY <2>2, <2>4, <2>6, <3>1, StreamSame
  <2>7. Contract!Construct(o, [stream |-> s, at |-> 0])
    BY <2>2, <2>5, <2>6, StreamFacts DEF Contract!Construct, Contract!Exists
  <2>. QED
    BY <2>7 DEF IInv, Typed
<1>4. ASSUME NEW o \in Objects, NEW p \in Objects, MoveConstruct(o, p) PROVE Contract!Move(o, p)
  BY <1>4, MoveMoves DEF MoveConstruct, Usable
<1>5. ASSUME NEW o \in Objects, NEW p \in Objects, MoveAssign(o, p) PROVE Contract!Move(o, p)
  <2>1. CASE o = p
    <3>1. UNCHANGED <<handle, mem, moved, iter, saw>> /\ Exists(p)
      BY <1>5, <2>1 DEF MoveAssign, SelfAssigned
    <3>. QED
      BY <2>1, <3>1, StreamsSame, StreamFacts DEF Contract!Move, Contract!Exists
  <2>2. CASE o # p
    BY <1>5, <2>2, MoveMoves DEF MoveAssign, SelfAssigned
  <2>. QED
    BY <2>1, <2>2
<1>6. ASSUME NEW o \in Objects, NEW p \in Objects, Swap(o, p) PROVE Contract!Swap(o, p)
  <2>1. /\ UNCHANGED <<policy, moved, iter, saw>>
        /\ Exists(o) /\ o \notin moved /\ Exists(p) /\ p \notin moved
    BY <1>6 DEF Swap, Usable
  <2>2. /\ StreamOf(o)' = StreamOf(p) /\ StreamOf(p)' = StreamOf(o)
        /\ \A q \in Objects : q # o /\ q # p => StreamOf(q)' = StreamOf(q)
    <3>1. CASE Heap
      <4>1. mem' = mem /\ handle' = [handle EXCEPT ![o] = handle[p], ![p] = handle[o]]
        BY <1>6, <3>1 DEF Swap
      <4>2. \A q \in Objects : handle'[q] = IF q = p THEN handle[o]
                                            ELSE IF q = o THEN handle[p] ELSE handle[q]
        BY <4>1 DEF IInv, Typed
      <4>. QED
        BY <2>1, <4>1, <4>2 DEF StreamOf, IsFrame
    <3>2. CASE ~Heap
      <4>1. handle' = handle /\ mem' = [mem EXCEPT ![o] = mem[p], ![p] = mem[o]]
        BY <1>6, <3>2 DEF Swap
      <4>2. /\ handle[o] = o /\ handle[p] = p /\ o \in Cells /\ p \in Cells
            /\ \A q \in Objects : handle[q] \in {gone, q} /\ q \in Cells
        BY <2>1, <3>2 DEF IInv, Typed, Exists, Cells
      <4>3. \A c \in Cells : mem'[c] = IF c = p THEN mem[o] ELSE IF c = o THEN mem[p] ELSE mem[c]
        BY <4>1, <4>2 DEF IInv, Typed
      <4>4. mem'[o] = mem[p] /\ mem'[p] = mem[o] /\ o # gone /\ p # gone
        BY <1>0, <4>2, <4>3
      <4>5. StreamOf(o)' = StreamOf(p)
        BY <2>1, <4>1, <4>2, <4>4 DEF StreamOf, IsFrame
      <4>6. StreamOf(p)' = StreamOf(o)
        BY <2>1, <4>1, <4>2, <4>4 DEF StreamOf, IsFrame
      <4>7. ASSUME NEW q \in Objects, q # o, q # p PROVE StreamOf(q)' = StreamOf(q)
        BY <1>0, <2>1, <4>1, <4>2, <4>3, <4>7, StreamSame
      <4>. QED
        BY <4>5, <4>6, <4>7
    <3>. QED
      BY <3>1, <3>2
  <2>3. StreamOf(o) # gone /\ StreamOf(p) # gone
    BY <2>1, StreamFacts
  <2>. QED
    BY <2>1, <2>2, <2>3 DEF Contract!Swap, Contract!Exists
<1>7. ASSUME NEW o \in Objects, Destroy(o) PROVE Contract!Destroy(o)
  <2>1. /\ Exists(o)
        /\ mem' = [c \in Cells |-> IF c = handle[o] THEN free ELSE mem[c]]
        /\ handle' = [handle EXCEPT ![o] = gone]
        /\ moved' = moved \ {o}
        /\ iter' = [i \in Iterators |-> IF iter[i] = o THEN nullptr ELSE iter[i]]
        /\ UNCHANGED <<policy, saw>>
    BY <1>7 DEF Destroy, Destroyed
  <2>2. /\ handle'[o] = gone /\ \A q \in Objects : q # o => handle'[q] = handle[q]
        /\ \A c \in Cells : mem'[c] = IF c = handle[o] THEN free ELSE mem[c]
    BY <2>1 DEF IInv, Typed
  <2>3. StreamOf(o)' = gone
    BY <2>2 DEF StreamOf
  <2>4. ASSUME NEW q \in Objects, q # o PROVE StreamOf(q)' = StreamOf(q)
    <3>1. handle[q] \in Cells => handle[q] # handle[o]
      BY <2>4 DEF IInv, OwnedOnce
    <3>. QED
      BY <2>1, <2>2, <2>4, <3>1, StreamSame
  <2>. QED
    BY <2>1, <2>3, <2>4, StreamFacts DEF Contract!Destroy, Contract!Exists
<1>8. ASSUME NEW o \in Objects, NEW i \in Iterators, Begin(o, i) PROVE Contract!Begin(o, i)
  <2>1. /\ Usable(o) /\ ~Done(handle[o]) /\ UNCHANGED <<policy, handle, moved>>
        /\ StreamOf(o) # gone
    BY <1>8, StreamFacts DEF Begin, Usable
  <2>2. CASE Bool(handle[o])
    <3>1. /\ ResumeHandle(handle[o])
          /\ iter' = IF saw' = <<"exception">> THEN iter ELSE [iter EXCEPT ![i] = o]
      BY <1>8, <2>2 DEF Begin
    <3>2. Contract!Advance(o) /\ ~Contract!Ended(StreamOf(o))
      BY <2>1, <2>2, <3>1, ResumeAdvances
    <3>. QED
      BY <2>1, <3>1, <3>2 DEF Contract!Begin, Contract!Exists
  <2>3. CASE ~Bool(handle[o])
    <3>1. /\ iter' = [iter EXCEPT ![i] = nullptr] /\ saw' = <<"nothing">>
          /\ UNCHANGED mem /\ StreamOf(o) = null
      BY <1>8, <2>1, <2>3, StreamFacts DEF Begin
    <3>. QED
      BY <2>1, <3>1, StreamsSame DEF Contract!Begin, Contract!Exists
  <2>. QED
    BY <2>2, <2>3
<1>9. ASSUME NEW i \in Iterators, Compare(i) PROVE Contract!Compare(i)
  BY <1>9, EndFacts, StreamsSame DEF Compare, Contract!Compare
<1>10. ASSUME NEW i \in Iterators, Increment(i) PROVE Contract!Increment(i)
  <2>1. /\ iter[i] \in Objects /\ Usable(iter[i]) /\ Bool(handle[iter[i]]) /\ MayUse(i)
        /\ ~Done(handle[iter[i]]) /\ UNCHANGED <<policy, handle, moved, iter>>
        /\ ResumeHandle(handle[iter[i]]) /\ ~AtEnd(i)
    BY <1>10 DEF Increment, AtEnd, MayUse, IInv, Typed
  <2>. QED
    BY <2>1, EndFacts, ResumeAdvances DEF Contract!Increment
<1>11. ASSUME NEW i \in Iterators, Deref(i) PROVE Contract!Deref(i)
  <2> DEFINE f == mem[handle[iter[i]]]
  <2>1. /\ iter[i] \in Objects /\ Usable(iter[i]) /\ Bool(handle[iter[i]]) /\ MayUse(i)
        /\ ~AtEnd(i) /\ ~Done(handle[iter[i]])
    BY <1>11 DEF Deref, AtEnd, MayUse, IInv, Typed
  <2>2. StreamOf(iter[i]) = [stream |-> f.stream, at |-> f.m_value] /\ IsFrame(handle[iter[i]])
    BY <2>1, StreamFacts DEF Done, At
  <2>3. StreamOf(iter[i]).at = f.m_value
    BY <2>2
  <2>4. /\ saw' = <<"element", f.m_value>> /\ f.m_value # 0
        /\ UNCHANGED <<policy, handle, mem, moved, iter>>
    BY <1>11, <2>2 DEF Deref, Begun
  <2>. QED
    BY <2>1, <2>3, <2>4, EndFacts, StreamsSame DEF Contract!Deref
<1>. QED
  BY <1>1, <1>2, <1>3, <1>4, <1>5, <1>6, <1>7, <1>8, <1>9, <1>10, <1>11 DEF Next, Contract!Next

(* Generator objects of either policy, with frames that are moved about,   *)
(* freed and used again, behave like the streams of module Generators.     *)
THEOREM GeneratorsAreStreams == Spec => ImplementsGenerators
<1>1. Init => Contract!Init
  BY DEF Init, StreamOf, Contract!Init
<1>. QED
  BY <1>1, Inductive, StepImplements, PTL DEF Spec, ImplementsGenerators, Contract!Spec
===============================================================================
