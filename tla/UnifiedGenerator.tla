--------------------------- MODULE UnifiedGenerator ---------------------------
(***************************************************************************)
(* unified_generator<T, Policy> and its iterators (unified_generator.h),   *)
(* for both policies: a generator object has a pointer to a frame on the   *)
(* heap (HeapGeneratorPolicy, stackless_coroutine_handle), or the frame    *)
(* itself (InlineGeneratorPolicy, stackful_coroutine_handle).  An iterator *)
(* points to the handle inside the object.                                 *)
(*                                                                         *)
(* The client may create, move, assign, swap and destroy objects, and use  *)
(* several iterators of each, as long as it keeps to what a client can     *)
(* know: see Usable and the guards of Begin and Deref.                     *)
(***************************************************************************)
EXTENDS GeneratorFrame

CONSTANTS
  Objects,       \* the variables of type unified_generator
  Addresses,     \* of frames on the heap; they are used again
  Iterators,
  Streams,       \* the generators that are called, for each policy
  null, free, gone, nullptr

Policies == {"HeapGeneratorPolicy", "InlineGeneratorPolicy"}

ASSUME StreamAssumption ==
  /\ \A p \in Policies : Streams[p] \subseteq Stream
  /\ \A s \in Streams["InlineGeneratorPolicy"] : s.body = "iota"

Cells == Addresses \cup Objects      \* where a frame can be

ASSUME ConstantsAssumption ==
  /\ {null, gone} \cap Cells = {} /\ null # gone
  /\ {null, gone} \cap [stream : Stream, at : Nat] = {}
  /\ free \notin Frame
  /\ nullptr \notin Objects

VARIABLES
  policy,    \* the template parameter, the same for all objects
  handle,    \* handle[o]: the frame that m_handle of o stands for
  mem,       \* mem[c]: the frame in this place
  moved,     \* the inline generators that were moved from
  iter,      \* iter[i]: the object whose handle the iterator points to
  saw,       \* what the last call told the client
  fault      \* ghost: a call went through a null pointer or to a freed frame

vars == <<policy, handle, mem, moved, iter, saw, fault>>

Heap == policy = "HeapGeneratorPolicy"

TypeOK ==
  /\ policy \in Policies
  /\ handle \in [Objects -> {null, gone} \cup Cells]
  /\ \A o \in Objects : handle[o] \in (IF Heap THEN {null, gone} \cup Addresses ELSE {gone, o})
  /\ mem \in [Cells -> {free} \cup Frame]
  /\ \A c \in Cells : mem[c] # free => /\ mem[c].pos <= mem[c].stream.len
                                      /\ mem[c].m_value <= mem[c].stream.len
  /\ moved \subseteq Objects
  /\ iter \in [Iterators -> Objects \cup {nullptr}]
  /\ saw \in {<<"nothing">>, <<"end">>, <<"more">>, <<"exception">>} \cup ({"element"} \X Nat)
  /\ fault \in BOOLEAN

Init ==
  /\ policy \in Policies
  /\ handle = [o \in Objects |-> gone]
  /\ mem = [c \in Cells |-> free]
  /\ moved = {}
  /\ iter = [i \in Iterators |-> nullptr]
  /\ saw = <<"nothing">>
  /\ fault = FALSE

-------------------------------------------------------------------------------
(* The handle: stackless_handle_base, or stackful_coroutine_handle         *)
IsFrame(h) == h \in Cells /\ mem[h] # free
Bool(h)    == ~Heap \/ h # null
Done(h)    == IsFrame(h) /\ mem[h].done

Exists(o) == handle[o] # gone

(* A moved-from inline generator is not to be used: it still has a frame.  *)
Usable(o) == Exists(o) /\ o \notin moved

(* unified_generator(): only where the handle can be null                  *)
Default(o) ==
  /\ Heap
  /\ ~Exists(o)
  /\ handle' = [handle EXCEPT ![o] = null]
  /\ UNCHANGED <<policy, mem, moved, iter, saw, fault>>

(* A coroutine function is called: get_return_object() makes an object of  *)
(* the handle, or ramp()'s frame is moved into the object.                 *)
Make(o, s) ==
  /\ ~Exists(o)
  /\ \E c \in IF Heap THEN Addresses ELSE {o} :
       /\ mem[c] = free
       /\ mem' = [mem EXCEPT ![c] = NewFrame(s)]
       /\ handle' = [handle EXCEPT ![o] = c]
  /\ UNCHANGED <<policy, moved, iter, saw, fault>>

(* m_handle.destroy(): the frame's memory is free on the heap, and goes    *)
(* with the object otherwise.                                              *)
Destroyed(h) == [c \in Cells |-> IF c = h THEN free ELSE mem[c]]

(* OwnedOnce: the frame that is overwritten is not destroyed               *)
HeapMove_NoDestroy(o, p) ==
  /\ handle' = [handle EXCEPT ![o] = handle[p], ![p] = null]
  /\ UNCHANGED <<mem, moved>>

(* m_handle = other.m_handle; other.m_handle = nullptr                     *)
HeapMove(o, p) ==
  /\ mem' = Destroyed(handle[o])
  /\ handle' = [handle EXCEPT ![o] = handle[p], ![p] = null]
  /\ UNCHANGED moved

(* m_handle = std::move(other.m_handle), wherever the two are suspended:   *)
(* the frame is copied with its buffers as they are (coro_storage::buffer),*)
(* and what was in its place is lost without its destroy().                *)
InlineMove(o, p) ==
  /\ mem' = [mem EXCEPT ![o] = mem[p]]
  /\ handle' = [handle EXCEPT ![o] = o]
  /\ moved' = (moved \ {o}) \cup {p}

MoveHandle(o, p) == IF Heap THEN HeapMove(o, p) ELSE InlineMove(o, p)

(* unified_generator(unified_generator&&)                                  *)
MoveConstruct(o, p) ==
  /\ ~Exists(o)
  /\ Usable(p)
  /\ MoveHandle(o, p)
  /\ UNCHANGED <<policy, iter, saw, fault>>

(* ImplementsGenerators: an assignment to itself is one like any other     *)
SelfAssigned_Unasked(o, p) == FALSE

(* if (this != &other)                                                     *)
SelfAssigned(o, p) == o = p

(* operator=(unified_generator&&)                                          *)
MoveAssign(o, p) ==
  /\ Exists(o)
  /\ Usable(p)
  /\ IF SelfAssigned(o, p) THEN UNCHANGED <<handle, mem, moved>> ELSE MoveHandle(o, p)
  /\ UNCHANGED <<policy, iter, saw, fault>>

(* std::swap(m_handle, other.m_handle)                                     *)
Swap(o, p) ==
  /\ Usable(o)
  /\ Usable(p)
  /\ IF Heap
     THEN handle' = [handle EXCEPT ![o] = handle[p], ![p] = handle[o]] /\ UNCHANGED mem
     ELSE mem' = [mem EXCEPT ![o] = mem[p], ![p] = mem[o]] /\ UNCHANGED handle
  /\ UNCHANGED <<policy, moved, iter, saw, fault>>

(* ~unified_generator(); pointers to the object are not used any more      *)
Destroy(o) ==
  /\ Exists(o)
  /\ mem' = Destroyed(handle[o])
  /\ handle' = [handle EXCEPT ![o] = gone]
  /\ moved' = moved \ {o}
  /\ iter' = [i \in Iterators |-> IF iter[i] = o THEN nullptr ELSE iter[i]]
  /\ UNCHANGED <<policy, saw, fault>>

-------------------------------------------------------------------------------
(* ImplementsGenerators: nobody asks for an exception                      *)
Stepped_Swallowing(f) == [frame |-> Rethrown(doStep(f)), threw |-> FALSE]

(* resume(), then rethrow_if_exception() if that was the last step         *)
Stepped(f) ==
  LET g == doStep(f)
  IN  IF g.done /\ HasException(g) THEN [frame |-> Rethrown(g), threw |-> TRUE]
      ELSE [frame |-> g, threw |-> FALSE]

ResumeHandle(h) ==
  IF IsFrame(h) /\ ~Done(h)
  THEN LET r == Stepped(mem[h])
       IN  /\ mem' = [mem EXCEPT ![h] = r.frame]
           /\ saw' = IF r.threw THEN <<"exception">> ELSE <<"nothing">>
           /\ UNCHANGED fault
  ELSE fault' = TRUE /\ UNCHANGED <<mem, saw>>

(* begin(); the client may call it again, but not on a generator whose end *)
(* it has seen.                                                            *)
Begin(o, i) ==
  /\ Usable(o) /\ ~Done(handle[o])
  /\ IF Bool(handle[o])
     THEN /\ ResumeHandle(handle[o])
          /\ iter' = IF saw' = <<"exception">> THEN iter ELSE [iter EXCEPT ![i] = o]
     ELSE /\ iter' = [iter EXCEPT ![i] = nullptr]
          /\ saw' = <<"nothing">>
          /\ UNCHANGED <<mem, fault>>
  /\ UNCHANGED <<policy, handle, moved>>

(* NoNullCall: a generator that was moved from is not at its end           *)
AtEnd_NoHandleCheck(i) == iter[i] = nullptr \/ Done(handle[iter[i]])

(* operator==(iterator, sentinel)                                          *)
AtEnd(i) == iter[i] = nullptr \/ ~Bool(handle[iter[i]]) \/ Done(handle[iter[i]])

MayUse(i) == iter[i] # nullptr => Usable(iter[i])

(* it == end()                                                             *)
Compare(i) ==
  /\ MayUse(i)
  /\ saw' = IF AtEnd(i) THEN <<"end">> ELSE <<"more">>
  /\ UNCHANGED <<policy, handle, mem, moved, iter, fault>>

(* ++it, by a client that has compared it                                  *)
Increment(i) ==
  /\ MayUse(i) /\ ~AtEnd(i)
  /\ ResumeHandle(handle[iter[i]])
  /\ UNCHANGED <<policy, handle, moved, iter>>

(* *it.  After a swap or an assignment the object may hold a generator     *)
(* that was never begun: its m_value is not initialised, so the client     *)
(* calls begin() once more.                                                *)
Deref(i) ==
  /\ MayUse(i) /\ ~AtEnd(i)
  /\ LET h == handle[iter[i]]
     IN  IF IsFrame(h)
         THEN /\ Begun(mem[h])
              /\ saw' = <<"element", mem[h].m_value>>
              /\ UNCHANGED fault
         ELSE fault' = TRUE /\ UNCHANGED saw
  /\ UNCHANGED <<policy, handle, mem, moved, iter>>

Next ==
  \/ \E o \in Objects :
       \/ Default(o) \/ Destroy(o)
       \/ \E s \in Streams[policy] : Make(o, s)
       \/ \E p \in Objects : MoveConstruct(o, p) \/ MoveAssign(o, p) \/ Swap(o, p)
       \/ \E i \in Iterators : Begin(o, i)
  \/ \E i \in Iterators : Compare(i) \/ Increment(i) \/ Deref(i)

Spec == Init /\ [][Next]_vars

-------------------------------------------------------------------------------
(* Through every sequence of moves, assignments, swaps and destructions a  *)
(* frame has exactly one object that will destroy it, and no object has a  *)
(* handle to a frame that is gone (unified_generator.h:232-262; nothing    *)
(* else frees a generator's frame).                                        *)
OwnedOnce ==
  /\ \A c \in Cells : mem[c] # free => \E o \in Objects : handle[o] = c
  /\ \A o \in Objects : handle[o] \in Cells =>
       mem[handle[o]] # free /\ \A p \in Objects : handle[p] = handle[o] => p = o

(* An iterator survives what happens to its object: if comparing it with   *)
(* end() says that there is more, neither * nor ++ goes through a null     *)
(* handle or to a frame that was freed (unified_generator.h:157-190).      *)
NoNullCall == ~fault

(* Whenever the client has control every frame holds what its destruction  *)
(* is going to destroy, and else only the iterators of string_prepend()    *)
(* (string_prepend.h:45-52), so that it can be destroyed at any time; a    *)
(* stored exception has been thrown.                                       *)
HoldsWhatItDestroys ==
  \A c \in Cells : mem[c] # free =>
    LET f == mem[c]
    IN  /\ Held(f) \subseteq f.live
        /\ f.live \ Held(f) \subseteq (IF f.stream.body = "prepend" THEN Locals("prepend") ELSE {})

(* The objects and iterators behave like streams (module Generators).      *)
StreamOf(o) ==
  IF handle[o] = gone THEN gone
  ELSE IF o \in moved \/ ~IsFrame(handle[o]) THEN null
  ELSE LET f == mem[handle[o]]
       IN  [stream |-> f.stream, at |-> IF f.done THEN f.stream.len + 1 ELSE f.m_value]

Contract == INSTANCE Generators
  WITH held <- [o \in Objects |-> StreamOf(o)], empty <- null,
       Streams <- UNION {Streams[p] : p \in Policies}

ImplementsGenerators == Contract!Spec
===============================================================================
