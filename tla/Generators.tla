------------------------------ MODULE Generators ------------------------------
(***************************************************************************)
(* What generator objects promise, wherever their frames live: an object   *)
(* holds a stream of elements or none; streams can be moved and swapped    *)
(* between objects; an iterator belongs to an object, not to the stream the*)
(* object held when begin() was called.                                    *)
(***************************************************************************)
EXTENDS Naturals

CONSTANTS
  Objects, Iterators,
  Streams,       \* what can be in a stream, see Stream in GeneratorFrame
  empty, gone,   \* an object that holds no stream, one that does not exist
  nullptr        \* an iterator of no object

VARIABLES
  held,          \* held[o]: a stream and the position in it
  iter,          \* iter[i]: the object an iterator belongs to
  saw            \* what the last call told the client

vars == <<held, iter, saw>>

Exists(o) == held[o] # gone

Ended(h) == h = empty \/ (h # gone /\ h.at > h.stream.len)

AtEnd(i) == iter[i] = nullptr \/ Ended(held[iter[i]])

Init ==
  /\ held = [o \in Objects |-> gone]
  /\ iter = [i \in Iterators |-> nullptr]
  /\ saw = <<"nothing">>

Construct(o, h) ==
  /\ ~Exists(o)
  /\ held' = [held EXCEPT ![o] = h]
  /\ UNCHANGED <<iter, saw>>

Move(o, p) ==        \* to a new object or over the stream of another
  /\ Exists(p)
  /\ held' = IF o = p THEN held ELSE [held EXCEPT ![o] = held[p], ![p] = empty]
  /\ UNCHANGED <<iter, saw>>

Swap(o, p) ==
  /\ Exists(o) /\ Exists(p)
  /\ held' = [held EXCEPT ![o] = held[p], ![p] = held[o]]
  /\ UNCHANGED <<iter, saw>>

Destroy(o) ==
  /\ Exists(o)
  /\ held' = [held EXCEPT ![o] = gone]
  /\ iter' = [i \in Iterators |-> IF iter[i] = o THEN nullptr ELSE iter[i]]
  /\ UNCHANGED saw

(* On to the next element or to the end, which may be an exception         *)
Advance(o) ==
  /\ held' = [held EXCEPT ![o].at = @ + 1]
  /\ saw' = IF Ended(held'[o]) /\ held[o].stream.body = "throws"
            THEN <<"exception">> ELSE <<"nothing">>

Begin(o, i) ==
  /\ Exists(o)
  /\ \/ held[o] = empty /\ iter' = [iter EXCEPT ![i] = nullptr] /\ saw' = <<"nothing">> /\ UNCHANGED held
     \/ /\ ~Ended(held[o])
        /\ Advance(o)
        /\ iter' = IF saw' = <<"exception">> THEN iter ELSE [iter EXCEPT ![i] = o]

Increment(i) == ~AtEnd(i) /\ Advance(iter[i]) /\ UNCHANGED iter

Compare(i) == saw' = (IF AtEnd(i) THEN <<"end">> ELSE <<"more">>) /\ UNCHANGED <<held, iter>>

Deref(i) ==
  /\ ~AtEnd(i)
  /\ held[iter[i]].at # 0
  /\ saw' = <<"element", held[iter[i]].at>>
  /\ UNCHANGED <<held, iter>>

Next ==
  \/ \E o \in Objects :
       \/ Construct(o, empty) \/ Destroy(o)
       \/ \E s \in Streams : Construct(o, [stream |-> s, at |-> 0])
       \/ \E p \in Objects : Move(o, p) \/ Swap(o, p)
       \/ \E i \in Iterators : Begin(o, i)
  \/ \E i \in Iterators : Increment(i) \/ Compare(i) \/ Deref(i)

Spec == Init /\ [][Next]_vars
===============================================================================
