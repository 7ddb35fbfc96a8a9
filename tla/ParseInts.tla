------------------------------- MODULE ParseInts -------------------------------
(***************************************************************************)
(* The generator that the comment above throwing_parse_ints() writes down  *)
(* as a C++20 coroutine (throwing_parse_ints.h:11-30), as the code that    *)
(* iterates over it sees it: one int after the other, then the end of the  *)
(* range or an exception.                                                  *)
(***************************************************************************)
EXTENDS Naturals, FiniteSetsExt, Sequences

VARIABLES
  strings,        \* what stoi makes of each string: "int", "invalid", "range"
  catch_errors,
  saw,            \* what the last begin() or ++ led to
  value           \* the position *it refers to, 0 before the first

vars == <<strings, catch_errors, saw, value>>

Words == {"int", "invalid", "range"}

(* The element ends the generator: a `throw;` leaves it, or a `break` does.*)
Stops(i) == strings[i] = "range" \/ (strings[i] = "invalid" /\ ~catch_errors)

Rest == (value + 1)..Len(strings)

Reachable == {i \in Rest : \A j \in Rest : Stops(j) => i < j}

Ints == {i \in Reachable : strings[i] = "int"}

Init ==
  /\ strings \in Seq(Words)
  /\ catch_errors \in BOOLEAN
  /\ saw = "nothing"
  /\ value = 0

(* begin() or ++: on to the next int that is reached, if there is one.     *)
Advance ==
  /\ saw \in {"nothing", "value"}
  /\ IF Ints # {}
     THEN saw' = "value" /\ value' = Min(Ints)
     ELSE /\ saw' = IF ~catch_errors /\ Reachable # Rest THEN "exception" ELSE "end"
          /\ UNCHANGED value
  /\ UNCHANGED <<strings, catch_errors>>

Discard ==
  /\ saw # "gone"
  /\ saw' = "gone"
  /\ UNCHANGED <<strings, catch_errors, value>>

Next == Advance \/ Discard

Spec == Init /\ [][Next]_vars
===============================================================================
