------------------------------ MODULE MCCoroFrame ------------------------------
(* A body with two locals: x lives across both suspension points, y is     *)
(* alive at the second one only; one co_return in the inner scope, one at  *)
(* the end, a catch clause that continues where only x is alive and one    *)
(* that continues after both scopes.                                       *)
EXTENDS CoroFrame

MCLiveAt ==
  [i \in 0..6 |-> CASE i \in {1, 5}    -> {"x"}
                    [] i \in {2, 3}    -> {"x", "y"}
                    [] i \in {0, 4, 6} -> {}]
===============================================================================
