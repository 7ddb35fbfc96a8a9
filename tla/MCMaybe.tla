-------------------------------- MODULE MCMaybe --------------------------------
(* Both signs of every argument, a zero divisor, a root that is not exact, *)
(* no, one and several iterations.                                         *)
EXTENDS Maybe

MCArguments == [a : {-3, 0, 7}, b : {-2, 0, 2}, c : {-1, 0, 4, 8}, reps : 0..3]
MCEngaged   == {x \in MCArguments : x.b # 0 /\ x.c >= 0}

(* The header's function is called with arguments that give no nullopt.    *)
MCHeaderEngaged == [f \in Functions |-> IF f = "header" THEN MCEngaged ELSE MCArguments]
MCEvery         == [f \in Functions |-> MCArguments]
MCGarbage       == {-1, 0, 5}
===============================================================================
