-------------------------- MODULE MCUnifiedGenerator --------------------------
(* Three objects, so that streams can go round; an empty stream, one of two *)
(* elements, one with temporaries, one that ends with an exception.         *)
EXTENDS UnifiedGenerator, TLC

MCStreams ==
  [p \in Policies |->
     {[body |-> "iota", len |-> 0], [body |-> "iota", len |-> 2]}
     \cup (IF p = "HeapGeneratorPolicy"
           THEN {[body |-> "prepend", len |-> 1], [body |-> "throws", len |-> 1]} ELSE {})]

MCSymmetry == Permutations(Objects) \cup Permutations(Addresses) \cup Permutations(Iterators)
===============================================================================
