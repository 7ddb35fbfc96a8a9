------------------------------ MODULE MCAddValues ------------------------------
(* All pairs of numbers of three bits: sums that wrap around, empty ranges, *)
(* ranges of odd and even length.                                          *)
EXTENDS AddValues

MCArgs == (0..7) \X (0..7)
===============================================================================
