-------------------------- MODULE MCThrowingParseInts --------------------------
(* Every range of up to MaxStrings strings.                                *)
EXTENDS ThrowingParseInts, SequencesExt

CONSTANT MaxStrings

MCInputs == BoundedSeq(Words, MaxStrings)
===============================================================================
