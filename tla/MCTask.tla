-------------------------------- MODULE MCTask --------------------------------
(* Three frames: a chain of two awaits, or two tasks started side by side  *)
(* and one awaited.  Each address is used again once its frame is freed.   *)
EXTENDS Task
===============================================================================
