------------------------------- MODULE Absent -------------------------------
(* What stands for a value that is not there: null, undefined, an error.   *)
CONSTANT None
=============================================================================
