--------------------------- MODULE MCReadExecution ---------------------------
(* Model values of the ReadExecution runs.                                 *)
EXTENDS ReadExecution

CONSTANTS r1, w1, w2

=============================================================================
