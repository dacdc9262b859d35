----------------------------- MODULE MCRetention -----------------------------
(* A parent artifact expires before its child, and the receipt before the   *)
(* event of no run.                                                         *)
EXTENDS Retention

CONSTANTS w1, w2

TheOrder == <<"receipt", "source", "summary", "event">>

MayBeOld == {"summary"}
=============================================================================
