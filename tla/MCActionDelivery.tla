-------------------------- MODULE MCActionDelivery --------------------------
(* ActionDelivery on small instances: two workers race on one run.          *)
EXTENDS ActionDelivery, TLC

CONSTANTS w1, w2

WorkerSymmetry == Permutations(Workers)
=============================================================================
