-------------------------- MODULE MCApprovalBarrier --------------------------
(* Model values of the ApprovalBarrier runs.                               *)
EXTENDS ApprovalBarrier

CONSTANTS a1, a2, w1

=============================================================================
