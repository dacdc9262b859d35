----------------------------- MODULE MCRunClaims -----------------------------
(* Model values of the RunClaims runs.                                     *)
EXTENDS RunClaims

CONSTANTS w1, w2

=============================================================================
