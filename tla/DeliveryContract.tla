-------------------------- MODULE DeliveryContract --------------------------
(***************************************************************************)
(* What the delivery of a released run promises, without workers, leases,  *)
(* steps, receipts or recovery: ADR-0007 as a state machine.               *)
(*                                                                         *)
(* An armed action may be called; a call is either concluded by a verdict  *)
(* or, when the provider is idempotent, armed again for a bounded number   *)
(* of attempts.  The run closes once, and closing it disarms everything.   *)
(***************************************************************************)
EXTENDS Integers

CONSTANTS Actions, Idempotent, AttemptLimit

VARIABLES
  outcome,  \* "open", or how the run ended
  status,   \* "armed", "calling", or the verdict of each action
  calls     \* started attempts of each action

vars == <<outcome, status, calls>>

\* What a call can come to.
CallVerdicts == {"succeeded", "failed", "outcome_unknown"}

Init ==
  /\ outcome = "open"
  /\ status = [a \in Actions |-> "armed"]
  /\ calls = [a \in Actions |-> 0]

\* A call starts: the first one, or the retry of an idempotent action.
Start(a) ==
  /\ outcome = "open" /\ status[a] = "armed"
  /\ calls[a] < AttemptLimit /\ (calls[a] = 0 \/ a \in Idempotent)
  /\ status' = [status EXCEPT ![a] = "calling"]
  /\ calls' = [calls EXCEPT ![a] = @ + 1]
  /\ UNCHANGED outcome

\* A call whose outcome is unresolved is armed again.
Rearm(a) ==
  /\ outcome = "open" /\ status[a] = "calling"
  /\ a \in Idempotent /\ calls[a] < AttemptLimit
  /\ status' = [status EXCEPT ![a] = "armed"]
  /\ UNCHANGED <<outcome, calls>>

\* A call is concluded by its verdict, also after the run has closed; under
\* an open run only a success leaves the run open.
Conclude(a, v) ==
  /\ status[a] = "calling" /\ (outcome = "open" => v = "succeeded")
  /\ status' = [status EXCEPT ![a] = v]
  /\ UNCHANGED <<outcome, calls>>

Disarmed == [a \in Actions |-> IF status[a] = "armed" THEN "cancelled" ELSE status[a]]

\* The run fails or is cancelled and disarms whatever has not been called.
Close(how) ==
  /\ outcome = "open" /\ outcome' = how
  /\ status' = Disarmed
  /\ UNCHANGED calls

\* The failure of a call fails the run.
FailWith(a, v) ==
  /\ outcome = "open" /\ outcome' = "failed"
  /\ status[a] = "calling" /\ v # "succeeded"
  /\ status' = [Disarmed EXCEPT ![a] = v]
  /\ UNCHANGED calls

\* The run completes once everything was delivered.
Complete ==
  /\ outcome = "open" /\ outcome' = "completed"
  /\ \A a \in Actions : status[a] = "succeeded"
  /\ UNCHANGED <<status, calls>>

Next ==
  \/ \E a \in Actions : Start(a) \/ Rearm(a)
  \/ \E a \in Actions, v \in CallVerdicts : Conclude(a, v) \/ FailWith(a, v)
  \/ \E how \in {"failed", "cancelled"} : Close(how)
  \/ Complete

Spec == Init /\ [][Next]_vars
=============================================================================
