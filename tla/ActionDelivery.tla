--------------------------- MODULE ActionDelivery ---------------------------
(***************************************************************************)
(* Delivery of the external actions of ONE released, write-bearing run.    *)
(*                                                                         *)
(* The model starts where the approval barrier has just released the set   *)
(* (every action dispatch_reserved, every WRITE step ready, the run        *)
(* executing) and follows the run workers that claim the run, dispatch its *)
(* actions through ExternalActionDispatcher, recover stale dispatches, and *)
(* fail, complete or clean up the run, while an operator may cancel it and *)
(* workers may stall, lose their claim, time out or crash.                 *)
(*                                                                         *)
(* One TLA+ action is one committed unit of work (the code fences every    *)
(* unit of work with version compare-and-swaps, so a unit of work that     *)
(* loses a race changes nothing), or one step outside the database.        *)
(* Actions are numbered by the ordinal of their WRITE step, and a step     *)
(* shares the number of its action.                                        *)
(***************************************************************************)
EXTENDS Integers

CONSTANTS
  N,             \* number of external actions in the sealed plan
  Workers,       \* run worker processes
  NoWorker,      \* the claim row is free or its lease has expired
  Idempotent,    \* actions whose idempotency_support is required or supported
  AttemptLimit,  \* delivery_attempt_limit
  Handler,       \* which workflow handler advances the run
  MaxFaults      \* bound on crashes, stalls, timeouts and shutdowns

Actions == 1..N

ASSUME NAssumption == N \in Nat \ {0}
ASSUME WorkersAssumption == NoWorker \notin Workers
ASSUME IdempotentAssumption == Idempotent \subseteq Actions
ASSUME LimitAssumption == AttemptLimit \in Nat \ {0}
ASSUME HandlerAssumption == Handler \in {"catalog_write", "demo_email"}
ASSUME FaultsAssumption == MaxFaults \in Nat

VARIABLES
  \* the database
  run,       \* run.state
  step,      \* run_steps.state of the WRITE step of each action
  act,       \* external_actions.state
  attempts,  \* external_actions.delivery_attempt_count
  age,       \* how far time is past the current attempt's deadline and lease
  receipt,   \* connector_action_receipts holds a row for the action's key
  claim,     \* the worker whose run claim is current
  \* each worker process
  pc,        \* where its advancement of the run stands
  cur,       \* the action it is working on
  att,       \* delivery attempt number of the action snapshot it holds
  rec,       \* it dispatches on behalf of stale recovery
  \* history and bounds
  executed,  \* attempts for which gateway.execute was invoked
  faults     \* faults spent so far

db == <<run, step, act, attempts, age, receipt>>
local == <<pc, cur, att, rec>>
vars == <<run, step, act, attempts, age, receipt, claim,
          pc, cur, att, rec, executed, faults>>

RunStates == {"executing", "completed", "failed", "cancelled"}
StepStates == {"ready", "executing", "succeeded", "failed", "cancelled", "skipped"}
Verdicts == {"succeeded", "failed", "cancelled", "outcome_unknown"}
ActionStates == {"dispatch_reserved", "dispatching"} \cup Verdicts
Ages == {"live",     \* the call deadline is ahead
         "overdue",  \* the call deadline has passed, the dispatch lease has not
         "stale"}    \* both have passed
Pcs == {"idle", "recover", "reconcile", "decide", "settle", "dispatch", "deny",
        "call", "inflight", "delivered", "ok", "uncertain", "unknown",
        "definite", "finish", "failing", "close", "release"}

TypeOK ==
  /\ run \in RunStates
  /\ step \in [Actions -> StepStates]
  /\ act \in [Actions -> ActionStates]
  /\ attempts \in [Actions -> 0..AttemptLimit]
  /\ age \in [Actions -> Ages]
  /\ receipt \in [Actions -> BOOLEAN]
  /\ claim \in Workers \cup {NoWorker}
  /\ pc \in [Workers -> Pcs]
  /\ cur \in [Workers -> Actions]
  /\ att \in [Workers -> 0..AttemptLimit]
  /\ rec \in [Workers -> BOOLEAN]
  /\ executed \in [Actions -> SUBSET (1..AttemptLimit)]
  /\ faults \in 0..MaxFaults

Init ==
  /\ run = "executing"
  /\ step = [a \in Actions |-> "ready"]
  /\ act = [a \in Actions |-> "dispatch_reserved"]
  /\ attempts = [a \in Actions |-> 0]
  /\ age = [a \in Actions |-> "live"]
  /\ receipt = [a \in Actions |-> FALSE]
  /\ claim = NoWorker
  /\ pc = [w \in Workers |-> "idle"]
  /\ cur = [w \in Workers |-> 1]
  /\ att = [w \in Workers |-> 0]
  /\ rec = [w \in Workers |-> FALSE]
  /\ executed = [a \in Actions |-> {}]
  /\ faults = 0

-----------------------------------------------------------------------------
(* Control flow of one worker: where it goes next, and on which action.    *)

Goto(w, where, action, recovering) ==
  /\ pc' = [pc EXCEPT ![w] = where]
  /\ cur' = [cur EXCEPT ![w] = action]
  /\ rec' = [rec EXCEPT ![w] = recovering]

Stay(w, where) == Goto(w, where, cur[w], rec[w])

\* The recovery pass visits the actions in step order, then settles.
NextRecovery(w) ==
  IF cur[w] < N THEN Goto(w, "recover", cur[w] + 1, FALSE)
                ELSE Goto(w, "settle", 1, FALSE)

\* Mutant: the dispatch pass runs one past the last step.
NextDispatchPastEnd(w) ==
  IF cur[w] <= N THEN Goto(w, "dispatch", cur[w] + 1, FALSE)
                 ELSE Goto(w, "finish", cur[w], FALSE)

\* The dispatch pass visits the actions in step order, then finishes the run.
NextDispatch(w) ==
  IF cur[w] < N THEN Goto(w, "dispatch", cur[w] + 1, FALSE)
                ELSE Goto(w, "finish", cur[w], FALSE)

\* An ExternalActionDispatchError leaving dispatch_once: stale recovery
\* swallows it, the handlers let it reach the worker.
Raise(w) == IF rec[w] THEN NextRecovery(w) ELSE Goto(w, "failing", cur[w], FALSE)

\* dispatch_once returned a result.  Recovery ignores it; the catalog handler
\* returns on recovery_pending and lost_claim, the email handler raises on
\* everything that is not a success.
Return(w, disposition) ==
  IF rec[w] THEN NextRecovery(w)
  ELSE IF disposition = "succeeded" THEN NextDispatch(w)
  ELSE IF disposition = "pending" /\ Handler = "catalog_write"
       THEN Goto(w, "release", cur[w], FALSE)
  ELSE Goto(w, "failing", cur[w], FALSE)

\* _terminal_dispatch_result of an action that moved on under the worker.
ChangedDisposition(a) ==
  CASE act[a] = "succeeded" -> "succeeded"
    [] act[a] = "outcome_unknown" -> "outcome_unknown"
    [] OTHER -> "pending"

\* The action row still equals the snapshot the worker holds.
Unchanged(w) == act[cur[w]] = "dispatching" /\ attempts[cur[w]] = att[w]

\* _write_completion_context: a completable step under a started run.
Completable(a) == run # "completed" /\ step[a] = "executing"

-----------------------------------------------------------------------------
(* Terminal outcomes, each one unit of work.                               *)

\* TerminalExecutionCleanupService.fail_execution_in_uow: fail step s and the
\* run; cancel every action but the focal one whose call has not started.
CleanedActions(focal) ==
  [a \in Actions |->
     IF a # focal /\ act[a] = "dispatch_reserved" THEN "cancelled" ELSE act[a]]

CleanedSteps(s, focal) ==
  [a \in Actions |->
     IF a = s THEN "failed"
     ELSE IF step[a] = "executing" /\ a # focal /\ act[a] = "dispatch_reserved"
          THEN "failed"
     ELSE IF step[a] = "ready" THEN "skipped"
     ELSE step[a]]

NoFocal == 0

FailExecution(s) ==
  /\ run' = "failed"
  /\ step' = CleanedSteps(s, NoFocal)
  /\ act' = CleanedActions(NoFocal)

\* _finalize_write_outcome_in_uow with a receipt.
FinalizeSuccess(a) ==
  /\ act' = [act EXCEPT ![a] = "succeeded"]
  /\ step' = [step EXCEPT ![a] = "succeeded"]
  /\ run' = run

\* _finalize_write_outcome_in_uow without one: under an executing run the
\* failure also terminates the run; a terminal run keeps its verdict.
FinalizeFailure(a, verdict) ==
  IF run = "executing"
  THEN /\ run' = "failed"
       /\ step' = CleanedSteps(a, a)
       /\ act' = [CleanedActions(a) EXCEPT ![a] = verdict]
  ELSE /\ run' = run
       /\ step' = [step EXCEPT ![a] = "failed"]
       /\ act' = [act EXCEPT ![a] = verdict]

\* A receipt is authoritative: with it the call succeeded, without it the
\* outcome of an expired call is unknown.
CloseExpiredCall(a) ==
  IF receipt[a] THEN FinalizeSuccess(a) ELSE FinalizeFailure(a, "outcome_unknown")

-----------------------------------------------------------------------------
(* The run claim and the worker loop around one advancement.               *)

\* RunClaims.claim_once for an active run.
ClaimToAdvance(w) ==
  /\ pc[w] = "idle" /\ claim = NoWorker /\ run = "executing"
  /\ claim' = w
  /\ Goto(w, "recover", 1, FALSE)
  /\ UNCHANGED <<db, att, executed, faults>>

\* A started call of action a is past its deadline and its dispatch lease.
Expired(a) == act[a] = "dispatching" /\ age[a] = "stale"

\* Mutant: only active runs are claimable, as if the recovery lane were gone.
ClaimToCloseActiveOnly(w) ==
  /\ pc[w] = "idle" /\ claim = NoWorker /\ run = "executing"
  /\ \E a \in Actions : Expired(a)
  /\ claim' = w
  /\ Goto(w, "close", 1, FALSE)
  /\ UNCHANGED <<db, att, executed, faults>>

\* claim_once for a cancelled run: only expired call evidence makes it eligible.
ClaimToClose(w) ==
  /\ pc[w] = "idle" /\ claim = NoWorker /\ run = "cancelled"
  /\ \E a \in Actions : Expired(a)
  /\ claim' = w
  /\ Goto(w, "close", 1, FALSE)
  /\ UNCHANGED <<db, att, executed, faults>>

\* RunClaims.release in the finally block; a lost claim is left alone.
ReleaseClaim(w) ==
  /\ pc[w] = "release"
  /\ claim' = IF claim = w THEN NoWorker ELSE claim
  /\ Stay(w, "idle")
  /\ UNCHANGED <<db, att, executed, faults>>

\* RunWorker._fail, fenced by claim ownership in the same unit of work: fail
\* the first ready or executing step and clean up, or fail the run alone.
OpenSteps == {a \in Actions : step[a] \in {"ready", "executing"}}

First(S) == CHOOSE a \in S : \A b \in S : a <= b

FailRun(w) ==
  /\ pc[w] = "failing"
  /\ IF claim = w /\ run = "executing"
     THEN IF OpenSteps # {}
          THEN FailExecution(First(OpenSteps))
          ELSE run' = "failed" /\ UNCHANGED <<step, act>>
     ELSE UNCHANGED <<run, step, act>>
  /\ Stay(w, "release")
  /\ UNCHANGED <<attempts, age, receipt, claim, att, executed, faults>>

\* The renewer finds the claim gone and cancels the task (lease_lost).
AbandonLostClaim(w) ==
  /\ pc[w] \notin {"idle", "failing", "release"} /\ claim # w
  /\ Stay(w, "idle")
  /\ UNCHANGED <<db, claim, att, executed, faults>>

-----------------------------------------------------------------------------
(* ExternalActionDispatcher.recover_action, over the actions in order.      *)

\* Nothing to recover, or not yet: the lease and the deadline must have passed.
RecoverNothing(w) ==
  /\ pc[w] = "recover" /\ ~Expired(cur[w])
  /\ NextRecovery(w)
  /\ UNCHANGED <<db, claim, att, executed, faults>>

\* Snapshot the stale action and run _finalize_terminal_parent_call.
RecoverTerminalParent(w) ==
  LET a == cur[w] IN
  /\ pc[w] = "recover" /\ Expired(a)
  /\ att' = [att EXCEPT ![w] = attempts[a]]
  /\ IF step[a] # "executing"
     THEN Goto(w, "failing", a, FALSE) /\ UNCHANGED <<run, step, act>>
     ELSE IF run \in {"cancelled", "failed"}
          THEN NextRecovery(w) /\ CloseExpiredCall(a)
          ELSE Stay(w, "reconcile") /\ UNCHANGED <<run, step, act>>
  /\ UNCHANGED <<attempts, age, receipt, claim, executed, faults>>

\* _reconcile_durable_receipt during recovery.
RecoverReceipt(w) ==
  LET a == cur[w] IN
  /\ pc[w] = "reconcile"
  /\ IF ~Unchanged(w) THEN NextRecovery(w) /\ UNCHANGED <<run, step, act>>
     ELSE IF ~Completable(a)
          THEN Goto(w, "failing", a, FALSE) /\ UNCHANGED <<run, step, act>>
     ELSE IF receipt[a] THEN NextRecovery(w) /\ FinalizeSuccess(a)
     ELSE Stay(w, "decide") /\ UNCHANGED <<run, step, act>>
  /\ UNCHANGED <<attempts, age, receipt, claim, att, executed, faults>>

\* Mutant: a stale call is retried whether or not its provider is idempotent.
MayRetryBlindly(w) == att[w] < AttemptLimit

\* classify_stale_action_recovery of a snapshot whose call was started.
MayRetry(w) == cur[w] \in Idempotent /\ att[w] < AttemptLimit

\* Mutant: the re-arm does not look at the run's state.
RecoverReleaseAnyRun(w) ==
  LET a == cur[w] IN
  /\ pc[w] = "decide" /\ MayRetry(w)
  /\ IF Unchanged(w)
     THEN /\ act' = [act EXCEPT ![a] = "dispatch_reserved"]
          /\ Goto(w, "dispatch", a, TRUE)
     ELSE NextRecovery(w) /\ act' = act
  /\ UNCHANGED <<run, step, attempts, age, receipt, claim, att, executed, faults>>

\* release_stale_for_retry: re-arm under an executing run, then dispatch again.
RecoverRelease(w) ==
  LET a == cur[w] IN
  /\ pc[w] = "decide" /\ MayRetry(w)
  /\ IF Unchanged(w) /\ run = "executing"
     THEN /\ act' = [act EXCEPT ![a] = "dispatch_reserved"]
          /\ Goto(w, "dispatch", a, TRUE)
     ELSE NextRecovery(w) /\ act' = act
  /\ UNCHANGED <<run, step, attempts, age, receipt, claim, att, executed, faults>>

\* Otherwise the outcome of the stale call is recorded as unknown.
RecoverUnknown(w) ==
  LET a == cur[w] IN
  /\ pc[w] = "decide" /\ ~MayRetry(w)
  /\ IF ~Unchanged(w) THEN NextRecovery(w) /\ UNCHANGED <<run, step, act>>
     ELSE IF ~Completable(a)
          THEN Goto(w, "failing", a, FALSE) /\ UNCHANGED <<run, step, act>>
     ELSE NextRecovery(w) /\ FinalizeFailure(a, "outcome_unknown")
  /\ UNCHANGED <<attempts, age, receipt, claim, att, executed, faults>>

\* The handler reloads the run after recovery: a terminal run, or an action
\* that is still dispatching, ends this advancement.
Settle(w) ==
  /\ pc[w] = "settle"
  /\ IF run # "executing" \/ \E a \in Actions : act[a] = "dispatching"
     THEN Stay(w, "release")
     ELSE Goto(w, "dispatch", 1, FALSE)
  /\ UNCHANGED <<db, claim, att, executed, faults>>

-----------------------------------------------------------------------------
(* ExternalActionDispatcher.dispatch_once: call-start, call, completion.    *)

\* Mutant: no compare-and-swap on the reserved action and its step.
MayStartUnfenced(a) == run = "executing" /\ attempts[a] < AttemptLimit

\* _claim_and_mark_call_started and the release fence: a first call needs the
\* released ready step, a retry the executing step of an idempotent action.
MayStart(a) ==
  /\ run = "executing" /\ act[a] = "dispatch_reserved"
  /\ attempts[a] < AttemptLimit
  /\ \/ attempts[a] = 0 /\ step[a] = "ready"
     \/ attempts[a] > 0 /\ step[a] = "executing" /\ a \in Idempotent

\* Phase 1: claim, permit, step start and call marker in one unit of work.
StartCall(w) ==
  LET a == cur[w] IN
  /\ pc[w] = "dispatch" /\ MayStart(a)
  /\ act' = [act EXCEPT ![a] = "dispatching"]
  /\ step' = [step EXCEPT ![a] = "executing"]
  /\ attempts' = [attempts EXCEPT ![a] = @ + 1]
  /\ age' = [age EXCEPT ![a] = "live"]
  /\ att' = [att EXCEPT ![w] = attempts[a] + 1]
  /\ Stay(w, "call")
  /\ UNCHANGED <<run, receipt, claim, executed, faults>>

\* Nothing is committed: the action already succeeded, is not dispatchable,
\* or the contract or a runtime control that is not terminal refused the call.
StartNothing(w) ==
  /\ pc[w] = "dispatch"
  /\ IF act[cur[w]] = "succeeded" THEN Return(w, "succeeded") ELSE Raise(w)
  /\ UNCHANGED <<db, claim, att, executed, faults>>

\* A terminal runtime-control denial rolls phase 1 back ...
StartDenied(w) ==
  /\ pc[w] = "dispatch" /\ MayStart(cur[w])
  /\ Stay(w, "deny")
  /\ UNCHANGED <<db, claim, att, executed, faults>>

\* ... and _record_runtime_control_denial fails the run in a fresh one.
RecordDenial(w) ==
  LET a == cur[w] IN
  /\ pc[w] = "deny"
  /\ IF run # "executing" THEN Raise(w) /\ UNCHANGED <<run, step, act>>
     ELSE IF a \notin OpenSteps
          THEN Goto(w, "failing", a, FALSE) /\ UNCHANGED <<run, step, act>>
     ELSE Raise(w) /\ FailExecution(a)
  /\ UNCHANGED <<attempts, age, receipt, claim, att, executed, faults>>

\* The deadline of the worker's own attempt is still ahead: only the worker
\* moves its action on before that.
BeforeDeadline(w) == Unchanged(w) /\ age[cur[w]] = "live"

\* Phase 2: the deadline passed before the gateway was reached.
CallTooLate(w) ==
  /\ pc[w] = "call" /\ ~BeforeDeadline(w)
  /\ Stay(w, "definite")
  /\ UNCHANGED <<db, claim, att, executed, faults>>

\* gateway.execute is invoked outside any transaction.
Execute(w) ==
  /\ pc[w] = "call" /\ BeforeDeadline(w)
  /\ executed' = [executed EXCEPT ![cur[w]] = @ \cup {att[w]}]
  /\ Stay(w, "inflight")
  /\ UNCHANGED <<db, claim, att, faults>>

\* DurableMockReceiptLedger.record: one receipt per key, no lease fence.
Deliver(w) ==
  /\ pc[w] = "inflight"
  /\ receipt' = [receipt EXCEPT ![cur[w]] = TRUE]
  /\ Stay(w, "delivered")
  /\ UNCHANGED <<run, step, act, attempts, age, claim, att, executed, faults>>

\* A connector failure that proves no request left the process.
CallRefused(w) ==
  /\ pc[w] = "inflight"
  /\ Stay(w, "definite")
  /\ UNCHANGED <<db, claim, att, executed, faults>>

\* A timeout or any other error: the request may have left the process.
CallUncertain(w) ==
  /\ pc[w] \in {"inflight", "delivered"}
  /\ Stay(w, "uncertain")
  /\ UNCHANGED <<db, claim, att, executed, faults>>

\* The response arrives before the call deadline.
CallReturned(w) ==
  /\ pc[w] = "delivered" /\ BeforeDeadline(w)
  /\ Stay(w, "ok")
  /\ UNCHANGED <<db, claim, att, executed, faults>>

\* Phase 3 with an action that no longer equals the snapshot, or without its
\* completable step.
CompletionLost(w) ==
  /\ pc[w] \in {"ok", "uncertain", "unknown", "definite"}
  /\ \/ ~Unchanged(w) /\ Return(w, ChangedDisposition(cur[w]))
     \/ Unchanged(w) /\ ~Completable(cur[w]) /\ Raise(w)
  /\ UNCHANGED <<db, claim, att, executed, faults>>

\* Mutant: an uncertain call is taken for a success without its receipt.
CompleteSuccessUnevidenced(w) ==
  LET a == cur[w] IN
  /\ pc[w] \in {"ok", "uncertain"}
  /\ Unchanged(w) /\ Completable(a)
  /\ FinalizeSuccess(a)
  /\ Return(w, "succeeded")
  /\ UNCHANGED <<attempts, age, receipt, claim, att, executed, faults>>

\* Phase 3 success, or an uncertain call whose durable receipt exists.
CompleteSuccess(w) ==
  LET a == cur[w] IN
  /\ pc[w] \in {"ok", "uncertain"}
  /\ Unchanged(w) /\ Completable(a) /\ receipt[a]
  /\ FinalizeSuccess(a)
  /\ Return(w, "succeeded")
  /\ UNCHANGED <<attempts, age, receipt, claim, att, executed, faults>>

\* _complete_failure of an uncertain call without a receipt: leave it to
\* stale recovery, or conclude it as unknown.
CompleteUncertain(w) ==
  /\ pc[w] = "uncertain"
  /\ Unchanged(w) /\ Completable(cur[w]) /\ ~receipt[cur[w]]
  /\ IF MayRetry(w) THEN Return(w, "pending") ELSE Stay(w, "unknown")
  /\ UNCHANGED <<db, claim, att, executed, faults>>

\* The final unit of work of _complete_failure.
CompleteFailure(w) ==
  LET a == cur[w] IN
  /\ pc[w] \in {"unknown", "definite"}
  /\ Unchanged(w) /\ Completable(a)
  /\ FinalizeFailure(a, IF pc[w] = "unknown" THEN "outcome_unknown" ELSE "failed")
  /\ Return(w, "failed")
  /\ UNCHANGED <<attempts, age, receipt, claim, att, executed, faults>>

\* The handler completes the run once every step succeeded; the email
\* handler raises where the catalog handler returns.
Finish(w) ==
  /\ pc[w] = "finish"
  /\ IF run = "executing" /\ \A a \in Actions : step[a] = "succeeded"
     THEN run' = "completed" /\ Stay(w, "release")
     ELSE run' = run /\ Stay(w, IF Handler = "catalog_write" THEN "release" ELSE "failing")
  /\ UNCHANGED <<step, act, attempts, age, receipt, claim, att, executed, faults>>

\* The READ step of the email workflow fails after the writes.
FinishRaises(w) ==
  /\ pc[w] = "finish" /\ Handler = "demo_email"
  /\ Stay(w, "failing")
  /\ UNCHANGED <<db, claim, att, executed, faults>>

-----------------------------------------------------------------------------
(* CancelledRunRecoveryService: close expired calls of a cancelled run.     *)

CloseCall(w) ==
  /\ pc[w] = "close" /\ claim = w
  /\ \E a \in Actions :
       /\ Expired(a)
       /\ IF step[a] = "executing"
          THEN CloseExpiredCall(a) /\ Stay(w, "close")
          ELSE Stay(w, "release") /\ UNCHANGED <<run, step, act>>
  /\ UNCHANGED <<attempts, age, receipt, claim, att, executed, faults>>

\* Nothing left to close, or the recovery fence found the claim gone.
CloseDone(w) ==
  /\ pc[w] = "close"
  /\ claim # w \/ \A a \in Actions : ~Expired(a)
  /\ Stay(w, "release")
  /\ UNCHANGED <<db, claim, att, executed, faults>>

-----------------------------------------------------------------------------
(* The operator, time, and faults.                                         *)

\* ApprovalBoundaryService._cancel_released_in_uow.
CancelRun ==
  /\ run = "executing"
  /\ run' = "cancelled"
  /\ act' = CleanedActions(NoFocal)
  /\ step' = [a \in Actions |->
                 IF step[a] = "ready" THEN "cancelled"
                 ELSE IF step[a] = "executing" /\ act[a] = "dispatch_reserved"
                      THEN "failed"
                 ELSE step[a]]
  /\ UNCHANGED <<attempts, age, receipt, claim, local, executed, faults>>

\* The clock passes the call deadline, then the dispatch lease.
Tick(a) ==
  /\ act[a] = "dispatching" /\ age[a] # "stale"
  /\ age' = [age EXCEPT ![a] = IF @ = "live" THEN "overdue" ELSE "stale"]
  /\ UNCHANGED <<run, step, act, attempts, receipt, claim, local, executed, faults>>

\* Mutant: only a claim that nobody holds expires.
DeadClaimLingers ==
  /\ claim = NoWorker
  /\ claim' = NoWorker
  /\ UNCHANGED <<db, local, executed, faults>>

\* The claim lease of a dead worker runs out.
DeadClaimExpires ==
  /\ claim \in Workers /\ pc[claim] = "idle"
  /\ claim' = NoWorker
  /\ UNCHANGED <<db, local, executed, faults>>

Fault == faults < MaxFaults /\ faults' = faults + 1

\* A worker stalls past its claim lease while it is still advancing.
ClaimStalls ==
  /\ Fault
  /\ claim \in Workers /\ pc[claim] # "idle"
  /\ claim' = NoWorker
  /\ UNCHANGED <<db, local, executed>>

\* The process dies; its claim stays until it expires.
Crash(w) ==
  /\ Fault
  /\ pc[w] # "idle"
  /\ Stay(w, "idle")
  /\ UNCHANGED <<db, claim, att, executed>>

\* A stopping process is cancelled and only releases its claim.
Shutdown(w) ==
  /\ Fault
  /\ pc[w] \notin {"idle", "release"}
  /\ Stay(w, "release")
  /\ UNCHANGED <<db, claim, att, executed>>

\* asyncio.wait_for expires: an advancement fails the run, a recovery does not.
AdvanceTimeout(w) ==
  /\ Fault
  /\ pc[w] \notin {"idle", "failing", "release"}
  /\ Stay(w, IF pc[w] = "close" THEN "release" ELSE "failing")
  /\ UNCHANGED <<db, claim, att, executed>>

-----------------------------------------------------------------------------
Worker(w) ==
  \/ ClaimToAdvance(w) \/ ClaimToClose(w) \/ ReleaseClaim(w) \/ FailRun(w)
  \/ AbandonLostClaim(w)
  \/ RecoverNothing(w) \/ RecoverTerminalParent(w) \/ RecoverReceipt(w)
  \/ RecoverRelease(w) \/ RecoverUnknown(w) \/ Settle(w)
  \/ StartCall(w) \/ StartNothing(w) \/ StartDenied(w) \/ RecordDenial(w)
  \/ CallTooLate(w) \/ Execute(w) \/ Deliver(w) \/ CallRefused(w)
  \/ CallUncertain(w) \/ CallReturned(w) \/ CompletionLost(w)
  \/ CompleteSuccess(w) \/ CompleteUncertain(w) \/ CompleteFailure(w)
  \/ Finish(w) \/ FinishRaises(w) \/ CloseCall(w) \/ CloseDone(w)

Time == DeadClaimExpires \/ \E a \in Actions : Tick(a)

Faults == ClaimStalls \/ \E w \in Workers : Crash(w) \/ Shutdown(w) \/ AdvanceTimeout(w)

\* Nothing is left to do: the run is terminal and nobody works on it.
Done ==
  /\ run # "executing" /\ \A w \in Workers : pc[w] = "idle"
  /\ UNCHANGED vars

Next ==
  \/ \E w \in Workers : Worker(w)
  \/ CancelRun
  \/ Time
  \/ Faults
  \/ Done

Spec == Init /\ [][Next]_vars

-----------------------------------------------------------------------------
(* Fairness.  A worker process that is not dead takes its next step (the    *)
(* event loop runs every ready task, database waits are bounded, and a      *)
(* stalled process resumes or is restarted); idle workers poll; the clock   *)
(* advances.  Faults and cancellation are never forced.                     *)
Fairness ==
  /\ \A w \in Workers : WF_vars(Worker(w))
  /\ WF_vars(Time)

FairSpec == Spec /\ Fairness

-----------------------------------------------------------------------------
(* Safety.                                                                 *)

\* ADR-0007, "no blind retry": an action whose connector declares no
\* idempotency reaches the provider at most once, whatever crashes, stale
\* recoveries and concurrent workers do; and every worker that is about to
\* call holds an attempt number nobody has called with before.
NoBlindRetry ==
  /\ \A a \in Actions \ Idempotent : executed[a] \subseteq {1}
  /\ \A w \in Workers :
       pc[w] = "call" =>
         /\ att[w] \notin executed[cur[w]]
         /\ \A v \in Workers \ {w} :
              pc[v] = "call" => cur[v] # cur[w] \/ att[v] # att[w]

\* Cancellation and terminal cleanup leave nothing armed: under a terminal
\* run no action is dispatch_reserved (so no later worker can start a call),
\* and no WRITE step is ready.
NothingArmedAfterTerminal ==
  run # "executing" =>
    \A a \in Actions : act[a] # "dispatch_reserved" /\ step[a] # "ready"

\* A success verdict is backed by the connector's durable receipt, and the
\* WRITE step and its action agree on it; a completed run delivered every
\* action.
SuccessIsEvidenced ==
  /\ \A a \in Actions :
       /\ act[a] = "succeeded" => receipt[a]
       /\ act[a] = "succeeded" <=> step[a] = "succeeded"
  /\ run = "completed" => \A a \in Actions : act[a] = "succeeded"

\* A verdict is final: no stale worker, late response or recovery overwrites
\* a concluded action, its step, or a terminal run.
VerdictsAreFinal ==
  [][/\ \A a \in Actions : act[a] \in Verdicts => act'[a] = act[a] /\ step'[a] = step[a]
     /\ run # "executing" => run' = run]_vars

\* Workers, claims, steps, receipts and recovery together implement the
\* delivery contract of ADR-0007: every unit of work is one step of the
\* contract or invisible to it.
Contract == INSTANCE DeliveryContract WITH
  outcome <- IF run = "executing" THEN "open" ELSE run,
  status <- [a \in Actions |-> CASE act[a] = "dispatch_reserved" -> "armed"
                                 [] act[a] = "dispatching" -> "calling"
                                 [] OTHER -> act[a]],
  calls <- attempts

ImplementsContract == Contract!Spec

\* docs/verification/requirements/API-09.md: "An external call that already
\* crossed its durable call-start boundary remains in flight until its sealed
\* deadline. Recovery checks for an exact durable receipt first" - so while
\* the action is dispatching its step must stay executing, the state that
\* receipt-first recovery requires.
InFlightCallStaysRecoverable ==
  \A a \in Actions : act[a] = "dispatching" => step[a] = "executing"

-----------------------------------------------------------------------------
(* Liveness.                                                               *)

\* Every released run ends: no interleaving of recovery, lost claims and
\* retries leaves the run executing for ever.
RunSettles == <>(run # "executing")

\* AC-13: a call in flight under a cancelled run is closed, by its own worker
\* or by the cancelled-recovery lane, within the existing claim fences.
CancelledCallsClose ==
  \A a \in Actions :
    (run = "cancelled" /\ act[a] = "dispatching") ~> (act[a] # "dispatching")

=============================================================================
