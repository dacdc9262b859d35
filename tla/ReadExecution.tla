---------------------------- MODULE ReadExecution ----------------------------
(***************************************************************************)
(* Planning and controlled execution of catalog-role runs: the run workers *)
(* claim a run, validate it, persist and activate its plan, reserve an     *)
(* attempt of its only step, call the adapter outside any transaction, and *)
(* commit what came back; other workers retry, recover and finish what a   *)
(* crashed, stalled or stopped worker left behind, and an operator may     *)
(* cancel at any time.                                                     *)
(*                                                                         *)
(* A unit of work is one step, because each compares the versions of the   *)
(* rows it writes.  The reservation is two: it samples the clock and the   *)
(* rate window, which the runs share, and its UPDATEs fail when another    *)
(* reservation has won in between.  Time is kept as what remains of each   *)
(* deadline; a Tick is one second.                                         *)
(***************************************************************************)
EXTENDS Integers, FiniteSets

CONSTANTS
  Runs,            \* runs of one template: they share its rate window
  LocalChoices,    \* whether a step is a local transform, without a call
  Workers,         \* run worker processes
  NoRun,           \* an idle worker advances no run
  NoWorker,        \* nobody has claimed the run, or its claim was released
  DeadWorker,      \* the claim of a process that crashed
  MaxAttempts,     \* retry.max_attempts of the operation
  StepTimeout,     \* step_timeout_seconds
  RunTimeout,      \* run_timeout_seconds
  Lease,           \* what is left of a renewed claim lease, at least
  Capacity,        \* rate_window_max_calls
  WindowLength,    \* rate_window_seconds
  AdapterResults,  \* what the adapter may answer within its deadline
  FaultKinds,      \* which of crash, stall, stop, drift and storage happen
  MaxFaults        \* bound on their number

ASSUME RunsAssumption == LocalChoices \subseteq BOOLEAN /\ NoRun \notin Runs
ASSUME WorkersAssumption == Workers \cap {NoWorker, DeadWorker} = {} /\ NoWorker # DeadWorker
ASSUME AttemptsAssumption == MaxAttempts \in Nat \ {0}
ASSUME TimesAssumption ==
  /\ StepTimeout \in Nat \ {0} /\ RunTimeout \in Nat \ {0}
  /\ Lease \in Nat \ {0} /\ WindowLength \in Nat \ {0}
ASSUME CapacityAssumption == Capacity \in Nat
ASSUME ResultsAssumption == AdapterResults \subseteq {"succeeded", "transient", "permanent", "cancelled"}
ASSUME FaultsAssumption == FaultKinds \subseteq {"crash", "stall", "stop", "drift", "storage"}
ASSUME MaxFaultsAssumption == MaxFaults \in Nat

VARIABLES
  db,      \* per run: the run, step, execution-control, attempt and artifact rows
  claim,   \* per run: the worker claim row
  window,  \* rate_limit_windows: the current fixed window and the one before
  denied,  \* per run: the runtime_control_denied codes on its audit timeline
  wk,      \* per worker process: where it stands and what it holds in memory
  faults   \* faults spent so far, and whether a process was stalled or stopped

vars == <<db, claim, window, denied, wk, faults>>

RunStates == {"received", "validated", "planned", "executing", "completed", "failed", "cancelled"}
Active == {"received", "validated", "planned", "executing"}  \* ACTIVE_STATES of the worker
Unplanned == {"received", "validated"}
StepStates == {"none", "pending", "ready", "executing", "succeeded", "failed", "cancelled"}
Numbers == 1..MaxAttempts
Outcomes == {"none", "open", "retry", "exhausted", "permanent", "cancelled", "succeeded"}
Closed == Outcomes \ {"none", "open"}
Results == {"succeeded", "transient", "permanent", "cancelled", "timed_out"}
Denials == {"attempt_in_progress", "retry_not_ready", "rate_limit_exhausted", "stale",
            "deadline_exceeded", "contract"}
Pcs == {"idle", "claimed", "reserving", "calling", "returned", "finishing", "failing",
        "recovering", "releasing"}
Spans == {"now", "before"}

\* bounded_retry_delay_seconds after attempt n, in seconds.
Delay(n) == IF n > 6 THEN 60 ELSE 2 ^ (n - 1)
Pause == 1  \* release: available_at is one second ahead
Least(m, n) == IF m < n THEN m ELSE n
Less1(n) == IF n = 0 THEN 0 ELSE n - 1

\* The rows of a run: its control's fence, call counter and time to the
\* deadline; how many attempts were reserved and each one's outcome; what is
\* left of the latest call and of the latest backoff; the attempts that
\* produced a persisted artifact (0 stands for a local transform).
Rows == [local : BOOLEAN, run : RunStates, step : StepStates, fenced : BOOLEAN, calls : Nat, left : Nat,
         tries : 0..MaxAttempts, out : [Numbers -> Outcomes], call : Nat, wait : Nat,
         outputs : SUBSET (0..MaxAttempts)]
Claims == [owner : Workers \cup {NoWorker, DeadWorker}, lease : Nat, pause : Nat]
Snapshots == [tries : 0..MaxAttempts, span : Spans, used : Nat, call : Nat]
\* "at" is the state in which the worker has read its run.
Processes == [pc : Pcs, job : Runs \cup {NoRun}, at : RunStates, try : 0..MaxAttempts, res : Results,
              seen : Snapshots, stalled : BOOLEAN]

Blank == [tries |-> 0, span |-> "now", used |-> 0, call |-> 0]
Idle == [pc |-> "idle", job |-> NoRun, at |-> "received", try |-> 0, res |-> "succeeded", seen |-> Blank,
         stalled |-> FALSE]

TypeOK ==
  /\ db \in [Runs -> Rows]
  /\ claim \in [Runs -> Claims]
  /\ window \in [used : [Spans -> Nat], booked : [Spans -> SUBSET ((Runs \cup {NoRun}) \X Nat)], left : Nat]
  /\ denied \in [Runs -> SUBSET Denials]
  /\ wk \in [Workers -> Processes]
  /\ faults \in [spent : Nat, hung : BOOLEAN]

Init ==
  /\ \E local \in [Runs -> LocalChoices] :
       db = [r \in Runs |-> [local |-> local[r], run |-> "received", step |-> "none", fenced |-> FALSE, calls |-> 0,
                  left |-> 0, tries |-> 0, out |-> [n \in Numbers |-> "none"], call |-> 0, wait |-> 0,
                  outputs |-> {}]]
  /\ claim = [r \in Runs |-> [owner |-> NoWorker, lease |-> 0, pause |-> 0]]
  /\ window = [used |-> [s \in Spans |-> 0], booked |-> [s \in Spans |-> {}], left |-> WindowLength]
  /\ denied = [r \in Runs |-> {}]
  /\ wk = [w \in Workers |-> Idle]
  /\ faults = [spent |-> 0, hung |-> FALSE]

-----------------------------------------------------------------------------
(* Views of a run's rows.                                                  *)

Last(d) == IF d.tries = 0 THEN "none" ELSE d.out[d.tries]
Open(d) == Last(d) = "open"
Expired(d) == Open(d) /\ d.call = 0
Owns(w, r) == claim[r].owner = w /\ claim[r].lease > 0
Job(w) == wk[w].job
Fault(kind) ==
  /\ kind \in FaultKinds /\ faults.spent < MaxFaults
  /\ faults' = [spent |-> faults.spent + 1, hung |-> faults.hung \/ kind \in {"stall", "stop"}]
\* The worker goes on with nothing of its advancement in memory but the run.
Goto(w, p) == wk' = [wk EXCEPT ![w] = [Idle EXCEPT !.pc = p, !.job = Job(w)]]

\* What the constructor of an execution control accepts: a deadline starts with
\* the execution, and the committed calls stay within the run's budget of one.
ControlLegal(d) == (d.run \in Unplanned \cup {"planned"} => d.left = 0 /\ d.tries = 0) /\ d.calls <= 1

\* What the constructor of an attempt accepts, row by row: only reserved
\* numbers have an outcome, only a success has an artifact.
AttemptLegal(d) ==
  \A n \in Numbers : (d.out[n] = "none" <=> n > d.tries) /\ (d.out[n] = "succeeded" <=> n \in d.outputs)

\* TerminalExecutionCleanupService.fail_execution_in_uow of a one-step run:
\* the step and the run fail together; an attempt it left open stays open.
FailBoth(d) == [d EXCEPT !.run = "failed", !.step = "failed"]

\* _executing_read_disposition: an executing step has an open call or a retry
\* to wait for, and only retried attempts before it.
LineageValid(d) ==
  /\ d.tries > 0
  /\ \A n \in 1..(d.tries - 1) : d.out[n] = "retry"
  /\ Last(d) \in {"open", "retry"}

\* Mutant: the result is stored as it came back.
OutcomeRaw(d, n, res) == res

\* complete_attempt: the outcome that a result becomes.  A cancelled or
\* terminal parent overrides everything but success; a transient failure is
\* retried while an attempt is left and the backoff ends before the deadline.
Outcome(d, n, res) ==
  CASE res = "succeeded" -> "succeeded"
    [] res # "succeeded" /\ (d.fenced \/ d.run = "cancelled") -> "cancelled"
    [] res # "succeeded" /\ ~d.fenced /\ d.run = "failed" -> "permanent"
    [] res \in {"transient", "timed_out"} /\ ~d.fenced /\ d.run = "executing" ->
         IF n < MaxAttempts /\ Delay(n) < d.left THEN "retry" ELSE "exhausted"
    [] OTHER -> res

\* _complete_once and _recover_expired_in_uow: close attempt n with outcome o
\* and move the step, and the run when it is still executing, accordingly.
Close(d, n, o) ==
  LET closed == [d EXCEPT !.out[n] = o, !.wait = IF o = "retry" THEN Delay(n) ELSE @]
  IN  CASE o = "retry" -> closed
        [] o = "succeeded" -> [closed EXCEPT !.step = "succeeded", !.outputs = @ \cup {n}]
        [] OTHER -> IF d.run = "executing" /\ ~d.fenced THEN FailBoth(closed)
                    ELSE [closed EXCEPT !.step = "failed"]

-----------------------------------------------------------------------------
(* A worker claims a run and advances it (RunWorker._drain_once, _advance, *)
(* CatalogReadWorkflowService.resume_persisted).                           *)

\* Mutant: an expired lease does not free the claim.
ClaimableReleased(r) == claim[r].owner = NoWorker /\ claim[r].pause = 0

Claimable(r) == claim[r].lease = 0 /\ claim[r].pause = 0
TakeClaim(w, r, p) ==
  /\ wk[w].pc = "idle"
  /\ Claimable(r)
  /\ claim' = [claim EXCEPT ![r] = [owner |-> w, lease |-> Lease, pause |-> 0]]
  /\ wk' = [wk EXCEPT ![w].pc = p, ![w].job = r, ![w].at = db[r].run]
  /\ UNCHANGED <<db, window, denied, faults>>

\* claim_once for an active run.
ClaimRun(w, r) == db[r].run \in Active /\ TakeClaim(w, r, "claimed")

\* claim_once for a cancelled run with expired call evidence.
ClaimCancelled(w, r) == db[r].run = "cancelled" /\ Expired(db[r]) /\ TakeClaim(w, r, "recovering")

\* The worker advances a run that is in the state in which it has read it.
Advancing(w, state) ==
  /\ wk[w].pc = "claimed" /\ ~wk[w].stalled
  /\ wk[w].at = state /\ db[Job(w)].run = state

\* RunLifecycleService.advance with MARK_VALIDATED.
MarkValidated(w) ==
  /\ Advancing(w, "received")
  /\ db' = [db EXCEPT ![Job(w)].run = "validated"]
  /\ wk' = [wk EXCEPT ![w].at = "validated"]
  /\ UNCHANGED <<claim, window, denied, faults>>

\* _materialize_plan: the sealed plan of one pending step.
WithPlan(d) == [d EXCEPT !.run = "planned", !.step = "pending"]

\* initialize: an execution control that has not started, spent or fenced anything.
WithControl(d) == [d EXCEPT !.left = 0, !.calls = 0, !.fenced = FALSE]

\* AuditedPlanPersistenceService.persist: plan, step and execution control are
\* inserted with the transition of the run.
PersistPlan(w) ==
  /\ Advancing(w, "validated")
  /\ db' = [db EXCEPT ![Job(w)] = WithControl(WithPlan(@))]
  /\ wk' = [wk EXCEPT ![w].at = "planned"]
  /\ UNCHANGED <<claim, window, denied, faults>>

\* ExecutionActivationService.activate: run, root step and deadline together.
Activate(w) ==
  LET r == Job(w) IN
  /\ Advancing(w, "planned")
  /\ db' = [db EXCEPT ![r].run = "executing", ![r].step = "ready", ![r].left = RunTimeout]
  /\ wk' = [wk EXCEPT ![w].at = "executing"]
  /\ UNCHANGED <<claim, window, denied, faults>>

\* Another worker has moved the run on since it was read.
Overtaken(w) ==
  /\ wk[w].pc = "claimed" /\ ~wk[w].stalled
  /\ db[Job(w)].run \in Active /\ db[Job(w)].run # wk[w].at

\* persist and activate find the plan that they would have made, and go on.
Replay(w) ==
  /\ Overtaken(w)
  /\ wk[w].at # "received" /\ db[Job(w)].run \notin Unplanned
  /\ wk' = [wk EXCEPT ![w].at = db[Job(w)].run]
  /\ UNCHANGED <<db, claim, window, denied, faults>>

\* stale_run_version, execution_activation_conflict: a compare-and-swap is lost.
Conflict(w) ==
  /\ Overtaken(w)
  /\ Goto(w, "failing")
  /\ UNCHANGED <<db, claim, window, denied, faults>>

\* _advance checks the admitted envelope, its schema and the registry again,
\* resume_persisted the plan: what it refuses fails the run.
Refuse(w) ==
  /\ wk[w].pc = "claimed" /\ ~wk[w].stalled
  /\ Fault("drift")
  /\ Goto(w, "failing")
  /\ UNCHANGED <<db, claim, window, denied>>

\* resume_persisted finds a run that is no longer active: nothing to do.
Leave(w) ==
  /\ wk[w].pc = "claimed" /\ ~wk[w].stalled
  /\ db[Job(w)].run \notin Active
  /\ Goto(w, "releasing")
  /\ UNCHANGED <<db, claim, window, denied, faults>>

\* resume_persisted finds the step done: only the run is left to complete.
ResumeFinished(w) ==
  /\ Advancing(w, "executing")
  /\ db[Job(w)].step = "succeeded"
  /\ Goto(w, "finishing")
  /\ UNCHANGED <<db, claim, window, denied, faults>>

\* Mutant: the artifact is committed ahead of its step.
LocalTransformSplit(w) ==
  LET r == Job(w) IN
  /\ Advancing(w, "executing")
  /\ db[r].local
  /\ db[r].step = "ready" /\ db[r].outputs = {}
  /\ db' = [db EXCEPT ![r].outputs = {0}]
  /\ UNCHANGED <<claim, window, denied, wk, faults>>

\* LocalArtifactExecutor.execute: start, render and succeed in one unit of work.
LocalTransform(w) ==
  LET r == Job(w) IN
  /\ Advancing(w, "executing")
  /\ db[r].local
  /\ db[r].step = "ready"
  /\ \/ /\ ~db[r].fenced /\ db[r].left > 0
        /\ db' = [db EXCEPT ![r].step = "succeeded", ![r].outputs = @ \cup {0}]
        /\ Goto(w, "finishing")
     \/ /\ db[r].fenced \/ db[r].left = 0
        /\ Goto(w, "failing") /\ UNCHANGED db
  /\ UNCHANGED <<claim, window, denied, faults>>

-----------------------------------------------------------------------------
(* ControlledReadExecutor._reserve.                                        *)

Reserving(w) ==
  /\ Advancing(w, "executing")
  /\ ~db[Job(w)].local
  /\ db[Job(w)].step \in {"ready", "executing"}

\* A denial that is not terminal is witnessed, raised, and ends in _fail.
Deny(w, code) ==
  /\ denied' = [denied EXCEPT ![Job(w)] = @ \cup {code}]
  /\ Goto(w, "failing")
  /\ UNCHANGED <<db, claim, window, faults>>

\* _record_runtime_control_denial of a terminal code also fails the run.
DenyTerminal(w, code) ==
  /\ denied' = [denied EXCEPT ![Job(w)] = @ \cup {code}]
  /\ db' = [db EXCEPT ![Job(w)] = IF @.run = "executing" THEN FailBoth(@) ELSE @]
  /\ Goto(w, "failing")
  /\ UNCHANGED <<claim, window>>

\* The prior attempt retains its bounded call authority.
DenyInProgress(w) == Reserving(w) /\ Open(db[Job(w)]) /\ ~Expired(db[Job(w)]) /\ Deny(w, "attempt_in_progress")

\* recover_expired_attempt: an attempt that outlived its call is a timeout;
\* a retry waits for the next claim, a terminal outcome fails the run.
RecoverExpired(w) ==
  LET r == Job(w)
      o == Outcome(db[r], db[r].tries, "timed_out") IN
  /\ Reserving(w) /\ Expired(db[r])
  /\ db' = [db EXCEPT ![r] = Close(@, @.tries, o)]
  /\ Goto(w, IF o = "retry" THEN "releasing" ELSE "failing")
  /\ UNCHANGED <<claim, window, denied, faults>>

\* The adapter's contract, the input schema or a size limit was refused.
DenyContract(w) ==
  /\ Reserving(w) /\ ~Open(db[Job(w)])
  /\ Fault("drift")
  /\ DenyTerminal(w, "contract")

DenyDeadline(w) ==
  /\ Reserving(w) /\ ~Open(db[Job(w)]) /\ db[Job(w)].left = 0
  /\ DenyTerminal(w, "deadline_exceeded")
  /\ UNCHANGED faults

InTime(w) == Reserving(w) /\ ~Open(db[Job(w)]) /\ db[Job(w)].left > 0

DenyBackoff(w) ==
  /\ InTime(w) /\ Last(db[Job(w)]) = "retry" /\ db[Job(w)].wait > 0
  /\ Deny(w, "retry_not_ready")

MayRetry(w) == InTime(w) /\ (Last(db[Job(w)]) = "retry" => db[Job(w)].wait = 0)

DenyRate(w) == MayRetry(w) /\ window.used["now"] >= Capacity /\ Deny(w, "rate_limit_exhausted")

\* reserve_attempt up to its UPDATEs: clock, attempts and window were read.
LoadReservation(w) ==
  LET d == db[Job(w)] IN
  /\ MayRetry(w)
  /\ window.used["now"] < Capacity
  /\ wk' = [wk EXCEPT ![w].pc = "reserving", ![w].at = Idle.at,
              ![w].seen = [tries |-> d.tries, span |-> "now", used |-> window.used["now"],
                           call |-> Least(StepTimeout, d.left)]]
  /\ UNCHANGED <<db, claim, window, denied, faults>>

\* Mutant: the window row is rewritten without comparing its counter.
WindowBlind(w) == TRUE

\* The window UPDATE finds the counter it has read.
WindowUnchanged(w) == window.used[wk[w].seen.span] = wk[w].seen.used

\* The control UPDATE finds the version it has read: no fence, no reservation,
\* no completion since.
ControlUnchanged(w) ==
  LET d == db[Job(w)] IN
  /\ d.run = "executing" /\ ~d.fenced
  /\ d.step \in {"ready", "executing"}
  /\ d.tries = wk[w].seen.tries /\ ~Open(d)

\* Only the first attempt of an operation consumes the run's call budget.
Charge(d) == IF d.tries = 0 THEN d.calls + 1 ELSE d.calls

\* The rest of reserve_attempt and _reserve: control, window, attempt, step.
CommitReservation(w) ==
  LET r == Job(w)
      n == wk[w].seen.tries + 1
      s == wk[w].seen.span IN
  /\ wk[w].pc = "reserving"
  /\ ControlUnchanged(w) /\ WindowUnchanged(w)
  /\ n <= MaxAttempts
  /\ db' = [db EXCEPT ![r].calls = Charge(db[r]), ![r].step = "executing", ![r].tries = n,
              ![r].out[n] = "open", ![r].call = wk[w].seen.call]
  /\ window' = [window EXCEPT !.used[s] = wk[w].seen.used + 1, !.booked[s] = @ \cup {<<r, n>>}]
  /\ wk' = [wk EXCEPT ![w].pc = "calling", ![w].try = n, ![w].seen = Blank]
  /\ UNCHANGED <<claim, denied, faults>>

\* A run outside this instance reserves a call of the same template, within
\* the capacity it has read: its own reservation was not disturbed.
ReserveElsewhere ==
  /\ window.used["now"] < Capacity
  /\ window' = [window EXCEPT !.used["now"] = @ + 1,
                              !.booked["now"] = @ \cup {<<NoRun, window.used["now"]>>}]
  /\ UNCHANGED <<db, claim, denied, wk, faults>>

\* A fence was lost (stale_execution_control, rate_limit_conflict): rolled back.
LoseReservation(w) ==
  /\ wk[w].pc = "reserving"
  /\ ~(ControlUnchanged(w) /\ WindowUnchanged(w))
  /\ Deny(w, "stale")

-----------------------------------------------------------------------------
(* The call, outside any transaction, and its completion.                  *)

\* What is left of the call that w is making: nothing, once others closed it.
CallLeft(w) == IF db[Job(w)].tries = wk[w].try /\ Open(db[Job(w)]) THEN db[Job(w)].call ELSE 0

\* How execute classifies what came back: nothing counts after the deadline.
Answers(w) == IF CallLeft(w) = 0 THEN {"timed_out"} ELSE AdapterResults

\* The adapter answers in time, or the deadline of the call passes.
Return(w) ==
  /\ wk[w].pc = "calling" /\ ~wk[w].stalled
  /\ \E res \in Answers(w) : wk' = [wk EXCEPT ![w].pc = "returned", ![w].res = res]
  /\ UNCHANGED <<db, claim, window, denied, faults>>

\* Mutant: the completion does not compare the attempt's outcome.
StillOpenUnchecked(w) == db[Job(w)].step = "executing"

\* The completion needs its attempt open and its step executing.
StillOpen(w) == db[Job(w)].out[wk[w].try] = "open" /\ db[Job(w)].step = "executing"

Completed(w, res) ==
  LET r == Job(w) IN
  db' = [db EXCEPT ![r] = Close(@, wk[w].try, Outcome(@, wk[w].try, res))]

\* _complete_once commits: success is finished, a retry waits, the rest fails.
Complete(w) ==
  LET o == Outcome(db[Job(w)], wk[w].try, wk[w].res) IN
  /\ wk[w].pc = "returned" /\ ~wk[w].stalled
  /\ StillOpen(w)
  /\ Completed(w, wk[w].res)
  /\ Goto(w, CASE o = "succeeded" -> "finishing" [] o = "retry" -> "releasing" [] OTHER -> "failing")
  /\ UNCHANGED <<claim, window, denied, faults>>

\* completion_state_invalid: others have closed the attempt or the step.
CompletionRefused(w) ==
  /\ wk[w].pc = "returned" /\ ~wk[w].stalled
  /\ ~StillOpen(w)
  /\ Goto(w, "failing")
  /\ UNCHANGED <<db, claim, window, denied, faults>>

\* completion_conflict: the unit of work did not commit, the attempt stays open.
CompletionFails(w) ==
  /\ wk[w].pc = "returned" /\ ~wk[w].stalled
  /\ Fault("storage")
  /\ Goto(w, "failing")
  /\ UNCHANGED <<db, claim, window, denied>>

\* The tail of resume_persisted: one succeeded step and exactly one artifact
\* complete the run; a run cancelled meanwhile has another version.
Finish(w) ==
  LET r == Job(w) IN
  /\ wk[w].pc = "finishing"
  /\ \/ /\ db[r].run = "executing" /\ db[r].step = "succeeded" /\ Cardinality(db[r].outputs) = 1
        /\ db' = [db EXCEPT ![r].run = "completed"]
        /\ Goto(w, "releasing")
     \/ /\ db[r].run # "executing"
        /\ Goto(w, "failing") /\ UNCHANGED db
  /\ UNCHANGED <<claim, window, denied, faults>>

\* _fail: under the claim fence only, and never a run that is not active.
FailRun(w) ==
  LET r == Job(w) IN
  /\ wk[w].pc = "failing"
  /\ db' = IF ~Owns(w, r) \/ db[r].run \notin Active THEN db
           ELSE [db EXCEPT ![r] = IF @.step \in {"ready", "executing"} THEN FailBoth(@)
                                  ELSE [@ EXCEPT !.run = "failed"]]
  /\ Goto(w, "releasing")
  /\ UNCHANGED <<claim, window, denied, faults>>

\* Mutant: a released run can be claimed again at once.
ReleaseEager(w) ==
  /\ wk[w].pc = "releasing"
  /\ claim' = IF claim[Job(w)].owner = w
              THEN [claim EXCEPT ![Job(w)] = [owner |-> NoWorker, lease |-> 0, pause |-> 0]]
              ELSE claim
  /\ wk' = [wk EXCEPT ![w] = Idle]
  /\ UNCHANGED <<db, window, denied, faults>>

\* release: the claim is reclaimable after a pause, unless it is another's.
Release(w) ==
  /\ wk[w].pc = "releasing"
  /\ claim' = IF claim[Job(w)].owner = w
              THEN [claim EXCEPT ![Job(w)] = [owner |-> NoWorker, lease |-> 0, pause |-> Pause]]
              ELSE claim
  /\ wk' = [wk EXCEPT ![w] = Idle]
  /\ UNCHANGED <<db, window, denied, faults>>

-----------------------------------------------------------------------------
(* Cancellation and the recovery of what it preserved.                     *)

\* Mutant: a cancelled call is treated like a retry that nobody waits for.
FencePreservesNothing(d) ==
  [d EXCEPT !.fenced = TRUE, !.run = "cancelled",
     !.step = CASE @ \in {"pending", "ready"} -> "cancelled"
                [] @ = "executing" -> "failed" [] OTHER -> @]

\* _request_once: fence, cancel what is queued, keep an open call for its
\* worker or for recovery, end a retry that waits.
Fence(d) ==
  [d EXCEPT !.fenced = TRUE, !.run = "cancelled",
     !.step = CASE @ \in {"pending", "ready"} -> "cancelled"
                [] @ = "executing" /\ ~Open(d) -> "failed" [] OTHER -> @]

\* RunCancellationCoordinator: without a plan there is only the run to cancel.
CancelUnplanned(r) ==
  /\ db[r].run \in Unplanned
  /\ db' = [db EXCEPT ![r].run = "cancelled"]
  /\ UNCHANGED <<claim, window, denied, wk, faults>>

\* RunCancellationService.request
Cancel(r) ==
  /\ db[r].run \in Active \ Unplanned
  /\ db[r].step = "executing" => LineageValid(db[r])
  /\ db' = [db EXCEPT ![r] = Fence(@)]
  /\ UNCHANGED <<claim, window, denied, wk, faults>>

\* recover_cancelled_attempt under the claim fence, without any call.
RecoverCancelled(w) ==
  LET r == Job(w) IN
  /\ wk[w].pc = "recovering"
  /\ db' = IF Owns(w, r) /\ Expired(db[r]) /\ db[r].step = "executing"
           THEN [db EXCEPT ![r] = Close(@, @.tries, "cancelled")] ELSE db
  /\ Goto(w, "releasing")
  /\ UNCHANGED <<claim, window, denied, faults>>

-----------------------------------------------------------------------------
(* Faults and time.                                                        *)

\* The process dies; its claim stays until the lease ends.
Crash(w) ==
  /\ wk[w].pc # "idle"
  /\ Fault("crash")
  /\ claim' = [claim EXCEPT ![Job(w)].owner = IF @ = w THEN DeadWorker ELSE @]
  /\ wk' = [wk EXCEPT ![w] = Idle]
  /\ UNCHANGED <<db, window, denied>>

\* The process freezes before it writes or around its call: no renewals.
Stall(w) ==
  /\ wk[w].pc \in {"claimed", "calling", "returned"} /\ ~wk[w].stalled
  /\ Fault("stall")
  /\ wk' = [wk EXCEPT ![w].stalled = TRUE]
  /\ UNCHANGED <<db, claim, window, denied>>

Thaw(w) ==
  /\ wk[w].stalled
  /\ wk' = [wk EXCEPT ![w].stalled = FALSE]
  /\ UNCHANGED <<db, claim, window, denied, faults>>

\* A CancelledError reaches the advancement: the shielded completion closes a
\* call that is being made as cancelled; any other unit of work rolls back.
Interrupted(w) ==
  /\ db' = IF wk[w].pc = "calling" /\ StillOpen(w)
           THEN [db EXCEPT ![Job(w)] = Close(@, wk[w].try, Outcome(@, wk[w].try, "cancelled"))]
           ELSE db
  /\ Goto(w, "releasing")
  /\ UNCHANGED <<claim, window, denied>>

\* The process is asked to stop and its grace period ends.
Stop(w) ==
  /\ wk[w].pc \in {"claimed", "reserving", "calling", "returned", "finishing"} /\ ~wk[w].stalled
  /\ Fault("stop")
  /\ Interrupted(w)

\* _renew finds the lease lost and cancels the advancement.
LoseLease(w) ==
  /\ wk[w].pc \in {"claimed", "calling", "returned"} /\ ~wk[w].stalled
  /\ ~Owns(w, Job(w))
  /\ Interrupted(w)
  /\ UNCHANGED faults

\* A second passes.  A live worker renews its lease and is woken by its call's
\* deadline; a window that ends becomes the one before.
Tick ==
  /\ \A w \in Workers : wk[w].pc = "calling" /\ ~wk[w].stalled => CallLeft(w) > 0
  /\ \A w \in Workers : wk[w].pc = "reserving" => wk[w].seen.span = "now"
  /\ db' = [r \in Runs |-> [db[r] EXCEPT !.left = Less1(@), !.call = Less1(@), !.wait = Less1(@)]]
  /\ claim' = [r \in Runs |->
       LET o == claim[r].owner
           renewed == o \in Workers /\ claim[r].lease > 0 /\ ~wk[o].stalled
       IN  [claim[r] EXCEPT !.lease = IF renewed THEN Lease ELSE Less1(@), !.pause = Less1(@)]]
  /\ window' = IF window.left > 1 THEN [window EXCEPT !.left = @ - 1]
               ELSE [used |-> [now |-> 0, before |-> window.used["now"]],
                     booked |-> [now |-> {}, before |-> window.booked["now"]], left |-> WindowLength]
  /\ wk' = [w \in Workers |-> IF wk[w].pc # "reserving" THEN wk[w]
              ELSE [wk[w] EXCEPT !.seen.call = Less1(@),
                      !.seen.span = IF window.left > 1 THEN @ ELSE "before"]]
  /\ UNCHANGED <<denied, faults>>

-----------------------------------------------------------------------------

Advance(w) ==
  \/ \E r \in Runs : ClaimRun(w, r)
  \/ \E r \in Runs : ClaimCancelled(w, r)
  \/ MarkValidated(w)
  \/ PersistPlan(w)
  \/ Activate(w)
  \/ Replay(w)
  \/ Conflict(w)
  \/ Leave(w)
  \/ ResumeFinished(w)
  \/ LocalTransform(w)
  \/ DenyInProgress(w)
  \/ RecoverExpired(w)
  \/ DenyDeadline(w)
  \/ DenyBackoff(w)
  \/ DenyRate(w)
  \/ LoadReservation(w)
  \/ CommitReservation(w)
  \/ LoseReservation(w)
  \/ Return(w)
  \/ Complete(w)
  \/ CompletionRefused(w)
  \/ Finish(w)
  \/ FailRun(w)
  \/ Release(w)
  \/ RecoverCancelled(w)
  \/ LoseLease(w)

Disturb(w) ==
  \/ Refuse(w)
  \/ DenyContract(w)
  \/ CompletionFails(w)
  \/ Crash(w)
  \/ Stall(w)
  \/ Stop(w)

Next ==
  \/ \E w \in Workers : Advance(w)
  \/ \E w \in Workers : Thaw(w)
  \/ \E w \in Workers : Disturb(w)
  \/ \E r \in Runs : CancelUnplanned(r)
  \/ \E r \in Runs : Cancel(r)
  \/ ReserveElsewhere
  \/ Tick

Spec == Init /\ [][Next]_vars

\* The worker loop polls, the event loop runs, frozen processes wake, time passes.
FairSpec ==
  /\ Spec
  /\ WF_vars(Tick)
  /\ \A w \in Workers : WF_vars(Advance(w)) /\ WF_vars(Thaw(w))

-----------------------------------------------------------------------------
(* Properties.                                                             *)

\* The attempts of a run never contradict its step and its run, whoever
\* crashed, planned late, recovered or cancelled: an executing step always has
\* the lineage that _executing_read_disposition insists on, no row is one that
\* its constructor would refuse to load, only a failed run can keep an open
\* attempt without its executing step, and a run has its plan exactly from
\* the transition that records it.
EvidenceIsConsistent ==
  \A r \in Runs :
    LET d == db[r] IN
    /\ ControlLegal(d) /\ AttemptLegal(d)
    /\ d.step = "executing" => LineageValid(d)
    /\ Open(d) => d.step = "executing" \/ d.run = "failed"
    /\ d.step = "executing" => d.run \in {"executing", "cancelled"}
    /\ d.run \in Unplanned => d.step = "none"
    /\ d.step = "none" => d.run \in Unplanned \cup {"failed", "cancelled"} /\ ~d.fenced

\* However many workers reserve, retry and recover, a run is charged for one
\* logical call, and no rate window admits more calls than its capacity.
BudgetsAreHonest ==
  /\ \A r \in Runs : db[r].calls = IF db[r].tries = 0 THEN 0 ELSE 1
  /\ \A s \in Spans : window.used[s] = Cardinality(window.booked[s]) /\ window.used[s] <= Capacity

\* A succeeded step has exactly one artifact, that of its succeeded attempt,
\* and a completed run rests on a succeeded step: late results add nothing.
OneOutput ==
  \A r \in Runs :
    LET d == db[r] IN
    /\ d.outputs # {} <=> d.step = "succeeded"
    /\ Cardinality(d.outputs) <= 1
    /\ \A n \in d.outputs \ {0} : d.out[n] = "succeeded" /\ n = d.tries
    /\ d.run = "completed" => d.step = "succeeded" /\ ~Open(d)

\* A recorded outcome is never rewritten, and a terminal run stays as it is:
\* recovery, cancellation and late results meet at the attempt row.  A call that
\* is open when its run is cancelled is closed by its own worker until it has
\* expired.
OutcomesAreFinal ==
  [][\A r \in Runs :
       /\ \A n \in Numbers : db[r].out[n] \in Closed => db'[r].out[n] = db[r].out[n]
       /\ db[r].run \notin Active => db'[r].run = db[r].run
       /\ db[r].run = "cancelled" /\ Open(db[r]) /\ db[r].call > 0 /\ ~Open(db'[r])
          => \E w \in Workers : Job(w) = r /\ wk[w].pc \in {"calling", "returned"}
                                /\ wk[w].try = db[r].tries /\ wk'[w] # wk[w]]_vars

\* Unless a process hung: after a crash the next worker never finds the call still open (the lease
\* outlasts the step timeout) nor the backoff running (the pause outlasts it),
\* so neither costs a run that could still be retried.
RetriesGetTheirTurn ==
  ~faults.hung => \A r \in Runs : denied[r] \cap {"attempt_in_progress", "retry_not_ready"} = {}

\* A stopped process leaves its call open for recovery: an attempt is closed
\* as cancelled only when its run was cancelled.
StoppedCallStaysOpen ==
  \A r \in Runs, n \in Numbers : db[r].out[n] = "cancelled" => db[r].fenced

\* Every run ends, and the calls that a cancellation preserved are closed.
ReadRunsSettle ==
  \A r \in Runs : <>[](db[r].run \notin Active /\ (db[r].run = "cancelled" => ~Open(db[r])))

=============================================================================
