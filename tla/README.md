# Marketing Agents: verification of the run control plane

TLA+ models of the code that decides whether, when and how often a run of
Marketing Agents touches the outside world: the admission of work from webhooks,
commands and schedules, the claims by which workers own a run, planning and
controlled READ execution, the approval barrier, the delivery of external
actions, and the retention that erases what they leave behind. TLC checks the
models on small instances; TLAPS proves every safety and action property of
their passing runs for every value of the constants.

Paths below are relative to `src/apps/api/src/marketing_agents/` unless they
start with `docs/`.

## 1. The system

A webhook, a schedule or a manual command is admitted as a *work item* with one
*run*. A worker validates the run, persists a sealed plan of *steps* (READ and
WRITE), and registers one *external action* with one *approval request* per
WRITE step in an *authorization set*. The run waits until every request of the
set is approved; the set is then *released* as a whole, and the worker delivers
the actions through connectors. All coordination goes through the database:
there is no in-memory hand-over between the API, the scheduler and the run
workers.

### Components

| Component | State | Operations | Hard behaviour | What makes it correct |
|---|---|---|---|---|
| External action delivery (`application/services/external_action_dispatcher.py`, `terminal_execution_cleanup.py`, `cancelled_run_recovery.py`, `infrastructure/db/repositories/action.py`) | `external_actions` (state, attempt count, dispatch lease, call deadline), WRITE steps, run, connector receipts | call-start, call, completion, stale recovery, terminal cleanup, cancel after release, recovery of cancelled runs | the call is outside any transaction; crashes, late answers, lost claims | no blind retry, evidenced success, final verdicts, nothing armed after the end |
| Approval barrier (`approval_boundaries.py`, `approval_decisions.py`, `approval_records.py`, `repositories/approval.py`) | authorization set, requests with generations, actions, steps, run | decide, evaluate, release, reject, expire, renew, cancel | last approval against expiry, renewal and veto; torn reads of the polling worker | all-or-nothing release on fresh approvals; one veto closes everything |
| Run claims (`infrastructure/runtime/run_claims.py`) | one claim row per run: owner, token, expiry, availability, version | claim, renew, fence, release | stale clock samples, stalls beyond the lease | a live lease is not taken over; an outcome is recorded only by the owner |
| Run worker loop (`workers/runtime/run_loop.py`) | one task and one renewer per claimed run | drain, advance, recover, fail | timeout, shutdown and lease loss at any await | every run ends; a stale worker records nothing |
| Write workflow handlers (`infrastructure/runtime/catalog_write_workflows.py`, `demos/email_signup_service.py`) | none of their own | resume a persisted run | resumption after any crash point | converge to one terminal run |
| Controlled READ execution (`controlled_read_executor.py`, `local_artifact_executor.py`, `execution_activation.py`, `repositories/execution_control.py`) | attempts, counters, rate windows, execution control | activate, reserve, call, complete, recover, deny | late results, backoff, limits, stale workers | consistent attempt evidence, honest budgets, one output |
| Cancellation (`cancellation.py`, `run_cancellation.py`) | execution control fence | request, route | races with release and call-start | no new call after the fence |
| Lifecycle tables (`domain/run_lifecycle.py`, `domain/step_lifecycle.py`) | none | transition functions | | terminal states are immutable |
| Plan persistence (`plan_persistence.py`, `domain/graph.py`) | plan, steps, actions, set | persist, replay | a stale worker plans what another has claimed | one plan per run, recorded with its transition |
| Admission (`webhook_intake.py`, `webhook_ingress.py`, `manual_work.py`, `work_admission.py`, `idempotent_work_receipt.py`) | work items, receipts, row locks of configurations | receive, fan out, replay, reject | duplicates at once, reconfiguration in between, locks of many rows | each event admitted once, whole, as configured |
| Webhook rate limit (`webhook_rate_limit.py`) | window per source, in memory | consume | bounded table | limit per window |
| Scheduler (`schedule_*.py`, `cron_recurrence.py`, `workers/runtime/scheduler.py`) | schedules, leases, occurrences | list, claim, process, advance, judge a lost claim | death between claim and commit, misfires, reconfiguration, clock changes | every fire time in one outcome, as configured |
| Retention (`retention_maintenance.py`, `repositories/retention.py`, `retention_tracking.py`) | occurrences, tracked expiries, erased details | claim, track, select, erase, commit | erasing what recovery still needs, overlapping occurrences | open evidence is kept, counts add up, the backlog shrinks |
| Instance configuration (`instance_configuration.py`) | revisions, schedule projection | compare-and-swap update | update against admission and schedules | one revision governs each commit |
| Audit timeline (`repositories/audit.py`) | per-run sequence | append | concurrent appends | gap-free order |
| Router, planner, catalog, connectors, API, security, web UI | mostly none | | | |

Interaction: admission and the scheduler create the run that workers claim; the
administrator's update takes the row locks both of them take; the API's approval unit of work releases the set, the worker's next
claim dispatches it; cancellation writes the same rows as delivery and recovery;
`_fail` writes the rows of whatever the worker was advancing; the connector
writes its receipt in a transaction of its own, with no lease.

Units of work run under READ COMMITTED on PostgreSQL (`unit_of_work.py`). Every
row they write is compared by version, and every unit of work that changes a run
locks the run row through `audits.append_many`. A unit of work that loses a race
therefore changes nothing, which is why one *committed* unit of work is one TLA+
action. Reads are different: a series of SELECTs may see the commits of others
in between. That matters where the reads alone decide what happens, in the
worker's evaluation of the barrier, and there the model splits load and use.

## 2. Modules

| Module | Role |
|---|---|
| `ActionDelivery` | delivery of the actions of one released run |
| `DeliveryContract` | what delivery promises, without workers, leases, steps and receipts |
| `ApprovalBarrier` | the barrier of one run, up to the release |
| `RunClaims` | the claim row of one run |
| `ReadExecution` | planning and execution of READ runs, with the rate window they share |
| `Admission` | webhooks and manual commands, up to the committed work and runs |
| `Scheduling` | one schedule, its workers and its administrator |
| `Retention` | erasure of the details of one run; composed with `DeliveryContract`, which says what may happen to that run meanwhile |
| `MCActionDelivery`, `MCApprovalBarrier`, `MCRunClaims`, `MCReadExecution`, `MCAdmission`, `MCScheduling`, `MCRetention` | model values, tables and symmetry for TLC |
| `ActionDeliveryProofs`, `ApprovalBarrierProofs`, `RunClaimsProofs`, `ReadExecutionProofs`, `AdmissionProofs`, `SchedulingProofs`, `RetentionProofs` | theorems and proofs |

### ActionDelivery

The initial state is the one `release_current_set` commits. Actions are numbered
by the ordinal of their WRITE step. `run`, `step`, `act`, `attempts` are the
columns of that name; `age` abstracts the times of the current attempt (the call
deadline, then the dispatch lease, has passed); `receipt` says that
`connector_action_receipts` has a row for the action's key; `claim` abstracts the
claim row to its live holder (RunClaims is the detailed account). Each worker
has a program counter `pc`, the action `cur` it is at, the attempt number `att`
of the snapshot it holds, and `rec` when it dispatches on behalf of stale
recovery. `executed` records the attempts for which `gateway.execute` was
invoked.

- `_claim_and_mark_call_started` is `StartCall`, `StartNothing` (nothing is
  committed, for whatever reason) or `StartDenied` followed by `RecordDenial`
  (the denial is written in a second unit of work).
- The call is `Execute`, `Deliver` (the mock ledger's insert), and
  `CallReturned`, `CallUncertain`, `CallRefused` or `CallTooLate`.
- The completion unit of work is `CompleteSuccess`, `CompleteUncertain`,
  `CompleteFailure` or `CompletionLost`.
- `recover_action` is `RecoverNothing`, `RecoverTerminalParent`,
  `RecoverReceipt`, `RecoverRelease` and `RecoverUnknown`, each a unit of work
  of its own, so other workers, the operator and late calls interleave.
- The handlers differ in how they treat a result that is neither a success nor
  a failure (`Return`) and in how they finish (`Finish`, `FinishRaises`); the
  constant `Handler` chooses.
- `_fail`, `_cancel_released_in_uow` and the cancelled-recovery lane are
  `FailRun`, `CancelRun`, `ClaimToClose`, `CloseCall` and `CloseDone`.
- Faults are `ClaimStalls`, `Crash`, `Shutdown` and `AdvanceTimeout`.

Abstractions. A READ step of the email workflow can only fail
(`FinishRaises`) or succeed unseen. The recovery pass looks at an action's state
when it reaches it, where the email handler looks at a snapshot taken at the
start of the advancement: the model recovers in every case the code does and in
a few more. The stale branches for an action that is dispatching without a call
marker are unreachable, since claim and marker commit together. `recover_stale`
has no caller in the repository and is not an action.

### DeliveryContract

ADR-0007 as a state machine of three variables: an armed action may be called, a
call ends in a verdict or is armed again if its provider is idempotent and
attempts remain, the run closes once, and closing disarms what was not called.
`ActionDelivery!ImplementsContract` is the refinement.

### ApprovalBarrier

`set` is the authorization set's status; `leaf`, `gen` and `due` are the current
generation of each action's request, its status and whether its deadline has
passed; `granted` remembers which generations were approved. `Decide` is one
unit of work, the decision followed by `evaluate_in_uow`, which reads the clock
again (a deadline may pass between the two readings). `Renew` looks at the leaf
and its action only, as `renew_expired` does. A worker's evaluation is `Load` and
then one of `EvaluateWhole` (nothing committed in between), `EvaluateTornExpiry`
(the compare-and-swap of `mark_expired` covers only the expiring leaves),
`EvaluateTornNothing`, or `EvaluateTornRaise` (a check or a compare-and-swap
refuses), which leads to `FailRun`. What a torn load can be mistaken for is
over-approximated: every outcome the checks permit is allowed.

Digests, signatures, audit witnesses and the replay validators are not modelled:
they reject rows that the services did not write.

### RunClaims

Times are relative to now (`lease`, `pause`), the random token is abstracted to
the worker whose claim it is, and the version column to whether the row was
written since a worker read it. Every statement uses a clock sample taken
earlier; `age` and `beat` are the ages of the samples of the main task and the
renewer. All processes read one clock. The row lock of `fence_owned` is held to
the commit. `Crash` frees the holder without touching the expiry. With `Prompt`,
renewers wake up when their sleep ends; without it they may oversleep for ever.

### ReadExecution

`db` holds the rows of each run: run and step state, the execution control (its
cancellation fence, call counter and remaining time), the attempts with their
outcomes, and which of them left an artifact. `claim` is the claim row, `window`
the current and the previous rate window of the template, `denied` the
`runtime_control_denied` codes on the timeline, `wk` what each worker process
holds in memory; `wk[w].at` is the state in which it has read its run.

- `MarkValidated`, `PersistPlan` and `Activate` are the units of work of
  `resume_persisted`. None of them is fenced by the claim, only by the version
  of the run, so a worker that stalled past its lease may still take them; an
  overtaken worker finds the other's plan and goes on (`Replay`) or loses its
  compare-and-swap (`Conflict`), which fails the run only if it still owns it.
- `_reserve` is `LoadReservation` followed by `CommitReservation` or
  `LoseReservation`, because its reads of clock and window are older than its
  updates, or one of the `Deny...` actions, or `RecoverExpired`.
- The call is `Return`; its completion `Complete`, `CompletionRefused` or
  `CompletionFails`. `Finish`, `FailRun` and `Release` end the advancement.
- `CancelUnplanned` and `Cancel` are the two routes of cancellation that a READ
  run can take; `ClaimCancelled` and `RecoverCancelled` close what they leave.
- Faults: `Crash`, `Stall`/`Thaw`, `Stop`, `LoseLease`, `Refuse`,
  `DenyContract`, `CompletionFails`.

Abstractions. Catalog-role plans have one step. Schema, contract and size
refusals are one nondeterministic denial. Other runs of the template appear
only as reservations (`ReserveElsewhere`). Renewal is part of `Tick`.

### Admission

`conf` and `lock` are the configuration rows and their row locks; `works`,
`runs`, `receipts` and `audits` what admission commits; `req` each HTTP request's
progress. A webhook reads the receipt of its event (`FirstRead`), locks **all**
configuration rows in the order of their ids (`Lock`), reads the receipt again
(`ReRead`) and then fans out, rejects or replays in one transaction
(`SettleWebhook`). A manual command locks one row (`SubmitManual`,
`SettleManual`). `CompareAndSwap` is the administrator's update, `Redeploy` a
release with another digest key, `Erase` retention's effect on work. The
decision "forbidden" is taken before the second read, so a duplicate that races
a reconfiguration may be answered 403 instead of being replayed; nothing is
admitted in that case. The rate limit is one outcome (`RejectRate`). An update
may keep what the instance allows and only move the revision, so that a key is
used again under a later revision that is still bound. The fan-out is one action:
the loop over its targets is one transaction under locks, and what a crash
between two targets leaves rests on that transaction's atomicity.

### Scheduling

Time is UTC; `WallClock` maps it to the zone's wall time, which may skip or
repeat. A worker's pass is `ListDue`, `TryClaim` or `MissClaim`, `BindRow`,
`BindConfiguration`, `Begin`, `FenceConfiguration`, `FenceClaim`, `Process`;
every check that fails leads through `ConfigurationLost`, `ClaimLost` or
`PlanExhausted` to `Judge`, which decides whether the loss is explained
(`Obsolete`) or ends the process. `occurrences` are the committed outcomes with
the range of due times each one coalesces. The administrator's update
compare-and-swaps the configuration, then the row, under both locks:
`UpdateInstance` is the instance's PATCH, which may set switch, schedule and
input together and at any time, the other four are the narrower commands of the
schedule resource.

Notes. Each of the two fences alone would keep an outdated schedule from firing;
a variant without either violates `FiresAsConfigured`. `_load_committed_result`
cannot be reached from the worker, which processes a claim once. A misfire range
longer than the limit ends the process, and the next one, until an administrator
recalculates. `docs/verification/requirements/SCHED-04.md` calls the limit
failing closed, so `StaleClaimsAreNormal` and `DueIsProcessed` exempt that case
and no property covers it. `Restart` stands for the supervisor.
`EveryInstantOnce` holds per recalculation (`epoch`): a recalculation with an
old clock sample may fire again inside a range that was coalesced before.

### Retention

`outcome`, `status` and `calls` are DeliveryContract's variables: the run does
whatever that contract allows, which by the refinement of ActionDelivery covers
all it really does. `detail` and `tracked` are the erasable rows and their
recorded expiry, `job` the occurrences of the current and of the previous
minute, `proc` the scheduler processes. A batch is `Begin`, `Select`, `Erase`
and `Commit`, each a statement of one transaction under READ COMMITTED, with a
lease that may run out and a process that may die in between. Two artifacts, of
which one is derived from the other, a connector receipt and an event of no run
stand for the kinds of detail. No process stalls for two whole minutes.
A related observation that is not modelled: a READ run that ends during a
backoff keeps `retry_not_before` without a terminal reason, and its attempt
detail is then never found eligible.

## 3. Runs

| Run | Question | Distinct states |
|---|---|---|
| `delivery_email` | two actions, one of them not idempotent, two workers, two faults: `TypeOK`, `NoBlindRetry`, `NothingArmedAfterTerminal`, `SuccessIsEvidenced`, `ImplementsContract` | 375,886 |
| `delivery_liveness` | catalog workflow, one action: `RunSettles`, `CancelledCallsClose` | 174,539 |
| `approval` | two actions, a polling worker, two generations, two faults, internal errors: `TypeOK`, `AllOrNothing`, `VetoCloses`, `NoStrandedApproval`, `ReleaseIsFresh`, `ExpiryIsDetected` | 133,842 |
| `claims` | two workers, stalls longer than the lease, crashes: `TypeOK`, `OutcomeIsOwned`, `LiveLeaseIsKept`, `ClaimedAgain` | 55,050 |
| `read_execution` | one run, two workers, two attempts, a window of one call, two faults of any kind: `TypeOK`, `EvidenceIsConsistent`, `BudgetsAreHonest`, `OneOutput`, `RetriesGetTheirTurn`, `OutcomesAreFinal`, `ReadRunsSettle` | 582,248 |
| `admission` | two requests, two instances, two triggers, reconfiguration, a release, erasure, faults: `TypeOK`, `FanOutIsWhole`, `OneStory`, `DuplicatesAreRecognised`, `NoCircularWait`, `AdmittedAsConfigured` | 2,086,000 |
| `scheduling` | two workers, an administrator, a zone that skips and repeats: `TypeOK`, `EveryInstantOnce`, `ProjectionInStep`, `StaleClaimsAreNormal`, `FiresAsConfigured`, `DueIsProcessed` | 308,312 |
| `retention` | two processes, four details, overlapping occurrences: `TypeOK`, `NothingNeededIsErased`, `CountsAddUp`, `BacklogIsErased` | 899,285 |
| `delivery_inflight_failed`, `approval_race`, `read_stopped`, `retention_blocked` | what a document says and the code does not do (section 5) | violated |

What the newer properties say. *EvidenceIsConsistent*: plan, control, attempts,
step and run never contradict each other. *BudgetsAreHonest*: a run is charged
once per logical call and no window exceeds its capacity, whoever races.
*OneOutput*: late results add nothing. *RetriesGetTheirTurn*: unless a process
hung, no retry is refused because the claim came back too early.
*FanOutIsWhole*: receipt, works and runs of an event exist together or not at
all. *OneStory*: answers, rows and timeline tell every caller the same.
*DuplicatesAreRecognised*: a request that lost the race is never told that the
winner's work is orphaned. *NoCircularWait*: row locks are never waited for in a
cycle. *AdmittedAsConfigured*: work commits only under the revision that is
current at that moment. *EveryInstantOnce*: the fire times between two outcomes
are covered without gap or overlap. *ProjectionInStep*: the schedule row is
always the projection of its configuration. *StaleClaimsAreNormal*: no
race ends a worker process. *NothingNeededIsErased*: no detail of a run that is
active, claimed or recoverable, and no parent before its child.

Bounds. Two actions are the least with a sibling, and one is idempotent and the
other not; two attempts are one retry; two workers are a holder and a contender;
two faults let a recovery be interrupted in its turn; two generations are one
renewal. The lease arithmetic needs no more ticks than a stall beyond the lease.
In ReadExecution the run's time allows a first call to expire, its backoff and a
second call, and one call fills a window; other runs book it meanwhile, so that
reservations are denied or lose their comparison. Two requests are a duplicate
and its original, two instances a fan-out. In Scheduling the clock passes both
changes of the zone, and two coalesced occurrences are one more than one; with a
third revision the safety properties held on 5.3 million states. In Retention a
batch of one makes every choice of candidates matter. Every bound is a constant,
and where a theorem states a property the bound is no limit of the result.

Symmetry is used over workers and over requests, in runs that check no temporal
property with fairness.

Fairness. Delivery: weak fairness of every worker's steps and of time. The event
loop runs ready tasks, database waits are bounded, idle workers poll, and a
stalled process resumes or is restarted; faults are bounded and never forced,
cancellation is never forced. Barrier: weak fairness of workers and of claim
release or expiry; nobody is forced to decide. Claims: weak fairness of every
worker's tasks and of the clock, with unbounded crashes. READ execution: the
same, and frozen processes wake. Scheduling: workers, the clock, the end of an
administrator's transaction and the supervisor's restart; no update is forced.
Retention: workers and the clock.
Deadlock is checked where `Done` or the clock leaves every state a successor;
the runs of Admission, Scheduling and Retention may stop when their bounded
requests, clock or details are used up.

## 4. Theorems

All hold for every value of the constants under the named assumptions
(`NAssumption`, `WorkersAssumption`, ... in the modules): non-empty plans,
`NoWorker` is not a worker, positive limits. Scheduling assumes three things
more. `ZoneAssumption`: a clock that is set back only shows wall times it has
shown before, which is what a change of a zone does. `HorizonAssumption`: the
modelled stretch of time is long enough for every wall time an expression names
to come, and for a later one to exist whenever a worker asks. `InitialAssumption`:
the first schedule row is the projection of its configuration, as the
administrator's update writes it.

- **ActionDeliveryProofs**: `TypeCorrect`, `NoBlindRetryHolds`, `NothingArmed`,
  `SuccessEvidenced`, `VerdictsFinal` and `Refinement` (Spec implements
  DeliveryContract). The properties are not inductive. `Inv` adds the attempt
  `Ledger` (whoever is about to call holds a started, unused attempt number that
  nobody else holds) and `Coupled` (an armed action belongs to an executing run
  and an open step, a concluded one has no open step). Each action is first
  reduced to what it does to the database, the ledger and one worker's control
  (`OrdinaryStep`), so that the invariant is proved once per kind of effect.
- **ApprovalBarrierProofs**: `TypeCorrect`, `BarrierIsAllOrNothing`,
  `OneVetoCloses`, `RequestsHydrate`, `NothingStranded`, `FreshRelease`. `Inv`
  adds `Phase` (what the set's status says of run, leaves and steps) and
  `Granted` (an approved leaf carries an approval of its own generation).
  Without `Phase` a torn expiry could touch a leaf of a closed set.
- **RunClaimsProofs**: `TypeCorrect`, `OutcomesAreOwned`, `LiveLeases`,
  `PromptHoldersKeepTheirClaim`. `Locked` says that the row lock belongs to the
  fenced worker; `Remaining` bounds from below what is left of a prompt
  holder's lease, from which `Interval + 2 * MaxStall < Lease` gives the
  theorem. The deployed values (interval 10 s, lease 90 s) leave 40 s for each
  of two stalls.

- **ReadExecutionProofs**: `TypeCorrect`, `AttemptsNeverContradict`,
  `BudgetsHold`, `ExactlyOneOutput`, `OutcomesStand`, `RetriesAreNotDenied`.
  `Sound` is the invariant of one run's rows: `Staged` couples run, step and
  fence (without it a late `_fail` could meet an executing run without a step),
  `Evident` the attempts, `Single` the artifacts, `Charged` the call counter.
  Each unit of work is shown once to take sound rows to sound rows and to settle
  nothing twice (`Follows`); the actions are then combinations of these. `Holds`
  keeps a worker's snapshot below the capacity it has read, and `Counted` says
  that every booked pair is an attempt already reserved, or a call of another
  run under a counter that has passed: that is why the next booking is a new
  one. `RetriesAreNotDenied` has the hypothesis `Slack`: the lease is at least
  the step timeout and operations have at most two attempts. The deployed lease
  is 90 s, the catalog's calls take at most 30 s and none has a third attempt;
  the schema would allow 120 s and three attempts, and a second backoff of 2 s
  would then outlast the pause of 1 s. `OnTime` is the invariant: while no
  process hung, a worker owns the run it works on, and what it leaves open or
  waiting has run out when the claim has.
- **AdmissionProofs**: `TypeCorrect`, `FanOutWhole`, `TellsOneStory`,
  `DuplicatesRecognised`, `AdmittedUnderItsConfiguration`,
  `NobodyWaitsInACircle`. `Inv` adds who holds which row lock and how far a
  request has come with them (`Locks`), that runs and works come in pairs
  (`RunsOfWorks`), that one request created each (`CreatedOnce`), and what every
  answer rests on (`Accounted`). The last theorem follows from the order of the
  locks: in a circle, the holder of the highest row that anyone waits for would
  itself wait for a lower one, which it has passed.
- **SchedulingProofs**: `TypeCorrect`, `EveryInstantIsConsumedOnce`,
  `ProjectionStaysInStep`, `LostClaimsAreExplained`, `FiredAsConfigured`. First,
  about the recurrence alone, the next time is the least one at which the
  expression fires, also across a skipped or repeated hour (`NextIsLeast`), and
  the range of a claim walks the times without a gap (`OutcomeIsWhole`). `Inv`
  adds what a worker's claim still says of the row (`WorkerKnows`), that the row
  stands at a fire time after all that was consumed (`RowStands`) and that a
  lease is the last thing written to its row (`LeaseIsLast`).
- **RetentionProofs**: `TypeCorrect`, `NothingNeeded`, `CountsAreExact`. `Inv`
  adds that whatever a batch has selected or locked was erasable when it looked
  and still is, and that no two batches have locked one detail (`Chosen`): nothing that was settled opens again, which is where
  DeliveryContract, and with it the refinement by ActionDelivery, is used.

`VerdictsFinal`, `RequestsHydrate` and `PromptHoldersKeepTheirClaim` are proved
without a run of their own; the first two once were runs' properties, and the
third needs constants that exclude what the claims run is about.

The inductive invariants were checked by TLC on the runs' instances before they
were proved. Only model-checked: the liveness properties (`RunSettles`,
`CancelledCallsClose`, `ExpiryIsDetected`, `ClaimedAgain`, `ReadRunsSettle`,
`DueIsProcessed`, `BacklogIsErased`), which need fairness and are out of the
prover's reach, and the four violations.

## 5. Where the code and its documents disagree

1. `_fail` fails the first ready or executing step, also a WRITE step whose call
   has started. The action stays dispatching under a failed run and a failed
   step, and no recovery accepts it. `docs/verification/requirements/API-09.md`
   lines 71-73 promise receipt-first recovery of such a call
   (`InFlightCallStaysRecoverable`).
2. An approval that commits between the SELECTs of the polling worker makes the
   worker fail the run, also the run that the approval has just released;
   `docs/implementation-plan/06-approvals-external-actions-and-idempotency.md`
   line 129 wants an actionable state after a failed check
   (`CheckFailureKeepsRun`).
3. A shutdown or a lost lease during a READ call closes the attempt as cancelled,
   which fails the run; `workers/runtime/run_loop.py` lines 80-81 say that a
   stopped process never invents a call outcome (`StoppedCallStaysOpen`).
4. The stored receipt of an action that did not succeed makes `_erase` refuse its
   batch. The error ends the scheduler process, and every later occurrence meets
   the same receipt first, so erasure never resumes; `docs/operations.md` lines
   135-138 say that a restart resumes it (`MaintenanceResumes`).

A related observation without a document to hold against it: a run that fails
while awaiting approval leaves its set open, and its requests can still be
renewed, though never decided.

Others of that kind: `list_all` of the instance configurations takes two
SELECTs and may report tampering that a concurrent update explains; after a
backward step of the clock the pruned webhook rate windows grant a fresh quota.

## 6. Not modelled, and the plan

Most of the repository's 110,000 lines keep no state that interleaves: HTTP
routes and schemas, digests and signatures, audit event schemas, observability,
migrations, catalog data and its compiler, router and effect planner, LLM
adapters, the demos other than the email handler's control flow, the web UI and
the release scripts. They are pure functions, declarations or I/O, and the
models contain what the control plane does with their results. The mapped lines
are about an eighth of the total for that reason.

Within reach and not modelled: the sequence numbers of the audit timeline, the
windows of the in-memory webhook rate limit, the validation of the dependency
graph, the registration of a WRITE plan (its result is where ApprovalBarrier
starts), and the choice among several runs in `claim_once`.

Next, in this order:

1. Compositions: the hand-over from ApprovalBarrier to ActionDelivery in one
   module, and RunClaims as an implementation of the claim variable of the
   others.
2. The audit sequence and the dependency graph's topological order against a
   reference definition.
