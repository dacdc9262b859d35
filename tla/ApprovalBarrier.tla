--------------------------- MODULE ApprovalBarrier ---------------------------
(***************************************************************************)
(* The all-approvals-before-any-call barrier of ONE write-bearing run.     *)
(*                                                                         *)
(* The model starts where the plan has been persisted (every external      *)
(* action awaiting approval, one pending approval request each, the        *)
(* authorization set open, the run awaiting_approval) and follows the      *)
(* approvers who decide, the requesters who renew expired requests, the    *)
(* operator who cancels, the clock, and the run workers that poll the      *)
(* barrier.  It ends where ActionDelivery starts: at the release.          *)
(*                                                                         *)
(* The units of work of the API are atomic here: each of them locks the    *)
(* run row when it appends its audit events and compares the version of    *)
(* every row it writes, so the loser of a race rolls back.  The worker's   *)
(* evaluation is not: it is a series of SELECTs under READ COMMITTED, with *)
(* the commits of the API in between.                                      *)
(***************************************************************************)
EXTENDS Integers

CONSTANTS
  Actions,         \* the external actions of the authorization set
  Workers,         \* run worker processes
  NoWorker,        \* the claim row is free or its lease has expired
  MaxGeneration,   \* bound on the approval generations of an action
  MaxFaults,       \* bound on crashes and stalls
  InternalErrors   \* may an advancement fail for reasons of its own

ASSUME ActionsAssumption == Actions # {}
ASSUME WorkersAssumption == NoWorker \notin Workers
ASSUME GenerationAssumption == MaxGeneration \in Nat \ {0}
ASSUME FaultsAssumption == MaxFaults \in Nat
ASSUME ErrorsAssumption == InternalErrors \in BOOLEAN

VARIABLES
  \* the database
  run,      \* run.state
  set,      \* authorization_sets.status of the current set
  act,      \* external_actions.state
  step,     \* run_steps.state of the WRITE step of each action
  leaf,     \* approval_requests.status of the current generation
  gen,      \* the current generation
  due,      \* the clock has passed expires_at of the current generation
  claim,    \* the worker whose run claim is current
  \* each worker process
  pc,       \* where its advancement of the run stands
  seen,     \* the leaves and generations its evaluation has loaded
  \* history and bounds
  granted,  \* the generations that were approved
  faults    \* faults spent so far

db == <<run, set, act, step, leaf, gen, due>>
vars == <<run, set, act, step, leaf, gen, due, claim, pc, seen, granted, faults>>

Generations == 1..MaxGeneration
RunStates == {"awaiting_approval", "executing", "rejected", "cancelled", "failed"}
SetStates == {"open", "released", "rejected", "cancelled"}
ActionStates == {"awaiting_approval", "approved", "rejected", "dispatch_reserved", "cancelled"}
StepStates == {"awaiting_approval", "ready", "rejected", "cancelled", "failed", "skipped"}
LeafStates == {"pending", "approved", "rejected", "expired", "consumed", "superseded"}
Live == {"pending", "approved"}  \* the statuses that a deadline can still expire

TypeOK ==
  /\ run \in RunStates
  /\ set \in SetStates
  /\ act \in [Actions -> ActionStates]
  /\ step \in [Actions -> StepStates]
  /\ leaf \in [Actions -> LeafStates]
  /\ gen \in [Actions -> Generations]
  /\ due \in [Actions -> BOOLEAN]
  /\ claim \in Workers \cup {NoWorker}
  /\ pc \in [Workers -> {"idle", "evaluating", "failing"}]
  /\ seen \in [Workers -> [leaf : [Actions -> LeafStates], gen : [Actions -> Generations]]]
  /\ granted \in [Actions -> SUBSET Generations]
  /\ faults \in 0..MaxFaults

Init ==
  /\ run = "awaiting_approval"
  /\ set = "open"
  /\ act = [a \in Actions |-> "awaiting_approval"]
  /\ step = [a \in Actions |-> "awaiting_approval"]
  /\ leaf = [a \in Actions |-> "pending"]
  /\ gen = [a \in Actions |-> 1]
  /\ due = [a \in Actions |-> FALSE]
  /\ claim = NoWorker
  /\ pc = [w \in Workers |-> "idle"]
  /\ seen = [w \in Workers |-> [leaf |-> leaf, gen |-> gen]]
  /\ granted = [a \in Actions |-> {}]
  /\ faults = 0

-----------------------------------------------------------------------------
(* The outcomes of ApprovalBoundaryService.evaluate_in_uow, from the leaves *)
(* lv and the action states ac that its unit of work has reached.           *)

\* Mutant: closing the set leaves the approved siblings of a veto approved.
CloseSetPendingOnly(status, lv, ac) ==
  /\ run' = status
  /\ set' = status
  /\ act' = [a \in Actions |-> IF lv[a] \in {"rejected", "approved"} THEN ac[a] ELSE "cancelled"]
  /\ step' = [a \in Actions |-> IF lv[a] = "rejected" THEN "rejected" ELSE "cancelled"]
  /\ leaf' = [a \in Actions |-> IF lv[a] = "pending" THEN "superseded" ELSE lv[a]]

\* close_current_set: the run and every step end; a rejected action keeps its
\* rejection, all others are cancelled and their live leaves superseded.
CloseSet(status, lv, ac) ==
  /\ run' = status
  /\ set' = status
  /\ act' = [a \in Actions |-> IF lv[a] = "rejected" THEN ac[a] ELSE "cancelled"]
  /\ step' = [a \in Actions |-> IF lv[a] = "rejected" THEN "rejected" ELSE "cancelled"]
  /\ leaf' = [a \in Actions |-> IF lv[a] \in Live THEN "superseded" ELSE lv[a]]

\* mark_expired of every stale leaf: an approved action waits again.
ExpireLeaves(stale, lv, ac) ==
  /\ leaf' = [a \in Actions |-> IF a \in stale THEN "expired" ELSE lv[a]]
  /\ act' = [a \in Actions |-> IF a \in stale THEN "awaiting_approval" ELSE ac[a]]
  /\ UNCHANGED <<run, set, step>>

\* release_current_set: consume, reserve and start everything together.
ReleaseSet ==
  /\ run' = "executing"
  /\ set' = "released"
  /\ act' = [a \in Actions |-> "dispatch_reserved"]
  /\ step' = [a \in Actions |-> "ready"]
  /\ leaf' = [a \in Actions |-> "consumed"]

\* The barrier stays closed.
KeepWaiting(lv, ac) == leaf' = lv /\ act' = ac /\ UNCHANGED <<run, set, step>>

Stale(lv, passed) == {a \in Actions : lv[a] \in Live /\ passed[a]}
Vetoed(lv) == \E a \in Actions : lv[a] = "rejected"

\* Mutant: an expired approval does not hold the others back.
NobodyPending(lv) == \A a \in Actions : lv[a] \in {"approved", "expired"}

Unanimous(lv) == \A a \in Actions : lv[a] = "approved"

\* Mutant: the expiry is checked at decision time only.
EvaluateIgnoringExpiry(lv, ac, passed) ==
  \/ Vetoed(lv) /\ CloseSet("rejected", lv, ac)
  \/ Unanimous(lv) /\ ReleaseSet
  \/ ~Vetoed(lv) /\ ~Unanimous(lv) /\ Stale(lv, passed) # {}
     /\ ExpireLeaves(Stale(lv, passed), lv, ac)
  \/ ~Vetoed(lv) /\ ~Unanimous(lv) /\ Stale(lv, passed) = {} /\ KeepWaiting(lv, ac)

\* A veto closes the set, else stale leaves expire, else unanimity releases.
Evaluate(lv, ac, passed) ==
  \/ Vetoed(lv) /\ CloseSet("rejected", lv, ac)
  \/ ~Vetoed(lv) /\ Stale(lv, passed) # {} /\ ExpireLeaves(Stale(lv, passed), lv, ac)
  \/ Unanimous(lv) /\ Stale(lv, passed) = {} /\ ReleaseSet
  \/ ~Vetoed(lv) /\ ~Unanimous(lv) /\ Stale(lv, passed) = {} /\ KeepWaiting(lv, ac)

-----------------------------------------------------------------------------
(* The API and the clock.                                                  *)

\* decide_in_uow refuses what is not the pending, unexpired current leaf of an
\* open set under an awaiting run.
Decidable(a) ==
  /\ run = "awaiting_approval" /\ set = "open"
  /\ leaf[a] = "pending" /\ act[a] = "awaiting_approval" /\ ~due[a]

\* Mutant: a decision is recorded without evaluating the barrier.
DecideOnly(a, verdict) ==
  /\ Decidable(a)
  /\ leaf' = [leaf EXCEPT ![a] = verdict]
  /\ act' = [act EXCEPT ![a] = verdict]
  /\ granted' = [granted EXCEPT ![a] = IF verdict = "approved" THEN @ \cup {gen[a]} ELSE @]
  /\ UNCHANGED <<run, set, step, gen, due, claim, pc, seen, faults>>

\* ApprovalDecisionService.decide: the decision and the evaluation are one
\* unit of work, which reads the clock once for each.
Decide(a, verdict) ==
  /\ Decidable(a)
  /\ due' \in {due, [due EXCEPT ![a] = TRUE]}
  /\ granted' = [granted EXCEPT ![a] = IF verdict = "approved" THEN @ \cup {gen[a]} ELSE @]
  /\ Evaluate([leaf EXCEPT ![a] = verdict], [act EXCEPT ![a] = verdict], due')
  /\ UNCHANGED <<gen, claim, pc, seen, faults>>

\* The action state that belongs to a renewable leaf.
RenewableState(status) == IF status = "approved" THEN "approved" ELSE "awaiting_approval"

\* Mutant: the expiry and the renewal each advance the generation.
RenewBumpsTwice(a) ==
  /\ leaf[a] = "expired" \/ (leaf[a] \in Live /\ due[a])
  /\ act[a] = RenewableState(leaf[a])
  /\ gen[a] < MaxGeneration
  /\ gen' = [gen EXCEPT ![a] = @ + 2]
  /\ leaf' = [leaf EXCEPT ![a] = "pending"]
  /\ act' = [act EXCEPT ![a] = "awaiting_approval"]
  /\ due' = [due EXCEPT ![a] = FALSE]
  /\ UNCHANGED <<run, set, step, claim, pc, seen, granted, faults>>

\* renew_expired: replace a leaf past its deadline by the next generation.
\* Neither the run nor the set is looked at.
Renew(a) ==
  /\ leaf[a] = "expired" \/ (leaf[a] \in Live /\ due[a])
  /\ act[a] = RenewableState(leaf[a])
  /\ gen[a] < MaxGeneration
  /\ gen' = [gen EXCEPT ![a] = @ + 1]
  /\ leaf' = [leaf EXCEPT ![a] = "pending"]
  /\ act' = [act EXCEPT ![a] = "awaiting_approval"]
  /\ due' = [due EXCEPT ![a] = FALSE]
  /\ UNCHANGED <<run, set, step, claim, pc, seen, granted, faults>>

\* _cancel_once before the release (ActionDelivery!CancelRun is the other one).
Cancel ==
  /\ run = "awaiting_approval" /\ set = "open"
  /\ CloseSet("cancelled", leaf, act)
  /\ UNCHANGED <<gen, due, claim, pc, seen, granted, faults>>

Tick(a) ==
  /\ leaf[a] \in Live /\ ~due[a]
  /\ due' = [due EXCEPT ![a] = TRUE]
  /\ UNCHANGED <<run, set, act, step, leaf, gen, claim, pc, seen, granted, faults>>

-----------------------------------------------------------------------------
(* A run worker that polls the barrier.                                    *)

\* claim_once, and the SELECTs of _load_current.
Load(w) ==
  /\ pc[w] = "idle" /\ claim = NoWorker /\ run = "awaiting_approval"
  /\ claim' = w
  /\ pc' = [pc EXCEPT ![w] = "evaluating"]
  /\ seen' = [seen EXCEPT ![w] = [leaf |-> leaf, gen |-> gen]]
  /\ UNCHANGED <<db, granted, faults>>

Proceed(w, where) ==
  /\ pc' = [pc EXCEPT ![w] = where]
  /\ UNCHANGED <<gen, due, claim, seen, granted, faults>>

\* Another unit of work committed between the SELECTs of this one.
Torn(w) == run # "awaiting_approval" \/ leaf # seen[w].leaf \/ gen # seen[w].gen

\* Mutant: the worker evaluates but never persists an expiry.
EvaluateWholeIdly(w) ==
  /\ pc[w] = "evaluating" /\ ~Torn(w)
  /\ KeepWaiting(leaf, act)
  /\ Proceed(w, "idle")

\* A consistent load: evaluate it and commit.
EvaluateWhole(w) ==
  /\ pc[w] = "evaluating" /\ ~Torn(w)
  /\ Evaluate(leaf, act, due)
  /\ Proceed(w, "idle")

Unmoved(w, a) == leaf[a] = seen[w].leaf[a] /\ gen[a] = seen[w].gen[a]

\* A torn load, stale leaves: mark_expired compares only the versions of the
\* leaves it expires and of their actions, so changed siblings go unnoticed.
EvaluateTornExpiry(w) ==
  LET stale == Stale(seen[w].leaf, due) IN
  /\ pc[w] = "evaluating" /\ Torn(w)
  /\ stale # {} /\ \A a \in stale : Unmoved(w, a)
  /\ ExpireLeaves(stale, leaf, act)
  /\ Proceed(w, "idle")

\* A torn load in which the evaluation finds nothing to do.
EvaluateTornNothing(w) ==
  /\ pc[w] = "evaluating" /\ Torn(w)
  /\ Stale(seen[w].leaf, due) = {}
  /\ KeepWaiting(leaf, act)
  /\ Proceed(w, "idle")

\* A torn load that a check rejects: the run is not awaiting any more, a leaf
\* disagrees with its action or its history, or a compare-and-swap is lost.
EvaluateTornRaise(w) ==
  /\ pc[w] = "evaluating" /\ Torn(w)
  /\ KeepWaiting(leaf, act)
  /\ Proceed(w, "failing")

\* The advancement raises for a reason of its own, or times out.
InternalError(w) ==
  /\ InternalErrors /\ pc[w] = "evaluating"
  /\ KeepWaiting(leaf, act)
  /\ Proceed(w, "failing")

\* RunWorker._fail, fenced by the claim: an awaiting run fails alone, with its
\* set left open; a run that was released meanwhile (nobody dispatches it
\* while this worker holds the claim) fails with its cleanup.
FailRun(w) ==
  /\ pc[w] = "failing"
  /\ \/ /\ claim = w /\ run = "awaiting_approval"
        /\ run' = "failed"
        /\ UNCHANGED <<act, step>>
     \/ /\ claim = w /\ run = "executing"
        /\ run' = "failed"
        /\ act' = [a \in Actions |-> "cancelled"]
        /\ \E first \in Actions :
             step' = [a \in Actions |-> IF a = first THEN "failed" ELSE "skipped"]
     \/ /\ claim # w \/ run \notin {"awaiting_approval", "executing"}
        /\ UNCHANGED <<run, act, step>>
  /\ UNCHANGED <<set, leaf>>
  /\ Proceed(w, "idle")

\* The finally block releases the claim, or its lease runs out.
ClaimFreed ==
  /\ claim \in Workers /\ pc[claim] = "idle"
  /\ claim' = NoWorker
  /\ UNCHANGED <<db, pc, seen, granted, faults>>

Fault == faults < MaxFaults /\ faults' = faults + 1

\* The process crashes, shuts down, or its renewer finds the claim gone.
Stop(w) ==
  /\ Fault
  /\ pc[w] # "idle"
  /\ pc' = [pc EXCEPT ![w] = "idle"]
  /\ UNCHANGED <<db, claim, seen, granted>>

\* A worker stalls past its lease while it is still working.
ClaimStalls ==
  /\ Fault
  /\ claim \in Workers /\ pc[claim] # "idle"
  /\ claim' = NoWorker
  /\ UNCHANGED <<db, pc, seen, granted>>

-----------------------------------------------------------------------------
Api ==
  \/ \E a \in Actions : Decide(a, "approved") \/ Decide(a, "rejected") \/ Renew(a)
  \/ Cancel

Worker(w) ==
  \/ Load(w) \/ EvaluateWhole(w) \/ EvaluateTornExpiry(w) \/ EvaluateTornNothing(w)
  \/ EvaluateTornRaise(w) \/ InternalError(w) \/ FailRun(w)

\* Nothing is left to wait for.
Done ==
  /\ run # "awaiting_approval" /\ \A w \in Workers : pc[w] = "idle"
  /\ UNCHANGED vars

Next ==
  \/ Api
  \/ \E a \in Actions : Tick(a)
  \/ \E w \in Workers : Worker(w) \/ Stop(w)
  \/ ClaimFreed \/ ClaimStalls
  \/ Done

Spec == Init /\ [][Next]_vars

(* A worker process that is not dead takes its next step, idle workers poll *)
(* the awaiting runs, and claims are released or expire.  Nobody is forced  *)
(* to decide, renew or cancel, and faults never have to happen.             *)
Fairness ==
  /\ \A w \in Workers : WF_vars(Worker(w))
  /\ WF_vars(ClaimFreed)

FairSpec == Spec /\ Fairness

-----------------------------------------------------------------------------
(* Safety.                                                                 *)

\* ADR-0004 and the all-approvals-before-any-call barrier: nothing is
\* consumed, reserved or ready unless the whole set was released, with an
\* approval of the current generation of every action; and what is handed to
\* the dispatcher is the complete plan, armed exactly while the run executes.
AllOrNothing ==
  /\ \A a \in Actions :
       (leaf[a] = "consumed" \/ act[a] = "dispatch_reserved" \/ step[a] = "ready")
         => set = "released"
  /\ set = "released" =>
       /\ \A a \in Actions : leaf[a] = "consumed" /\ gen[a] \in granted[a]
       /\ run \in {"executing", "failed"}
  /\ run = "executing" =>
       /\ set = "released"
       /\ \A a \in Actions : act[a] = "dispatch_reserved" /\ step[a] = "ready"

\* One rejection closes the whole set, whatever was approved, expired or
\* renewed around it: no sibling stays approvable or approved.
VetoCloses ==
  \A a \in Actions :
    leaf[a] = "rejected" =>
      /\ set = "rejected" /\ run = "rejected"
      /\ \A b \in Actions :
           /\ act[b] = IF leaf[b] = "rejected" THEN "rejected" ELSE "cancelled"
           /\ leaf[b] \in {"rejected", "expired", "superseded"}

\* The rule by which every load re-validates a persisted request against its
\* action (_hydrate_unchecked) never rejects what the services committed.
LeafAgrees ==
  \A a \in Actions :
    /\ leaf[a] = "pending" => act[a] = "awaiting_approval"
    /\ leaf[a] \in {"approved", "rejected"} => act[a] = leaf[a]
    /\ leaf[a] = "expired" =>
         \/ act[a] = "awaiting_approval"
         \/ act[a] = "cancelled" /\ set \in {"rejected", "cancelled"}
    /\ leaf[a] = "consumed" => act[a] \in {"dispatch_reserved", "cancelled"}
    /\ leaf[a] = "superseded" => act[a] = "cancelled" /\ set \in {"rejected", "cancelled"}

\* No approved plan is stranded: an awaiting run has an open set, and if all
\* of its leaves are approved one of them has passed its deadline.
NoStrandedApproval ==
  run = "awaiting_approval" =>
    /\ set = "open"
    /\ Unanimous(leaf) => Stale(leaf, due) # {}

\* "Check expiry twice": the release consumes only approvals whose deadline is
\* still ahead when the barrier opens, and a closed set never reopens.
ReleaseIsFresh ==
  [][/\ set # "open" => set' = set
     /\ (set = "open" /\ set' = "released") =>
          \A a \in Actions : gen'[a] \in granted'[a] /\ ~due'[a]]_vars

\* "If any check fails, consume none, reserve none, dispatch none, and return
\* the run to an actionable awaiting/rejected/cancelled state": with no error
\* of its own, evaluating the barrier never fails the run.
CheckFailureKeepsRun == run # "failed"

-----------------------------------------------------------------------------
(* Liveness.                                                               *)

\* A leaf whose deadline passes under an awaiting run is noticed: it is
\* expired, renewed, or the run moves on.
ExpiryIsDetected ==
  \A a \in Actions :
    (run = "awaiting_approval" /\ leaf[a] \in Live /\ due[a])
      ~> (run # "awaiting_approval" \/ leaf[a] \notin Live \/ ~due[a])

=============================================================================
