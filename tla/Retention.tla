------------------------------ MODULE Retention ------------------------------
(***************************************************************************)
(* Retention: the scheduler processes erase expired detail in batches, one *)
(* occurrence per UTC minute, each under a lease and in one transaction    *)
(* (infrastructure/db/repositories/retention.py and retention_tracking.py, *)
(* application/services/retention_maintenance.py,                          *)
(* workers/runtime/retention.py).                                          *)
(*                                                                         *)
(* It works on the details of a released run with one action and on an     *)
(* event of no run.  What happens to the run is whatever DeliveryContract  *)
(* allows: every behaviour of ActionDelivery is one of those.              *)
(*                                                                         *)
(* A transaction is split at its statements: under READ COMMITTED the      *)
(* candidates are found in a snapshot, locked one by one, and used later.  *)
(* Time is relative: a lease counts down, a minute has Minute ticks, and   *)
(* of an expiry only its order and whether it has passed is kept.          *)
(***************************************************************************)
EXTENDS Integers, FiniteSets, Sequences

CONSTANTS
  Workers,      \* scheduler processes
  Batch,        \* details per occurrence
  Minute,       \* ticks of one UTC minute
  Lease,        \* ticks of an occurrence's lease
  AttemptLimit, \* delivery attempts of the action
  ExpiryOrder,  \* the details in the order in which they expire
  Legacy,       \* details that predate the expiry tracking
  MaxFaults     \* process deaths and batches slower than their lease

Details == {"source", "summary", "receipt", "event"}

ASSUME RetentionAssumption ==
  /\ Batch \in Nat \ {0} /\ Lease \in Nat \ {0}
  /\ Minute \in Nat /\ Minute > Lease /\ MaxFaults \in Nat
  /\ {ExpiryOrder[i] : i \in DOMAIN ExpiryOrder} = Details
  /\ Len(ExpiryOrder) = Cardinality(Details) /\ Legacy \subseteq Details

VARIABLES
  outcome, status, calls, \* the run, as DeliveryContract has it
  held,     \* whether a worker holds a live claim on the run
  detail,   \* what is stored of each detail
  tracked,  \* details whose expiry is recorded
  job,      \* the occurrences of the current and of the previous minute
  phase,    \* ticks of the current minute
  proc,     \* the scheduler processes
  reported, \* sum of the counts in the retention.completed audit events
  faults

runVars == <<outcome, status, calls, held>>
vars == <<outcome, status, calls, held, detail, tracked, job, phase, proc, reported, faults>>

Delivery == INSTANCE DeliveryContract WITH Actions <- {"action"}, Idempotent <- {"action"}

\* An event of no run, such as a configuration change, is nobody's.
OfRun(d) == d # "event"

\* The artifacts that name an artifact as their parent.
Children(d) == IF d = "source" THEN {"summary"} ELSE {}

\* Stored states of a detail.
DetailStates == {"absent", "live", "expired", "purged"}

\* An occurrence's row: the scope frozen by its cutoff is the set of details
\* that had expired, and whether the run was free.
NoJob == [state |-> "none", version |-> 0, left |-> 0, scope |-> {}, free |-> FALSE]

\* Nobody looks at the scope of a completed occurrence.
Completed == [NoJob EXCEPT !.state = "completed"]

Idle == [pc |-> "idle", at |-> "now", version |-> 0, page |-> {}, found |-> {}, locked |-> {}]

Init ==
  /\ Delivery!Init /\ held = TRUE
  /\ detail = [d \in Details |-> IF d = "receipt" THEN "absent" ELSE "live"]
  /\ tracked = Details \ (Legacy \cup {"receipt"})
  /\ job = [now |-> NoJob, before |-> NoJob] /\ phase = 0
  /\ proc = [w \in Workers |-> Idle] /\ reported = 0 /\ faults = 0

(***************************************************************************)
(* The run.                                                                *)
(***************************************************************************)

Present(d) == detail[d] # "absent"

\* Delivery goes on as its contract says; a success rests on the receipt.
Deliveries ==
  /\ Delivery!Next
  /\ status'["action"] = "succeeded" => Present("receipt")
  /\ UNCHANGED <<held, detail, tracked, job, phase, proc, reported, faults>>

Earlier(d, e) == \E i, j \in DOMAIN ExpiryOrder : i < j /\ ExpiryOrder[i] = d /\ ExpiryOrder[j] = e

HasExpired(d) == detail[d] \in {"expired", "purged"}

\* The connector stores its receipt, also long after its call was given up
\* (_track_new_details records the expiry in the same flush).
Deliver ==
  /\ calls["action"] > 0 /\ ~Present("receipt")
  /\ \A d \in Details : Earlier("receipt", d) => ~HasExpired(d)
  /\ detail' = [detail EXCEPT !["receipt"] = "live"]
  /\ tracked' = tracked \cup {"receipt"}
  /\ UNCHANGED <<runVars, job, phase, proc, reported, faults>>

\* claim_once: active runs, and cancelled ones with an open call.
Claimable == outcome = "open" \/ (outcome = "cancelled" /\ status["action"] = "calling")

\* The claim expires after the cutoff of every occurrence there is.
ClaimRun ==
  /\ ~held /\ Claimable /\ held' = TRUE
  /\ job' = [o \in DOMAIN job |-> [job[o] EXCEPT !.free = FALSE]]
  /\ UNCHANGED <<outcome, status, calls, detail, tracked, phase, proc, reported, faults>>

ClaimEnds ==
  /\ held /\ held' = FALSE
  /\ UNCHANGED <<outcome, status, calls, detail, tracked, job, phase, proc, reported, faults>>

(***************************************************************************)
(* What may be erased.                                                     *)
(***************************************************************************)

\* _eligible_runs: the run has ended, no action is unresolved (what awaits an
\* operator as outcome_unknown is), and no worker holds it as of the cutoff.
\* The READ attempts that must be closed too closed before the release.
Settled == outcome # "open" /\ status["action"] \in {"succeeded", "failed", "cancelled"}

\* Mutant: unresolved actions are not looked for.
EligibleWhenEnded(free) == outcome # "open" /\ free

Eligible(free) == Settled /\ free

\* Parent provenance stays until every child has been erased.
HasLiveChild(d) == \E c \in Children(d) : detail[c] # "purged"

\* _candidates, of the details whose expiry is known.
Candidates(j, known) ==
  {d \in j.scope \cap known :
     /\ detail[d] = "expired" /\ ~HasLiveChild(d)
     /\ OfRun(d) => Eligible(j.free)}

\* The first n of a set of details, in the order of their expiry.
FirstOf(n, ds) == {d \in ds : Cardinality({e \in ds : Earlier(e, d)}) < n}

\* _erase finds the receipt of an action that did not succeed: the action
\* names no receipt, and the batch is refused as retention_receipt_corrupt.
Orphan == Present("receipt") /\ detail["receipt"] # "purged" /\ status["action"] \in {"failed", "cancelled"}

(***************************************************************************)
(* The scheduler processes.                                                *)
(***************************************************************************)

InTransaction(w) == proc[w].pc \in {"inserting", "locking", "committing"}

\* The row lock of an occurrence.
Locked(o) == \E w \in Workers : InTransaction(w) /\ proc[w].at = o

Job(w) == job[proc[w].at]

\* The process ends and is started again, which may take any time: an idle
\* process need not act.
Die(w) ==
  /\ proc' = [proc EXCEPT ![w] = Idle]
  /\ UNCHANGED <<runVars, detail, tracked, job, phase, reported, faults>>

\* Mutant: the lease is not looked at.
FreeUnlessCompleted(j) == j.state # "completed"

\* Who may run the occurrence: the first comer, or whoever finds it running
\* under an expired lease.
Free(j) == j.state = "none" \/ (j.state = "running" /\ j.left = 0)

\* The cutoff is the first claim's and survives every later one.
Scope(j) ==
  IF j.state = "none"
  THEN [j EXCEPT !.scope = {d \in Details : HasExpired(d)}, !.free = ~held]
  ELSE j

\* drain_once claims the occurrence of this minute.  Whoever finds it held
\* or completed (a replay) changes nothing and asks again later.
Claim(w) ==
  /\ proc[w].pc = "idle" /\ ~Locked("now") /\ Free(job.now)
  /\ job' = [job EXCEPT !.now = [Scope(job.now) EXCEPT !.state = "running",
                                   !.version = job.now.version + 1, !.left = Lease]]
  /\ proc' = [proc EXCEPT ![w].pc = "claimed", ![w].version = job.now.version + 1]
  /\ UNCHANGED <<runVars, detail, tracked, phase, reported, faults>>

\* execute looks at its lease, locks the row and compares its version (every
\* other field of the lease follows it) ...
HoldsClaim(w) == Job(w).state = "running" /\ Job(w).version = proc[w].version

\* Mutant: legacy rows are left to a migration that never registers them.
UntrackedNever == {}

Untracked == {d \in Details : Present(d)} \ tracked

\* ... and _register_legacy selects a page of rows without a known expiry.
Begin(w) ==
  /\ proc[w].pc = "claimed" /\ Job(w).left > 0 /\ ~Locked(proc[w].at) /\ HoldsClaim(w)
  /\ \E page \in SUBSET Untracked :
       /\ Cardinality(page) = Batch \/ (page = Untracked /\ Cardinality(page) < Batch)
       /\ proc' = [proc EXCEPT ![w].pc = "inserting", ![w].page = page]
  /\ UNCHANGED <<runVars, detail, tracked, job, phase, reported, faults>>

\* retention_lease_expired or retention_stale_claim ends the process.
BeginFails(w) ==
  /\ proc[w].pc = "claimed" /\ ~Locked(proc[w].at) /\ (Job(w).left = 0 \/ ~HoldsClaim(w))
  /\ Die(w)

\* The page is inserted after whoever is inserting the same rows ...
MayInsert(w) ==
  /\ proc[w].pc = "inserting"
  /\ \A v \in Workers \ {w} : proc[v].pc \in {"locking", "committing"} => proc[v].page \cap proc[w].page = {}

\* ... and the SELECT finds its candidates in a snapshot.
Select(w) ==
  /\ MayInsert(w) /\ proc[w].page \cap tracked = {}
  /\ proc' = [proc EXCEPT ![w].pc = "locking", ![w].found = Candidates(Job(w), tracked \cup proc[w].page)]
  /\ UNCHANGED <<runVars, detail, tracked, job, phase, reported, faults>>

\* The other one has committed: IntegrityError ends the process.
InsertFails(w) == MayInsert(w) /\ proc[w].page \cap tracked # {} /\ Die(w)

\* Mutant: the candidates are used as the snapshot has them.
StillThereBlindly(w) == proc[w].found

\* The candidates are locked in order up to the limit.  A row that somebody
\* else has locked is waited for and looked at again: if it was erased, the
\* next is taken.
StillThere(w) == {d \in proc[w].found : detail[d] = "expired"}

Locking(w) ==
  /\ proc[w].pc = "locking"
  /\ \A v \in Workers \ {w} : proc[v].locked \cap FirstOf(Batch, StillThere(w)) = {}

\* _erase refuses the whole batch for an orphaned receipt.
Refused(w) == Orphan /\ "receipt" \in FirstOf(Batch, StillThere(w))

\* They are erased, and the clock is looked at again.
Erase(w) ==
  /\ Locking(w) /\ ~Refused(w) /\ Job(w).left > 0
  /\ proc' = [proc EXCEPT ![w].pc = "committing", ![w].found = {},
                          ![w].locked = FirstOf(Batch, StillThere(w))]
  /\ UNCHANGED <<runVars, detail, tracked, job, phase, reported, faults>>

EraseFails(w) == Locking(w) /\ (Refused(w) \/ Job(w).left = 0) /\ Die(w)

\* The details, the registered page, the count-only audit event and the
\* completed occurrence commit together.
Commit(w) ==
  /\ proc[w].pc = "committing"
  /\ detail' = [d \in Details |-> IF d \in proc[w].locked THEN "purged" ELSE detail[d]]
  /\ tracked' = tracked \cup proc[w].page
  /\ job' = [job EXCEPT ![proc[w].at] = Completed]
  /\ reported' = reported + Cardinality(proc[w].locked)
  /\ proc' = [proc EXCEPT ![w] = Idle]
  /\ UNCHANGED <<runVars, phase, faults>>

\* Process death at any point rolls back what was not committed.
Crash(w) ==
  /\ proc[w].pc # "idle" /\ faults < MaxFaults
  /\ faults' = faults + 1
  /\ proc' = [proc EXCEPT ![w] = Idle]
  /\ UNCHANGED <<runVars, detail, tracked, job, phase, reported>>

(***************************************************************************)
(* Time.                                                                   *)
(***************************************************************************)

\* Details expire in their order (expires_at is fixed when they are stored).
Expire(d) ==
  /\ detail[d] = "live" /\ \A e \in Details : Earlier(e, d) => detail[e] # "live"
  /\ detail' = [detail EXCEPT ![d] = "expired"]
  /\ UNCHANGED <<runVars, tracked, job, phase, proc, reported, faults>>

\* A process that works on an occurrence while its lease runs out is a fault.
Overrun == \E w \in Workers : proc[w].pc = "claimed" \/ InTransaction(w)

Aged(j) == [j EXCEPT !.left = IF @ = 0 THEN 0 ELSE @ - 1]

\* The minute turns only when nobody is left with the one before it: no
\* process stalls for two minutes.
Tick ==
  /\ IF Overrun THEN faults < MaxFaults /\ faults' = faults + 1 ELSE UNCHANGED faults
  /\ IF phase + 1 < Minute
     THEN /\ phase' = phase + 1 /\ UNCHANGED proc
          /\ job' = [o \in DOMAIN job |-> Aged(job[o])]
     ELSE /\ \A w \in Workers : proc[w].at = "before" => proc[w].pc = "idle"
          /\ phase' = 0
          /\ job' = [now |-> NoJob, before |-> IF Overrun THEN Aged(job.now) ELSE NoJob]
          /\ proc' = [w \in Workers |->
                        [proc[w] EXCEPT !.at = IF proc[w].pc = "idle" THEN "now" ELSE "before"]]
  /\ UNCHANGED <<runVars, detail, tracked, reported>>

Advance(w) ==
  \/ Claim(w) \/ Begin(w) \/ BeginFails(w) \/ Select(w) \/ InsertFails(w)
  \/ Erase(w) \/ EraseFails(w) \/ Commit(w)

Next ==
  \/ \E w \in Workers : Advance(w) \/ Crash(w)
  \/ Deliveries \/ Deliver
  \/ ClaimRun \/ ClaimEnds
  \/ \E d \in Details : Expire(d)
  \/ Tick

Spec == Init /\ [][Next]_vars

\* Processes run and are restarted, and the clock goes on.
FairSpec == Spec /\ WF_vars(Tick) /\ \A w \in Workers : WF_vars(Advance(w))

(***************************************************************************)
(* Properties.                                                             *)
(***************************************************************************)

Jobs == [state : {"none", "running", "completed"}, version : 0..Minute + 2, left : 0..Lease,
         scope : SUBSET Details, free : BOOLEAN]

\* Types.
TypeOK ==
  /\ held \in BOOLEAN /\ detail \in [Details -> DetailStates]
  /\ tracked \subseteq Details /\ job \in [{"now", "before"} -> Jobs] /\ phase \in 0..Minute - 1
  /\ \A w \in Workers : /\ proc[w].at \in DOMAIN job /\ proc[w].version \in 0..Minute + 2
                         /\ \A ds \in {proc[w].page, proc[w].found, proc[w].locked} : ds \subseteq Details
  /\ reported \in 0..Cardinality(Details) /\ faults \in 0..MaxFaults

\* docs/data-handling.md: active runs, unresolved actions and live worker claims
\* protect recovery material, although execute decides on a snapshot and commits
\* later; and an artifact is erased only after everything derived from it.  (The
\* document also names READ attempts: those of a released run are closed.)
NothingNeededIsErased ==
  \A d \in Details : detail[d] = "purged" =>
    /\ OfRun(d) => Settled /\ ~held
    /\ ~HasLiveChild(d)

\* The count-only audit events add up to what was erased: no detail is erased
\* by two occurrences, or by two owners of one, and none without its event.
CountsAddUp == reported = Cardinality({d \in Details : detail[d] = "purged"})

\* Expired detail that nothing protects any more.
Backlog ==
  {d \in Details : /\ detail[d] = "expired" /\ ~HasLiveChild(d)
                   /\ OfRun(d) => Settled /\ ~held}

\* The backlog is worked off again and again, however often processes die or
\* overrun their lease, unless an orphaned receipt stands in the way.
BacklogIsErased == []<>(Backlog = {} \/ Orphan)

\* docs/operations.md: "Restart the same paired installation to resume" - so
\* nothing that the system stores itself keeps maintenance from erasing.
MaintenanceResumes == []<>(Backlog = {})
=============================================================================
