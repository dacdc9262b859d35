----------------------------- MODULE Scheduling -----------------------------
(***************************************************************************)
(* The scheduler of one instance: its configuration row, the schedule row  *)
(* projected from it, and the occurrences that scheduler workers commit.   *)
(*                                                                         *)
(* A worker lists the due schedule, leases it in a second transaction,     *)
(* reads row and configuration in a third, and consumes its claim in a     *)
(* fourth that locks the configuration, then the row.  Administrators      *)
(* compare-and-swap the configuration and then the row in one transaction. *)
(* Every clock sample may be old when it is used, processes die between    *)
(* any two statements, and an unexplained error ends the worker process.   *)
(*                                                                         *)
(* Time is UTC in ticks.  A cron expression is the set of wall times it    *)
(* names in the schedule's zone, whose clock is WallClock: wall times may  *)
(* be skipped by it or occur twice.                                        *)
(***************************************************************************)
EXTENDS Integers, FiniteSets

CONSTANTS
  Workers,      \* scheduler processes
  Crons,        \* cron expressions
  Walls,        \* for each expression, the wall times it names
  WallClock,    \* the local wall time of each UTC instant
  Plans,        \* the schedules administrators choose from: expression and misfire policy
  Initial,      \* configurations to start from, each with the plan of its schedule row
  Nobody,       \* a row nobody has locked
  Admin,        \* the administrator's transaction, as a holder of locks
  Grace,        \* misfire_grace_seconds
  Lease,        \* length of a schedule lease
  MaxCoalesced, \* missed occurrences one outcome may coalesce
  MaxRevision,  \* bound on configuration revisions
  MaxTime,      \* bound on the clock
  MaxFaults     \* bound on process deaths and failed updates

\* The zone's table reaches past the clock's bound, so that a next time always exists.
Instants == DOMAIN WallClock

ASSUME TimeAssumption == MaxTime \in Nat /\ Instants \subseteq Nat /\ 0..MaxTime \subseteq Instants
ASSUME CronAssumption == Walls \in [Crons -> SUBSET Nat] /\ WallClock \in [Instants -> Nat]
ASSUME PlansAssumption == Plans \subseteq [cron: Crons, policy: {"skip", "run_once"}]
ASSUME HoldersAssumption == Nobody \notin Workers /\ Admin \notin Workers /\ Admin # Nobody
ASSUME BoundsAssumption ==
  /\ Grace \in Nat /\ Lease \in Nat \ {0} /\ MaxCoalesced \in Nat \ {0}
  /\ MaxRevision \in Nat \ {0} /\ MaxFaults \in Nat

VARIABLES
  now,         \* the clock
  conf,        \* the instance's configuration row
  row,         \* its schedule row
  lease,       \* the lease columns of that row: the claim they record
  occurrences, \* schedule_occurrences, each with its work where it admitted any
  lock,        \* who holds the row lock of the configuration and of the schedule
  wk,          \* per worker: how far it is and what it has read
  adm,         \* the administrator's update
  epoch,       \* the due time the last recalculation chose (history)
  faults

vars == <<now, conf, row, lease, occurrences, lock, wk, adm, epoch, faults>>

----------------------------------------------------------------------------
\* Recurrence.

Earliest(S) == CHOOSE t \in S : \A u \in S : t <= u
Shown == {WallClock[t] : t \in Instants}

\* A wall time that occurs twice is its first instant; one that the clock skips
\* moves to the next wall time that exists.
Resolved(w) == Earliest({t \in Instants : WallClock[t] = Earliest({v \in Shown : v >= w})})

\* Walk the wall times after the local boundary; the first that resolves to a
\* later instant is the next occurrence.
Later(cron, after) == {w \in Walls[cron] : w > WallClock[after] /\ Resolved(w) > after}
NextAfter ==
  [cron \in Crons |-> [after \in {t \in Instants : Later(cron, t) # {}} |->
     Resolved(Earliest(Later(cron, after)))]]

\* Clocks are only set back to wall times they have shown, and the table is long
\* enough for every wall time that is named and every next time that is asked for.
ASSUME ZoneAssumption ==
  \A t, u \in Instants :
    t < u => WallClock[t] < WallClock[u] \/ \E s \in Instants : s < u /\ WallClock[s] = WallClock[u]
ASSUME HorizonAssumption ==
  \A cron \in Crons :
    /\ \A w \in Walls[cron] : \E v \in Shown : v >= w
    /\ \A t \in 0..MaxTime : Later(cron, t) # {}

\* What the recurrence promises: the instants at which the expression fires.
Fires == [cron \in Crons |-> {Resolved(w) : w \in Walls[cron]}]

----------------------------------------------------------------------------
\* Configuration and its projection.

NoPlan == [cron |-> "none"]
Confs == [rev: 1..MaxRevision, on: BOOLEAN, plan: Plans \cup {NoPlan}, input: BOOLEAN]
Versions == Nat \ {0}
Claims == [due: Instants, at: 0..MaxTime, version: Versions, owner: Workers]
Rows == [on: BOOLEAN, cron: Crons, policy: {"skip", "run_once"}, next: Instants, last: Instants \cup {-1},
         rev: 1..MaxRevision, version: Versions]
Occurrences == [due: Instants, upto: Instants, next: Instants, cron: Crons,
                as: {"on_time", "skip", "run_once"}, at: Instants, rev: 1..MaxRevision]

NoRow == [version |-> 0]
NoLease == [version |-> 0]

\* A row that is there at the start is the projection of its configuration.
ASSUME InitialAssumption ==
  /\ Initial \subseteq [conf: Confs, plan: Plans \cup {NoPlan}]
  /\ \A start \in Initial : start.conf.plan \in {NoPlan, start.plan}

Runs(c) == c.on /\ c.plan # NoPlan /\ c.input
\* Mutant: a dead worker's lease stays for ever.
LeaseIsReleased(t) == lease = NoLease
LeaseIsFreeAt(t) == lease # NoLease => lease.at + Lease < t

\* The row that synchronization writes for configuration c, calculated from time at.
Recalculates(c, r) == c.plan # NoPlan /\ ((Runs(c) /\ ~r.on) \/ c.plan.cron # r.cron)
Boundary(at, r) == IF r.last > at THEN r.last ELSE at
Created(c, at) ==
  [on |-> TRUE, cron |-> c.plan.cron, policy |-> c.plan.policy, next |-> NextAfter[c.plan.cron][at],
   last |-> -1, rev |-> c.rev, version |-> 1]
NextOf(c, r, at) == IF Recalculates(c, r) THEN NextAfter[c.plan.cron][Boundary(at, r)] ELSE r.next
\* Mutants: only a running schedule is projected; a cleared plan clears the expression.
ProjectedWhenRunning(c, r, at) ==
  IF ~Runs(c) THEN r
  ELSE [on |-> TRUE, cron |-> c.plan.cron, policy |-> c.plan.policy, next |-> NextOf(c, r, at),
        last |-> r.last, rev |-> c.rev, version |-> r.version + 1]
ProjectedBare(c, r, at) ==
  [on |-> Runs(c), cron |-> c.plan.cron, policy |-> r.policy, next |-> NextOf(c, r, at),
   last |-> r.last, rev |-> c.rev, version |-> r.version + 1]
Projected(c, r, at) ==
  [on |-> Runs(c),
   cron |-> IF c.plan = NoPlan THEN r.cron ELSE c.plan.cron,
   policy |-> IF c.plan = NoPlan THEN r.policy ELSE c.plan.policy,
   next |-> NextOf(c, r, at),
   last |-> r.last, rev |-> c.rev, version |-> r.version + 1]

----------------------------------------------------------------------------
\* The misfire plan of a claim.

\* The occurrences from the due time on, as far as one outcome may reach.
Range(r, c) ==
  LET nth[k \in 0..MaxCoalesced] == IF k = 0 THEN c.due ELSE NextAfter[r.cron][nth[k - 1]]
  IN  nth

OnTime(c) == c.at - c.due <= Grace
\* The number of missed occurrences; none when they exceed the limit.
Counts(r, c) == {k \in 1..MaxCoalesced : Range(r, c)[k] > c.at}
Exhausted(r, c) == ~OnTime(c) /\ Counts(r, c) = {}
\* Mutant: one occurrence short, so that the last missed one fires again.
MissedCountShort(r, c) == IF OnTime(c) \/ Cardinality(Counts(r, c)) = MaxCoalesced THEN 1
                          ELSE Earliest(Counts(r, c)) - 1
MissedCount(r, c) == IF OnTime(c) THEN 1 ELSE Earliest(Counts(r, c))

Outcome(r, c) ==
  LET n == MissedCount(r, c)
  IN  [due |-> c.due, upto |-> Range(r, c)[n - 1], next |-> Range(r, c)[n], cron |-> r.cron,
       as |-> IF OnTime(c) THEN "on_time" ELSE r.policy,
       at |-> IF OnTime(c) THEN c.due ELSE c.at, rev |-> r.rev]

----------------------------------------------------------------------------
\* Scheduler workers.

Idle == [pc |-> "idle"]
Down == [pc |-> "down"]

Free(locks, p) == [k \in DOMAIN locks |-> IF locks[k] = p THEN Nobody ELSE locks[k]]
Goto(w, state) == wk' = [wk EXCEPT ![w] = state]
KeepDatabase == UNCHANGED <<conf, row, lease, occurrences, epoch>>
KeepOthers == UNCHANGED <<now, adm, faults>>
Read(w, state) == Goto(w, state) /\ KeepDatabase /\ UNCHANGED lock /\ KeepOthers
\* A unit of work that ends without a commit.
Abort(w, state) == Goto(w, state) /\ lock' = Free(lock, w) /\ KeepDatabase /\ KeepOthers

\* The due schedule is looked for with one sample of the clock.
ListDue(w) ==
  /\ wk[w] = Idle
  /\ row # NoRow /\ row.on /\ row.next <= now /\ LeaseIsFreeAt(now)
  /\ Read(w, [pc |-> "listed", at |-> now, due |-> row.next, version |-> row.version])

Claimable(l) == /\ row.on /\ row.version = l.version /\ row.next = l.due
                /\ row.next <= l.at /\ LeaseIsFreeAt(l.at)

TryClaim(w) ==
  LET l == wk[w]
      claim == [due |-> l.due, at |-> l.at, version |-> l.version + 1, owner |-> w]
  IN  /\ l.pc = "listed" /\ lock.row = Nobody
      /\ Claimable(l)
      /\ lease' = claim
      /\ row' = [row EXCEPT !.version = l.version + 1]
      /\ Goto(w, [pc |-> "claimed", claim |-> claim])
      /\ UNCHANGED <<conf, occurrences, epoch, lock>> /\ KeepOthers

MissClaim(w) ==
  /\ wk[w].pc = "listed" /\ lock.row = Nobody
  /\ ~Claimable(wk[w])
  /\ Read(w, Idle)

\* Row and configuration are read by two statements of one transaction.
BindRow(w) ==
  /\ wk[w].pc = "claimed"
  /\ Read(w, [pc |-> "binding", claim |-> wk[w].claim, on |-> row.on, rev |-> row.rev])

BindConfiguration(w) ==
  /\ wk[w].pc = "binding"
  /\ Read(w, IF Runs(conf) /\ wk[w].on /\ wk[w].rev = conf.rev
             THEN [pc |-> "bound", claim |-> wk[w].claim, rev |-> conf.rev]
             ELSE [pc |-> "lost", claim |-> wk[w].claim])

\* The processing unit of work first reads the row without a lock.
Begin(w) ==
  /\ wk[w].pc = "bound"
  /\ Read(w, [pc |-> "begun", claim |-> wk[w].claim, rev |-> wk[w].rev, row |-> row])

ConfigurationHolds(s) ==
  /\ Runs(conf) /\ conf.rev = s.row.rev /\ conf.rev = s.rev
  /\ conf.plan = [cron |-> s.row.cron, policy |-> s.row.policy]
ClaimMatches(s) == s.row.next = s.claim.due /\ s.row.version = s.claim.version

\* Mutant: the live lease alone is trusted, with neither row locked.
FenceByLeaseAlone(w) ==
  LET s == wk[w]
  IN  /\ s.pc = "begun" /\ lock.conf = Nobody
      /\ ConfigurationHolds(s) /\ ClaimMatches(s) /\ ~Exhausted(s.row, s.claim)
      /\ Read(w, [s EXCEPT !.pc = "fenced"])
\* Lock the configuration, check the command against it, and plan the outcome.
FenceConfiguration(w) ==
  LET s == wk[w]
  IN  /\ s.pc = "begun" /\ lock.conf = Nobody
      /\ ConfigurationHolds(s) /\ ClaimMatches(s) /\ ~Exhausted(s.row, s.claim)
      /\ lock' = [lock EXCEPT !.conf = w]
      /\ Goto(w, [s EXCEPT !.pc = "planned"])
      /\ KeepDatabase /\ KeepOthers

ConfigurationLost(w) ==
  LET s == wk[w]
  IN  /\ s.pc = "begun" /\ lock.conf = Nobody
      /\ ~(ConfigurationHolds(s) /\ ClaimMatches(s))
      /\ Abort(w, [pc |-> "lost", claim |-> s.claim])

\* More was missed than one outcome may coalesce: the planner's error is not one
\* the worker explains, and it ends the process.
PlanExhausted(w) ==
  LET s == wk[w]
  IN  /\ s.pc = "begun" /\ lock.conf = Nobody
      /\ ConfigurationHolds(s) /\ ClaimMatches(s) /\ Exhausted(s.row, s.claim)
      /\ Abort(w, [pc |-> "raised", claim |-> s.claim, range |-> TRUE])

InLease(c) == c.at <= now /\ now <= c.at + Lease
HoldsClaim(c) == lease = c /\ row.version = c.version /\ row.on /\ row.next = c.due

FenceClaim(w) ==
  LET s == wk[w]
  IN  /\ s.pc = "planned" /\ lock.row = Nobody
      /\ InLease(s.claim) /\ HoldsClaim(s.claim) /\ row = s.row
      /\ lock' = [lock EXCEPT !.row = w]
      /\ Goto(w, [s EXCEPT !.pc = "fenced"])
      /\ KeepDatabase /\ KeepOthers

\* No committed result of this claim can be found either: only its own
\* transaction writes one, and the worker calls it once.
ClaimLost(w) ==
  LET s == wk[w]
  IN  /\ s.pc \in {"planned", "fenced"}
      /\ s.pc = "planned" => lock.row = Nobody /\ (~HoldsClaim(s.claim) \/ row # s.row \/ ~InLease(s.claim))
      /\ s.pc = "fenced" => ~InLease(s.claim)
      /\ Abort(w, [pc |-> "lost", claim |-> s.claim])

\* The occurrence, its work and run, the advanced row, the released lease and the
\* audit events commit together.  A due time that already has an occurrence
\* raises an error the worker does not explain.
Advanced(r, o) == [r EXCEPT !.last = o.due, !.next = o.next, !.version = @ + 1]
Process(w) ==
  LET s == wk[w]
      o == Outcome(s.row, s.claim)
  IN  /\ s.pc = "fenced" /\ InLease(s.claim)
      /\ IF \E p \in occurrences : p.due = o.due
         THEN Abort(w, [pc |-> "raised", claim |-> s.claim, range |-> FALSE])
         ELSE /\ occurrences' = occurrences \cup {o}
              /\ row' = Advanced(row, o)
              /\ lease' = NoLease
              /\ lock' = Free(lock, w)
              /\ Goto(w, Idle)
              /\ UNCHANGED <<conf, epoch>> /\ KeepOthers

\* Mutant: the lease that merely ran out is no explanation.
ObsoleteIfReplaced(c) == row.version > c.version /\ lease # c
\* A lost claim is a normal event only if persisted facts explain it.
Obsolete(c) == \/ row.version > c.version /\ lease # c
               \/ row.version = c.version /\ lease = c /\ now > c.at + Lease

Judge(w) ==
  /\ wk[w].pc = "lost"
  /\ Read(w, IF Obsolete(wk[w].claim) THEN Idle ELSE [pc |-> "raised", claim |-> wk[w].claim, range |-> FALSE])

\* Process death: the database rolls its transaction back, its lease remains.  The
\* bound on time leaves room for the lease of the last death to expire.
Crash(w) ==
  /\ wk[w].pc \notin {"idle", "down", "raised"}
  /\ faults < MaxFaults /\ now + Lease < MaxTime
  /\ faults' = faults + 1
  /\ Goto(w, Down) /\ lock' = Free(lock, w)
  /\ KeepDatabase /\ UNCHANGED <<now, adm>>

Restart(w) ==
  /\ wk[w].pc \in {"down", "raised"}
  /\ Read(w, Idle)

----------------------------------------------------------------------------
\* The administrator.

\* What a command asks for matters only where it is written, so it is chosen
\* there; no other update can have changed the configuration since it was read.

KeepWorkers == UNCHANGED <<now, wk, faults>>
EndUpdate == adm' = [pc |-> "idle"] /\ lock' = Free(lock, Admin) /\ KeepWorkers

\* The configuration is read, with a sample of the clock.
ReadConfiguration ==
  /\ adm.pc = "idle" /\ conf.rev < MaxRevision
  /\ adm' = [pc |-> "editing", at |-> now]
  /\ KeepDatabase /\ UNCHANGED lock /\ KeepWorkers

\* Its compare-and-swap takes the row lock; then the schedule is read.
Swap ==
  /\ adm.pc = "editing" /\ lock.conf = Nobody
  /\ adm' = [pc |-> "swapped", at |-> adm.at, row |-> row]
  /\ lock' = [lock EXCEPT !.conf = Admin]
  /\ KeepDatabase /\ KeepWorkers

\* Synchronization of the projection, and the commit of both rows.
Synchronize(c) ==
  /\ adm.pc = "swapped" /\ lock.row = Nobody /\ row = adm.row
  /\ conf' = [c EXCEPT !.rev = @ + 1]
  /\ row' = IF row # NoRow THEN Projected(conf', row, adm.at)
            ELSE IF Runs(c) THEN Created(conf', adm.at) ELSE NoRow
  /\ lease' = NoLease
  /\ epoch' = IF row' # NoRow /\ (row = NoRow \/ Recalculates(c, row)) THEN row'.next ELSE epoch
  /\ UNCHANGED occurrences
  /\ EndUpdate

\* A patch of the instance sets any of its switch, its schedule and its scheduled
\* input, running or not, or only something else of it.
UpdateInstance ==
  \E on, input \in BOOLEAN, plan \in Plans \cup {NoPlan} :
    Synchronize([conf EXCEPT !.on = on, !.plan = plan, !.input = input])

\* The commands of the schedule resource.
CreateSchedule ==
  \E p \in Plans : row = NoRow /\ conf.on /\ Synchronize([conf EXCEPT !.plan = p, !.input = TRUE])
PatchSchedule ==
  \E p \in Plans \ {conf.plan} :
    row # NoRow /\ row.on /\ conf.on /\ Synchronize([conf EXCEPT !.plan = p])
EnableSchedule ==
  /\ row # NoRow /\ conf.on /\ conf.input /\ conf.plan = NoPlan
  /\ Synchronize([conf EXCEPT !.plan = [cron |-> row.cron, policy |-> row.policy]])
DisableSchedule ==
  /\ row # NoRow /\ conf.plan # NoPlan
  /\ Synchronize([conf EXCEPT !.plan = NoPlan])

\* The schedule was claimed or advanced in between: nothing commits.
SynchronizationLost ==
  /\ adm.pc = "swapped" /\ lock.row = Nobody /\ row # adm.row
  /\ KeepDatabase /\ EndUpdate

UpdateFails ==
  /\ adm.pc # "idle" /\ faults < MaxFaults
  /\ faults' = faults + 1
  /\ adm' = [pc |-> "idle"] /\ lock' = Free(lock, Admin)
  /\ KeepDatabase /\ UNCHANGED <<now, wk>>

----------------------------------------------------------------------------

Tick == now < MaxTime /\ now' = now + 1 /\ KeepDatabase /\ UNCHANGED <<lock, wk, adm, faults>>

Init ==
  /\ now = 0
  /\ \E start \in Initial :
       /\ conf = start.conf
       /\ row = IF start.plan = NoPlan THEN NoRow
                ELSE [Created([conf EXCEPT !.plan = start.plan], 0) EXCEPT !.on = Runs(conf)]
  /\ lease = NoLease /\ occurrences = {}
  /\ lock = [conf |-> Nobody, row |-> Nobody]
  /\ wk = [w \in Workers |-> Idle]
  /\ adm = [pc |-> "idle"]
  /\ epoch = (IF row # NoRow THEN row.next ELSE 0) /\ faults = 0

Work(w) ==
  \/ ListDue(w) \/ TryClaim(w) \/ MissClaim(w) \/ BindRow(w) \/ BindConfiguration(w) \/ Begin(w)
  \/ FenceConfiguration(w) \/ ConfigurationLost(w) \/ PlanExhausted(w)
  \/ FenceClaim(w) \/ ClaimLost(w) \/ Process(w) \/ Judge(w)

Administer ==
  \/ ReadConfiguration \/ Swap \/ SynchronizationLost \/ UpdateFails
  \/ UpdateInstance \/ CreateSchedule \/ PatchSchedule \/ EnableSchedule \/ DisableSchedule

Next == Tick \/ Administer \/ \E w \in Workers : Work(w) \/ Crash(w) \/ Restart(w)

Spec == Init /\ [][Next]_vars

\* The clock runs, a worker that is up takes its next step, one that has ended is
\* started again, and an update once begun ends, by its commit or by an error.
FairSpec ==
  /\ Spec
  /\ WF_vars(Tick)
  /\ WF_vars(Swap \/ SynchronizationLost \/ UpdateInstance)
  /\ \A w \in Workers : WF_vars(Work(w)) /\ WF_vars(Restart(w))

----------------------------------------------------------------------------
\* Properties.

WorkerStates ==
  {Idle, Down}
  \cup [pc: {"listed"}, at: 0..MaxTime, due: Instants, version: Versions]
  \cup [pc: {"claimed", "lost"}, claim: Claims]
  \cup [pc: {"raised"}, claim: Claims, range: BOOLEAN]
  \cup [pc: {"binding"}, claim: Claims, on: BOOLEAN, rev: 1..MaxRevision]
  \cup [pc: {"bound"}, claim: Claims, rev: 1..MaxRevision]
  \cup [pc: {"begun", "planned", "fenced"}, claim: Claims, rev: 1..MaxRevision, row: Rows]
Updates ==
  {[pc |-> "idle"]}
  \cup [pc: {"editing"}, at: 0..MaxTime]
  \cup [pc: {"swapped"}, at: 0..MaxTime, row: Rows \cup {NoRow}]

\* The type invariant.
TypeOK ==
  /\ now \in 0..MaxTime /\ conf \in Confs
  /\ row \in Rows \cup {NoRow} /\ lease \in Claims \cup {NoLease}
  /\ occurrences \subseteq Occurrences
  /\ lock \in [{"conf", "row"} -> Workers \cup {Nobody, Admin}]
  /\ wk \in [Workers -> WorkerStates] /\ adm \in Updates
  /\ epoch \in Instants /\ faults \in 0..MaxFaults

Covered(o) == {t \in Fires[o.cron] : o.due <= t /\ t <= o.upto}

\* Since the last recalculation every time at which the expression fires belongs
\* to exactly one committed occurrence, up to the time that is still to come: no
\* worker, crash, takeover or unrelated reconfiguration loses or repeats one, and
\* no two occurrences ever share a due time.  An outcome that came late coalesces
\* everything missed by then, so that no backlog is worked off in a burst.
EveryInstantOnce ==
  /\ \A o \in occurrences : o.next > o.at
  /\ \A o, p \in occurrences : o.due = p.due => o = p
  /\ row # NoRow =>
       LET recent == {o \in occurrences : o.due >= epoch}
       IN  /\ row.next \in Fires[row.cron]
           /\ UNION {Covered(o) : o \in recent} = {t \in Fires[row.cron] : epoch <= t /\ t < row.next}
           /\ \A o, p \in recent : o # p => Covered(o) \cap Covered(p) = {}

\* An occurrence commits only under the configuration it was admitted for: running,
\* with this revision, this expression and this policy, at the moment of the commit.
FiresAsConfigured ==
  [][\A o \in occurrences' \ occurrences :
       /\ Runs(conf) /\ conf.rev = o.rev /\ conf.plan.cron = o.cron
       /\ o.as \in {"on_time", conf.plan.policy}]_vars

\* The schedule row is at every moment the projection of the configuration row,
\* though neither the workers' claims nor their advances touch the configuration.
ProjectionInStep ==
  row # NoRow => /\ row.rev = conf.rev
                 /\ row.on = Runs(conf)
                 /\ conf.plan # NoPlan => conf.plan = [cron |-> row.cron, policy |-> row.policy]

\* A worker process ends by an error only when the missed range is exhausted: every
\* race with another worker, the clock or an administrator is recognised as stale.
StaleClaimsAreNormal == \A w \in Workers : wk[w].pc = "raised" => wk[w].range

Overdue(d) == row # NoRow /\ row.on /\ row.next = d /\ d <= now
BeyondRange(d) == Cardinality({t \in Fires[row.cron] : d <= t /\ t <= now}) > MaxCoalesced

\* A due time is consumed, or taken back by an administrator, unless more was missed
\* by then than one outcome may coalesce.
DueIsProcessed == \A d \in 0..MaxTime : Overdue(d) ~> (~Overdue(d) \/ BeyondRange(d))
=============================================================================
