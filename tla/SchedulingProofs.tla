-------------------------- MODULE SchedulingProofs --------------------------
(***************************************************************************)
(* Theorems about Scheduling, for every zone, cron expression, misfire     *)
(* limit, grace and lease, and any number of workers, revisions and faults.*)
(*                                                                         *)
(* The first part is about the recurrence alone: the next time is the      *)
(* least one at which the expression fires, and the range of a claim walks *)
(* them without a gap.  The second is the inductive invariant.             *)
(***************************************************************************)
EXTENDS Scheduling, TLAPS, WellFoundedInduction

----------------------------------------------------------------------------
(* Numbers and recursion.                                                  *)

\* A set of instants has an earliest one.
LEMMA EarliestIsLeast ==
  ASSUME NEW S \in SUBSET Nat, S # {}
  PROVE  Earliest(S) \in S /\ \A u \in S : Earliest(S) <= u
<1> DEFINE Less == {p \in Nat \X Nat : p[1] < p[2]}
<1>1. IsWellFoundedOn(Less, Nat)
  BY NatLessThanWellFounded, Zenon DEF OpToRel
<1>2. PICK t \in S : \A u \in S : ~(<<u, t>> \in Less)
  <2> HIDE DEF Less
  <2> QED BY <1>1, WFMin
<1>3. ASSUME NEW u \in S PROVE t <= u
  <2>1. t \in Nat /\ u \in Nat
    OBVIOUS
  <2>2. ~(u < t)
    BY <1>2, <2>1
  <2> QED BY <2>1, <2>2
<1> QED BY <1>3 DEF Earliest

\* f starts at a and takes each value from the one before it.
Stepwise(f, g, a, n) == f = [k \in 0..n |-> IF k = 0 THEN a ELSE g[f[k - 1]]]

\* Such a function exists: this is what its recursive definition rests on.
LEMMA StepwiseExists ==
  ASSUME NEW g, NEW a, NEW n \in Nat
  PROVE  \E f : Stepwise(f, g, a, n)
<1> DEFINE Missing == {m \in Nat : ~\E f : Stepwise(f, g, a, m)}
<1> SUFFICES ASSUME n \in Missing PROVE FALSE
  OBVIOUS
<1>1. PICK m \in Missing : \A j \in Missing : m <= j
  <2>1. Missing \in SUBSET Nat /\ Missing # {}
    OBVIOUS
  <2> HIDE DEF Missing
  <2> QED BY <2>1, EarliestIsLeast
<1>2. CASE m = 0
  <2>1. [k \in 0..0 |-> a] = [k \in 0..0 |-> IF k = 0 THEN a ELSE g[[i \in 0..0 |-> a][k - 1]]]
    OBVIOUS
  <2>2. Stepwise([k \in 0..0 |-> a], g, a, 0)
    BY <2>1 DEF Stepwise
  <2> QED BY <1>1, <1>2, <2>2
<1>3. CASE m > 0
  <2>1. m - 1 \in Nat /\ m - 1 \notin Missing
    <3>1. m \in Nat
      OBVIOUS
    <3>2. m - 1 \in Nat /\ ~(m <= m - 1)
      BY <1>3, <3>1
    <3> HIDE DEF Missing
    <3> QED BY <1>1, <3>2
  <2>2. PICK f : Stepwise(f, g, a, m - 1)
    BY <2>1
  <2> DEFINE h == [k \in 0..m |-> IF k = m THEN g[f[m - 1]] ELSE f[k]]
  <2>3. \A k \in 0..m : h[k] = IF k = 0 THEN a ELSE g[h[k - 1]]
    <3> SUFFICES ASSUME NEW k \in 0..m PROVE h[k] = IF k = 0 THEN a ELSE g[h[k - 1]]
      OBVIOUS
    <3>1. m \in Nat /\ (k # 0 => k - 1 \in 0..(m - 1) /\ h[k - 1] = f[k - 1])
      BY <1>1, <1>3
    <3>2. k # m => k \in 0..(m - 1)
      BY <3>1
    <3>3. k # m => f[k] = IF k = 0 THEN a ELSE g[f[k - 1]]
      BY <2>2, <3>2 DEF Stepwise
    <3> QED BY <1>3, <3>1, <3>3
  <2>4. Stepwise(h, g, a, m)
    BY <2>3 DEF Stepwise
  <2> HIDE DEF h
  <2> QED BY <1>1, <2>4
<1> QED BY <1>1, <1>2, <1>3

\* The times that the range of a claim walks, one from the other.
LEMMA RangeWalks ==
  ASSUME NEW r, NEW c
  PROVE  \A k \in 0..MaxCoalesced :
           Range(r, c)[k] = IF k = 0 THEN c.due ELSE NextAfter[r.cron][Range(r, c)[k - 1]]
<1>1. \E f : Stepwise(f, NextAfter[r.cron], c.due, MaxCoalesced)
  BY BoundsAssumption, StepwiseExists
<1>2. Range(r, c) = [k \in 0..MaxCoalesced |->
                       IF k = 0 THEN c.due ELSE NextAfter[r.cron][Range(r, c)[k - 1]]]
  BY <1>1 DEF Range, Stepwise
<1> QED BY <1>2

----------------------------------------------------------------------------
(* The recurrence.                                                         *)

\* The first wall time shown that is not before w, and the first instant at
\* which it is shown.
LEMMA ResolvedIsFirst ==
  ASSUME NEW w \in Nat, \E v \in Shown : v >= w
  PROVE  /\ Resolved(w) \in Instants /\ WallClock[Resolved(w)] >= w
         /\ \A v \in Shown : v >= w => WallClock[Resolved(w)] <= v
         /\ \A t \in Instants : WallClock[t] = WallClock[Resolved(w)] => Resolved(w) <= t
<1> DEFINE V == {v \in Shown : v >= w}
           T == {t \in Instants : WallClock[t] = Earliest(V)}
<1>1. V \in SUBSET Nat /\ V # {}
  BY CronAssumption DEF Shown
<1>2. Earliest(V) \in V /\ \A v \in V : Earliest(V) <= v
  <2> HIDE DEF V
  <2> QED BY <1>1, EarliestIsLeast
<1>3. T \in SUBSET Nat /\ T # {}
  BY <1>2, TimeAssumption DEF Shown
<1>4. Earliest(T) \in T /\ \A t \in T : Earliest(T) <= t
  <2> HIDE DEF T
  <2> QED BY <1>3, EarliestIsLeast
<1>5. Resolved(w) = Earliest(T)
  BY DEF Resolved
<1> QED BY <1>2, <1>4, <1>5

\* Later wall times never resolve to earlier instants.
LEMMA ResolvedIsMonotone ==
  ASSUME NEW v \in Nat, NEW w \in Nat, v <= w, \E x \in Shown : x >= w
  PROVE  Resolved(v) <= Resolved(w)
<1>0. \A t \in Instants : t \in Nat
  BY TimeAssumption
<1>1. \E x \in Shown : x >= v
  BY CronAssumption DEF Shown
<1>2. /\ Resolved(v) \in Instants /\ \A x \in Shown : x >= v => WallClock[Resolved(v)] <= x
      /\ \A t \in Instants : WallClock[t] = WallClock[Resolved(v)] => Resolved(v) <= t
  BY <1>1, ResolvedIsFirst
<1>3. /\ Resolved(w) \in Instants /\ WallClock[Resolved(w)] >= w
  BY ResolvedIsFirst
<1>4. WallClock[Resolved(w)] \in Shown /\ WallClock[Resolved(w)] \in Nat /\ WallClock[Resolved(v)] \in Nat
  BY <1>2, <1>3, CronAssumption DEF Shown
<1>5. WallClock[Resolved(v)] <= WallClock[Resolved(w)]
  BY <1>2, <1>3, <1>4
<1>6. ASSUME Resolved(w) < Resolved(v) PROVE FALSE
  <2>1. ~\E s \in Instants : s < Resolved(v) /\ WallClock[s] = WallClock[Resolved(v)]
    BY <1>0, <1>2
  <2>2. WallClock[Resolved(w)] < WallClock[Resolved(v)]
    BY <1>2, <1>3, <1>6, <2>1, ZoneAssumption
  <2> QED BY <1>4, <1>5, <2>2
<1> QED BY <1>0, <1>2, <1>3, <1>6

\* No instant at which the expression fires is passed over: the next time is the
\* least of those that are later.
LEMMA NextIsLeast ==
  ASSUME NEW cron \in Crons, NEW after \in 0..MaxTime
  PROVE  /\ NextAfter[cron][after] \in Instants /\ NextAfter[cron][after] \in Fires[cron]
         /\ NextAfter[cron][after] > after
         /\ \A t \in Fires[cron] : t > after => NextAfter[cron][after] <= t
<1> DEFINE L == Later(cron, after)
           least == Earliest(L)
<1>1. /\ after \in Instants /\ after \in Nat /\ WallClock[after] \in Nat /\ WallClock[after] \in Shown
      /\ Walls[cron] \in SUBSET Nat
  BY TimeAssumption, CronAssumption DEF Shown
<1>2. L \in SUBSET Nat /\ L # {} /\ L \subseteq Walls[cron]
  BY <1>1, HorizonAssumption DEF Later
<1>3. least \in L /\ \A w \in L : least <= w
  <2> HIDE DEF L
  <2> QED BY <1>2, EarliestIsLeast
<1>4. NextAfter[cron][after] = Resolved(least)
  BY <1>1, <1>2 DEF NextAfter
<1>5. \A w \in Walls[cron] : w \in Nat /\ \E v \in Shown : v >= w
  BY <1>1, HorizonAssumption
<1>6. Resolved(least) \in Instants /\ Resolved(least) > after /\ Resolved(least) \in Fires[cron]
  BY <1>2, <1>3, <1>5, ResolvedIsFirst DEF Later, Fires
<1>7. ASSUME NEW w \in Walls[cron], Resolved(w) > after
      PROVE  Resolved(least) <= Resolved(w)
  <2>1. CASE w <= WallClock[after]
    <3>1. \E v \in Shown : v >= WallClock[after]
      BY <1>1
    <3>2. Resolved(w) <= Resolved(WallClock[after])
      BY <1>1, <1>5, <2>1, <3>1, ResolvedIsMonotone
    <3>3. /\ Resolved(WallClock[after]) \in Instants
          /\ WallClock[Resolved(WallClock[after])] = WallClock[after]
          /\ \A t \in Instants : WallClock[t] = WallClock[Resolved(WallClock[after])] => Resolved(WallClock[after]) <= t
      <4>1. /\ Resolved(WallClock[after]) \in Instants /\ WallClock[Resolved(WallClock[after])] >= WallClock[after]
            /\ WallClock[Resolved(WallClock[after])] <= WallClock[after]
            /\ \A t \in Instants : WallClock[t] = WallClock[Resolved(WallClock[after])] => Resolved(WallClock[after]) <= t
        BY <1>1, <3>1, ResolvedIsFirst
      <4>2. WallClock[Resolved(WallClock[after])] \in Nat
        BY <4>1, CronAssumption
      <4>3. WallClock[Resolved(WallClock[after])] = WallClock[after]
        BY <1>1, <4>1, <4>2
      <4> QED BY <4>1, <4>3
    <3>4. Resolved(WallClock[after]) <= after
      BY <1>1, <3>3
    <3>5. Resolved(w) \in Instants
      BY <1>5, ResolvedIsFirst
    <3>6. Resolved(w) \in Nat /\ Resolved(WallClock[after]) \in Nat
      BY <3>3, <3>5, TimeAssumption
    <3> QED BY <1>1, <1>7, <3>2, <3>4, <3>6
  <2>2. CASE w > WallClock[after]
    <3>1. w \in L
      BY <1>7, <2>2 DEF Later
    <3>2. least \in Nat /\ w \in Nat /\ least <= w /\ \E v \in Shown : v >= w
      BY <1>2, <1>3, <1>5, <3>1
    <3> HIDE DEF least
    <3> QED BY <3>2, ResolvedIsMonotone
  <2> QED BY <1>1, <1>5, <2>1, <2>2
<1>8. \A t \in Fires[cron] : t > after => Resolved(least) <= t
  BY <1>7 DEF Fires
<1> HIDE DEF least
<1> QED BY <1>4, <1>6, <1>8

\* Instants are numbers.
LEMMA InstantsAreNumbers == \A t \in Instants : t \in Nat /\ t \in Int
<1>1. \A t \in Instants : t \in Nat
  BY TimeAssumption
<1> QED BY <1>1

\* An expression fires at instants.
LEMMA FiresAreInstants ==
  ASSUME NEW cron \in Crons
  PROVE  Fires[cron] \subseteq Instants /\ Fires[cron] \subseteq Nat
<1>1. \A w \in Walls[cron] : Resolved(w) \in Instants
  BY HorizonAssumption, CronAssumption, ResolvedIsFirst
<1> QED BY <1>1, TimeAssumption DEF Fires

\* The outcome of a claim: everything that is missed by then, up to the next time
\* at which the expression fires.
LEMMA OutcomeIsWhole ==
  ASSUME NEW r \in Rows, NEW c \in Claims, c.due <= c.at, ~Exhausted(r, c)
  PROVE  /\ Outcome(r, c) \in Occurrences
         /\ Outcome(r, c).due = c.due /\ Outcome(r, c).cron = r.cron /\ Outcome(r, c).rev = r.rev
         /\ Outcome(r, c).as \in {"on_time", r.policy}
         /\ Outcome(r, c).next \in Fires[r.cron] /\ Outcome(r, c).next \in Instants
         /\ Outcome(r, c).next > Outcome(r, c).at /\ Outcome(r, c).next > c.due
         /\ Covered(Outcome(r, c)) = {t \in Fires[r.cron] : c.due <= t /\ t < Outcome(r, c).next}
<1> DEFINE cron == r.cron
           n == MissedCount(r, c)
           nth == Range(r, c)
           Bad == {k \in 0..(n - 1) : ~(nth[k] \in Nat /\ c.due <= nth[k] /\ nth[k] <= c.at)}
<1>1. /\ cron \in Crons /\ r.policy \in {"skip", "run_once"} /\ r.rev \in 1..MaxRevision
      /\ c.due \in Instants /\ c.due \in Nat /\ c.at \in 0..MaxTime /\ c.at \in Nat /\ c.at \in Instants
      /\ MaxCoalesced \in Nat /\ MaxCoalesced >= 1 /\ MaxTime \in Nat
  <2>1. /\ cron \in Crons /\ r.policy \in {"skip", "run_once"} /\ r.rev \in 1..MaxRevision
        /\ c.due \in Instants /\ c.at \in 0..MaxTime
    BY DEF Rows, Claims
  <2>2. c.due \in Nat /\ c.at \in Nat /\ c.at \in Instants /\ MaxTime \in Nat
    BY <2>1, TimeAssumption
  <2>3. MaxCoalesced \in Nat /\ MaxCoalesced >= 1
    BY BoundsAssumption
  <2> QED BY <2>1, <2>2, <2>3
<1>2. /\ n \in 1..MaxCoalesced
      /\ OnTime(c) => n = 1
      /\ ~OnTime(c) => nth[n] > c.at /\ \A k \in 1..(n - 1) : ~(nth[k] > c.at)
  <2>1. CASE OnTime(c)
    BY <1>1, <2>1 DEF MissedCount
  <2>2. CASE ~OnTime(c)
    <3>1. Counts(r, c) \in SUBSET Nat /\ Counts(r, c) # {}
      BY <2>2 DEF Exhausted, Counts
    <3>2. n \in Counts(r, c) /\ \A k \in Counts(r, c) : n <= k
      BY <2>2, <3>1, EarliestIsLeast DEF MissedCount
    <3>3. n \in 1..MaxCoalesced /\ nth[n] > c.at
      BY <3>2 DEF Counts
    <3>4. \A k \in 1..(n - 1) : k \in 1..MaxCoalesced /\ ~(n <= k)
      BY <1>1, <3>3
    <3>5. \A k \in 1..(n - 1) : ~(nth[k] > c.at)
      BY <3>2, <3>4 DEF Counts
    <3> QED BY <2>2, <3>3, <3>5
  <2> QED BY <2>1, <2>2
<1>3. nth[0] = c.due /\ \A k \in 1..MaxCoalesced : nth[k] = NextAfter[cron][nth[k - 1]]
  BY <1>1, RangeWalks
<1> HIDE DEF n, nth
<1>4. \A k \in 0..(n - 1) : nth[k] \in Nat /\ c.due <= nth[k] /\ nth[k] <= c.at
  <2> SUFFICES ASSUME Bad # {} PROVE FALSE
    OBVIOUS
  <2>1. Bad \in SUBSET Nat
    OBVIOUS
  <2>2. PICK m \in Bad : \A k \in Bad : m <= k
    <3> HIDE DEF Bad
    <3> QED BY <2>1, EarliestIsLeast
  <2>3. m \in 0..(n - 1) /\ ~(nth[m] \in Nat /\ c.due <= nth[m] /\ nth[m] <= c.at)
    BY <2>2
  <2>4. m # 0
    BY <1>1, <1>3, <2>3
  <2>5. m \in 1..(n - 1) /\ m - 1 \in 0..(n - 1) /\ ~(m <= m - 1) /\ m \in 1..MaxCoalesced /\ ~OnTime(c)
    BY <1>1, <1>2, <2>3, <2>4
  <2>6. m - 1 \notin Bad
    <3> HIDE DEF Bad
    <3> QED BY <2>2, <2>5
  <2>7. nth[m - 1] \in Nat /\ c.due <= nth[m - 1] /\ nth[m - 1] <= c.at
    BY <2>5, <2>6
  <2>8. nth[m - 1] \in 0..MaxTime
    BY <1>1, <2>7
  <2>9. nth[m] \in Instants /\ nth[m] > nth[m - 1]
    BY <1>1, <1>3, <2>5, <2>8, NextIsLeast
  <2>10. nth[m] \in Nat /\ ~(nth[m] > c.at)
    BY <1>2, <2>5, <2>9, TimeAssumption
  <2> QED BY <1>1, <2>3, <2>7, <2>9, <2>10
<1> DEFINE upto == nth[n - 1]
           next == nth[n]
<1>5. upto \in Nat /\ c.due <= upto /\ upto <= c.at /\ upto \in 0..MaxTime /\ upto \in Instants
  <2>1. n - 1 \in 0..(n - 1)
    BY <1>1, <1>2
  <2>2. upto \in Nat /\ c.due <= upto /\ upto <= c.at
    BY <1>4, <2>1
  <2>3. upto \in 0..MaxTime
    BY <1>1, <2>2
  <2> QED BY <2>2, <2>3, TimeAssumption
<1>6. next = NextAfter[cron][upto]
  BY <1>2, <1>3
<1>7. /\ next \in Instants /\ next \in Nat /\ next \in Fires[cron] /\ next > upto
      /\ \A t \in Fires[cron] : t > upto => next <= t
  BY <1>1, <1>5, <1>6, NextIsLeast, TimeAssumption
<1>8. OnTime(c) => upto = c.due
  BY <1>2, <1>3
<1> HIDE DEF upto, next
<1> DEFINE o == [due |-> c.due, upto |-> upto, next |-> next, cron |-> r.cron,
                 as |-> IF OnTime(c) THEN "on_time" ELSE r.policy,
                 at |-> IF OnTime(c) THEN c.due ELSE c.at, rev |-> r.rev]
<1>9. Outcome(r, c) = o
  BY DEF Outcome, n, nth, upto, next
<1>10. o \in Occurrences
  BY <1>1, <1>5, <1>7 DEF Occurrences
<1>11. next > o.at /\ next > c.due
  <2>1. CASE OnTime(c)
    BY <1>1, <1>5, <1>7, <1>8, <2>1
  <2>2. CASE ~OnTime(c)
    BY <1>1, <1>2, <1>5, <1>7, <2>2 DEF next
  <2> QED BY <2>1, <2>2
<1>12. Covered(o) = {t \in Fires[r.cron] : c.due <= t /\ t < next}
  <2>1. \A t \in Fires[cron] : t \in Nat /\ (t <= upto <=> t < next)
    <3>1. \A t \in Fires[cron] : t \in Nat
      BY <1>1, FiresAreInstants
    <3> QED BY <1>5, <1>7, <3>1
  <2> QED BY <2>1 DEF Covered
<1> QED BY <1>7, <1>9, <1>10, <1>11, <1>12

----------------------------------------------------------------------------
(* The inductive invariant.                                                *)

\* The row stands at a time that is still to come: after all that was consumed,
\* and not before the last recalculation.  Its plan is one that was chosen.
RowStands ==
  /\ row = NoRow => occurrences = {}
  /\ row # NoRow =>
       /\ row.next \in Fires[row.cron] /\ epoch <= row.next
       /\ row.last < row.next /\ row.last <= MaxTime
       /\ [cron |-> row.cron, policy |-> row.policy] \in Plans
       /\ \A o \in occurrences : o.due <= row.last

\* A lease is the last thing that was written to its row.
LeaseIsLast ==
  lease # NoLease => row.version = lease.version /\ row.on /\ row.next = lease.due /\ lease.at <= now

\* A claim is the lease until the row is written again.
ClaimStands(c) ==
  /\ c.version <= row.version /\ c.due <= c.at /\ c.at <= now
  /\ row.version = c.version => lease = c

\* What a worker has read is what is there, unless the row was written since.
WorkerKnows(w) ==
  /\ wk[w].pc = "listed" => wk[w].version <= row.version /\ wk[w].at <= now
  /\ wk[w].pc \in {"claimed", "binding", "bound", "begun", "planned", "fenced", "lost"} => ClaimStands(wk[w].claim)
  /\ wk[w].pc = "binding" /\ row.version = wk[w].claim.version => wk[w].on = row.on /\ wk[w].rev = row.rev
  /\ wk[w].pc \in {"bound", "begun"} /\ row.version = wk[w].claim.version => wk[w].rev = row.rev
  /\ wk[w].pc \in {"begun", "planned", "fenced"} =>
       /\ wk[w].claim.version <= wk[w].row.version /\ wk[w].row.version <= row.version
       /\ wk[w].row.version = row.version => wk[w].row = row
  /\ wk[w].pc \in {"planned", "fenced"} => ClaimMatches(wk[w]) /\ ~Exhausted(wk[w].row, wk[w].claim)
  /\ wk[w].pc = "fenced" => lock.row = w /\ wk[w].row = row
  /\ wk[w].pc = "lost" => Obsolete(wk[w].claim)
  /\ wk[w].pc = "raised" => wk[w].range

\* An update was begun at a revision that has a successor.
UpdateHasRoom == adm.pc # "idle" => conf.rev < MaxRevision

Inv ==
  /\ TypeOK /\ UpdateHasRoom /\ ProjectionInStep /\ RowStands /\ LeaseIsLast /\ EveryInstantOnce
  /\ \A w \in Workers : WorkerKnows(w)

\* Rows, leases and plans are told from absent ones.
LEMMA Present ==
  /\ \A r \in Rows : r # NoRow /\ r.version \in Nat /\ r.version >= 1
  /\ \A c \in Claims : c # NoLease /\ c.version \in Nat /\ c.version >= 1
  /\ \A p \in Plans : p # NoPlan
  /\ NoRow.version = 0 /\ NoLease.version = 0
<1>1. NoRow.version = 0 /\ NoLease.version = 0
  BY DEF NoRow, NoLease
<1>2. /\ \A r \in Rows : r.version \in Nat /\ r.version >= 1
      /\ \A c \in Claims : c.version \in Nat /\ c.version >= 1
  BY DEF Rows, Claims, Versions
<1>3. \A r \in Rows : r # NoRow
  BY <1>1, <1>2
<1>4. \A c \in Claims : c # NoLease
  BY <1>1, <1>2
<1>5. \A p \in Plans : p # NoPlan
  <2>1. \A p \in Plans : "policy" \in DOMAIN p
    BY PlansAssumption
  <2>2. DOMAIN NoPlan = {"cron"}
    BY DEF NoPlan
  <2> QED BY <2>1, <2>2
<1> QED BY <1>1, <1>2, <1>3, <1>4, <1>5

\* The fields that a worker has at each place.
LEMMA StateOf ==
  ASSUME NEW s \in WorkerStates
  PROVE  /\ s.pc = "listed" => s \in [pc : {"listed"}, at : 0..MaxTime, due : Instants, version : Versions]
         /\ s.pc \in {"claimed", "lost"} => s \in [pc : {"claimed", "lost"}, claim : Claims]
         /\ s.pc = "raised" => s \in [pc : {"raised"}, claim : Claims, range : BOOLEAN]
         /\ s.pc = "binding" => s \in [pc : {"binding"}, claim : Claims, on : BOOLEAN, rev : 1..MaxRevision]
         /\ s.pc = "bound" => s \in [pc : {"bound"}, claim : Claims, rev : 1..MaxRevision]
         /\ s.pc \in {"begun", "planned", "fenced"} =>
              s \in [pc : {"begun", "planned", "fenced"}, claim : Claims, rev : 1..MaxRevision, row : Rows]
BY DEF WorkerStates, Idle, Down

\* The claim of a worker that has one.
LEMMA ClaimOf ==
  ASSUME NEW s \in WorkerStates,
         s.pc \in {"claimed", "binding", "bound", "begun", "planned", "fenced", "lost"}
  PROVE  s.claim \in Claims
BY StateOf

\* The numbers of a claim.
LEMMA ClaimNumbers ==
  ASSUME NEW c \in Claims
  PROVE  /\ c.due \in Instants /\ c.due \in Nat /\ c.at \in 0..MaxTime /\ c.at \in Nat
         /\ c.version \in Nat /\ c.version >= 1
<1>1. c.due \in Instants /\ c.at \in 0..MaxTime /\ c.version \in Nat \ {0}
  BY DEF Claims, Versions
<1>2. c.due \in Nat /\ MaxTime \in Nat
  BY <1>1, TimeAssumption
<1> QED BY <1>1, <1>2

\* The version of the row, whether it is there or not.
LEMMA RowVersion ==
  ASSUME TypeOK
  PROVE  /\ row.version \in Nat /\ (row.version >= 1 <=> row # NoRow) /\ (row # NoRow => row \in Rows)
         /\ now \in Nat /\ now \in 0..MaxTime /\ MaxTime \in Nat /\ Lease \in Nat
<1>1. now \in Nat /\ MaxTime \in Nat /\ Lease \in Nat /\ now \in 0..MaxTime
  BY TimeAssumption, BoundsAssumption DEF TypeOK
<1>2. row \in Rows \cup {NoRow}
  BY DEF TypeOK
<1> QED BY <1>1, <1>2, Present

\* A worker that did not move still knows what it knew when nothing was written.
LEMMA NothingWritten ==
  ASSUME Inv, NEW w \in Workers, wk'[w] = wk[w], row' = row, lease' = lease,
         now' \in Nat, now <= now', lock.row = w => lock'.row = w
  PROVE  WorkerKnows(w)'
<1>1. wk[w] \in WorkerStates /\ WorkerKnows(w) /\ now \in Nat /\ Lease \in Nat
  BY RowVersion DEF Inv, TypeOK
<1>2. ASSUME NEW c \in Claims, ClaimStands(c) PROVE ClaimStands(c)'
  BY <1>1, <1>2, ClaimNumbers DEF ClaimStands
<1>3. ASSUME NEW c \in Claims, Obsolete(c) PROVE Obsolete(c)'
  BY <1>1, <1>3, ClaimNumbers DEF Obsolete
<1>4. wk[w].pc = "listed" => wk[w].version <= row.version /\ wk[w].at <= now'
  <2> SUFFICES ASSUME wk[w].pc = "listed" PROVE wk[w].version <= row.version /\ wk[w].at <= now'
    OBVIOUS
  <2>1. wk[w].at \in 0..MaxTime /\ wk[w].at \in Nat
    BY <1>1, StateOf
  <2> QED BY <1>1, <2>1 DEF WorkerKnows
<1>5. wk[w].pc \in {"claimed", "binding", "bound", "begun", "planned", "fenced", "lost"} => ClaimStands(wk[w].claim)'
  BY <1>1, <1>2, ClaimOf DEF WorkerKnows, ClaimStands
<1>6. wk[w].pc = "lost" => Obsolete(wk[w].claim)'
  BY <1>1, <1>3, ClaimOf DEF WorkerKnows, Obsolete
<1>7. wk[w].pc \in {"planned", "fenced"} => (ClaimMatches(wk[w]) /\ ~Exhausted(wk[w].row, wk[w].claim))'
  <2>1. wk[w].pc \in {"planned", "fenced"} => ClaimMatches(wk'[w]) /\ ~Exhausted(wk'[w].row, wk'[w].claim)
    BY <1>1 DEF WorkerKnows
  <2> QED BY <2>1 DEF ClaimMatches
<1> QED BY <1>1, <1>4, <1>5, <1>6, <1>7 DEF WorkerKnows

\* Nor does a write of the row confuse a worker that did not move and did not
\* hold its lock: the version tells.
LEMMA RowWritten ==
  ASSUME Inv, NEW w \in Workers, wk'[w] = wk[w], lock.row # w, now' = now, LeaseIsLast',
         row'.version \in Nat, row'.version > row.version
  PROVE  WorkerKnows(w)'
<1>1. wk[w] \in WorkerStates /\ WorkerKnows(w) /\ now \in Nat /\ row.version \in Nat
  BY RowVersion DEF Inv, TypeOK
<1>2. ASSUME NEW c \in Claims, ClaimStands(c)
      PROVE  ClaimStands(c)' /\ Obsolete(c)' /\ row'.version # c.version
  <2>1. c.version \in Nat /\ c.version <= row.version /\ c # NoLease
    BY <1>2, ClaimNumbers, Present DEF ClaimStands
  <2>2. lease' # c /\ row'.version > c.version
    BY <1>1, <2>1 DEF LeaseIsLast
  <2> QED BY <1>1, <1>2, <2>1, <2>2 DEF ClaimStands, Obsolete
<1>3. wk[w].pc = "listed" => wk[w].version <= row'.version
  <2> SUFFICES ASSUME wk[w].pc = "listed" PROVE wk[w].version <= row'.version
    OBVIOUS
  <2>1. wk[w].version \in Nat
    BY <1>1, StateOf DEF Versions
  <2> QED BY <1>1, <2>1 DEF WorkerKnows
<1>4. wk[w].pc \in {"claimed", "binding", "bound", "begun", "planned", "fenced", "lost"} =>
        ClaimStands(wk[w].claim)' /\ Obsolete(wk[w].claim)' /\ row'.version # wk[w].claim.version
  BY <1>1, <1>2, ClaimOf DEF WorkerKnows, ClaimStands, Obsolete
<1>5. wk[w].pc \in {"begun", "planned", "fenced"} =>
        wk[w].row.version <= row'.version /\ wk[w].row.version # row'.version
  <2> SUFFICES ASSUME wk[w].pc \in {"begun", "planned", "fenced"}
               PROVE  wk[w].row.version <= row'.version /\ wk[w].row.version # row'.version
    OBVIOUS
  <2>1. wk[w].row \in Rows
    BY <1>1, StateOf
  <2>2. wk[w].row.version \in Nat
    BY <2>1, Present
  <2> QED BY <1>1, <2>2 DEF WorkerKnows
<1>6. wk[w].pc # "fenced"
  BY <1>1 DEF WorkerKnows
<1>7. wk[w].pc = "planned" => (ClaimMatches(wk[w]) /\ ~Exhausted(wk[w].row, wk[w].claim))'
  <2>1. wk[w].pc = "planned" => ClaimMatches(wk'[w]) /\ ~Exhausted(wk'[w].row, wk'[w].claim)
    BY <1>1 DEF WorkerKnows
  <2> QED BY <2>1 DEF ClaimMatches
<1> QED BY <1>1, <1>3, <1>4, <1>5, <1>6, <1>7 DEF WorkerKnows

\* A step that writes nothing keeps the invariant, if whoever moves knows what it
\* should.
LEMMA DatabaseKept ==
  ASSUME Inv, KeepDatabase, now' \in 0..MaxTime, now <= now',
         lock' \in [{"conf", "row"} -> Workers \cup {Nobody, Admin}],
         wk' \in [Workers -> WorkerStates], adm' \in Updates, faults' \in 0..MaxFaults,
         adm' = adm \/ adm'.pc = "idle" \/ conf.rev < MaxRevision,
         \A w \in Workers : \/ wk'[w] = wk[w] /\ (lock.row = w => lock'.row = w)
                            \/ WorkerKnows(w)'
  PROVE  Inv'
<1>1. UNCHANGED <<conf, row, lease, occurrences, epoch>>
  BY DEF KeepDatabase
<1>2. TypeOK'
  BY <1>1 DEF Inv, TypeOK
<1>3. ProjectionInStep' /\ RowStands' /\ UpdateHasRoom'
  BY <1>1 DEF Inv, ProjectionInStep, RowStands, Runs, UpdateHasRoom
<1>4. LeaseIsLast'
  <2> SUFFICES ASSUME lease # NoLease PROVE lease.at <= now'
    BY <1>1 DEF Inv, LeaseIsLast
  <2>1. lease.at \in Nat /\ lease.at <= now /\ now \in Nat /\ now' \in Nat
    BY ClaimNumbers, RowVersion DEF Inv, TypeOK, LeaseIsLast
  <2> QED BY <2>1
<1>5. EveryInstantOnce'
  BY <1>1 DEF Inv, EveryInstantOnce, Covered
<1>6. \A w \in Workers : WorkerKnows(w)'
  <2>1. now' \in Nat
    OBVIOUS
  <2> QED BY <1>1, <2>1, NothingWritten
<1> QED BY <1>2, <1>3, <1>4, <1>5, <1>6 DEF Inv

\* A worker reads, and moves on.
LEMMA ReadStep ==
  ASSUME Inv, NEW w \in Workers, NEW state \in WorkerStates, Read(w, state), WorkerKnows(w)'
  PROVE  Inv'
<1>1. /\ wk \in [Workers -> WorkerStates] /\ wk' = [wk EXCEPT ![w] = state]
      /\ UNCHANGED <<lock, now, adm, faults>> /\ KeepDatabase
  BY DEF Read, Goto, KeepOthers, Inv, TypeOK
<1>2. wk' \in [Workers -> WorkerStates] /\ \A v \in Workers \ {w} : wk'[v] = wk[v]
  BY <1>1
<1>3. now \in 0..MaxTime /\ now <= now
  BY RowVersion DEF Inv
<1> QED BY <1>1, <1>2, <1>3, DatabaseKept DEF Inv, TypeOK

\* A transaction ends without a commit.
LEMMA FreeKeepsOthers ==
  ASSUME TypeOK, NEW p
  PROVE  /\ Free(lock, p) \in [{"conf", "row"} -> Workers \cup {Nobody, Admin}]
         /\ \A v \in Workers \ {p} : lock.row = v => Free(lock, p).row = v
<1>1. lock \in [{"conf", "row"} -> Workers \cup {Nobody, Admin}]
  BY DEF TypeOK
<1>2. Free(lock, p) = [k \in {"conf", "row"} |-> IF lock[k] = p THEN Nobody ELSE lock[k]]
  BY <1>1 DEF Free
<1> QED BY <1>1, <1>2

\* A unit of work that rolls back.
LEMMA AbortStep ==
  ASSUME Inv, NEW w \in Workers, NEW state \in WorkerStates, Abort(w, state), WorkerKnows(w)'
  PROVE  Inv'
<1>1. /\ wk \in [Workers -> WorkerStates] /\ wk' = [wk EXCEPT ![w] = state]
      /\ UNCHANGED <<now, adm, faults>> /\ KeepDatabase /\ lock' = Free(lock, w)
  BY DEF Abort, Goto, KeepOthers, Inv, TypeOK
<1>2. wk' \in [Workers -> WorkerStates] /\ \A v \in Workers \ {w} : wk'[v] = wk[v]
  BY <1>1
<1>3. now \in 0..MaxTime /\ now <= now
  BY RowVersion DEF Inv
<1>4. /\ lock' \in [{"conf", "row"} -> Workers \cup {Nobody, Admin}]
      /\ \A v \in Workers \ {w} : lock.row = v => lock'.row = v
  BY <1>1, FreeKeepsOthers DEF Inv
<1> QED BY <1>1, <1>2, <1>3, <1>4, DatabaseKept DEF Inv, TypeOK

----------------------------------------------------------------------------
(* The steps of a worker that write nothing.                               *)

\* A claim whose row was not written since is in force, under a configuration
\* that runs.
LEMMA InForce ==
  ASSUME Inv, NEW c \in Claims, ClaimStands(c), row.version = c.version
  PROVE  /\ lease = c /\ row \in Rows /\ row.on /\ row.next = c.due
         /\ Runs(conf) /\ row.rev = conf.rev /\ conf.plan = [cron |-> row.cron, policy |-> row.policy]
<1>1. lease = c /\ lease # NoLease /\ row # NoRow /\ row \in Rows
  BY ClaimNumbers, Present, RowVersion DEF ClaimStands, Inv
<1>2. row.on /\ row.next = c.due
  BY <1>1 DEF Inv, LeaseIsLast
<1>3. Runs(conf) /\ row.rev = conf.rev
  BY <1>1, <1>2, Zenon DEF Inv, ProjectionInStep
<1> QED BY <1>1, <1>2, <1>3 DEF Inv, ProjectionInStep, Runs

\* Any other claim is obsolete.
LEMMA OutOfForce ==
  ASSUME Inv, NEW c \in Claims, ClaimStands(c), row.version # c.version
  PROVE  Obsolete(c)
<1>1. c.version \in Nat /\ c # NoLease /\ row.version \in Nat
  BY ClaimNumbers, Present, RowVersion DEF Inv
<1>2. row.version > c.version
  BY <1>1 DEF ClaimStands
<1>3. lease # c
  BY <1>1 DEF Inv, LeaseIsLast
<1> QED BY <1>2, <1>3 DEF Obsolete

\* So is one that has run out.
LEMMA RunOut ==
  ASSUME Inv, NEW c \in Claims, ClaimStands(c), ~InLease(c)
  PROVE  Obsolete(c)
<1>1. c.at \in Nat /\ now \in Nat /\ Lease \in Nat
  BY ClaimNumbers, RowVersion DEF Inv
<1>2. now > c.at + Lease
  BY <1>1 DEF ClaimStands, InLease
<1>3. CASE row.version = c.version
  BY <1>2, <1>3 DEF ClaimStands, Obsolete
<1> QED BY <1>3, OutOfForce

\* The due schedule is listed.
LEMMA ListStep ==
  ASSUME Inv, NEW w \in Workers, ListDue(w)
  PROVE  Inv'
<1> DEFINE state == [pc |-> "listed", at |-> now, due |-> row.next, version |-> row.version]
<1>1. row \in Rows /\ now \in 0..MaxTime /\ now \in Nat /\ row.version \in Nat
  BY RowVersion DEF ListDue, Inv
<1>2. state \in WorkerStates
  BY <1>1 DEF WorkerStates, Rows
<1>3. Read(w, state)
  BY DEF ListDue
<1>4. wk'[w] = state /\ UNCHANGED <<row, lease, now>>
  BY <1>3 DEF Read, Goto, KeepDatabase, KeepOthers, Inv, TypeOK
<1>5. WorkerKnows(w)'
  BY <1>1, <1>4 DEF WorkerKnows
<1> QED BY <1>2, <1>3, <1>5, ReadStep

\* Places where a worker knows nothing.
LEMMA ToIdle ==
  ASSUME Inv, NEW w \in Workers, NEW state \in {Idle, Down}, wk'[w] = state
  PROVE  state \in WorkerStates /\ WorkerKnows(w)'
<1>1. wk'[w].pc \in {"idle", "down"}
  BY DEF Idle, Down
<1> QED BY <1>1 DEF WorkerStates, WorkerKnows

\* A lost claim, or a restart.
LEMMA MissStep ==
  ASSUME Inv, NEW w \in Workers, MissClaim(w) \/ Restart(w)
  PROVE  Inv'
<1>1. Read(w, Idle)
  BY DEF MissClaim, Restart
<1>2. wk'[w] = Idle
  BY <1>1 DEF Read, Goto, Inv, TypeOK
<1> QED BY <1>1, <1>2, ToIdle, ReadStep

\* The row is read; then the configuration.
LEMMA BindRowStep ==
  ASSUME Inv, NEW w \in Workers, BindRow(w)
  PROVE  Inv'
<1> DEFINE c == wk[w].claim
           state == [pc |-> "binding", claim |-> c, on |-> row.on, rev |-> row.rev]
<1>1. wk[w] \in WorkerStates /\ wk[w].pc = "claimed"
  BY DEF BindRow, Inv, TypeOK
<1>2. c \in Claims /\ ClaimStands(c)
  BY <1>1, ClaimOf DEF Inv, WorkerKnows
<1>3. row \in Rows
  BY <1>2, ClaimNumbers, RowVersion DEF ClaimStands, Inv
<1>4. state \in WorkerStates
  BY <1>2, <1>3 DEF WorkerStates, Rows
<1>5. Read(w, state)
  BY DEF BindRow
<1>6. wk'[w] = state /\ UNCHANGED <<row, lease, now>>
  BY <1>5 DEF Read, Goto, KeepDatabase, KeepOthers, Inv, TypeOK
<1> HIDE DEF c
<1>7. WorkerKnows(w)'
  BY <1>2, <1>6 DEF WorkerKnows, ClaimStands
<1> QED BY <1>4, <1>5, <1>7, ReadStep

\* The configuration of the claim is read.
LEMMA BindConfigurationStep ==
  ASSUME Inv, NEW w \in Workers, BindConfiguration(w)
  PROVE  Inv'
<1> DEFINE c == wk[w].claim
           bound == Runs(conf) /\ wk[w].on /\ wk[w].rev = conf.rev
           state == IF bound THEN [pc |-> "bound", claim |-> c, rev |-> conf.rev]
                    ELSE [pc |-> "lost", claim |-> c]
<1>1. wk[w] \in WorkerStates /\ wk[w].pc = "binding" /\ conf \in Confs
  BY DEF BindConfiguration, Inv, TypeOK
<1>2. c \in Claims /\ ClaimStands(c)
  BY <1>1, ClaimOf DEF Inv, WorkerKnows
<1>3. row.version = c.version => bound /\ conf.rev = row.rev
  <2> SUFFICES ASSUME row.version = c.version PROVE bound /\ conf.rev = row.rev
    OBVIOUS
  <2>1. row.on /\ Runs(conf) /\ row.rev = conf.rev
    BY <1>2, InForce
  <2>2. wk[w].on = row.on /\ wk[w].rev = row.rev
    BY <1>1 DEF Inv, WorkerKnows
  <2> QED BY <2>1, <2>2
<1>4. ~bound => Obsolete(c)
  BY <1>2, <1>3, OutOfForce
<1>5. state \in WorkerStates
  BY <1>1, <1>2 DEF WorkerStates, Confs
<1>6. Read(w, state)
  BY DEF BindConfiguration
<1>7. wk'[w] = state /\ UNCHANGED <<row, lease, now>>
  BY <1>6 DEF Read, Goto, KeepDatabase, KeepOthers, Inv, TypeOK
<1> HIDE DEF c, bound
<1>8. WorkerKnows(w)'
  BY <1>2, <1>3, <1>4, <1>7 DEF WorkerKnows, ClaimStands, Obsolete
<1> QED BY <1>5, <1>6, <1>8, ReadStep

\* The unit of work of an occurrence begins.
LEMMA BeginStep ==
  ASSUME Inv, NEW w \in Workers, Begin(w)
  PROVE  Inv'
<1> DEFINE c == wk[w].claim
           state == [pc |-> "begun", claim |-> c, rev |-> wk[w].rev, row |-> row]
<1>1. wk[w] \in WorkerStates /\ wk[w].pc = "bound"
  BY DEF Begin, Inv, TypeOK
<1>2. c \in Claims /\ ClaimStands(c) /\ wk[w].rev \in 1..MaxRevision
  BY <1>1, ClaimOf, StateOf DEF Inv, WorkerKnows
<1>3. row \in Rows /\ row.version \in Nat
  BY <1>2, ClaimNumbers, RowVersion DEF ClaimStands, Inv
<1>4. state \in WorkerStates
  BY <1>2, <1>3 DEF WorkerStates
<1>5. Read(w, state)
  BY DEF Begin
<1>6. wk'[w] = state /\ UNCHANGED <<row, lease, now>>
  BY <1>5 DEF Read, Goto, KeepDatabase, KeepOthers, Inv, TypeOK
<1>7. row.version = c.version => wk[w].rev = row.rev
  BY <1>1 DEF Inv, WorkerKnows
<1> HIDE DEF c
<1>8. WorkerKnows(w)'
  BY <1>2, <1>3, <1>6, <1>7 DEF WorkerKnows, ClaimStands
<1> QED BY <1>4, <1>5, <1>8, ReadStep

\* What a worker in its last transaction has read.
LEMMA InUnitOfWork ==
  ASSUME Inv, NEW w \in Workers, wk[w].pc \in {"begun", "planned", "fenced"}
  PROVE  /\ wk[w] \in [pc : {"begun", "planned", "fenced"}, claim : Claims, rev : 1..MaxRevision, row : Rows]
         /\ wk[w].claim \in Claims /\ wk[w].row \in Rows /\ ClaimStands(wk[w].claim)
         /\ wk[w].claim.version \in Nat /\ wk[w].row.version \in Nat /\ row.version \in Nat
         /\ wk[w].claim.version <= wk[w].row.version /\ wk[w].row.version <= row.version
         /\ wk[w].row.version = row.version => wk[w].row = row
<1>1. wk[w] \in WorkerStates /\ row.version \in Nat
  BY RowVersion DEF Inv, TypeOK
<1>2. wk[w] \in [pc : {"begun", "planned", "fenced"}, claim : Claims, rev : 1..MaxRevision, row : Rows]
  BY <1>1, StateOf
<1>3. wk[w].claim \in Claims /\ wk[w].row \in Rows
  BY <1>2
<1>4. wk[w].claim.version \in Nat /\ wk[w].row.version \in Nat
  BY <1>3, Present
<1> QED BY <1>1, <1>2, <1>3, <1>4 DEF Inv, WorkerKnows

\* A lock is taken.
LEMMA LockStep ==
  ASSUME Inv, NEW w \in Workers, NEW state \in WorkerStates, NEW key \in {"conf", "row"},
         Goto(w, state), lock[key] = Nobody, lock' = [lock EXCEPT ![key] = w],
         KeepDatabase, KeepOthers, WorkerKnows(w)'
  PROVE  Inv'
<1>1. /\ wk \in [Workers -> WorkerStates] /\ wk' = [wk EXCEPT ![w] = state]
      /\ UNCHANGED <<now, adm, faults>>
      /\ lock \in [{"conf", "row"} -> Workers \cup {Nobody, Admin}]
  BY DEF Goto, KeepOthers, Inv, TypeOK
<1>2. wk' \in [Workers -> WorkerStates] /\ \A v \in Workers \ {w} : wk'[v] = wk[v]
  BY <1>1
<1>3. now \in 0..MaxTime /\ now <= now
  BY RowVersion DEF Inv
<1>4. /\ lock' \in [{"conf", "row"} -> Workers \cup {Nobody, Admin}]
      /\ \A v \in Workers : lock.row = v => lock'.row = v
  BY <1>1, HoldersAssumption
<1> QED BY <1>1, <1>2, <1>3, <1>4, DatabaseKept DEF Inv, TypeOK

\* The configuration is read again under its lock.
LEMMA FenceConfigurationStep ==
  ASSUME Inv, NEW w \in Workers, FenceConfiguration(w)
  PROVE  Inv'
<1> DEFINE s == wk[w]
           state == [s EXCEPT !.pc = "planned"]
<1>1. s.pc = "begun" /\ ClaimMatches(s) /\ ~Exhausted(s.row, s.claim) /\ lock.conf = Nobody
  BY DEF FenceConfiguration
<1>2. /\ s \in [pc : {"begun", "planned", "fenced"}, claim : Claims, rev : 1..MaxRevision, row : Rows]
      /\ s.claim \in Claims /\ s.row \in Rows /\ ClaimStands(s.claim)
      /\ s.claim.version <= s.row.version /\ s.row.version <= row.version
      /\ s.row.version = row.version => s.row = row
  BY <1>1, InUnitOfWork
<1>3. /\ state.pc = "planned" /\ state.claim = s.claim /\ state.row = s.row /\ state.rev = s.rev
      /\ state \in WorkerStates
  BY <1>2 DEF WorkerStates
<1>4. /\ Goto(w, state) /\ lock' = [lock EXCEPT !.conf = w] /\ KeepDatabase /\ KeepOthers
  BY DEF FenceConfiguration
<1>5. wk'[w] = state /\ UNCHANGED <<row, lease, now>>
  BY <1>4 DEF Goto, KeepDatabase, KeepOthers, Inv, TypeOK
<1> HIDE DEF state
<1>6. WorkerKnows(w)'
  <2>1. ClaimStands(wk[w].claim)'
    BY <1>2, <1>3, <1>5 DEF ClaimStands
  <2>2. (ClaimMatches(wk[w]) /\ ~Exhausted(wk[w].row, wk[w].claim))'
    <3>1. ClaimMatches(wk'[w]) /\ ~Exhausted(wk'[w].row, wk'[w].claim)
      BY <1>1, <1>3, <1>5 DEF ClaimMatches
    <3> QED BY <3>1 DEF ClaimMatches
  <2> QED BY <1>2, <1>3, <1>5, <2>1, <2>2 DEF WorkerKnows
<1>7. lock["conf"] = Nobody /\ lock' = [lock EXCEPT !["conf"] = w]
  BY <1>1, <1>4
<1> QED BY <1>3, <1>4, <1>6, <1>7, LockStep

\* The claim is compared again under its lock.
LEMMA FenceClaimStep ==
  ASSUME Inv, NEW w \in Workers, FenceClaim(w)
  PROVE  Inv'
<1> DEFINE s == wk[w]
           state == [s EXCEPT !.pc = "fenced"]
<1>1. s.pc = "planned" /\ ClaimMatches(s) /\ ~Exhausted(s.row, s.claim) /\ lock.row = Nobody /\ row = s.row
  BY DEF FenceClaim, Inv, WorkerKnows
<1>2. /\ s \in [pc : {"begun", "planned", "fenced"}, claim : Claims, rev : 1..MaxRevision, row : Rows]
      /\ s.claim \in Claims /\ s.row \in Rows /\ ClaimStands(s.claim)
      /\ s.claim.version <= s.row.version /\ s.row.version <= row.version
  BY <1>1, InUnitOfWork
<1>3. /\ state.pc = "fenced" /\ state.claim = s.claim /\ state.row = s.row /\ state.rev = s.rev
      /\ state \in WorkerStates
  BY <1>2 DEF WorkerStates
<1>4. /\ Goto(w, state) /\ lock' = [lock EXCEPT !.row = w] /\ KeepDatabase /\ KeepOthers
  BY DEF FenceClaim
<1>5. wk'[w] = state /\ UNCHANGED <<row, lease, now>> /\ lock'.row = w
  BY <1>4 DEF Goto, KeepDatabase, KeepOthers, Inv, TypeOK
<1> HIDE DEF state
<1>6. WorkerKnows(w)'
  <2>1. ClaimStands(wk[w].claim)'
    BY <1>2, <1>3, <1>5 DEF ClaimStands
  <2>2. (ClaimMatches(wk[w]) /\ ~Exhausted(wk[w].row, wk[w].claim))'
    <3>1. ClaimMatches(wk'[w]) /\ ~Exhausted(wk'[w].row, wk'[w].claim)
      BY <1>1, <1>3, <1>5 DEF ClaimMatches
    <3> QED BY <3>1 DEF ClaimMatches
  <2> QED BY <1>1, <1>2, <1>3, <1>5, <2>1, <2>2 DEF WorkerKnows
<1>7. lock["row"] = Nobody /\ lock' = [lock EXCEPT !["row"] = w]
  BY <1>1, <1>4
<1> QED BY <1>3, <1>4, <1>6, <1>7, LockStep

\* A claim that is given up is obsolete.
LEMMA LoseStep ==
  ASSUME Inv, NEW w \in Workers, ConfigurationLost(w) \/ ClaimLost(w)
  PROVE  Inv'
<1> DEFINE s == wk[w]
           c == wk[w].claim
           state == [pc |-> "lost", claim |-> c]
<1>1. s.pc \in {"begun", "planned", "fenced"} /\ Abort(w, state)
  BY DEF ConfigurationLost, ClaimLost
<1>2. /\ c \in Claims /\ s.row \in Rows /\ ClaimStands(c)
      /\ c.version \in Nat /\ s.row.version \in Nat /\ row.version \in Nat
      /\ c.version <= s.row.version /\ s.row.version <= row.version
      /\ s.row.version = row.version => s.row = row
  BY <1>1, InUnitOfWork
<1>3. row.version = c.version =>
        /\ HoldsClaim(c) /\ s.row = row /\ ClaimMatches(s)
        /\ s.pc = "begun" => ConfigurationHolds(s)
  <2> SUFFICES ASSUME row.version = c.version
               PROVE  /\ HoldsClaim(c) /\ s.row = row /\ ClaimMatches(s)
                      /\ s.pc = "begun" => ConfigurationHolds(s)
    OBVIOUS
  <2>1. /\ lease = c /\ row.on /\ row.next = c.due
        /\ Runs(conf) /\ row.rev = conf.rev /\ conf.plan = [cron |-> row.cron, policy |-> row.policy]
    BY <1>2, InForce
  <2>2. s.row = row
    BY <1>2
  <2>3. s.pc = "begun" => s.rev = row.rev
    BY DEF Inv, WorkerKnows
  <2> QED BY <2>1, <2>2, <2>3 DEF HoldsClaim, ClaimMatches, ConfigurationHolds
<1>4. row.version # c.version \/ ~InLease(c)
  BY <1>3 DEF ConfigurationLost, ClaimLost
<1>5. Obsolete(c)
  BY <1>2, <1>4, OutOfForce, RunOut
<1>6. state \in WorkerStates
  BY <1>2 DEF WorkerStates
<1>7. wk'[w] = state /\ UNCHANGED <<row, lease, now>>
  BY <1>1 DEF Abort, Goto, KeepDatabase, KeepOthers, Inv, TypeOK
<1> HIDE DEF c
<1>8. WorkerKnows(w)'
  BY <1>2, <1>5, <1>7 DEF WorkerKnows, ClaimStands, Obsolete
<1> QED BY <1>1, <1>6, <1>8, AbortStep

\* More was missed than one outcome may coalesce.
LEMMA ExhaustedStep ==
  ASSUME Inv, NEW w \in Workers, PlanExhausted(w)
  PROVE  Inv'
<1> DEFINE state == [pc |-> "raised", claim |-> wk[w].claim, range |-> TRUE]
<1>1. wk[w].pc = "begun" /\ Abort(w, state)
  BY DEF PlanExhausted
<1>2. state \in WorkerStates
  BY <1>1, InUnitOfWork DEF WorkerStates
<1>3. wk'[w] = state
  BY <1>1 DEF Abort, Goto, Inv, TypeOK
<1>4. wk'[w].pc = "raised" /\ wk'[w].range
  BY <1>3
<1>5. WorkerKnows(w)'
  BY <1>4 DEF WorkerKnows
<1> QED BY <1>1, <1>2, <1>5, AbortStep

\* The worker judges a lost claim, and finds it obsolete.
LEMMA JudgeStep ==
  ASSUME Inv, NEW w \in Workers, Judge(w)
  PROVE  Inv'
<1>1. Obsolete(wk[w].claim)
  BY DEF Judge, Inv, WorkerKnows
<1>2. Read(w, Idle)
  BY <1>1 DEF Judge
<1>3. wk'[w] = Idle
  BY <1>2 DEF Read, Goto, Inv, TypeOK
<1> QED BY <1>2, <1>3, ToIdle, ReadStep

\* A worker dies and its locks are freed.
LEMMA CrashStep ==
  ASSUME Inv, NEW w \in Workers, Crash(w)
  PROVE  Inv'
<1>1. /\ wk \in [Workers -> WorkerStates] /\ wk' = [wk EXCEPT ![w] = Down]
      /\ UNCHANGED <<now, adm>> /\ KeepDatabase /\ lock' = Free(lock, w)
  BY DEF Crash, Goto, Inv, TypeOK
<1>2. wk'[w] = Down /\ \A v \in Workers \ {w} : wk'[v] = wk[v]
  BY <1>1
<1>3. Down \in WorkerStates /\ WorkerKnows(w)'
  BY <1>2, ToIdle
<1>4. now \in 0..MaxTime /\ now <= now /\ wk' \in [Workers -> WorkerStates]
  BY <1>1, <1>3, RowVersion DEF Inv
<1>5. /\ lock' \in [{"conf", "row"} -> Workers \cup {Nobody, Admin}]
      /\ \A v \in Workers \ {w} : lock.row = v => lock'.row = v
  BY <1>1, FreeKeepsOthers DEF Inv
<1>6. faults' \in 0..MaxFaults
  BY BoundsAssumption DEF Crash, Inv, TypeOK
<1> QED BY <1>1, <1>2, <1>3, <1>4, <1>5, <1>6, DatabaseKept DEF Inv, TypeOK

\* The clock, and the steps of an administrator that write nothing.
LEMMA QuietStep ==
  ASSUME Inv, Tick \/ ReadConfiguration \/ Swap \/ SynchronizationLost \/ UpdateFails
  PROVE  Inv'
<1>0. now \in 0..MaxTime /\ now \in Nat /\ MaxTime \in Nat /\ Admin \notin Workers /\ Admin # Nobody
      /\ MaxFaults \in Nat
  BY RowVersion, HoldersAssumption, BoundsAssumption DEF Inv
<1>1. KeepDatabase /\ UNCHANGED wk
  BY DEF Tick, ReadConfiguration, Swap, SynchronizationLost, UpdateFails, EndUpdate, KeepWorkers
<1>2. now' \in 0..MaxTime /\ now <= now'
  BY <1>0 DEF Tick, ReadConfiguration, Swap, SynchronizationLost, UpdateFails, EndUpdate, KeepWorkers
<1>3. faults' \in 0..MaxFaults
  BY <1>0 DEF Tick, ReadConfiguration, Swap, SynchronizationLost, UpdateFails, EndUpdate, KeepWorkers, Inv, TypeOK
<1>4. adm' \in Updates
  <2>1. CASE Swap
    <3>1. adm \in [pc : {"editing"}, at : 0..MaxTime]
      BY <2>1 DEF Swap, Inv, TypeOK, Updates
    <3> QED BY <2>1, <3>1 DEF Swap, Inv, TypeOK, Updates
  <2>2. CASE ReadConfiguration
    BY <1>0, <2>2 DEF ReadConfiguration, Updates
  <2>3. CASE Tick
    BY <2>3 DEF Tick, Inv, TypeOK
  <2>4. CASE SynchronizationLost \/ UpdateFails
    BY <2>4 DEF SynchronizationLost, UpdateFails, EndUpdate, Updates
  <2> QED BY <2>1, <2>2, <2>3, <2>4
<1>5. /\ lock' \in [{"conf", "row"} -> Workers \cup {Nobody, Admin}]
      /\ \A v \in Workers : lock.row = v => lock'.row = v
  <2>0. lock \in [{"conf", "row"} -> Workers \cup {Nobody, Admin}]
    BY DEF Inv, TypeOK
  <2>1. CASE Swap
    BY <2>0, <2>1 DEF Swap
  <2>2. CASE ReadConfiguration \/ Tick
    BY <2>0, <2>2 DEF ReadConfiguration, Tick
  <2>3. CASE SynchronizationLost \/ UpdateFails
    <3>1. lock' = Free(lock, Admin)
      BY <2>3 DEF SynchronizationLost, UpdateFails, EndUpdate
    <3> QED BY <1>0, <3>1, FreeKeepsOthers DEF Inv
  <2> QED BY <2>1, <2>2, <2>3
<1>6. adm' = adm \/ adm'.pc = "idle" \/ conf.rev < MaxRevision
  <2>1. CASE Swap
    BY <2>1 DEF Swap, Inv, UpdateHasRoom
  <2>2. CASE ReadConfiguration \/ Tick
    BY <2>2 DEF ReadConfiguration, Tick
  <2>3. CASE SynchronizationLost \/ UpdateFails
    BY <2>3 DEF SynchronizationLost, UpdateFails, EndUpdate
  <2> QED BY <2>1, <2>2, <2>3
<1> QED BY <1>1, <1>2, <1>3, <1>4, <1>5, <1>6, DatabaseKept DEF Inv, TypeOK

----------------------------------------------------------------------------
(* The steps that write.                                                   *)

\* The lease is written, in the row's own version.
LEMMA ClaimStep ==
  ASSUME Inv, NEW w \in Workers, TryClaim(w)
  PROVE  Inv'
<1> DEFINE l == wk[w]
           c == [due |-> l.due, at |-> l.at, version |-> l.version + 1, owner |-> w]
           state == [pc |-> "claimed", claim |-> c]
<1>1. /\ l \in [pc : {"listed"}, at : 0..MaxTime, due : Instants, version : Versions]
      /\ l.version \in Nat /\ l.version >= 1 /\ l.at \in Nat /\ l.at <= now /\ now \in Nat
      /\ row.version = l.version /\ row.on /\ row.next = l.due /\ row.next <= l.at /\ lock.row = Nobody
  <2>1. /\ row.version = l.version /\ row.on /\ row.next = l.due /\ row.next <= l.at /\ lock.row = Nobody
        /\ l.pc = "listed" /\ l \in WorkerStates
    BY DEF TryClaim, Claimable, Inv, TypeOK
  <2>2. l \in [pc : {"listed"}, at : 0..MaxTime, due : Instants, version : Versions]
    BY <2>1, StateOf
  <2>3. l.version \in Nat /\ l.version >= 1 /\ l.at \in 0..MaxTime
    BY <2>2 DEF Versions
  <2>4. l.at \in Nat /\ now \in Nat
    BY <2>3, RowVersion DEF Inv
  <2> QED BY <2>1, <2>2, <2>3, <2>4 DEF Inv, WorkerKnows
<1>2. row \in Rows
  BY <1>1, RowVersion DEF Inv
<1>3. /\ lease' = c /\ row' = [row EXCEPT !.version = l.version + 1] /\ wk' = [wk EXCEPT ![w] = state]
      /\ UNCHANGED <<conf, occurrences, epoch, lock, now, adm, faults>>
  BY DEF TryClaim, Goto, KeepOthers
<1>4. c \in Claims /\ c.version = l.version + 1 /\ c.due = l.due /\ c.at = l.at
  BY <1>1 DEF Claims, Versions
<1>5. /\ row' \in Rows /\ row'.version = l.version + 1 /\ row'.on = row.on /\ row'.cron = row.cron
      /\ row'.policy = row.policy /\ row'.next = row.next /\ row'.last = row.last /\ row'.rev = row.rev
  <2>1. l.version + 1 \in Versions /\ row' = [row EXCEPT !.version = l.version + 1]
    BY <1>1, <1>3 DEF Versions
  <2> HIDE DEF l
  <2> QED BY <1>2, <2>1 DEF Rows
<1>6. row # NoRow /\ row' # NoRow
  BY <1>2, <1>5, Present
<1> HIDE DEF c
<1>7. state \in WorkerStates
  BY <1>4 DEF WorkerStates
<1>8. TypeOK' /\ UpdateHasRoom'
  BY <1>3, <1>4, <1>5, <1>7 DEF Inv, TypeOK, UpdateHasRoom
<1>9. ProjectionInStep'
  BY <1>3, <1>5, <1>6 DEF Inv, ProjectionInStep, Runs
<1>10. RowStands'
  BY <1>3, <1>5, <1>6 DEF Inv, RowStands
<1>11. LeaseIsLast'
  BY <1>1, <1>3, <1>4, <1>5 DEF LeaseIsLast
<1>12. EveryInstantOnce'
  BY <1>3, <1>5, <1>6 DEF Inv, EveryInstantOnce, Covered
<1>13. ASSUME NEW v \in Workers PROVE WorkerKnows(v)'
  <2>1. CASE v = w
    <3>1. wk'[w] = state
      BY <1>3 DEF Inv, TypeOK
    <3>2. c.version <= row'.version /\ c.due <= c.at /\ c.at <= now' /\ lease' = c
      BY <1>1, <1>3, <1>4, <1>5
    <3>3. ClaimStands(wk[w].claim)'
      BY <3>1, <3>2 DEF ClaimStands
    <3>4. wk'[w].pc = "claimed"
      BY <3>1
    <3> QED BY <2>1, <3>3, <3>4 DEF WorkerKnows
  <2>2. CASE v # w
    <3>1. wk'[v] = wk[v] /\ lock.row # v
      BY <1>1, <1>3, <2>2, HoldersAssumption DEF Inv, TypeOK
    <3>2. row'.version \in Nat /\ row'.version > row.version
      BY <1>1, <1>5
    <3> QED BY <1>3, <1>11, <3>1, <3>2, RowWritten
  <2> QED BY <2>1, <2>2
<1> QED BY <1>8, <1>9, <1>10, <1>11, <1>12, <1>13 DEF Inv

\* An occurrence commits only as it is configured.
CommitsAsConfigured ==
  \A o \in occurrences' \ occurrences :
    /\ Runs(conf) /\ conf.rev = o.rev /\ conf.plan.cron = o.cron
    /\ o.as \in {"on_time", conf.plan.policy}

\* The occurrence is committed and the row advanced past it.
LEMMA ProcessStep ==
  ASSUME Inv, NEW w \in Workers, Process(w)
  PROVE  Inv' /\ CommitsAsConfigured
<1> DEFINE s == wk[w]
           c == wk[w].claim
           o == Outcome(s.row, c)
<1>1. /\ s.pc = "fenced" /\ s.row = row /\ lock.row = w /\ ClaimMatches(s) /\ ~Exhausted(row, c)
      /\ row \in Rows /\ c \in Claims /\ ClaimStands(c) /\ c.due <= c.at
  <2>1. /\ s.pc = "fenced" /\ s.row = row /\ lock.row = w /\ ClaimMatches(s) /\ ~Exhausted(s.row, c)
    BY DEF Process, Inv, WorkerKnows
  <2>2. s.row \in Rows /\ c \in Claims /\ ClaimStands(c)
    BY <2>1, InUnitOfWork
  <2> QED BY <2>1, <2>2 DEF ClaimStands
<1>2. row.version = c.version /\ row.next = c.due /\ o = Outcome(row, c)
  BY <1>1 DEF ClaimMatches
<1>3. /\ row.on /\ Runs(conf) /\ row.rev = conf.rev
      /\ conf.plan = [cron |-> row.cron, policy |-> row.policy]
  BY <1>1, <1>2, InForce
<1>4. /\ o \in Occurrences /\ o.due = row.next /\ o.cron = row.cron /\ o.rev = row.rev
      /\ o.as \in {"on_time", row.policy} /\ o.next \in Fires[row.cron] /\ o.next \in Instants
      /\ o.next > o.at /\ o.next > row.next
      /\ Covered(o) = {t \in Fires[row.cron] : row.next <= t /\ t < o.next}
  BY <1>1, <1>2, OutcomeIsWhole
<1>5. /\ row # NoRow /\ row.version \in Nat /\ row.next \in Nat /\ row.next \in Instants /\ row.next <= MaxTime
      /\ row.last \in Instants \cup {-1} /\ row.last < row.next /\ o.next \in Nat /\ epoch \in Nat
      /\ epoch <= row.next /\ MaxTime \in Nat /\ row.cron \in Crons
  <2>1. row # NoRow /\ row.version \in Nat /\ MaxTime \in Nat
    BY <1>1, Present, RowVersion DEF Inv
  <2>2. row.last \in Instants \cup {-1} /\ row.cron \in Crons
    BY <1>1 DEF Rows
  <2>3. row.next \in Nat /\ row.next \in Instants /\ row.next <= MaxTime
    BY <1>1, <1>2, <2>1, ClaimNumbers
  <2>4. row.last < row.next /\ epoch <= row.next /\ epoch \in Instants
    BY <2>1 DEF Inv, RowStands, TypeOK
  <2>5. o.next \in Nat /\ epoch \in Nat
    BY <1>4, <2>4, TimeAssumption
  <2> QED BY <2>1, <2>2, <2>3, <2>4, <2>5
<1>6. \A p \in occurrences : p \in Occurrences /\ p.due \in Instants /\ p.due \in Nat /\ p.due < row.next
  <2>1. \A p \in occurrences : p \in Occurrences /\ p.due \in Instants
    BY DEF Inv, TypeOK, Occurrences
  <2>2. \A p \in occurrences : p.due \in Nat /\ p.due <= row.last
    <3>1. \A p \in occurrences : p.due <= row.last
      BY <1>5 DEF Inv, RowStands
    <3> QED BY <2>1, <3>1, TimeAssumption
  <2>3. row.last \in Int
    <3>1. CASE row.last \in Instants
      BY <3>1, InstantsAreNumbers
    <3> QED BY <1>5, <3>1
  <2> QED BY <1>5, <2>1, <2>2, <2>3
<1>7. ~\E p \in occurrences : p.due = o.due
  BY <1>4, <1>5, <1>6
<1>8. /\ occurrences' = occurrences \cup {o} /\ row' = Advanced(row, o) /\ lease' = NoLease
      /\ lock' = Free(lock, w) /\ wk' = [wk EXCEPT ![w] = Idle]
      /\ UNCHANGED <<conf, epoch, now, adm, faults>>
  BY <1>7 DEF Process, Goto, KeepOthers
<1> HIDE DEF o, c, s
<1>9. /\ row' \in Rows /\ row'.version = row.version + 1 /\ row'.on = row.on /\ row'.cron = row.cron
      /\ row'.policy = row.policy /\ row'.next = o.next /\ row'.last = row.next /\ row'.rev = row.rev
  <2>1. row' = [row EXCEPT !.last = o.due, !.next = o.next, !.version = row.version + 1]
    BY <1>1, <1>8 DEF Advanced, Rows
  <2>2. row.version + 1 \in Versions
    BY <1>5 DEF Versions
  <2> QED BY <1>1, <1>4, <1>5, <2>1, <2>2 DEF Rows
<1>10. row' # NoRow
  BY <1>9, Present
<1>11. TypeOK' /\ UpdateHasRoom'
  <2>1. lock' \in [{"conf", "row"} -> Workers \cup {Nobody, Admin}]
    BY <1>8, FreeKeepsOthers DEF Inv
  <2>2. wk' \in [Workers -> WorkerStates]
    BY <1>8 DEF Inv, TypeOK, WorkerStates
  <2>3. occurrences' \subseteq Occurrences
    BY <1>4, <1>8 DEF Inv, TypeOK
  <2> QED BY <1>8, <1>9, <2>1, <2>2, <2>3 DEF Inv, TypeOK, UpdateHasRoom
<1>12. ProjectionInStep'
  BY <1>5, <1>8, <1>9 DEF Inv, ProjectionInStep, Runs
<1>13. RowStands'
  <2>1. \A p \in occurrences' : p.due <= row'.last
    BY <1>4, <1>5, <1>6, <1>8, <1>9
  <2>2. epoch' <= row'.next /\ row'.last < row'.next /\ row'.last <= MaxTime
    BY <1>4, <1>5, <1>8, <1>9
  <2> QED BY <1>4, <1>5, <1>9, <1>10, <2>1, <2>2 DEF Inv, RowStands
<1>14. LeaseIsLast'
  BY <1>8 DEF LeaseIsLast
<1>15. EveryInstantOnce'
  <2> DEFINE recent == {p \in occurrences : p.due >= epoch}
             before == {t \in Fires[row.cron] : epoch <= t /\ t < row.next}
             after == {t \in Fires[row.cron] : epoch <= t /\ t < o.next}
  <2>1. /\ \A p \in occurrences : p.next > p.at
        /\ \A p, q \in occurrences : p.due = q.due => p = q
        /\ UNION {Covered(p) : p \in recent} = before
        /\ \A p, q \in recent : p # q => Covered(p) \cap Covered(q) = {}
    BY <1>5 DEF Inv, EveryInstantOnce
  <2>2. {p \in occurrences' : p.due >= epoch} = recent \cup {o}
    BY <1>4, <1>5, <1>8
  <2>3. \A t \in Fires[row.cron] : t \in Nat
    BY <1>5, FiresAreInstants
  <2>4. before \cup Covered(o) = after /\ before \cap Covered(o) = {}
    <3>1. \A t \in Fires[row.cron] : /\ (epoch <= t /\ t < o.next)
                                        <=> ((epoch <= t /\ t < row.next) \/ (row.next <= t /\ t < o.next))
                                     /\ ~(t < row.next /\ row.next <= t)
      BY <1>4, <1>5, <2>3
    <3>2. Covered(o) = {t \in Fires[row.cron] : row.next <= t /\ t < o.next}
      BY <1>4
    <3> DEFINE new == {t \in Fires[row.cron] : row.next <= t /\ t < o.next}
    <3>3. after = before \cup new
      <4>1. ASSUME NEW t \in Fires[row.cron]
            PROVE  t \in after <=> t \in before \/ t \in new
        BY <1>4, <1>5, <2>3
      <4>2. after \subseteq Fires[row.cron] /\ before \subseteq Fires[row.cron] /\ new \subseteq Fires[row.cron]
        BY Zenon
      <4> HIDE DEF after, before, new
      <4> QED BY <4>1, <4>2, Zenon
    <3>4. before \cap new = {}
      BY <3>1, Zenon
    <3> HIDE DEF before, after
    <3> QED BY <3>2, <3>3, <3>4
  <2>5. UNION {Covered(p) : p \in recent \cup {o}} = (UNION {Covered(p) : p \in recent}) \cup Covered(o)
    <3> HIDE DEF recent
    <3>1. {Covered(p) : p \in recent \cup {o}} = {Covered(p) : p \in recent} \cup {Covered(o)}
      BY Zenon
    <3> DEFINE pieces == {Covered(p) : p \in recent}
    <3> HIDE DEF pieces
    <3>2. UNION (pieces \cup {Covered(o)}) = (UNION pieces) \cup Covered(o)
      BY Zenon
    <3> QED BY <3>1, <3>2 DEF pieces
  <2>6. UNION {Covered(p) : p \in recent \cup {o}} = after
    BY <2>1, <2>4, <2>5
  <2>7. \A p \in recent : Covered(p) \subseteq before
    BY <2>1
  <2>8. \A p, q \in recent \cup {o} : p # q => Covered(p) \cap Covered(q) = {}
    BY <2>1, <2>4, <2>7
  <2>9. /\ \A p \in occurrences' : p.next > p.at
        /\ \A p, q \in occurrences' : p.due = q.due => p = q
    BY <1>4, <1>7, <1>8, <2>1
  <2> HIDE DEF recent, before, after
  <2>10. /\ UNION {Covered(p) : p \in {p \in occurrences' : p.due >= epoch}} = after
         /\ \A p, q \in {p \in occurrences' : p.due >= epoch} : p # q => Covered(p) \cap Covered(q) = {}
    BY <2>2, <2>6, <2>8
  <2> QED BY <1>4, <1>8, <1>9, <2>9, <2>10 DEF EveryInstantOnce, Covered, after
<1>16. ASSUME NEW v \in Workers PROVE WorkerKnows(v)'
  <2>1. CASE v = w
    <3>1. wk'[w] = Idle
      BY <1>8 DEF Inv, TypeOK
    <3> QED BY <2>1, <3>1, ToIdle
  <2>2. CASE v # w
    <3>1. wk'[v] = wk[v] /\ lock.row # v
      BY <1>1, <1>8, <2>2 DEF Inv, TypeOK
    <3>2. row'.version \in Nat /\ row'.version > row.version
      BY <1>5, <1>9
    <3> QED BY <1>8, <1>14, <3>1, <3>2, RowWritten
  <2> QED BY <2>1, <2>2
<1>17. CommitsAsConfigured
  BY <1>3, <1>4, <1>8 DEF CommitsAsConfigured
<1> QED BY <1>11, <1>12, <1>13, <1>14, <1>15, <1>16, <1>17 DEF Inv

\* Configuration and row are written together; the row's time is recalculated
\* where the expression or the switch asks for it, past all that was consumed.
LEMMA SynchronizeStep ==
  ASSUME Inv, NEW c \in Confs, c.rev = conf.rev, Synchronize(c)
  PROVE  Inv' /\ occurrences' = occurrences
<1> DEFINE d == [c EXCEPT !.rev = conf.rev + 1]
<1>0. /\ adm.at \in 0..MaxTime /\ conf \in Confs /\ conf.rev < MaxRevision /\ lock.row = Nobody
  <2>1. adm \in [pc : {"swapped"}, at : 0..MaxTime, row : Rows \cup {NoRow}] /\ conf \in Confs
    BY DEF Synchronize, Inv, TypeOK, Updates
  <2> QED BY <2>1 DEF Synchronize, Inv, UpdateHasRoom
<1>1. /\ conf' = d /\ lease' = NoLease /\ occurrences' = occurrences
      /\ adm' = [pc |-> "idle"] /\ lock' = Free(lock, Admin) /\ UNCHANGED <<now, wk, faults>>
  BY DEF Synchronize, EndUpdate, KeepWorkers
<1>2. /\ d \in Confs /\ d.on = c.on /\ d.plan = c.plan /\ d.input = c.input /\ d.rev = conf.rev + 1
      /\ d.rev \in 1..MaxRevision /\ c.plan \in Plans \cup {NoPlan}
  <2>1. conf.rev + 1 \in 1..MaxRevision
    BY <1>0, BoundsAssumption DEF Confs
  <2> QED BY <2>1 DEF Confs
<1>3. Runs(d) = Runs(c) /\ (row # NoRow => Recalculates(d, row) = Recalculates(c, row)) /\ Runs(d) \in BOOLEAN
  BY <1>2 DEF Runs, Recalculates, Confs
<1>4. \A p \in Plans : /\ p.cron \in Crons /\ p.policy \in {"skip", "run_once"} /\ p # NoPlan
                       /\ p = [cron |-> p.cron, policy |-> p.policy]
  BY PlansAssumption, Present
<1>5. /\ row' = IF row # NoRow THEN Projected(d, row, adm.at)
                ELSE IF Runs(c) THEN Created(d, adm.at) ELSE NoRow
      /\ epoch' = IF row' # NoRow /\ (row = NoRow \/ Recalculates(c, row)) THEN row'.next ELSE epoch
  BY <1>1 DEF Synchronize
<1> HIDE DEF d
<1>6. epoch \in Instants /\ epoch \in Nat
  BY InstantsAreNumbers DEF Inv, TypeOK
<1>7. /\ adm' \in Updates /\ lock' \in [{"conf", "row"} -> Workers \cup {Nobody, Admin}]
  BY <1>1, FreeKeepsOthers DEF Inv, Updates
<1>8. LeaseIsLast' /\ UpdateHasRoom'
  BY <1>1 DEF LeaseIsLast, UpdateHasRoom
<1>9. \A p \in occurrences : p.due \in Nat
  BY InstantsAreNumbers DEF Inv, TypeOK, Occurrences
<1>10. CASE row = NoRow
  <2>1. occurrences = {}
    BY <1>10 DEF Inv, RowStands
  <2>2. row.version = 0
    BY <1>10, Present
  <2>3. ASSUME NEW w \in Workers PROVE WorkerKnows(w)'
    <3>1. wk[w] \in WorkerStates /\ wk'[w] = wk[w]
      BY <1>1 DEF Inv, TypeOK
    <3>2. wk[w].pc # "listed"
      <4> SUFFICES ASSUME wk[w].pc = "listed" PROVE FALSE
        OBVIOUS
      <4>1. wk[w].version \in Nat \ {0}
        BY <3>1, StateOf DEF Versions
      <4> QED BY <2>2, <4>1 DEF Inv, WorkerKnows
    <3>3. wk[w].pc \notin {"claimed", "binding", "bound", "begun", "planned", "fenced", "lost"}
      <4> SUFFICES ASSUME wk[w].pc \in {"claimed", "binding", "bound", "begun", "planned", "fenced", "lost"}
                   PROVE  FALSE
        OBVIOUS
      <4>1. wk[w].claim \in Claims
        BY <3>1, ClaimOf
      <4>2. wk[w].claim.version \in Nat /\ wk[w].claim.version >= 1
        BY <4>1, Present
      <4> QED BY <2>2, <4>2 DEF Inv, WorkerKnows, ClaimStands
    <3> QED BY <3>1, <3>2, <3>3 DEF Inv, WorkerKnows
  <2>4. CASE ~Runs(c)
    <3>1. row' = NoRow /\ epoch' = epoch
      BY <1>5, <1>10, <2>4
    <3> QED BY <1>1, <1>2, <1>7, <1>8, <2>1, <2>3, <3>1
            DEF Inv, TypeOK, ProjectionInStep, RowStands, EveryInstantOnce
  <2>5. CASE Runs(c)
    <3>1. c.plan \in Plans /\ d.plan = c.plan /\ c.plan # NoPlan
      BY <1>2, <2>5 DEF Runs
    <3>2. /\ c.plan.cron \in Crons /\ c.plan.policy \in {"skip", "run_once"}
          /\ c.plan = [cron |-> c.plan.cron, policy |-> c.plan.policy]
      BY <1>4, <3>1
    <3> DEFINE next == NextAfter[c.plan.cron][adm.at]
    <3>3. next \in Instants /\ next \in Fires[c.plan.cron] /\ next > adm.at
      BY <1>0, <3>2, NextIsLeast
    <3>4. next \in Nat /\ MaxTime \in Nat
      BY <3>3, InstantsAreNumbers, TimeAssumption
    <3>5. row' = [on |-> TRUE, cron |-> c.plan.cron, policy |-> c.plan.policy, next |-> next,
                  last |-> -1, rev |-> d.rev, version |-> 1]
      BY <1>5, <1>10, <2>5, <3>1 DEF Created
    <3> HIDE DEF next
    <3>6. row' \in Rows
      BY <1>2, <3>2, <3>3, <3>5 DEF Rows, Versions
    <3>7. row' # NoRow /\ epoch' = next
      BY <1>5, <1>10, <3>5, <3>6, Present
    <3>8. TypeOK'
      BY <1>1, <1>2, <1>7, <3>3, <3>6, <3>7 DEF Inv, TypeOK
    <3>9. ProjectionInStep'
      BY <1>1, <1>2, <1>3, <2>5, <3>1, <3>2, <3>5 DEF ProjectionInStep, Runs
    <3>10. RowStands'
      BY <1>1, <2>1, <3>1, <3>2, <3>3, <3>4, <3>5, <3>7 DEF RowStands
    <3>11. EveryInstantOnce'
      <4>1. {t \in Fires[c.plan.cron] : next <= t /\ t < next} = {}
        <5>1. \A t \in Fires[c.plan.cron] : t \in Nat
          BY <3>2, FiresAreInstants
        <5> QED BY <3>4, <5>1
      <4> QED BY <1>1, <2>1, <3>3, <3>5, <3>7, <4>1 DEF EveryInstantOnce
    <3> QED BY <1>1, <1>8, <2>3, <3>8, <3>9, <3>10, <3>11 DEF Inv
  <2> QED BY <2>4, <2>5
<1>11. CASE row # NoRow
  <2>1. row \in Rows /\ row.version \in Nat /\ MaxTime \in Nat
    BY <1>11, RowVersion DEF Inv
  <2>2. /\ row.cron \in Crons /\ row.policy \in {"skip", "run_once"} /\ row.next \in Instants /\ row.next \in Nat
        /\ row.last \in Instants \cup {-1} /\ row.version + 1 \in Versions
    BY <2>1, InstantsAreNumbers DEF Rows, Versions
  <2>3. row.last \in Int
    <3>1. CASE row.last \in Instants
      BY <3>1, InstantsAreNumbers
    <3> QED BY <2>2, <3>1
  <2>4. /\ row.next \in Fires[row.cron] /\ epoch <= row.next /\ row.last < row.next /\ row.last <= MaxTime
        /\ [cron |-> row.cron, policy |-> row.policy] \in Plans
        /\ \A p \in occurrences : p.due <= row.last
    BY <1>11 DEF Inv, RowStands
  <2> DEFINE cron == IF c.plan = NoPlan THEN row.cron ELSE c.plan.cron
             policy == IF c.plan = NoPlan THEN row.policy ELSE c.plan.policy
             next == NextOf(d, row, adm.at)
  <2>5. row' = [on |-> Runs(d), cron |-> cron, policy |-> policy, next |-> next, last |-> row.last,
                rev |-> d.rev, version |-> row.version + 1]
    BY <1>2, <1>5, <1>11 DEF Projected
  <2>6. /\ cron \in Crons /\ policy \in {"skip", "run_once"} /\ [cron |-> cron, policy |-> policy] \in Plans
        /\ c.plan # NoPlan => c.plan = [cron |-> cron, policy |-> policy]
    <3>1. CASE c.plan = NoPlan
      BY <2>2, <2>4, <3>1
    <3>2. CASE c.plan # NoPlan
      BY <1>2, <1>4, <3>2
    <3> QED BY <3>1, <3>2
  <2>7. CASE Recalculates(c, row)
    <3>1. c.plan # NoPlan /\ cron = c.plan.cron /\ Recalculates(d, row)
      BY <1>3, <1>11, <2>7 DEF Recalculates
    <3>2. Boundary(adm.at, row) \in 0..MaxTime /\ row.last <= Boundary(adm.at, row)
      BY <1>0, <2>1, <2>3, <2>4 DEF Boundary
    <3>3. next = NextAfter[cron][Boundary(adm.at, row)]
      BY <1>2, <3>1 DEF NextOf
    <3>4. next \in Instants /\ next \in Fires[cron] /\ next > Boundary(adm.at, row)
      BY <2>6, <3>2, <3>3, NextIsLeast
    <3>5. next \in Nat /\ row.last < next
      BY <2>3, <3>2, <3>4, InstantsAreNumbers
    <3> HIDE DEF cron, policy, next
    <3>6. /\ row' \in Rows /\ row'.version = row.version + 1 /\ row'.on = Runs(d) /\ row'.cron = cron
          /\ row'.policy = policy /\ row'.next = next /\ row'.last = row.last /\ row'.rev = d.rev
      BY <1>2, <1>3, <2>2, <2>5, <2>6, <3>4 DEF Rows
    <3>7. row' # NoRow /\ epoch' = next
      BY <1>5, <2>7, <3>6, Present
    <3>8. TypeOK'
      BY <1>1, <1>2, <1>7, <3>4, <3>6, <3>7 DEF Inv, TypeOK
    <3>9. ProjectionInStep'
      BY <1>1, <1>2, <1>3, <2>6, <3>6 DEF ProjectionInStep, Runs
    <3>10. RowStands'
      BY <1>1, <2>4, <2>6, <3>4, <3>5, <3>6, <3>7 DEF RowStands
    <3>11. EveryInstantOnce'
      <4>1. {t \in Fires[cron] : next <= t /\ t < next} = {}
        <5>1. \A t \in Fires[cron] : t \in Nat
          BY <2>6, FiresAreInstants DEF cron
        <5> QED BY <3>5, <5>1
      <4>2. {p \in occurrences : p.due >= next} = {}
        BY <1>9, <2>3, <2>4, <3>5
      <4>3. /\ \A p \in occurrences : p.next > p.at
            /\ \A p, q \in occurrences : p.due = q.due => p = q
        BY DEF Inv, EveryInstantOnce
      <4> QED BY <1>1, <3>4, <3>6, <3>7, <4>1, <4>2, <4>3 DEF EveryInstantOnce
    <3>12. ASSUME NEW w \in Workers PROVE WorkerKnows(w)'
      <4>1. wk'[w] = wk[w] /\ lock.row # w
        BY <1>0, <1>1, HoldersAssumption
      <4>2. row'.version \in Nat /\ row'.version > row.version
        BY <2>1, <3>6
      <4> QED BY <1>1, <1>8, <4>1, <4>2, RowWritten
    <3> QED BY <1>1, <1>8, <3>8, <3>9, <3>10, <3>11, <3>12 DEF Inv
  <2>8. CASE ~Recalculates(c, row)
    <3>1. next = row.next /\ cron = row.cron
      BY <1>3, <1>11, <2>8 DEF NextOf, Recalculates
    <3> HIDE DEF cron, policy, next
    <3>2. /\ row' \in Rows /\ row'.version = row.version + 1 /\ row'.on = Runs(d) /\ row'.cron = row.cron
          /\ row'.policy = policy /\ row'.next = row.next /\ row'.last = row.last /\ row'.rev = d.rev
      BY <1>2, <1>3, <2>2, <2>5, <2>6, <3>1 DEF Rows
    <3>3. row' # NoRow /\ epoch' = epoch
      BY <1>5, <1>11, <2>8, <3>2, Present
    <3>4. TypeOK'
      BY <1>1, <1>2, <1>7, <3>2, <3>3 DEF Inv, TypeOK
    <3>5. ProjectionInStep'
      BY <1>1, <1>2, <1>3, <2>6, <3>1, <3>2 DEF ProjectionInStep, Runs
    <3>6. RowStands'
      BY <1>1, <2>4, <2>6, <3>1, <3>2, <3>3 DEF RowStands
    <3>7. EveryInstantOnce'
      BY <1>1, <1>11, <3>2, <3>3 DEF Inv, EveryInstantOnce, Covered
    <3>8. ASSUME NEW w \in Workers PROVE WorkerKnows(w)'
      <4>1. wk'[w] = wk[w] /\ lock.row # w
        BY <1>0, <1>1, HoldersAssumption
      <4>2. row'.version \in Nat /\ row'.version > row.version
        BY <2>1, <3>2
      <4> QED BY <1>1, <1>8, <4>1, <4>2, RowWritten
    <3> QED BY <1>1, <1>8, <3>4, <3>5, <3>6, <3>7, <3>8 DEF Inv
  <2> QED BY <2>7, <2>8
<1> QED BY <1>10, <1>11

\* Every command of an administrator is such a write.
LEMMA CommandStep ==
  ASSUME Inv, UpdateInstance \/ CreateSchedule \/ PatchSchedule \/ EnableSchedule \/ DisableSchedule
  PROVE  Inv' /\ occurrences' = occurrences
<1>0. conf \in Confs
  BY DEF Inv, TypeOK
<1>1. CASE UpdateInstance
  <2>1. PICK on \in BOOLEAN, input \in BOOLEAN, plan \in Plans \cup {NoPlan} :
          Synchronize([conf EXCEPT !.on = on, !.plan = plan, !.input = input])
    BY <1>1 DEF UpdateInstance
  <2> DEFINE c == [conf EXCEPT !.on = on, !.plan = plan, !.input = input]
  <2>2. c \in Confs /\ c.rev = conf.rev
    BY <1>0, <2>1 DEF Confs
  <2> HIDE DEF c
  <2>3. Synchronize(c)
    BY <2>1 DEF c
  <2> QED BY <2>2, <2>3, SynchronizeStep
<1>2. CASE CreateSchedule
  <2>1. PICK p \in Plans : Synchronize([conf EXCEPT !.plan = p, !.input = TRUE])
    BY <1>2 DEF CreateSchedule
  <2>2. [conf EXCEPT !.plan = p, !.input = TRUE] \in Confs /\ [conf EXCEPT !.plan = p, !.input = TRUE].rev = conf.rev
    BY <1>0 DEF Confs
  <2> QED BY <2>1, <2>2, SynchronizeStep
<1>3. CASE PatchSchedule
  <2>1. PICK p \in Plans : Synchronize([conf EXCEPT !.plan = p])
    BY <1>3 DEF PatchSchedule
  <2>2. [conf EXCEPT !.plan = p] \in Confs /\ [conf EXCEPT !.plan = p].rev = conf.rev
    BY <1>0 DEF Confs
  <2> QED BY <2>1, <2>2, SynchronizeStep
<1>4. CASE EnableSchedule
  <2> DEFINE p == [cron |-> row.cron, policy |-> row.policy]
  <2>1. Synchronize([conf EXCEPT !.plan = p]) /\ p \in Plans
    BY <1>4 DEF EnableSchedule, Inv, RowStands
  <2> HIDE DEF p
  <2>2. [conf EXCEPT !.plan = p] \in Confs /\ [conf EXCEPT !.plan = p].rev = conf.rev
    BY <1>0, <2>1 DEF Confs
  <2> QED BY <2>1, <2>2, SynchronizeStep
<1>5. CASE DisableSchedule
  <2>1. Synchronize([conf EXCEPT !.plan = NoPlan])
    BY <1>5 DEF DisableSchedule
  <2>2. [conf EXCEPT !.plan = NoPlan] \in Confs /\ [conf EXCEPT !.plan = NoPlan].rev = conf.rev
    BY <1>0 DEF Confs
  <2> QED BY <2>1, <2>2, SynchronizeStep
<1> QED BY <1>1, <1>2, <1>3, <1>4, <1>5

\* Init establishes the invariant.
LEMMA InitInv == Init => Inv
<1> SUFFICES ASSUME Init PROVE Inv
  OBVIOUS
<1>1. PICK start \in Initial :
        /\ conf = start.conf
        /\ row = IF start.plan = NoPlan THEN NoRow
                 ELSE [Created([conf EXCEPT !.plan = start.plan], 0) EXCEPT !.on = Runs(conf)]
  BY DEF Init
<1>2. conf \in Confs /\ start.plan \in Plans \cup {NoPlan} /\ conf.plan \in {NoPlan, start.plan}
  BY <1>1, InitialAssumption
<1>3. /\ now = 0 /\ lease = NoLease /\ occurrences = {} /\ lock = [conf |-> Nobody, row |-> Nobody]
      /\ wk = [w \in Workers |-> Idle] /\ adm = [pc |-> "idle"]
      /\ epoch = (IF row # NoRow THEN row.next ELSE 0) /\ faults = 0
  BY DEF Init
<1>4. 0 \in 0..MaxTime /\ 0 \in 0..MaxFaults /\ 0 \in Instants /\ MaxTime \in Nat
  BY TimeAssumption, BoundsAssumption
<1>5. LeaseIsLast /\ UpdateHasRoom /\ \A w \in Workers : WorkerKnows(w)
  BY <1>3 DEF LeaseIsLast, UpdateHasRoom, WorkerKnows, Idle
<1>6. /\ wk \in [Workers -> WorkerStates] /\ adm \in Updates
      /\ lock \in [{"conf", "row"} -> Workers \cup {Nobody, Admin}]
  BY <1>3 DEF WorkerStates, Updates
<1>7. CASE start.plan = NoPlan
  <2>1. row = NoRow /\ epoch = 0
    BY <1>1, <1>3, <1>7
  <2> QED BY <1>2, <1>3, <1>4, <1>5, <1>6, <2>1
          DEF Inv, TypeOK, ProjectionInStep, RowStands, EveryInstantOnce
<1>8. CASE start.plan # NoPlan
  <2> DEFINE p == start.plan
             next == NextAfter[p.cron][0]
  <2>1. p \in Plans /\ p.cron \in Crons /\ p.policy \in {"skip", "run_once"} /\ p = [cron |-> p.cron, policy |-> p.policy]
    BY <1>2, <1>8, PlansAssumption
  <2>2. next \in Instants /\ next \in Fires[p.cron] /\ next > 0
    BY <1>4, <2>1, NextIsLeast
  <2>3. next \in Nat
    BY <2>2, InstantsAreNumbers
  <2>4. conf.rev \in 1..MaxRevision /\ Runs(conf) \in BOOLEAN
    BY <1>2 DEF Confs, Runs
  <2>5. row = [on |-> Runs(conf), cron |-> p.cron, policy |-> p.policy, next |-> next,
               last |-> -1, rev |-> conf.rev, version |-> 1]
    BY <1>1, <1>2, <1>8 DEF Created, Confs
  <2> HIDE DEF next
  <2>6. row \in Rows
    BY <2>1, <2>2, <2>4, <2>5 DEF Rows, Versions
  <2>7. row # NoRow /\ epoch = next
    BY <1>3, <2>5, <2>6, Present
  <2>8. TypeOK
    BY <1>2, <1>3, <1>4, <1>6, <2>2, <2>6, <2>7 DEF TypeOK
  <2>9. ProjectionInStep
    BY <1>2, <2>1, <2>5 DEF ProjectionInStep
  <2>10. RowStands
    BY <1>3, <1>4, <2>1, <2>2, <2>3, <2>5, <2>7 DEF RowStands
  <2>11. EveryInstantOnce
    <3>1. {t \in Fires[p.cron] : next <= t /\ t < next} = {}
      <4>1. \A t \in Fires[p.cron] : t \in Nat
        BY <2>1, FiresAreInstants
      <4> QED BY <2>3, <4>1
    <3> QED BY <1>3, <2>2, <2>5, <2>7, <3>1 DEF EveryInstantOnce
  <2> QED BY <1>5, <2>8, <2>9, <2>10, <2>11 DEF Inv
<1> QED BY <1>7, <1>8

\* Every step keeps it.
LEMMA NextInv ==
  ASSUME Inv, [Next]_vars
  PROVE  Inv' /\ CommitsAsConfigured
<1>1. ASSUME occurrences' = occurrences PROVE CommitsAsConfigured
  BY <1>1 DEF CommitsAsConfigured
<1>2. CASE UNCHANGED vars
  <2>1. KeepDatabase /\ UNCHANGED <<now, lock, wk, adm, faults>>
    BY <1>2 DEF vars, KeepDatabase
  <2>2. now \in 0..MaxTime /\ now <= now
    BY RowVersion DEF Inv
  <2>3. Inv'
    BY <2>1, <2>2, DatabaseKept DEF Inv, TypeOK
  <2> QED BY <1>1, <2>1, <2>3 DEF KeepDatabase
<1>3. CASE Tick \/ ReadConfiguration \/ Swap \/ SynchronizationLost \/ UpdateFails
  <2>1. occurrences' = occurrences
    BY <1>3 DEF Tick, ReadConfiguration, Swap, SynchronizationLost, UpdateFails, KeepDatabase
  <2> QED BY <1>1, <1>3, <2>1, QuietStep
<1>4. CASE UpdateInstance \/ CreateSchedule \/ PatchSchedule \/ EnableSchedule \/ DisableSchedule
  BY <1>1, <1>4, CommandStep
<1>5. ASSUME NEW w \in Workers, Work(w) \/ Crash(w) \/ Restart(w)
      PROVE  Inv' /\ CommitsAsConfigured
  <2>1. CASE ListDue(w) \/ MissClaim(w) \/ Restart(w)
    BY <1>1, <2>1, ListStep, MissStep DEF ListDue, MissClaim, Restart, Read, KeepDatabase
  <2>2. CASE TryClaim(w)
    BY <1>1, <2>2, ClaimStep DEF TryClaim
  <2>3. CASE BindRow(w) \/ BindConfiguration(w) \/ Begin(w)
    BY <1>1, <2>3, BindRowStep, BindConfigurationStep, BeginStep
       DEF BindRow, BindConfiguration, Begin, Read, KeepDatabase
  <2>4. CASE FenceConfiguration(w) \/ FenceClaim(w)
    BY <1>1, <2>4, FenceConfigurationStep, FenceClaimStep DEF FenceConfiguration, FenceClaim, KeepDatabase
  <2>5. CASE ConfigurationLost(w) \/ ClaimLost(w)
    BY <1>1, <2>5, LoseStep DEF ConfigurationLost, ClaimLost, Abort, KeepDatabase
  <2>6. CASE PlanExhausted(w)
    BY <1>1, <2>6, ExhaustedStep DEF PlanExhausted, Abort, KeepDatabase
  <2>7. CASE Process(w)
    BY <2>7, ProcessStep
  <2>8. CASE Judge(w)
    BY <1>1, <2>8, JudgeStep DEF Judge, Read, KeepDatabase
  <2>9. CASE Crash(w)
    BY <1>1, <2>9, CrashStep DEF Crash, KeepDatabase
  <2> QED BY <1>5, <2>1, <2>2, <2>3, <2>4, <2>5, <2>6, <2>7, <2>8, <2>9 DEF Work
<1> QED BY <1>2, <1>3, <1>4, <1>5 DEF Next, Administer

\* The invariant holds in every reachable state.
LEMMA Invariance == Spec => []Inv
<1>1. Init => Inv
  BY InitInv
<1>2. Inv /\ [Next]_vars => Inv'
  BY NextInv
<1> QED BY <1>1, <1>2, PTL DEF Spec

----------------------------------------------------------------------------
(* The theorems.                                                           *)

\* Every variable keeps its type; in particular every next time that a worker or
\* an administrator asks the recurrence for exists.
THEOREM TypeCorrect == Spec => []TypeOK
<1>1. Inv => TypeOK
  BY DEF Inv
<1> QED BY <1>1, Invariance, PTL

\* Every time at which the expression fires is consumed by exactly one committed
\* occurrence (scheduler's processing unit of work), whatever daylight saving,
\* lateness, crash, takeover or reconfiguration comes between.
THEOREM EveryInstantIsConsumedOnce == Spec => []EveryInstantOnce
<1>1. Inv => EveryInstantOnce
  BY DEF Inv
<1> QED BY <1>1, Invariance, PTL

\* The schedule row is at every moment the projection of its configuration
\* (schedule synchronization in the configuration's transaction).
THEOREM ProjectionStaysInStep == Spec => []ProjectionInStep
<1>1. Inv => ProjectionInStep
  BY DEF Inv
<1> QED BY <1>1, Invariance, PTL

\* No race, takeover or reconfiguration ends a scheduler process: a lost claim is
\* always explained by persisted facts, and no occurrence is ever inserted twice.
THEOREM LostClaimsAreExplained == Spec => []StaleClaimsAreNormal
<1>1. Inv => StaleClaimsAreNormal
  BY DEF Inv, WorkerKnows, StaleClaimsAreNormal
<1> QED BY <1>1, Invariance, PTL

\* An occurrence commits only under the configuration in force at its commit: the
\* row's lock and its version stand for the configuration behind it.
THEOREM FiredAsConfigured == Spec => FiresAsConfigured
<1>1. Inv /\ [Next]_vars =>
        [\A o \in occurrences' \ occurrences :
           /\ Runs(conf) /\ conf.rev = o.rev /\ conf.plan.cron = o.cron
           /\ o.as \in {"on_time", conf.plan.policy}]_vars
  BY NextInv DEF CommitsAsConfigured
<1> QED BY <1>1, Invariance, PTL DEF Spec, FiresAsConfigured
=============================================================================
