------------------------------ MODULE RunClaims ------------------------------
(***************************************************************************)
(* The claim row by which run workers own the advancement of ONE run:      *)
(* RunClaims.claim_once / renew / fence_owned / release, driven by         *)
(* RunWorker._drain_once and its renewer task.                             *)
(*                                                                         *)
(* Every operation samples the process clock first and executes its        *)
(* conditional UPDATE later; the model keeps the age of every sample.      *)
(* Time is relative: lease and pause are the distances of expires_at and   *)
(* available_at from now, negative once they have passed.  The random      *)
(* token is abstracted to whose claim it is, and the version column to     *)
(* whether the row was written since a worker read it.                     *)
(***************************************************************************)
EXTENDS Integers

CONSTANTS
  Workers,   \* run worker processes
  Nobody,    \* no worker
  Lease,     \* RunClaims.duration
  Interval,  \* the renewer's sleep
  Pause,     \* how long a released row stays unavailable
  MaxStall,  \* bound on the age of a clock sample when it is used
  Prompt     \* renewers wake up on time

ASSUME WorkersAssumption == Nobody \notin Workers
ASSUME TimesAssumption ==
  Lease \in Nat \ {0} /\ Interval \in Nat /\ Pause \in Nat /\ MaxStall \in Nat
ASSUME PromptAssumption == Prompt \in BOOLEAN /\ (Prompt => Interval + 2 * MaxStall < Lease)

VARIABLES
  \* the claim row
  exists,  \* the row was inserted
  holder,  \* the worker whose claim's token the row carries
  lease,   \* expires_at - now
  pause,   \* available_at - now
  lock,    \* the worker whose open transaction holds the row lock
  \* each worker process
  pc,      \* where _drain_once stands
  age,     \* age of the clock sample of its next statement
  fresh,   \* the row has not been written since it was read
  nap,     \* how long the renewer has slept
  beat     \* age of the renewer's sample, or Asleep

vars == <<exists, holder, lease, pause, lock, pc, age, fresh, nap, beat>>

Asleep == -1
Ages == 0..MaxStall
Holding == {"working", "fencing", "fenced"}

TypeOK ==
  /\ exists \in BOOLEAN
  /\ holder \in Workers \cup {Nobody}
  /\ lease \in -MaxStall..Lease
  /\ pause \in -MaxStall..Pause
  /\ lock \in Workers \cup {Nobody}
  /\ pc \in [Workers -> {"idle", "selected", "read", "releasing"} \cup Holding]
  /\ age \in [Workers -> Ages]
  /\ fresh \in [Workers -> BOOLEAN]
  /\ nap \in [Workers -> 0..Interval]
  /\ beat \in [Workers -> Ages \cup {Asleep}]

Init ==
  /\ exists = FALSE
  /\ holder = Nobody
  /\ lease = 0
  /\ pause = 0
  /\ lock = Nobody
  /\ pc = [w \in Workers |-> "idle"]
  /\ age = [w \in Workers |-> 0]
  /\ fresh = [w \in Workers |-> FALSE]
  /\ nap = [w \in Workers |-> 0]
  /\ beat = [w \in Workers |-> Asleep]

-----------------------------------------------------------------------------
Goto(w, where) == pc' = [pc EXCEPT ![w] = where]

\* Sample the clock for the next statement, or drop a used sample.
Sample(w) == age' = [age EXCEPT ![w] = 0]

\* An UPDATE of the row, which bumps its version.
WriteRow == exists' = TRUE /\ fresh' = [w \in Workers |-> FALSE]

KeepRow == UNCHANGED <<exists, holder, lease, pause, fresh>>

\* expires_at > now and expires_at <= now of an old sample.
LiveAt(sample) == lease > -sample
PassedAt(sample) == lease <= -sample /\ pause <= -sample

\* Mutant: only a run that was never claimed is a candidate.
EligibleWhenNew == ~exists

\* The candidate query of claim_once.
Eligible == exists => PassedAt(0)

Select(w) ==
  /\ pc[w] = "idle" /\ Eligible
  /\ Goto(w, "selected") /\ Sample(w)
  /\ KeepRow /\ UNCHANGED <<lock, nap, beat>>

\* session.get of the row, in the claiming transaction.
Read(w) ==
  /\ pc[w] = "selected"
  /\ Goto(w, "read")
  /\ fresh' = [fresh EXCEPT ![w] = TRUE]
  /\ UNCHANGED <<exists, holder, lease, pause, lock, age, nap, beat>>

\* Mutant: the row is overwritten without comparing its version and lease.
WinsBlindly(w) == pc[w] = "read"

\* The INSERT, or the UPDATE that compares version, expiry and availability.
Wins(w) == fresh[w] /\ (exists => PassedAt(age[w]))

\* Mutant: the lease is counted from the statement instead of the sample.
TakeLate(w) ==
  /\ pc[w] = "read" /\ lock = Nobody /\ Wins(w)
  /\ WriteRow
  /\ holder' = w /\ lease' = Lease + age[w] /\ pause' = -age[w]
  /\ Goto(w, "working") /\ Sample(w)
  /\ nap' = [nap EXCEPT ![w] = 0]
  /\ beat' = [beat EXCEPT ![w] = Asleep]
  /\ UNCHANGED lock

Take(w) ==
  /\ pc[w] = "read" /\ lock = Nobody /\ Wins(w)
  /\ WriteRow
  /\ holder' = w /\ lease' = Lease - age[w] /\ pause' = -age[w]
  /\ Goto(w, "working") /\ Sample(w)
  /\ nap' = [nap EXCEPT ![w] = 0]
  /\ beat' = [beat EXCEPT ![w] = Asleep]
  /\ UNCHANGED lock

\* Another worker inserted or updated the row first.
Miss(w) ==
  /\ pc[w] = "read" /\ lock = Nobody /\ ~Wins(w)
  /\ Goto(w, "idle") /\ Sample(w)
  /\ KeepRow /\ UNCHANGED <<lock, nap, beat>>

-----------------------------------------------------------------------------
(* The renewer task.                                                       *)

Wake(w) ==
  /\ pc[w] \in Holding /\ beat[w] = Asleep /\ nap[w] = Interval
  /\ beat' = [beat EXCEPT ![w] = 0]
  /\ KeepRow /\ UNCHANGED <<lock, pc, age, nap>>

\* Renewed from the sampled time on; the renewer sleeps again.
Renew(w) ==
  /\ pc[w] \in Holding /\ beat[w] # Asleep /\ lock = Nobody
  /\ holder = w /\ LiveAt(beat[w])
  /\ WriteRow /\ lease' = Lease - beat[w] /\ UNCHANGED <<holder, pause>>
  /\ nap' = [nap EXCEPT ![w] = 0]
  /\ beat' = [beat EXCEPT ![w] = Asleep]
  /\ UNCHANGED <<lock, pc, age>>

\* lease_lost: the renewer cancels the task, an advancement or a recovery that
\* fences each of its outcomes, and ends.  A failure that _fail is already
\* recording is not part of the task and is left to its fence.
LoseLease(w) ==
  /\ pc[w] \in Holding /\ beat[w] # Asleep /\ lock = Nobody
  /\ holder # w \/ ~LiveAt(beat[w])
  /\ \/ pc[w] \in {"working", "fencing"} /\ Goto(w, "releasing") /\ Sample(w)
     \/ pc[w] = "fencing" /\ UNCHANGED <<pc, age>>
  /\ nap' = [nap EXCEPT ![w] = 0]
  /\ beat' = [beat EXCEPT ![w] = Asleep]
  /\ KeepRow /\ UNCHANGED lock

-----------------------------------------------------------------------------
(* The end of an advancement.                                              *)

\* The advancement returned, or ended with an outcome that must be fenced.
Finish(w) ==
  /\ pc[w] = "working"
  /\ Goto(w, "releasing") \/ Goto(w, "fencing")
  /\ Sample(w)
  /\ KeepRow /\ UNCHANGED <<lock, nap, beat>>

\* Mutant: ownership is read instead of updated, so nothing is locked.
FenceByReading(w) ==
  /\ pc[w] = "fencing" /\ lock = Nobody
  /\ holder = w /\ LiveAt(age[w])
  /\ Goto(w, "fenced")
  /\ KeepRow /\ UNCHANGED <<lock, age, nap, beat>>

\* fence_owned: the conditional UPDATE holds the row until the commit.
Fence(w) ==
  /\ pc[w] = "fencing" /\ lock = Nobody
  /\ holder = w /\ LiveAt(age[w])
  /\ WriteRow /\ UNCHANGED <<holder, lease, pause>>
  /\ lock' = w
  /\ Goto(w, "fenced")
  /\ UNCHANGED <<age, nap, beat>>

\* The claim is not owned any more: the outcome is not recorded.
FenceFails(w) ==
  /\ pc[w] = "fencing" /\ lock = Nobody
  /\ holder # w \/ ~LiveAt(age[w])
  /\ Goto(w, "releasing") /\ Sample(w)
  /\ KeepRow /\ UNCHANGED <<lock, nap, beat>>

\* The unit of work with the outcome commits; a recovery has more to close.
Commit(w) ==
  /\ pc[w] = "fenced"
  /\ lock' = IF lock = w THEN Nobody ELSE lock
  /\ Goto(w, "releasing") \/ Goto(w, "working")
  /\ Sample(w)
  /\ KeepRow /\ UNCHANGED <<nap, beat>>

\* release: whatever the clock says, but only the own token.
Release(w) ==
  /\ pc[w] = "releasing" /\ lock = Nobody
  /\ IF holder = w
     THEN /\ WriteRow
          /\ holder' = Nobody /\ lease' = -age[w] /\ pause' = Pause - age[w]
     ELSE KeepRow
  /\ Goto(w, "idle") /\ Sample(w)
  /\ nap' = [nap EXCEPT ![w] = 0]
  /\ beat' = [beat EXCEPT ![w] = Asleep]
  /\ UNCHANGED lock

\* The process dies with its claim; its open transaction rolls back.
Crash(w) ==
  /\ pc[w] \in Holding \cup {"releasing"}
  /\ Goto(w, "idle") /\ Sample(w)
  /\ holder' = IF holder = w THEN Nobody ELSE holder
  /\ lock' = IF lock = w THEN Nobody ELSE lock
  /\ nap' = [nap EXCEPT ![w] = 0]
  /\ beat' = [beat EXCEPT ![w] = Asleep]
  /\ UNCHANGED <<exists, lease, pause, fresh>>

-----------------------------------------------------------------------------
Pending(w) == pc[w] \in {"selected", "read", "fencing", "releasing"}

Down(x) == IF x > -MaxStall THEN x - 1 ELSE x
Up(x, top) == IF x < top THEN x + 1 ELSE x

\* The clock advances; a pending statement executes before it is too old.
Tick ==
  /\ \A w \in Workers :
       /\ Pending(w) => age[w] < MaxStall
       /\ pc[w] \in Holding =>
            /\ beat[w] < MaxStall
            /\ (Prompt /\ beat[w] = Asleep) => nap[w] < Interval
  /\ lease' = Down(lease) /\ pause' = Down(pause)
  /\ age' = [w \in Workers |-> IF Pending(w) THEN age[w] + 1 ELSE age[w]]
  /\ beat' = [w \in Workers |-> IF pc[w] \in Holding /\ beat[w] # Asleep
                                THEN beat[w] + 1 ELSE beat[w]]
  /\ nap' = [w \in Workers |-> IF pc[w] \in Holding /\ beat[w] = Asleep
                               THEN Up(nap[w], Interval) ELSE nap[w]]
  /\ UNCHANGED <<exists, holder, lock, pc, fresh>>

Worker(w) ==
  \/ Select(w) \/ Read(w) \/ Take(w) \/ Miss(w)
  \/ Finish(w) \/ Fence(w) \/ FenceFails(w) \/ Commit(w) \/ Release(w)

Renewer(w) == Wake(w) \/ Renew(w) \/ LoseLease(w)

Next ==
  \/ \E w \in Workers : Worker(w) \/ Renewer(w) \/ Crash(w)
  \/ Tick

Spec == Init /\ [][Next]_vars

(* Tasks that can run do run, and the clock advances.  Crashes are free.    *)
Fairness ==
  /\ \A w \in Workers : WF_vars(Worker(w)) /\ WF_vars(Renewer(w))
  /\ WF_vars(Tick)

FairSpec == Spec /\ Fairness

-----------------------------------------------------------------------------
(* Safety.                                                                 *)

\* failure_unit_of_work: "A periodic heartbeat cannot protect a process
\* resumed after its lease was replaced" - the fence does: while the unit of
\* work with the outcome is open, the claim is still this worker's own.
OutcomeIsOwned == \A w \in Workers : pc[w] = "fenced" => holder = w

\* Nobody takes over a claim whose lease is running, however old the clock
\* samples of the contenders are.
LiveLeaseIsKept ==
  [][\A w \in Workers :
       (holder' = w /\ holder # w) => ~exists \/ lease <= 0]_vars

\* With renewers that wake up on time, a worker that is still advancing or
\* recording the run has not lost its claim to another one.
PromptHolderKeepsClaim ==
  Prompt => \A w \in Workers : pc[w] \in Holding => holder = w

-----------------------------------------------------------------------------
(* Liveness.                                                               *)

\* However often workers crash or stall with the claim, the run is claimed
\* again and again.
ClaimedAgain == []<>(\E w \in Workers : pc[w] = "working")

=============================================================================
