--------------------------- MODULE RetentionProofs ---------------------------
(***************************************************************************)
(* Theorems about Retention, for any number of scheduler processes, every  *)
(* batch size, lease and order of expiry, and any number of faults, beside *)
(* a run that does whatever DeliveryContract allows.                       *)
(*                                                                         *)
(* What is erased was chosen in a snapshot, so the properties need to know *)
(* that whatever was chosen stays erasable until it is committed.          *)
(***************************************************************************)
EXTENDS Retention, TLAPS, FiniteSetTheorems

Processes == [pc : {"idle", "claimed", "inserting", "locking", "committing"}, at : {"now", "before"},
              version : 0..Minute + 2, page : SUBSET Details, found : SUBSET Details,
              locked : SUBSET Details]

Verdicts == {"armed", "calling", "succeeded", "failed", "outcome_unknown", "cancelled"}

Typed ==
  /\ status \in [{"action"} -> Verdicts] /\ held \in BOOLEAN
  /\ detail \in [Details -> DetailStates] /\ tracked \subseteq Details
  /\ job \in [{"now", "before"} -> Jobs] /\ phase \in 0..Minute - 1
  /\ proc \in [Workers -> Processes] /\ faults \in 0..MaxFaults

\* An occurrence of this minute was claimed at most once per tick.
ClaimsAreCounted ==
  /\ job["now"].state = "none" => job["now"].left = 0
  /\ job["now"].version <= phase + (IF job["now"].left > 0 THEN 1 ELSE 0)
  /\ job["before"].version <= Minute

\* Whoever claims the run takes the freedom back from every cutoff.
FreeIsFree == \A o \in {"now", "before"} : job[o].free => ~held

\* Nothing needs the detail any more.
Erasable(d) == (OfRun(d) => Settled /\ ~held) /\ ~HasLiveChild(d)

\* What a process has chosen stays erasable, and what it has locked is still
\* there and is locked by nobody else.
Chosen ==
  \A w \in Workers :
    /\ \A d \in proc[w].found \cup proc[w].locked : Erasable(d)
    /\ \A d \in proc[w].locked : detail[d] = "expired"
    /\ \A v \in Workers \ {w} : proc[v].locked \cap proc[w].locked = {}

Purged == {d \in Details : detail[d] = "purged"}

\* The inductive invariant.
Inv ==
  /\ Typed /\ ClaimsAreCounted /\ FreeIsFree /\ Chosen
  /\ NothingNeededIsErased /\ CountsAddUp

-----------------------------------------------------------------------------
(* The details are a finite set.                                           *)

\* There are finitely many kinds of detail.
LEMMA DetailsFinite == IsFiniteSet(Details) /\ Cardinality(Details) \in Nat
<1>1. Details = (({"source"} \cup {"summary"}) \cup {"receipt"}) \cup {"event"}
  BY DEF Details
<1>2. IsFiniteSet(Details)
  BY <1>1, FS_Singleton, FS_Union
<1> QED BY <1>2, FS_CardinalityType

\* What is settled stays settled, whatever delivery does.
LEMMA SettledStays ==
  ASSUME Typed, Settled, Delivery!Next
  PROVE  Settled'
<1> USE DEF Typed, Settled, Verdicts
<1>1. ASSUME NEW a \in {"action"}, Delivery!Start(a) \/ Delivery!Rearm(a) PROVE Settled'
  BY <1>1 DEF Delivery!Start, Delivery!Rearm
<1>2. ASSUME NEW a \in {"action"}, NEW v \in Delivery!CallVerdicts,
             Delivery!Conclude(a, v) \/ Delivery!FailWith(a, v)
      PROVE  Settled'
  BY <1>2 DEF Delivery!Conclude, Delivery!FailWith
<1>3. ASSUME NEW how, Delivery!Close(how) PROVE Settled'
  BY <1>3 DEF Delivery!Close
<1>4. CASE Delivery!Complete
  BY <1>4 DEF Delivery!Complete
<1> QED BY <1>1, <1>2, <1>3, <1>4 DEF Delivery!Next

\* Delivery keeps the type of the status.
LEMMA DeliveryTyped ==
  ASSUME Typed, Delivery!Next
  PROVE  status' \in [{"action"} -> Verdicts]
<1> USE DEF Typed, Verdicts
<1>1. ASSUME NEW a \in {"action"}, Delivery!Start(a) \/ Delivery!Rearm(a)
      PROVE  status' \in [{"action"} -> Verdicts]
  BY <1>1 DEF Delivery!Start, Delivery!Rearm
<1>2. ASSUME NEW a \in {"action"}, NEW v \in Delivery!CallVerdicts,
             Delivery!Conclude(a, v) \/ Delivery!FailWith(a, v)
      PROVE  status' \in [{"action"} -> Verdicts]
  BY <1>2 DEF Delivery!Conclude, Delivery!FailWith, Delivery!Disarmed, Delivery!CallVerdicts
<1>3. ASSUME NEW how, Delivery!Close(how) PROVE status' \in [{"action"} -> Verdicts]
  BY <1>3 DEF Delivery!Close, Delivery!Disarmed
<1>4. CASE Delivery!Complete
  BY <1>4 DEF Delivery!Complete
<1> QED BY <1>1, <1>2, <1>3, <1>4 DEF Delivery!Next

-----------------------------------------------------------------------------
(* The invariant, action by action.                                        *)

\* Init establishes the invariant.
LEMMA InitInv == Init => Inv
<1> SUFFICES ASSUME Init PROVE Inv
  OBVIOUS
<1>1. Typed
  <2>1. NoJob \in Jobs /\ Idle \in Processes
    BY RetentionAssumption DEF NoJob, Jobs, Idle, Processes
  <2> QED BY <2>1, RetentionAssumption DEF Init, Delivery!Init, Typed, Verdicts, DetailStates
<1>2. ClaimsAreCounted /\ FreeIsFree /\ Chosen
  BY RetentionAssumption DEF Init, ClaimsAreCounted, FreeIsFree, Chosen, NoJob, Idle
<1>3. Purged = {}
  BY DEF Init, Purged
<1>4. NothingNeededIsErased /\ CountsAddUp
  BY <1>3, FS_EmptySet DEF Init, NothingNeededIsErased, CountsAddUp, Purged
<1> QED BY <1>1, <1>2, <1>4 DEF Inv

\* Details only come nearer to their end, and nothing that was settled opens.
Onward ==
  /\ Settled => Settled'
  /\ Settled /\ ~held => ~held'
  /\ \A d \in Details : detail[d] = "purged" => detail'[d] = "purged"

\* Under such a step what was erasable stays erasable.
LEMMA ErasableStays ==
  ASSUME Typed, Onward, NEW d \in Details, Erasable(d)
  PROVE  Erasable(d)'
<1>1. Children(d) \subseteq Details
  BY DEF Children, Details
<1> QED BY <1>1 DEF Onward, Erasable, HasLiveChild, OfRun

\* A step that erases nothing, and chooses and locks nothing anew, keeps what
\* the invariant says of the erased and the chosen.
Quiet ==
  /\ \A d \in Details : detail'[d] = "purged" <=> detail[d] = "purged"
  /\ \A d \in Details : detail[d] = "expired" => detail'[d] = "expired"
  /\ reported' = reported
  /\ \A w \in Workers : /\ proc'[w].found \subseteq proc[w].found
                        /\ proc'[w].locked \subseteq proc[w].locked

\* A step that erases nothing and reopens nothing.
LEMMA QuietStep ==
  ASSUME Inv, Typed', Onward, Quiet
  PROVE  Chosen' /\ NothingNeededIsErased' /\ CountsAddUp'
<1>1. Chosen'
  <2> SUFFICES ASSUME NEW w \in Workers
               PROVE  /\ \A d \in proc'[w].found \cup proc'[w].locked : Erasable(d)'
                      /\ \A d \in proc'[w].locked : detail'[d] = "expired"
                      /\ \A v \in Workers \ {w} : proc'[v].locked \cap proc'[w].locked = {}
    BY DEF Chosen
  <2>1. /\ \A d \in proc[w].found \cup proc[w].locked : d \in Details /\ Erasable(d)
        /\ \A d \in proc[w].locked : detail[d] = "expired"
        /\ \A v \in Workers \ {w} : proc[v].locked \cap proc[w].locked = {}
    BY DEF Inv, Typed, Chosen, Processes
  <2>2. \A d \in proc'[w].found \cup proc'[w].locked : Erasable(d)'
    BY <2>1, ErasableStays DEF Inv, Quiet
  <2> QED BY <2>1, <2>2 DEF Quiet
<1>2. NothingNeededIsErased'
  <2> SUFFICES ASSUME NEW d \in Details, detail'[d] = "purged" PROVE Erasable(d)'
    BY DEF NothingNeededIsErased, Erasable
  <2>1. Erasable(d)
    BY DEF Inv, Quiet, NothingNeededIsErased, Erasable
  <2> QED BY <2>1, ErasableStays DEF Inv
<1>3. Purged' = Purged
  BY DEF Quiet, Purged
<1>4. CountsAddUp'
  BY <1>3 DEF Inv, Quiet, CountsAddUp, Purged
<1> QED BY <1>1, <1>2, <1>4

\* The run goes on.
LEMMA RunSteps ==
  ASSUME Inv, Deliveries \/ Deliver \/ ClaimRun \/ ClaimEnds
  PROVE  Inv'
<1> USE DEF Inv
<1>1. CASE Deliveries
  <2>1. Typed'
    BY <1>1, DeliveryTyped DEF Typed, Deliveries
  <2>2. Onward /\ Quiet
    BY <1>1, SettledStays DEF Deliveries, Onward, Quiet
  <2>3. ClaimsAreCounted' /\ FreeIsFree'
    BY <1>1 DEF Deliveries, ClaimsAreCounted, FreeIsFree
  <2> QED BY <2>1, <2>2, <2>3, QuietStep
<1>2. CASE Deliver
  <2>1. Typed'
    BY <1>2 DEF Typed, Deliver, runVars, Details, DetailStates
  <2>2. Onward /\ Quiet
    BY <1>2 DEF Typed, Deliver, runVars, Onward, Quiet, Present, Settled
  <2>3. ClaimsAreCounted' /\ FreeIsFree'
    BY <1>2 DEF Deliver, runVars, ClaimsAreCounted, FreeIsFree
  <2> QED BY <2>1, <2>2, <2>3, QuietStep
<1>3. CASE ClaimRun
  <2>1. /\ DOMAIN job = {"now", "before"} /\ DOMAIN job' = {"now", "before"}
        /\ \A o \in {"now", "before"} : /\ job[o] \in Jobs /\ job'[o] \in Jobs /\ ~job'[o].free
                                        /\ job'[o].version = job[o].version
                                        /\ job'[o].left = job[o].left
                                        /\ job'[o].state = job[o].state
    BY <1>3 DEF Typed, ClaimRun, Jobs
  <2>2. Typed'
    BY <1>3, <2>1 DEF Typed, ClaimRun
  <2>3. Onward /\ Quiet
    BY <1>3 DEF ClaimRun, Onward, Quiet, Settled, Claimable
  <2>4. ClaimsAreCounted' /\ FreeIsFree'
    BY <1>3, <2>1 DEF ClaimRun, ClaimsAreCounted, FreeIsFree
  <2> QED BY <2>2, <2>3, <2>4, QuietStep
<1>4. CASE ClaimEnds
  <2>1. Typed' /\ Onward /\ Quiet
    BY <1>4 DEF Typed, ClaimEnds, Onward, Quiet, Settled
  <2>2. ClaimsAreCounted' /\ FreeIsFree'
    BY <1>4 DEF ClaimEnds, ClaimsAreCounted, FreeIsFree
  <2> QED BY <2>1, <2>2, QuietStep
<1> QED BY <1>1, <1>2, <1>3, <1>4

\* Time passes.
LEMMA TimeSteps ==
  ASSUME Inv, Tick \/ \E d \in Details : Expire(d)
  PROVE  Inv'
<1> USE DEF Inv
<1>1. ASSUME NEW d \in Details, Expire(d) PROVE Inv'
  <2>1. Typed'
    BY <1>1 DEF Typed, Expire, runVars, DetailStates
  <2>2. Onward /\ Quiet
    BY <1>1 DEF Typed, Expire, runVars, Onward, Quiet, Settled
  <2>3. ClaimsAreCounted' /\ FreeIsFree'
    BY <1>1 DEF Expire, runVars, ClaimsAreCounted, FreeIsFree
  <2> QED BY <2>1, <2>2, <2>3, QuietStep
<1>2. CASE Tick
  <2>0. ASSUME NEW j \in Jobs
        PROVE  /\ Aged(j) \in Jobs /\ Aged(j).version = j.version /\ Aged(j).free = j.free /\ Aged(j).state = j.state
               /\ Aged(j).left = IF j.left = 0 THEN 0 ELSE j.left - 1
    BY RetentionAssumption DEF Jobs, Aged
  <2>1. NoJob \in Jobs /\ NoJob.version = 0 /\ NoJob.left = 0 /\ NoJob.free = FALSE /\ NoJob.state = "none"
    BY RetentionAssumption DEF Jobs, NoJob
  <2>2. job["now"] \in Jobs /\ job["before"] \in Jobs /\ DOMAIN job = {"now", "before"}
    BY DEF Typed
  <2>3. faults' \in 0..MaxFaults
    BY <1>2, RetentionAssumption DEF Typed, Tick
  <2>4. phase' \in 0..Minute - 1
    BY <1>2, RetentionAssumption DEF Typed, Tick
  <2>5. proc' \in [Workers -> Processes]
    <3>1. ASSUME NEW p \in Processes, NEW at \in {"now", "before"} PROVE [p EXCEPT !.at = at] \in Processes
      BY DEF Processes
    <3> QED BY <1>2, <3>1 DEF Typed, Tick
  <2>6. job' \in [{"now", "before"} -> Jobs] /\ FreeIsFree'
    BY <1>2, <2>0, <2>1, <2>2 DEF Tick, FreeIsFree, runVars
  <2>7. ClaimsAreCounted'
    <3>1. job["now"].version \in Nat /\ job["now"].left \in Nat /\ job["before"].version \in Nat
      BY <2>2 DEF Jobs
    <3>2. CASE phase + 1 < Minute
      <4>1. phase' = phase + 1 /\ job'["now"] = Aged(job["now"]) /\ job'["before"] = Aged(job["before"])
        BY <1>2, <2>2, <3>2 DEF Tick
      <4> QED BY <2>0, <2>2, <3>1, <4>1, RetentionAssumption DEF ClaimsAreCounted, Typed
    <3>3. CASE ~(phase + 1 < Minute)
      <4>1. phase' = 0 /\ job'["now"] = NoJob /\ job'["before"] \in {Aged(job["now"]), NoJob}
        BY <1>2, <2>2, <3>3 DEF Tick
      <4> QED BY <2>0, <2>1, <2>2, <3>1, <4>1, RetentionAssumption DEF ClaimsAreCounted, Typed
    <3> QED BY <3>2, <3>3
  <2>8. Typed'
    BY <1>2, <2>3, <2>4, <2>5, <2>6 DEF Typed, Tick, runVars
  <2>9. Onward
    BY <1>2 DEF Tick, Onward, runVars, Settled
  <2>10. Quiet
    BY <1>2 DEF Tick, Quiet, Typed, Processes
  <2> QED BY <2>6, <2>7, <2>8, <2>9, <2>10, QuietStep
<1> QED BY <1>1, <1>2

\* A process takes a step that changes no detail.
LEMMA ProcessSteps ==
  ASSUME Inv, NEW w \in Workers,
         Begin(w) \/ BeginFails(w) \/ InsertFails(w) \/ EraseFails(w) \/ Crash(w)
  PROVE  Inv'
<1> USE DEF Inv
<1>1. Idle \in Processes /\ Idle.found = {} /\ Idle.locked = {}
  BY RetentionAssumption DEF Idle, Processes
<1>2. /\ UNCHANGED <<outcome, status, calls, held, detail, tracked, job, phase, reported>>
      /\ faults' \in 0..MaxFaults
  BY RetentionAssumption DEF Typed, Begin, BeginFails, InsertFails, EraseFails, Crash, Die, runVars
<1>3. /\ proc' \in [Workers -> Processes]
      /\ \A v \in Workers : proc'[v].found \subseteq proc[v].found /\ proc'[v].locked \subseteq proc[v].locked
  <2>1. CASE Begin(w)
    <3>1. PICK page \in SUBSET Untracked :
                 proc' = [proc EXCEPT ![w].pc = "inserting", ![w].page = page]
      BY <2>1 DEF Begin
    <3>2. page \in SUBSET Details
      BY DEF Untracked
    <3>3. ASSUME NEW p \in Processes
          PROVE  /\ [p EXCEPT !.pc = "inserting", !.page = page] \in Processes
                 /\ [p EXCEPT !.pc = "inserting", !.page = page].found = p.found
                 /\ [p EXCEPT !.pc = "inserting", !.page = page].locked = p.locked
      BY <3>2 DEF Processes
    <3>4. proc' = [proc EXCEPT ![w] = [proc[w] EXCEPT !.pc = "inserting", !.page = page]]
      BY <3>1 DEF Typed
    <3> QED BY <3>3, <3>4 DEF Typed
  <2>2. CASE ~Begin(w)
    <3>1. proc' = [proc EXCEPT ![w] = Idle]
      BY <2>2 DEF BeginFails, InsertFails, EraseFails, Crash, Die
    <3> QED BY <1>1, <3>1 DEF Typed
  <2> QED BY <2>1, <2>2
<1>4. Typed' /\ Onward /\ Quiet
  BY <1>2, <1>3 DEF Typed, Onward, Quiet, Settled
<1>5. ClaimsAreCounted' /\ FreeIsFree'
  BY <1>2 DEF ClaimsAreCounted, FreeIsFree
<1> QED BY <1>4, <1>5, QuietStep

\* A process claims the occurrence of this minute.
LEMMA ClaimStep == ASSUME Inv, NEW w \in Workers, Claim(w) PROVE Inv'
<1> USE DEF Inv
<1>1. job["now"] \in Jobs /\ Scope(job["now"]) \in Jobs /\ DOMAIN job = {"now", "before"}
  BY DEF Typed, Scope, Jobs
<1>2. /\ Scope(job["now"]).version = job["now"].version
      /\ Scope(job["now"]).free => ~held
  BY <1>1 DEF Scope, Jobs, FreeIsFree
<1>3. job["now"].left = 0
  BY DEF Claim, Free, ClaimsAreCounted
<1>4. job["now"].version + 1 \in 0..Minute + 2 /\ job["now"].version + 1 <= phase + 1
  BY <1>1, <1>3, RetentionAssumption DEF ClaimsAreCounted, Typed, Jobs
<1> DEFINE claimed == [Scope(job["now"]) EXCEPT !.state = "running", !.version = job["now"].version + 1,
                                               !.left = Lease]
           claimant == [proc[w] EXCEPT !.pc = "claimed", !.version = job["now"].version + 1]
<1>5. /\ claimed \in Jobs /\ claimed.version = job["now"].version + 1 /\ claimed.left = Lease
      /\ claimed.state = "running" /\ (claimed.free => ~held)
  <2>2. Lease \in 0..Lease
    BY RetentionAssumption
  <2>3. PICK j \in Jobs, n \in 0..Minute + 2 :
               /\ j = Scope(job["now"]) /\ n = job["now"].version + 1
               /\ claimed = [j EXCEPT !.state = "running", !.version = n, !.left = Lease]
    BY <1>1, <1>4
  <2> HIDE DEF claimed
  <2>4. /\ claimed \in Jobs /\ claimed.version = n /\ claimed.left = Lease
        /\ claimed.state = "running" /\ claimed.free = j.free
    BY <2>2, <2>3 DEF Jobs
  <2>5. claimed.free => ~held
    BY <1>2, <2>3, <2>4, Zenon
  <2> QED BY <2>3, <2>4, <2>5
<1>6. /\ job' = [job EXCEPT !["now"] = claimed] /\ proc' = [proc EXCEPT ![w] = claimant]
      /\ UNCHANGED <<outcome, status, calls, held, detail, tracked, phase, reported, faults>>
  <2>1. job' = [job EXCEPT !["now"] = claimed]
    BY <1>1 DEF Claim
  <2>2. proc' = [proc EXCEPT ![w].pc = "claimed", ![w].version = job["now"].version + 1]
    BY DEF Claim
  <2>3. proc' = [proc EXCEPT ![w] = claimant]
    BY <2>2 DEF Typed
  <2> QED BY <2>1, <2>3 DEF Claim, runVars
<1>7. claimant \in Processes /\ claimant.found = proc[w].found /\ claimant.locked = proc[w].locked
  <2>1. ASSUME NEW p \in Processes, NEW n \in 0..Minute + 2
        PROVE  /\ [p EXCEPT !.pc = "claimed", !.version = n] \in Processes
               /\ [p EXCEPT !.pc = "claimed", !.version = n].found = p.found
               /\ [p EXCEPT !.pc = "claimed", !.version = n].locked = p.locked
    BY DEF Processes
  <2> QED BY <1>4, <2>1 DEF Typed
<1> HIDE DEF claimed, claimant
<1>8. Typed' /\ Onward /\ Quiet
  BY <1>5, <1>6, <1>7 DEF Typed, Onward, Quiet, Settled
<1>9. FreeIsFree'
  BY <1>1, <1>5, <1>6 DEF FreeIsFree
<1>10. ClaimsAreCounted'
  BY <1>1, <1>4, <1>5, <1>6, RetentionAssumption DEF ClaimsAreCounted, Typed
<1> QED BY <1>8, <1>9, <1>10, QuietStep

\* The snapshot finds details that stay erasable.
LEMMA SelectStep == ASSUME Inv, NEW w \in Workers, Select(w) PROVE Inv'
<1> USE DEF Inv
<1> DEFINE candidates == Candidates(Job(w), tracked \cup proc[w].page)
           selector == [proc[w] EXCEPT !.pc = "locking", !.found = candidates]
<1>1. Job(w) \in Jobs /\ (Job(w).free => ~held)
  BY DEF Typed, Job, Processes, FreeIsFree
<1>2. candidates \subseteq Details /\ \A d \in candidates : Erasable(d)
  BY <1>1 DEF Candidates, Erasable, Eligible, Jobs
<1>3. /\ selector \in Processes /\ selector.found = candidates /\ selector.locked = proc[w].locked
  BY <1>2 DEF Typed, Processes
<1>4. /\ proc' = [proc EXCEPT ![w] = selector]
      /\ UNCHANGED <<outcome, status, calls, held, detail, tracked, job, phase, reported, faults>>
  BY DEF Select, Typed, runVars
<1> HIDE DEF selector, candidates
<1>5. Typed' /\ ClaimsAreCounted' /\ FreeIsFree'
  BY <1>3, <1>4 DEF Typed, ClaimsAreCounted, FreeIsFree
<1>6. \A d : Erasable(d)' <=> Erasable(d)
  BY <1>4 DEF Erasable, Settled, HasLiveChild
<1>7. Chosen'
  BY <1>2, <1>3, <1>4, <1>6 DEF Typed, Chosen
<1>8. NothingNeededIsErased' /\ CountsAddUp'
  BY <1>4, <1>6 DEF NothingNeededIsErased, Erasable, CountsAddUp
<1> QED BY <1>5, <1>7, <1>8

\* Locks are taken on what is still there, and on nothing another holds.
LEMMA EraseStep == ASSUME Inv, NEW w \in Workers, Erase(w) PROVE Inv'
<1> USE DEF Inv
<1> DEFINE taken == FirstOf(Batch, StillThere(w))
           eraser == [proc[w] EXCEPT !.pc = "committing", !.found = {}, !.locked = taken]
<1>1. /\ taken \subseteq proc[w].found /\ taken \subseteq Details
      /\ \A d \in taken : detail[d] = "expired" /\ Erasable(d)
      /\ \A v \in Workers \ {w} : proc[v].locked \cap taken = {}
  BY DEF Erase, Locking, FirstOf, StillThere, Chosen, Typed, Processes
<1>2. eraser \in Processes /\ eraser.found = {} /\ eraser.locked = taken
  BY <1>1 DEF Typed, Processes
<1>3. /\ proc' = [proc EXCEPT ![w] = eraser]
      /\ UNCHANGED <<outcome, status, calls, held, detail, tracked, job, phase, reported, faults>>
  BY DEF Erase, Typed, runVars
<1> HIDE DEF eraser, taken
<1>4. Typed' /\ ClaimsAreCounted' /\ FreeIsFree'
  BY <1>2, <1>3 DEF Typed, ClaimsAreCounted, FreeIsFree
<1>5. \A d : Erasable(d)' <=> Erasable(d)
  BY <1>3 DEF Erasable, Settled, HasLiveChild
<1>6. Chosen'
  BY <1>1, <1>2, <1>3, <1>5 DEF Typed, Chosen
<1>7. NothingNeededIsErased' /\ CountsAddUp'
  BY <1>3, <1>5 DEF NothingNeededIsErased, Erasable, CountsAddUp
<1> QED BY <1>4, <1>6, <1>7

\* The batch commits: each of its details is erased and counted once.
LEMMA CommitStep == ASSUME Inv, NEW w \in Workers, Commit(w) PROVE Inv'
<1> USE DEF Inv
<1> DEFINE batch == proc[w].locked
<1>0. batch \subseteq Details /\ proc[w].page \subseteq Details /\ proc[w].at \in {"now", "before"}
  BY DEF Typed, Processes
<1>1. /\ detail' = [d \in Details |-> IF d \in batch THEN "purged" ELSE detail[d]]
      /\ tracked' = tracked \cup proc[w].page
      /\ job' = [job EXCEPT ![proc[w].at] = Completed]
      /\ reported' = reported + Cardinality(batch)
      /\ proc' = [proc EXCEPT ![w] = Idle]
      /\ UNCHANGED <<outcome, status, calls, held, phase, faults>>
  BY DEF Commit, runVars
<1>2. /\ Completed \in Jobs /\ Completed.version = 0 /\ Completed.left = 0
      /\ Completed.free = FALSE /\ Completed.state = "completed"
  <2>1. NoJob \in Jobs /\ NoJob.version = 0 /\ NoJob.left = 0 /\ NoJob.free = FALSE
    BY RetentionAssumption DEF NoJob, Jobs
  <2> QED BY <2>1 DEF Completed, Jobs
<1>3. Idle \in Processes /\ Idle.found = {} /\ Idle.locked = {}
  BY RetentionAssumption DEF Idle, Processes
<1>4. Typed'
  BY <1>0, <1>1, <1>2, <1>3 DEF Typed, DetailStates
<1>5. ClaimsAreCounted'
  BY <1>0, <1>1, <1>2, RetentionAssumption DEF ClaimsAreCounted, Typed, Jobs
<1>6. FreeIsFree'
  BY <1>0, <1>1, <1>2 DEF FreeIsFree, Typed
<1>7. Onward
  BY <1>1 DEF Onward, Settled
<1>8. \A v \in Workers \ {w} : proc'[v] = proc[v]
  BY <1>1 DEF Typed
<1>9. Chosen'
  <2> SUFFICES ASSUME NEW v \in Workers
               PROVE  /\ \A d \in proc'[v].found \cup proc'[v].locked : Erasable(d)'
                      /\ \A d \in proc'[v].locked : detail'[d] = "expired"
                      /\ \A u \in Workers \ {v} : proc'[u].locked \cap proc'[v].locked = {}
    BY DEF Chosen
  <2>1. proc'[w] = Idle
    BY <1>1 DEF Typed
  <2>2. CASE v = w
    BY <2>1, <2>2, <1>3
  <2>3. CASE v # w
    <3>1. /\ \A d \in proc[v].found \cup proc[v].locked : d \in Details /\ Erasable(d)
          /\ \A d \in proc[v].locked : detail[d] = "expired" /\ d \notin batch
          /\ \A u \in Workers \ {v} : proc[u].locked \cap proc[v].locked = {}
      BY <2>3 DEF Chosen, Typed, Processes
    <3>2. \A d \in proc[v].found \cup proc[v].locked : Erasable(d)'
      BY <3>1, <1>7, ErasableStays
    <3>3. \A d \in proc[v].locked : detail'[d] = "expired"
      BY <3>1, <1>1
    <3>4. \A u \in Workers \ {v} : proc'[u].locked \cap proc[v].locked = {}
      BY <1>3, <1>8, <2>1, <3>1
    <3> QED BY <1>8, <2>3, <3>2, <3>3, <3>4
  <2> QED BY <2>2, <2>3
<1>10. NothingNeededIsErased'
  <2> SUFFICES ASSUME NEW d \in Details, detail'[d] = "purged" PROVE Erasable(d)'
    BY DEF NothingNeededIsErased, Erasable
  <2>1. Erasable(d)
    BY <1>1 DEF NothingNeededIsErased, Erasable, Chosen
  <2> QED BY <2>1, <1>7, ErasableStays
<1>11. CountsAddUp'
  <2>1. Purged' = Purged \cup batch /\ Purged \cap batch = {}
    BY <1>0, <1>1 DEF Purged, Chosen
  <2>2. IsFiniteSet(Purged) /\ IsFiniteSet(batch)
    BY <1>0, DetailsFinite, FS_Subset DEF Purged
  <2>3. Cardinality(Purged \cup batch) = Cardinality(Purged) + Cardinality(batch)
    <3>1. Cardinality(Purged \cap batch) = 0
      BY <2>1, FS_EmptySet
    <3>2. Cardinality(Purged) \in Nat /\ Cardinality(batch) \in Nat
      BY <2>2, FS_CardinalityType
    <3>3. Cardinality(Purged \cup batch)
            = Cardinality(Purged) + Cardinality(batch) - Cardinality(Purged \cap batch)
      BY <2>2, FS_Union
    <3> QED BY <3>1, <3>2, <3>3
  <2> QED BY <1>1, <2>1, <2>3 DEF CountsAddUp, Purged
<1> QED BY <1>4, <1>5, <1>6, <1>9, <1>10, <1>11

\* The inductive step.
LEMMA NextInv == Inv /\ [Next]_vars => Inv'
<1> SUFFICES ASSUME Inv, [Next]_vars PROVE Inv'
  OBVIOUS
<1>1. ASSUME NEW w \in Workers, Advance(w) \/ Crash(w) PROVE Inv'
  BY <1>1, ProcessSteps, ClaimStep, SelectStep, EraseStep, CommitStep DEF Advance
<1>2. CASE UNCHANGED vars
  BY <1>2 DEF vars, Inv, Typed, ClaimsAreCounted, FreeIsFree, Chosen, Erasable, Settled, HasLiveChild,
              NothingNeededIsErased, CountsAddUp
<1> QED BY <1>1, <1>2, RunSteps, TimeSteps DEF Next

\* The invariant holds in every reachable state.
LEMMA Invariance == Spec => []Inv
BY InitInv, NextInv, PTL DEF Spec

-----------------------------------------------------------------------------
(* The theorems.                                                           *)

\* Rows, occurrences and processes keep their types; an occurrence is claimed
\* at most once per tick of its minute, and never more is reported than there is.
THEOREM TypeCorrect == Spec => []TypeOK
<1>1. Inv => TypeOK
  <2> SUFFICES ASSUME Inv PROVE TypeOK
    OBVIOUS
  <2>1. reported \in 0..Cardinality(Details)
    <3>1. Purged \subseteq Details /\ reported = Cardinality(Purged)
      BY DEF Inv, CountsAddUp, Purged
    <3>2. Cardinality(Purged) \in Nat /\ Cardinality(Purged) <= Cardinality(Details)
      BY <3>1, DetailsFinite, FS_Subset, FS_CardinalityType
    <3> QED BY <3>1, <3>2, DetailsFinite
  <2> QED BY <2>1 DEF Inv, Typed, TypeOK, Processes
<1> QED BY <1>1, Invariance, PTL

\* Retention never erases what a run, an unresolved action, a live claim or a
\* derived artifact still needs, although execute decides on a snapshot.
THEOREM NothingNeeded == Spec => []NothingNeededIsErased
BY Invariance, PTL DEF Inv

\* The count-only audit events add up to what was erased.
THEOREM CountsAreExact == Spec => []CountsAddUp
BY Invariance, PTL DEF Inv

=============================================================================
