--------------------------- MODULE RunClaimsProofs ---------------------------
(***************************************************************************)
(* Proofs of the safety properties of RunClaims, for every set of workers, *)
(* every lease, renewal interval and pause, and every bound on stalls.     *)
(***************************************************************************)
EXTENDS RunClaims, TLAPS

\* The row lock belongs to a fenced worker, which still holds the claim.
Locked ==
  /\ \A w \in Workers : pc[w] = "fenced" => lock = w /\ holder = w
  /\ lock # Nobody => pc[lock] = "fenced"

\* How much of the lease is left to a prompt holder: the sample it was taken
\* or renewed with may have been old, and the renewer sleeps and stalls.
Remaining ==
  Prompt => \A w \in Workers : pc[w] \in Holding =>
    /\ holder = w /\ exists
    /\ IF beat[w] = Asleep THEN lease >= Lease - MaxStall - nap[w]
                           ELSE lease >= Lease - MaxStall - Interval - beat[w]

\* The inductive invariant.
Inv == TypeOK /\ Locked

\* Every initial state satisfies it.
LEMMA InitInv == Init => Inv /\ Remaining
<1> SUFFICES ASSUME Init PROVE Inv /\ Remaining
  OBVIOUS
<1>1. lease \in -MaxStall..Lease /\ pause \in -MaxStall..Pause /\ 0 \in Ages /\ 0 \in 0..Interval
  BY TimesAssumption DEF Init, Ages
<1>2. TypeOK
  BY <1>1 DEF Init, TypeOK
<1>3. Locked /\ Remaining
  BY DEF Init, Locked, Remaining, Holding
<1> QED BY <1>2, <1>3 DEF Inv

\* The row keeps its type in every step of a worker.
LEMMA StepTypes ==
  ASSUME TypeOK, NEW w \in Workers, Worker(w) \/ Renewer(w) \/ Crash(w)
  PROVE  TypeOK'
<1> USE TimesAssumption DEF TypeOK, Ages, Holding, Asleep, Goto, Sample, WriteRow, KeepRow
<1>1. CASE Select(w) BY <1>1 DEF Select
<1>2. CASE Read(w) BY <1>2 DEF Read
<1>3. CASE Take(w)
  <2>1. age[w] \in 0..MaxStall
    OBVIOUS
  <2>2. lease' \in -MaxStall..Lease /\ pause' \in -MaxStall..Pause
    BY <1>3, <2>1 DEF Take
  <2> QED BY <1>3, <2>2 DEF Take
<1>4. CASE Miss(w) BY <1>4 DEF Miss
<1>5. CASE Finish(w) BY <1>5 DEF Finish
<1>6. CASE Fence(w) BY <1>6 DEF Fence
<1>7. CASE FenceFails(w) BY <1>7 DEF FenceFails
<1>8. CASE Commit(w) BY <1>8 DEF Commit
<1>9. CASE Release(w)
  <2>1. age[w] \in 0..MaxStall
    OBVIOUS
  <2>2. lease' \in -MaxStall..Lease /\ pause' \in -MaxStall..Pause
    BY <1>9, <2>1 DEF Release
  <2>3. pc' \in [Workers -> {"idle", "selected", "read", "releasing"} \cup Holding]
    BY <1>9 DEF Release
  <2>4. exists' \in BOOLEAN /\ holder' \in Workers \cup {Nobody} /\ fresh' \in [Workers -> BOOLEAN]
    BY <1>9 DEF Release
  <2>5. /\ nap' \in [Workers -> 0..Interval] /\ beat' \in [Workers -> Ages \cup {Asleep}]
        /\ age' \in [Workers -> Ages] /\ lock' = lock
    BY <1>9 DEF Release
  <2> QED BY <2>2, <2>3, <2>4, <2>5
<1>10. CASE Wake(w) BY <1>10 DEF Wake
<1>11. CASE Renew(w) BY <1>11 DEF Renew
<1>12. CASE LoseLease(w) BY <1>12 DEF LoseLease
<1>13. CASE Crash(w) BY <1>13 DEF Crash
<1> QED BY <1>1, <1>2, <1>3, <1>4, <1>5, <1>6, <1>7, <1>8, <1>9, <1>10, <1>11, <1>12, <1>13
        DEF Worker, Renewer

\* The clock keeps every type.
LEMMA TickTypes == ASSUME TypeOK, Tick PROVE TypeOK'
<1>1. lease' \in -MaxStall..Lease /\ pause' \in -MaxStall..Pause
  BY TimesAssumption DEF TypeOK, Tick, Down
<1>2. age' \in [Workers -> Ages]
  BY TimesAssumption DEF TypeOK, Tick, Pending, Ages
<1>3. beat' \in [Workers -> Ages \cup {Asleep}]
  BY TimesAssumption DEF TypeOK, Tick, Ages, Asleep, Holding
<1>4. nap' \in [Workers -> 0..Interval]
  BY TimesAssumption DEF TypeOK, Tick, Up
<1> QED BY <1>1, <1>2, <1>3, <1>4 DEF TypeOK, Tick

\* Nobody writes the row past a fenced worker.
LEMMA StepLocked ==
  ASSUME Inv, NEW w \in Workers, Worker(w) \/ Renewer(w) \/ Crash(w)
  PROVE  Locked'
<1> USE WorkersAssumption DEF Inv, TypeOK, Locked, Goto, KeepRow
<1>1. CASE Select(w) BY <1>1 DEF Select
<1>2. CASE Read(w) BY <1>2 DEF Read
<1>3. CASE Take(w) BY <1>3 DEF Take
<1>4. CASE Miss(w) BY <1>4 DEF Miss
<1>5. CASE Finish(w) BY <1>5 DEF Finish
<1>6. CASE Fence(w) BY <1>6 DEF Fence
<1>7. CASE FenceFails(w) BY <1>7 DEF FenceFails
<1>8. CASE Commit(w) BY <1>8 DEF Commit
<1>9. CASE Release(w) BY <1>9 DEF Release
<1>10. CASE Wake(w) BY <1>10 DEF Wake
<1>11. CASE Renew(w) BY <1>11 DEF Renew
<1>12. CASE LoseLease(w) BY <1>12 DEF LoseLease
<1>13. CASE Crash(w) BY <1>13 DEF Crash
<1> QED BY <1>1, <1>2, <1>3, <1>4, <1>5, <1>6, <1>7, <1>8, <1>9, <1>10, <1>11, <1>12, <1>13
        DEF Worker, Renewer

\* The inductive step.
LEMMA NextInv == Inv /\ [Next]_vars => Inv'
<1> SUFFICES ASSUME Inv, [Next]_vars PROVE Inv'
  OBVIOUS
<1>1. ASSUME NEW w \in Workers, Worker(w) \/ Renewer(w) \/ Crash(w) PROVE Inv'
  BY <1>1, StepTypes, StepLocked DEF Inv
<1>2. CASE Tick
  <2>1. Locked'
    BY <1>2 DEF Inv, Locked, Tick
  <2> QED BY <1>2, <2>1, TickTypes DEF Inv
<1>3. CASE UNCHANGED vars
  BY <1>3 DEF Inv, TypeOK, Locked, vars
<1> QED BY <1>1, <1>2, <1>3 DEF Next

\* Fencing is sound throughout.
LEMMA Invariance == Spec => []Inv
BY InitInv, NextInv, PTL DEF Spec

-----------------------------------------------------------------------------
(* The lease of a prompt holder.                                           *)

\* A running lease keeps contenders out: whoever wins the row found it
\* expired at a sample that was not from the future.
LEMMA WinnersWait ==
  ASSUME TypeOK, NEW w \in Workers, Wins(w), exists
  PROVE  lease <= 0
BY TimesAssumption DEF TypeOK, Wins, PassedAt, Ages

\* Every step of a worker leaves a prompt holder its claim.
LEMMA StepRemaining ==
  ASSUME Inv, Remaining, NEW w \in Workers, Worker(w) \/ Renewer(w) \/ Crash(w)
  PROVE  Remaining'
<1> SUFFICES ASSUME Prompt, NEW v \in Workers, pc'[v] \in Holding
             PROVE  /\ holder' = v /\ exists'
                    /\ IF beat'[v] = Asleep THEN lease' >= Lease - MaxStall - nap'[v]
                                            ELSE lease' >= Lease - MaxStall - Interval - beat'[v]
  BY DEF Remaining
<1> USE DEF Inv, TypeOK, Goto
<1>0. pc[v] \in Holding =>
        /\ holder = v /\ exists /\ lease > 0
        /\ IF beat[v] = Asleep THEN lease >= Lease - MaxStall - nap[v]
                               ELSE lease >= Lease - MaxStall - Interval - beat[v]
  BY TimesAssumption, PromptAssumption DEF Remaining, Ages, Asleep
<1>1. CASE Select(w) BY <1>0, <1>1 DEF Select, KeepRow, Holding
<1>2. CASE Read(w) BY <1>0, <1>2 DEF Read, Holding
<1>3. CASE Take(w)
  <2>1. CASE v = w
    BY <1>3, <2>1, TimesAssumption DEF Take, WriteRow, Ages
  <2>2. CASE v # w
    <3>1. exists /\ lease > 0
      BY <1>0, <1>3, <2>2 DEF Take
    <3> QED BY <1>3, <3>1, WinnersWait, TimesAssumption DEF Take
  <2> QED BY <2>1, <2>2
<1>4. CASE Miss(w) BY <1>0, <1>4 DEF Miss, KeepRow, Holding
<1>5. CASE Finish(w) BY <1>0, <1>5 DEF Finish, KeepRow, Holding
<1>6. CASE Fence(w) BY <1>0, <1>6 DEF Fence, WriteRow, Holding
<1>7. CASE FenceFails(w) BY <1>0, <1>7 DEF FenceFails, KeepRow, Holding
<1>8. CASE Commit(w) BY <1>0, <1>8 DEF Commit, KeepRow, Holding
<1>9. CASE Release(w)
  <2>1. v # w /\ pc[v] \in Holding
    BY <1>9 DEF Release, Holding
  <2> QED BY <1>0, <1>9, <2>1 DEF Release, KeepRow
<1>10. CASE Wake(w) BY <1>0, <1>10, TimesAssumption DEF Wake, KeepRow, Asleep
<1>11. CASE Renew(w)
  <2>1. v = w
    BY <1>0, <1>11 DEF Renew
  <2>2. beat[w] \in 0..MaxStall
    BY <1>11 DEF Renew, Ages
  <2> QED BY <1>0, <1>11, <2>1, <2>2, TimesAssumption DEF Renew, WriteRow
<1>12. CASE LoseLease(w)
  <2>1. w # v
    BY <1>0, <1>12, TimesAssumption DEF LoseLease, LiveAt, Ages, Asleep, Holding
  <2> QED BY <1>0, <1>12, <2>1 DEF LoseLease, KeepRow, Holding
<1>13. CASE Crash(w)
  <2>1. v # w /\ pc[v] \in Holding
    BY <1>13 DEF Crash, Holding
  <2> QED BY <1>0, <1>13, <2>1 DEF Crash
<1> QED BY <1>1, <1>2, <1>3, <1>4, <1>5, <1>6, <1>7, <1>8, <1>9, <1>10, <1>11, <1>12, <1>13
        DEF Worker, Renewer

\* The clock takes from the lease what it adds to the nap or the stall.
LEMMA TickRemaining == ASSUME Inv, Remaining, Tick PROVE Remaining'
<1> SUFFICES ASSUME Prompt, NEW v \in Workers, pc'[v] \in Holding
             PROVE  /\ holder' = v /\ exists'
                    /\ IF beat'[v] = Asleep THEN lease' >= Lease - MaxStall - nap'[v]
                                            ELSE lease' >= Lease - MaxStall - Interval - beat'[v]
  BY DEF Remaining
<1>1. /\ pc[v] \in Holding /\ holder = v /\ exists /\ holder' = holder /\ exists' = exists
      /\ IF beat[v] = Asleep THEN lease >= Lease - MaxStall - nap[v]
                             ELSE lease >= Lease - MaxStall - Interval - beat[v]
  BY DEF Remaining, Tick
<1>2. lease \in Int /\ lease' >= lease - 1 /\ lease' \in Int
  BY TimesAssumption DEF Inv, TypeOK, Tick, Down
<1>3. CASE beat[v] = Asleep
  <2>1. nap[v] \in 0..Interval /\ nap[v] < Interval /\ nap'[v] = nap[v] + 1 /\ beat'[v] = Asleep
    BY <1>1, <1>3, TimesAssumption DEF Inv, TypeOK, Tick, Up
  <2> QED BY <1>1, <1>2, <1>3, <2>1, TimesAssumption
<1>4. CASE beat[v] # Asleep
  <2>1. beat[v] \in 0..MaxStall /\ beat'[v] = beat[v] + 1 /\ beat'[v] # Asleep
    BY <1>1, <1>4, TimesAssumption DEF Inv, TypeOK, Tick, Ages, Asleep
  <2> QED BY <1>1, <1>2, <1>4, <2>1, TimesAssumption
<1> QED BY <1>3, <1>4

-----------------------------------------------------------------------------
(* The theorems.                                                           *)

\* Row, lock, clocks and workers keep their types.
THEOREM TypeCorrect == Spec => []TypeOK
BY Invariance, PTL DEF Inv

\* An outcome that fence_owned admitted commits under its own claim.
THEOREM OutcomesAreOwned == Spec => []OutcomeIsOwned
<1>1. Inv => OutcomeIsOwned
  BY DEF Inv, Locked, OutcomeIsOwned
<1> QED BY <1>1, Invariance, PTL

\* claim_once never takes over a running lease, whatever its clock samples.
THEOREM LiveLeases == Spec => LiveLeaseIsKept
<1>1. Inv /\ [Next]_vars =>
        [\A w \in Workers : (holder' = w /\ holder # w) => ~exists \/ lease <= 0]_vars
  <2> SUFFICES ASSUME Inv, [Next]_vars, NEW v \in Workers, holder' = v, holder # v, exists
               PROVE  lease <= 0
    OBVIOUS
  <2>1. PICK w \in Workers : Take(w)
    BY WorkersAssumption
       DEF Next, Worker, Renewer, Select, Read, Miss, Finish, Fence, FenceFails, Commit, Release,
           Wake, Renew, LoseLease, Crash, Tick, KeepRow, vars
  <2> QED BY <2>1, WinnersWait DEF Inv, Take
<1> QED BY <1>1, Invariance, PTL DEF Spec, LiveLeaseIsKept

\* With on-time renewers and a lease longer than the interval and two stalls,
\* nobody loses its claim while it is advancing the run.
THEOREM PromptHoldersKeepTheirClaim == Spec => []PromptHolderKeepsClaim
<1>1. Inv /\ Remaining /\ [Next]_vars => Remaining'
  <2>1. CASE UNCHANGED vars
    BY <2>1 DEF Remaining, vars
  <2> QED BY <2>1, StepRemaining, TickRemaining DEF Next
<1>2. Remaining => PromptHolderKeepsClaim
  BY DEF Remaining, PromptHolderKeepsClaim
<1> QED BY InitInv, <1>1, <1>2, Invariance, PTL DEF Spec

=============================================================================
