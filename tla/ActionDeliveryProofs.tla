------------------------ MODULE ActionDeliveryProofs ------------------------
(***************************************************************************)
(* Theorems about ActionDelivery, for every number of actions and workers, *)
(* every attempt limit, both handlers and any number of faults.            *)
(*                                                                         *)
(* The safety properties are not inductive.  Inv strengthens them with the *)
(* attempt ledger (who may still call with which attempt number) and with  *)
(* how the state of an action determines the states its step and its run   *)
(* can be in.                                                              *)
(***************************************************************************)
EXTENDS ActionDelivery, TLAPS, WellFoundedInduction

\* A worker about to call holds a started attempt that nobody has used, and
\* no two workers hold the same one.
Ledger ==
  /\ \A a \in Actions : executed[a] \subseteq 1..attempts[a]
  /\ \A a \in Actions \ Idempotent : attempts[a] <= 1
  /\ \A w \in Workers :
       pc[w] = "call" =>
         /\ att[w] \in 1..attempts[cur[w]]
         /\ att[w] \notin executed[cur[w]]
         /\ \A v \in Workers \ {w} :
              pc[v] = "call" => cur[v] # cur[w] \/ att[v] # att[w]

\* An armed action belongs to an executing run and an open step, an open run
\* keeps the step of a call executing, and a concluded action has no open step.
Coupled ==
  \A a \in Actions :
    /\ act[a] = "dispatch_reserved" => run = "executing" /\ step[a] \in {"ready", "executing"}
    /\ step[a] = "ready" => run = "executing"
    /\ act[a] = "dispatching" /\ run = "executing" => step[a] = "executing"
    /\ act[a] \in Verdicts => step[a] \notin {"ready", "executing"}

Inv == TypeOK /\ Ledger /\ Coupled /\ SuccessIsEvidenced

-----------------------------------------------------------------------------
(* Every step, reduced to what it does to the control of one worker, to the *)
(* database, and to the attempt ledger.                                     *)

\* Worker w moves on, and to anywhere but a fresh call.
Moves(w) ==
  /\ pc' \in [Workers -> Pcs]
  /\ cur' \in [Workers -> Actions]
  /\ rec' \in [Workers -> BOOLEAN]
  /\ \A v \in Workers :
       pc'[v] = "call" => v # w /\ pc[v] = "call" /\ cur'[v] = cur[v]

\* The call of action a has started and can be concluded.
Called(a) == act[a] = "dispatching" /\ step[a] = "executing" /\ run # "completed"

\* The ways a unit of work can change the run, its steps and its actions.
Effect ==
  \/ UNCHANGED <<run, step, act>>
  \/ \E s \in OpenSteps : run = "executing" /\ FailExecution(s)
  \/ \E a \in Actions : Called(a) /\ receipt[a] /\ FinalizeSuccess(a)
  \/ \E a \in Actions, v \in {"failed", "outcome_unknown"} :
       Called(a) /\ FinalizeFailure(a, v)
  \/ run = "executing" /\ OpenSteps = {} /\ run' = "failed" /\ UNCHANGED <<step, act>>
  \/ /\ run = "executing" /\ run' = "completed" /\ UNCHANGED <<step, act>>
     /\ \A a \in Actions : step[a] = "succeeded"
  \/ \E a \in Idempotent :
       /\ run = "executing" /\ act[a] = "dispatching" /\ attempts[a] < AttemptLimit
       /\ act' = [act EXCEPT ![a] = "dispatch_reserved"] /\ UNCHANGED <<run, step>>

\* Nothing is started or executed, and no worker gains an attempt to call with.
NoCall ==
  /\ UNCHANGED <<attempts, executed>>
  /\ \A v \in Workers :
       pc'[v] = "call" => pc[v] = "call" /\ cur'[v] = cur[v] /\ att'[v] = att[v]

\* The variables that only their types constrain.
Typed ==
  /\ age' \in [Actions -> Ages]
  /\ receipt' \in [Actions -> BOOLEAN] /\ \A a \in Actions : receipt[a] => receipt'[a]
  /\ claim' \in Workers \cup {NoWorker}
  /\ pc' \in [Workers -> Pcs]
  /\ cur' \in [Workers -> Actions]
  /\ att' \in [Workers -> 0..AttemptLimit]
  /\ rec' \in [Workers -> BOOLEAN]
  /\ faults' \in 0..MaxFaults

\* A step of the system other than the start, the execution and the
\* cancellation of calls.
OrdinaryStep == Effect /\ NoCall /\ Typed

\* The control operators move the worker as Moves says.
LEMMA ControlMoves ==
  ASSUME TypeOK, NEW w \in Workers
  PROVE /\ \A p \in Pcs \ {"call"}, a \in Actions, b \in BOOLEAN : Goto(w, p, a, b) => Moves(w)
        /\ \A p \in Pcs \ {"call"} : Stay(w, p) => Moves(w)
        /\ NextRecovery(w) => Moves(w)
        /\ NextDispatch(w) => Moves(w)
        /\ Raise(w) => Moves(w)
        /\ \A d : Return(w, d) => Moves(w)
<1>1. ASSUME NEW p \in Pcs \ {"call"}, NEW a \in Actions, NEW b \in BOOLEAN, Goto(w, p, a, b)
      PROVE  Moves(w)
  BY <1>1 DEF Goto, Moves, TypeOK
<1>2. cur[w] \in Actions /\ rec[w] \in BOOLEAN /\ 1 \in Actions
  BY NAssumption DEF TypeOK, Actions
<1>3. cur[w] < N => cur[w] + 1 \in Actions
  BY <1>2, NAssumption DEF Actions
<1>4. \A p \in Pcs \ {"call"} : Stay(w, p) => Moves(w)
  BY <1>1, <1>2 DEF Stay
<1>5. NextRecovery(w) => Moves(w)
  BY <1>1, <1>2, <1>3 DEF NextRecovery, Pcs
<1>6. NextDispatch(w) => Moves(w)
  BY <1>1, <1>2, <1>3 DEF NextDispatch, Pcs
<1>7. Raise(w) => Moves(w)
  BY <1>1, <1>2, <1>5 DEF Raise, Pcs
<1>8. \A d : Return(w, d) => Moves(w)
  BY <1>1, <1>2, <1>5, <1>6 DEF Return, Pcs
<1> QED
  BY <1>1, <1>4, <1>5, <1>6, <1>7, <1>8

\* The first of a set of steps is one of them.
LEMMA FirstIsMember ==
  ASSUME NEW S \in SUBSET Actions, S # {}
  PROVE  First(S) \in S
<1>1. S \subseteq Nat
  BY NAssumption DEF Actions
<1>2. \E a \in S : \A b \in S : <<b, a>> \notin OpToRel(<, Nat)
  BY <1>1, NatLessThanWellFounded, WFMin
<1>3. \E a \in S : \A b \in S : ~(b < a)
  BY <1>1, <1>2 DEF OpToRel
<1>4. \E a \in S : \A b \in S : a <= b
  BY <1>1, <1>3
<1> QED
  BY <1>4 DEF First

\* A worker that moves on and changes nothing else takes an ordinary step.
LEMMA MoveIsOrdinary ==
  ASSUME TypeOK, NEW w \in Workers, Moves(w), Effect,
         UNCHANGED <<attempts, age, receipt, executed>>,
         claim' \in Workers \cup {NoWorker}, faults' \in 0..MaxFaults,
         att' = att \/ (\E n \in 0..AttemptLimit : att' = [att EXCEPT ![w] = n])
  PROVE  OrdinaryStep
<1>1. att' \in [Workers -> 0..AttemptLimit]
  BY DEF TypeOK
<1>2. \A v \in Workers \ {w} : att'[v] = att[v]
  BY DEF TypeOK
<1>3. NoCall
  BY <1>2 DEF NoCall, Moves
<1>4. Typed
  BY <1>1 DEF Typed, Moves, TypeOK
<1> QED
  BY <1>3, <1>4 DEF OrdinaryStep

\* Every step of a worker except StartCall and Execute is ordinary.
LEMMA WorkerSteps ==
  ASSUME TypeOK, SuccessIsEvidenced, NEW w \in Workers, Worker(w)
  PROVE  OrdinaryStep \/ StartCall(w) \/ Execute(w)
<1> DEFINE Simple == UNCHANGED <<run, step, act, attempts, age, receipt, claim, att, executed, faults>>
<1> USE DEF db
<1>0. /\ claim \in Workers \cup {NoWorker} /\ faults \in 0..MaxFaults /\ cur[w] \in Actions
      /\ attempts[cur[w]] \in 0..AttemptLimit /\ w \in Workers \cup {NoWorker}
      /\ rec[w] \in BOOLEAN /\ 1 \in Actions
  BY NAssumption DEF TypeOK, Actions
<1>1. ASSUME Moves(w), Simple PROVE OrdinaryStep
  BY <1>0, <1>1, MoveIsOrdinary DEF Effect
<1>2. ASSUME Moves(w), Effect, UNCHANGED <<attempts, age, receipt, claim, att, executed, faults>>
      PROVE  OrdinaryStep
  BY <1>0, <1>2, MoveIsOrdinary
<1>3. CASE ClaimToAdvance(w) \/ ClaimToClose(w)
  <2>1. Moves(w)
    BY <1>0, <1>3, ControlMoves DEF ClaimToAdvance, ClaimToClose, Pcs
  <2> QED
    BY <1>0, <1>3, <2>1, MoveIsOrdinary DEF ClaimToAdvance, ClaimToClose, Effect
<1>4. CASE ReleaseClaim(w)
  <2>1. Moves(w)
    BY <1>4, ControlMoves DEF ReleaseClaim, Pcs
  <2> QED
    BY <1>0, <1>4, <2>1, MoveIsOrdinary DEF ReleaseClaim, Effect
<1>5. CASE FailRun(w)
  <2>1. Moves(w)
    BY <1>5, ControlMoves DEF FailRun, Pcs
  <2>2. OpenSteps # {} => First(OpenSteps) \in OpenSteps
    BY FirstIsMember DEF OpenSteps
  <2> QED
    BY <1>2, <1>5, <2>1, <2>2 DEF FailRun, Effect
<1>6. CASE AbandonLostClaim(w) \/ RecoverNothing(w) \/ Settle(w) \/ StartDenied(w)
  <2>1. Moves(w)
    BY <1>0, <1>6, ControlMoves DEF AbandonLostClaim, RecoverNothing, Settle, StartDenied, Pcs
  <2> QED
    BY <1>1, <1>6, <2>1 DEF AbandonLostClaim, RecoverNothing, Settle, StartDenied
<1>7. CASE StartNothing(w) \/ CallTooLate(w) \/ CallRefused(w) \/ CallUncertain(w)
  <2>1. Moves(w)
    BY <1>0, <1>7, ControlMoves DEF StartNothing, CallTooLate, CallRefused, CallUncertain, Pcs
  <2> QED
    BY <1>1, <1>7, <2>1 DEF StartNothing, CallTooLate, CallRefused, CallUncertain
<1>8. CASE CallReturned(w) \/ CompletionLost(w) \/ CompleteUncertain(w)
  <2>1. Moves(w)
    BY <1>0, <1>8, ControlMoves DEF CallReturned, CompletionLost, CompleteUncertain, Pcs
  <2> QED
    BY <1>1, <1>8, <2>1 DEF CallReturned, CompletionLost, CompleteUncertain
<1>9. CASE FinishRaises(w) \/ CloseDone(w)
  <2>1. Moves(w)
    BY <1>0, <1>9, ControlMoves DEF FinishRaises, CloseDone, Pcs
  <2> QED
    BY <1>1, <1>9, <2>1 DEF FinishRaises, CloseDone
<1>10. CASE RecoverTerminalParent(w)
  <2>1. Moves(w)
    BY <1>0, <1>10, ControlMoves DEF RecoverTerminalParent, Pcs
  <2>2. Effect
    BY <1>0, <1>10 DEF RecoverTerminalParent, Expired, CloseExpiredCall, Effect, Called
  <2> QED
    BY <1>0, <1>10, <2>1, <2>2, MoveIsOrdinary DEF RecoverTerminalParent
<1>11. CASE RecoverReceipt(w)
  <2>1. Moves(w)
    BY <1>0, <1>11, ControlMoves DEF RecoverReceipt, Pcs
  <2>2. Effect
    BY <1>0, <1>11 DEF RecoverReceipt, Unchanged, Completable, Effect, Called
  <2> QED
    BY <1>2, <1>11, <2>1, <2>2 DEF RecoverReceipt
<1>12. CASE RecoverRelease(w)
  <2>1. Moves(w)
    BY <1>0, <1>12, ControlMoves DEF RecoverRelease, Pcs
  <2>2. Effect
    BY <1>0, <1>12 DEF RecoverRelease, MayRetry, Unchanged, Effect
  <2> QED
    BY <1>2, <1>12, <2>1, <2>2 DEF RecoverRelease
<1>13. CASE RecoverUnknown(w)
  <2>1. Moves(w)
    BY <1>0, <1>13, ControlMoves DEF RecoverUnknown, Pcs
  <2>2. Effect
    BY <1>0, <1>13 DEF RecoverUnknown, Unchanged, Completable, Effect, Called
  <2> QED
    BY <1>2, <1>13, <2>1, <2>2 DEF RecoverUnknown
<1>14. CASE RecordDenial(w)
  <2>1. Moves(w)
    BY <1>0, <1>14, ControlMoves DEF RecordDenial, Pcs
  <2>2. Effect
    BY <1>14 DEF RecordDenial, Effect
  <2> QED
    BY <1>2, <1>14, <2>1, <2>2 DEF RecordDenial
<1>15. CASE Deliver(w)
  <2>1. Moves(w)
    BY <1>15, ControlMoves DEF Deliver, Pcs
  <2>2. Typed
    BY <1>15, <2>1 DEF Deliver, Typed, Moves, TypeOK
  <2> QED
    BY <1>15, <2>1, <2>2 DEF Deliver, OrdinaryStep, Effect, NoCall, Moves
<1>16. CASE CompleteSuccess(w)
  <2>1. Moves(w)
    BY <1>16, ControlMoves DEF CompleteSuccess
  <2>2. Effect
    BY <1>0, <1>16 DEF CompleteSuccess, Unchanged, Completable, Effect, Called
  <2> QED
    BY <1>2, <1>16, <2>1, <2>2 DEF CompleteSuccess
<1>17. CASE CompleteFailure(w)
  <2>1. Moves(w)
    BY <1>17, ControlMoves DEF CompleteFailure
  <2>2. Effect
    BY <1>0, <1>17 DEF CompleteFailure, Unchanged, Completable, Effect, Called
  <2> QED
    BY <1>2, <1>17, <2>1, <2>2 DEF CompleteFailure
<1>18. CASE Finish(w)
  <2>1. Moves(w)
    BY <1>18, ControlMoves DEF Finish, Pcs
  <2>2. Effect
    BY <1>18 DEF Finish, Effect
  <2> QED
    BY <1>2, <1>18, <2>1, <2>2 DEF Finish
<1>19. CASE CloseCall(w)
  <2>1. Moves(w)
    BY <1>19, ControlMoves DEF CloseCall, Pcs
  <2>2. \A a \in Actions : Expired(a) => run # "completed"
    BY DEF Expired, SuccessIsEvidenced
  <2>3. Effect
    BY <1>19, <2>2 DEF CloseCall, Expired, CloseExpiredCall, Effect, Called
  <2> QED
    BY <1>2, <1>19, <2>1, <2>3 DEF CloseCall
<1> QED
  BY <1>3, <1>4, <1>5, <1>6, <1>7, <1>8, <1>9, <1>10, <1>11, <1>12, <1>13, <1>14,
     <1>15, <1>16, <1>17, <1>18, <1>19 DEF Worker

\* So is every step of the clock, of the faults and of the finished system.
LEMMA Steps ==
  ASSUME TypeOK, SuccessIsEvidenced, [Next]_vars
  PROVE  \/ OrdinaryStep
         \/ CancelRun
         \/ \E w \in Workers : StartCall(w) \/ Execute(w)
<1> USE DEF db, local
<1>1. CASE \E w \in Workers : Worker(w)
  BY <1>1, WorkerSteps
<1>2. CASE UNCHANGED vars
  BY <1>2 DEF vars, OrdinaryStep, Effect, NoCall, Typed, TypeOK
<1>3. CASE \E a \in Actions : Tick(a)
  <2>1. age' \in [Actions -> Ages]
    BY <1>3 DEF Tick, TypeOK, Ages
  <2> QED
    BY <1>3, <2>1 DEF Tick, OrdinaryStep, Effect, NoCall, Typed, TypeOK
<1>4. CASE DeadClaimExpires
  BY <1>4 DEF DeadClaimExpires, OrdinaryStep, Effect, NoCall, Typed, TypeOK
<1>5. Fault => faults' \in 0..MaxFaults
  BY FaultsAssumption DEF Fault, TypeOK
<1>6. CASE ClaimStalls
  BY <1>5, <1>6 DEF ClaimStalls, OrdinaryStep, Effect, NoCall, Typed, TypeOK
<1>7. ASSUME NEW w \in Workers, Crash(w) \/ Shutdown(w) \/ AdvanceTimeout(w)
      PROVE  OrdinaryStep
  <2>1. Moves(w)
    BY <1>7, ControlMoves DEF Crash, Shutdown, AdvanceTimeout, Pcs
  <2>2. claim \in Workers \cup {NoWorker}
    BY DEF TypeOK
  <2> QED
    BY <1>5, <1>7, <2>1, <2>2, MoveIsOrdinary DEF Crash, Shutdown, AdvanceTimeout, Effect
<1> QED
  BY <1>1, <1>2, <1>3, <1>4, <1>6, <1>7 DEF Next, Time, Faults, Done

-----------------------------------------------------------------------------
(* The inductive invariant.                                                *)

\* The released run satisfies the invariant.
LEMMA InitInv == Init => Inv
<1> SUFFICES ASSUME Init PROVE Inv
  OBVIOUS
<1>1. TypeOK
  BY NAssumption, LimitAssumption, FaultsAssumption
     DEF Init, TypeOK, RunStates, StepStates, ActionStates, Ages, Pcs, Actions
<1>2. Ledger
  BY DEF Init, Ledger
<1>3. Coupled /\ SuccessIsEvidenced
  BY DEF Init, Coupled, SuccessIsEvidenced, Verdicts
<1> QED
  BY <1>1, <1>2, <1>3 DEF Inv

\* What a unit of work does to the run, its steps and its actions keeps the
\* three coupled and keeps every success evidenced.
LEMMA EffectInv ==
  ASSUME TypeOK, Coupled, SuccessIsEvidenced, Effect,
         \A a \in Actions : receipt[a] => receipt'[a]
  PROVE  /\ run' \in RunStates /\ step' \in [Actions -> StepStates]
         /\ act' \in [Actions -> ActionStates]
         /\ Coupled' /\ SuccessIsEvidenced'
<1> USE DEF TypeOK, Coupled, SuccessIsEvidenced, RunStates, StepStates, ActionStates, Verdicts
<1>1. CASE UNCHANGED <<run, step, act>>
  BY <1>1
<1>2. CASE \E s \in OpenSteps : run = "executing" /\ FailExecution(s)
  BY <1>2 DEF FailExecution, CleanedSteps, CleanedActions, NoFocal, OpenSteps, Actions
<1>3. CASE \E a \in Actions : Called(a) /\ receipt[a] /\ FinalizeSuccess(a)
  BY <1>3 DEF Called, FinalizeSuccess
<1>4. CASE \E a \in Actions, v \in {"failed", "outcome_unknown"} :
             Called(a) /\ FinalizeFailure(a, v)
  <2> PICK a \in Actions, v \in {"failed", "outcome_unknown"} :
             Called(a) /\ FinalizeFailure(a, v)
    BY <1>4
  <2>1. CASE run = "executing"
    <3>1. /\ run' = "failed" /\ act[a] = "dispatching" /\ step[a] = "executing"
          /\ step' = CleanedSteps(a, a)
          /\ act' = [CleanedActions(a) EXCEPT ![a] = v]
      BY <2>1 DEF Called, FinalizeFailure
    <3>2. /\ step' \in [Actions -> StepStates] /\ act' \in [Actions -> ActionStates]
          /\ act'[a] = v /\ step'[a] = "failed"
      BY <3>1 DEF CleanedSteps, CleanedActions
    <3>3. \A b \in Actions \ {a} :
            /\ act'[b] = IF act[b] = "dispatch_reserved" THEN "cancelled" ELSE act[b]
            /\ step'[b] = IF step[b] = "executing" /\ act[b] = "dispatch_reserved" THEN "failed"
                          ELSE IF step[b] = "ready" THEN "skipped" ELSE step[b]
      BY <3>1 DEF CleanedSteps, CleanedActions
    <3> QED
      BY <2>1, <3>1, <3>2, <3>3
  <2>2. CASE run # "executing"
    BY <2>2 DEF Called, FinalizeFailure
  <2> QED
    BY <2>1, <2>2
<1>5. CASE run = "executing" /\ OpenSteps = {} /\ run' = "failed" /\ UNCHANGED <<step, act>>
  BY <1>5 DEF OpenSteps
<1>6. CASE /\ run = "executing" /\ run' = "completed" /\ UNCHANGED <<step, act>>
           /\ \A a \in Actions : step[a] = "succeeded"
  BY <1>6
<1>7. CASE \E a \in Idempotent :
             /\ run = "executing" /\ act[a] = "dispatching" /\ attempts[a] < AttemptLimit
             /\ act' = [act EXCEPT ![a] = "dispatch_reserved"] /\ UNCHANGED <<run, step>>
  BY <1>7, IdempotentAssumption
<1> QED
  BY <1>1, <1>2, <1>3, <1>4, <1>5, <1>6, <1>7 DEF Effect

\* Without a call the attempt ledger stays as it was.
LEMMA NoCallLedger ==
  ASSUME TypeOK, Ledger, NoCall
  PROVE  Ledger'
<1>1. /\ \A a \in Actions : executed'[a] \subseteq 1..attempts'[a]
      /\ \A a \in Actions \ Idempotent : attempts'[a] <= 1
  BY DEF Ledger, NoCall
<1>2. ASSUME NEW w \in Workers, pc'[w] = "call"
      PROVE  /\ att'[w] \in 1..attempts'[cur'[w]]
             /\ att'[w] \notin executed'[cur'[w]]
             /\ \A v \in Workers \ {w} :
                  pc'[v] = "call" => cur'[v] # cur'[w] \/ att'[v] # att'[w]
  <2>1. pc[w] = "call" /\ cur'[w] = cur[w] /\ att'[w] = att[w]
    BY <1>2 DEF NoCall
  <2> QED
    BY <2>1 DEF Ledger, NoCall
<1> QED
  BY <1>1, <1>2 DEF Ledger

\* Starting a call hands its worker a fresh attempt number.
LEMMA StartCallInv ==
  ASSUME Inv, NEW w \in Workers, StartCall(w)
  PROVE  Inv'
<1> DEFINE a == cur[w]
<1>1. /\ a \in Actions /\ attempts[a] \in Nat /\ attempts[a] < AttemptLimit
      /\ run = "executing" /\ act[a] = "dispatch_reserved"
      /\ attempts[a] = 0 \/ a \in Idempotent
      /\ AttemptLimit \in Nat
  BY LimitAssumption DEF Inv, TypeOK, StartCall, MayStart
<1>2. /\ act' = [act EXCEPT ![a] = "dispatching"]
      /\ step' = [step EXCEPT ![a] = "executing"]
      /\ attempts' = [attempts EXCEPT ![a] = attempts[a] + 1]
      /\ age' = [age EXCEPT ![a] = "live"]
      /\ att' = [att EXCEPT ![w] = attempts[a] + 1]
      /\ pc' = [pc EXCEPT ![w] = "call"]
      /\ cur' = [cur EXCEPT ![w] = a]
      /\ rec' = [rec EXCEPT ![w] = rec[w]]
      /\ UNCHANGED <<run, receipt, claim, executed, faults>>
  BY DEF StartCall, Stay, Goto
<1>3. TypeOK'
  BY <1>1, <1>2 DEF Inv, TypeOK, StepStates, ActionStates, Ages, Pcs
<1>4. Coupled' /\ SuccessIsEvidenced'
  BY <1>1, <1>2 DEF Inv, TypeOK, Coupled, SuccessIsEvidenced, Verdicts
<1>5. Ledger'
  <2>1. /\ attempts'[a] = attempts[a] + 1
        /\ \A b \in Actions \ {a} : attempts'[b] = attempts[b]
        /\ pc'[w] = "call" /\ cur'[w] = a /\ att'[w] = attempts[a] + 1
        /\ \A v \in Workers \ {w} : pc'[v] = pc[v] /\ cur'[v] = cur[v] /\ att'[v] = att[v]
        /\ \A b \in Actions : attempts[b] \in Nat
        /\ \A v \in Workers : cur[v] \in Actions
    BY <1>1, <1>2 DEF Inv, TypeOK
  <2>2. \A b \in Actions : executed'[b] \subseteq 1..attempts'[b]
    BY <1>1, <1>2, <2>1 DEF Inv, Ledger
  <2>3. \A b \in Actions \ Idempotent : attempts'[b] <= 1
    BY <1>1, <2>1 DEF Inv, Ledger
  <2>4. /\ att'[w] \in 1..attempts'[cur'[w]]
        /\ att'[w] \notin executed'[cur'[w]]
    BY <1>1, <1>2, <2>1 DEF Inv, Ledger
  <2>5. ASSUME NEW v \in Workers \ {w}, pc'[v] = "call"
        PROVE  /\ att'[v] \in 1..attempts'[cur'[v]]
               /\ att'[v] \notin executed'[cur'[v]]
               /\ cur'[v] # cur'[w] \/ att'[v] # att'[w]
    <3>1. pc[v] = "call" /\ cur[v] \in Actions /\ att[v] \in 1..attempts[cur[v]]
          /\ att[v] \notin executed[cur[v]]
      BY <2>1, <2>5 DEF Inv, Ledger
    <3> QED
      BY <1>1, <1>2, <2>1, <3>1
  <2>6. \A v, u \in Workers \ {w} :
          v # u /\ pc'[v] = "call" /\ pc'[u] = "call" => cur'[v] # cur'[u] \/ att'[v] # att'[u]
    BY <2>1 DEF Inv, Ledger
  <2> QED
    BY <2>2, <2>3, <2>4, <2>5, <2>6 DEF Ledger
<1> QED
  BY <1>3, <1>4, <1>5 DEF Inv

\* Executing a call spends the worker's attempt number and nobody else's.
LEMMA ExecuteInv ==
  ASSUME Inv, NEW w \in Workers, Execute(w)
  PROVE  Inv'
<1> USE DEF db
<1> DEFINE a == cur[w]
<1>1. /\ a \in Actions /\ pc[w] = "call" /\ att[w] \in 1..attempts[a] /\ attempts[a] \in 0..AttemptLimit
      /\ att[w] \in 1..AttemptLimit
  BY LimitAssumption DEF Inv, TypeOK, Ledger, Execute
<1>2. /\ executed' = [executed EXCEPT ![a] = executed[a] \cup {att[w]}]
      /\ pc' = [pc EXCEPT ![w] = "inflight"]
      /\ UNCHANGED <<run, step, act, attempts, age, receipt, claim, att, faults>>
      /\ cur' = [cur EXCEPT ![w] = a] /\ rec' = [rec EXCEPT ![w] = rec[w]]
  BY DEF Execute, Stay, Goto
<1>3. TypeOK'
  BY <1>1, <1>2 DEF Inv, TypeOK, Pcs
<1>4. Coupled' /\ SuccessIsEvidenced'
  BY <1>2 DEF Inv, Coupled, SuccessIsEvidenced
<1>5. Ledger'
  <2>1. /\ \A b \in Actions : executed'[b] = IF b = a THEN executed[a] \cup {att[w]} ELSE executed[b]
        /\ pc'[w] # "call"
        /\ \A v \in Workers \ {w} : pc'[v] = pc[v] /\ cur'[v] = cur[v] /\ cur[v] \in Actions
    BY <1>1, <1>2 DEF Inv, TypeOK
  <2>2. /\ \A b \in Actions : executed'[b] \subseteq 1..attempts'[b]
        /\ \A b \in Actions \ Idempotent : attempts'[b] <= 1
    BY <1>1, <1>2, <2>1 DEF Inv, Ledger
  <2>3. ASSUME NEW v \in Workers, pc'[v] = "call"
        PROVE  /\ att'[v] \in 1..attempts'[cur'[v]]
               /\ att'[v] \notin executed'[cur'[v]]
               /\ \A u \in Workers \ {v} :
                    pc'[u] = "call" => cur'[u] # cur'[v] \/ att'[u] # att'[v]
    <3>1. v # w /\ pc[v] = "call" /\ cur'[v] = cur[v] /\ cur[v] \in Actions
      BY <2>1, <2>3
    <3>2. /\ att[v] \in 1..attempts[cur[v]] /\ att[v] \notin executed[cur[v]]
          /\ \A u \in Workers \ {v} : pc[u] = "call" => cur[u] # cur[v] \/ att[u] # att[v]
      BY <3>1 DEF Inv, Ledger
    <3> QED
      BY <1>1, <1>2, <2>1, <3>1, <3>2
  <2> QED
    BY <2>2, <2>3 DEF Ledger
<1> QED
  BY <1>3, <1>4, <1>5 DEF Inv

\* Cancellation disarms every action that has no call in flight.
LEMMA CancelRunInv ==
  ASSUME Inv, CancelRun
  PROVE  Inv'
<1> USE DEF local
<1>1. TypeOK'
  BY DEF Inv, TypeOK, CancelRun, CleanedActions, RunStates, StepStates, ActionStates, Verdicts
<1>2. Coupled' /\ SuccessIsEvidenced'
  BY DEF Inv, TypeOK, CancelRun, CleanedActions, NoFocal, Actions, Coupled, SuccessIsEvidenced,
         StepStates, ActionStates, Verdicts
<1>3. Ledger'
  BY NoCallLedger DEF Inv, CancelRun, NoCall
<1> QED
  BY <1>1, <1>2, <1>3 DEF Inv

\* Every step preserves the invariant.
LEMMA NextInv == Inv /\ [Next]_vars => Inv'
<1> SUFFICES ASSUME Inv, [Next]_vars PROVE Inv'
  OBVIOUS
<1>1. CASE OrdinaryStep
  <2>1. /\ run' \in RunStates /\ step' \in [Actions -> StepStates]
        /\ act' \in [Actions -> ActionStates] /\ Coupled' /\ SuccessIsEvidenced'
    BY <1>1, EffectInv DEF Inv, OrdinaryStep, Typed
  <2>2. TypeOK'
    BY <1>1, <2>1 DEF Inv, TypeOK, OrdinaryStep, Typed, NoCall
  <2>3. Ledger'
    BY <1>1, NoCallLedger DEF Inv, OrdinaryStep
  <2> QED
    BY <2>1, <2>2, <2>3 DEF Inv
<1> QED
  BY <1>1, Steps, StartCallInv, ExecuteInv, CancelRunInv DEF Inv

-----------------------------------------------------------------------------
(* The theorems.                                                           *)

\* The inductive invariant holds in every reachable state.
LEMMA Invariance == Spec => []Inv
BY InitInv, NextInv, PTL DEF Spec

\* Type correctness of the delivery model.
THEOREM TypeCorrect == Spec => []TypeOK
BY Invariance, PTL DEF Inv

\* dispatch_once and stale recovery never call a provider twice that declares
\* no idempotency, and no two workers ever call with the same attempt.
THEOREM NoBlindRetryHolds == Spec => []NoBlindRetry
<1>1. Inv => NoBlindRetry
  <2> SUFFICES ASSUME Inv PROVE NoBlindRetry
    OBVIOUS
  <2>1. \A a \in Actions \ Idempotent : executed[a] \subseteq {1}
    BY DEF Inv, TypeOK, Ledger
  <2> QED
    BY <2>1 DEF Inv, Ledger, NoBlindRetry
<1> QED
  BY <1>1, Invariance, PTL

\* Cancellation and terminal cleanup disarm everything: no call can start
\* under a run that has ended.
THEOREM NothingArmed == Spec => []NothingArmedAfterTerminal
<1>1. Inv => NothingArmedAfterTerminal
  BY DEF Inv, Coupled, NothingArmedAfterTerminal
<1> QED
  BY <1>1, Invariance, PTL

\* Success verdicts are backed by durable receipts, and a completed run
\* delivered everything.
THEOREM SuccessEvidenced == Spec => []SuccessIsEvidenced
BY Invariance, PTL DEF Inv

\* No late response, stale worker or recovery overwrites a concluded action,
\* its step or an ended run.
THEOREM VerdictsFinal == Spec => VerdictsAreFinal
<1> DEFINE Final == /\ \A a \in Actions :
                         act[a] \in Verdicts => act'[a] = act[a] /\ step'[a] = step[a]
                    /\ run # "executing" => run' = run
<1>1. ASSUME Inv, [Next]_vars PROVE Final
  <2>1. CASE OrdinaryStep
    <3> USE <1>1 DEF Inv, TypeOK, Coupled, ActionStates, Verdicts
    <3>1. CASE \E s \in OpenSteps : run = "executing" /\ FailExecution(s)
      BY <3>1 DEF FailExecution, CleanedSteps, CleanedActions, OpenSteps
    <3>2. CASE \E a \in Actions : Called(a) /\ receipt[a] /\ FinalizeSuccess(a)
      BY <3>2 DEF Called, FinalizeSuccess
    <3>3. CASE \E a \in Actions, v \in {"failed", "outcome_unknown"} :
                 Called(a) /\ FinalizeFailure(a, v)
      <4> PICK a \in Actions, v \in {"failed", "outcome_unknown"} :
                 Called(a) /\ FinalizeFailure(a, v)
        BY <3>3
      <4>1. ASSUME NEW b \in Actions, act[b] \in Verdicts
            PROVE  act'[b] = act[b] /\ step'[b] = step[b]
        <5>1. b # a
          BY <4>1 DEF Called
        <5>2. step[b] \notin {"ready", "executing"} /\ act[b] # "dispatch_reserved"
          BY <4>1
        <5> QED
          BY <5>1, <5>2 DEF FinalizeFailure, CleanedSteps, CleanedActions
      <4>2. run # "executing" => run' = run
        BY DEF FinalizeFailure
      <4> QED
        BY <4>1, <4>2
    <3>4. CASE \E a \in Idempotent :
                 /\ run = "executing" /\ act[a] = "dispatching" /\ attempts[a] < AttemptLimit
                 /\ act' = [act EXCEPT ![a] = "dispatch_reserved"] /\ UNCHANGED <<run, step>>
      BY <3>4, IdempotentAssumption
    <3> QED
      BY <2>1, <3>1, <3>2, <3>3, <3>4 DEF OrdinaryStep, Effect
  <2>2. CASE CancelRun
    BY <1>1, <2>2 DEF Inv, Coupled, CancelRun, CleanedActions, Verdicts
  <2>3. ASSUME NEW w \in Workers, StartCall(w) PROVE Final
    BY <1>1, <2>3 DEF Inv, TypeOK, StartCall, MayStart, Verdicts
  <2>4. ASSUME NEW w \in Workers, Execute(w) PROVE Final
    BY <2>4 DEF Execute, db
  <2> QED
    BY <1>1, <2>1, <2>2, <2>3, <2>4, Steps DEF Inv
<1>2. Inv /\ [Next]_vars => [Final]_vars
  BY <1>1
<1> QED
  BY <1>2, Invariance, PTL DEF Spec, VerdictsAreFinal

\* The status the contract sees of each action.
Status == [a \in Actions |-> CASE act[a] = "dispatch_reserved" -> "armed"
                               [] act[a] = "dispatching" -> "calling"
                               [] OTHER -> act[a]]

\* A run that ends disarms exactly what the contract disarms.
LEMMA CleanedIsDisarmed ==
  ASSUME TypeOK, act' \in [Actions -> ActionStates], NEW f,
         \A a \in Actions : a # f => act'[a] = CleanedActions(f)[a]
  PROVE  \A a \in Actions : a # f =>
           Status'[a] = IF Status[a] = "armed" THEN "cancelled" ELSE Status[a]
BY DEF TypeOK, Status, CleanedActions, ActionStates, Verdicts

\* Workers, claims, steps, receipts and recovery implement the delivery
\* contract of ADR-0007.
THEOREM Refinement == Spec => ImplementsContract
<1> DEFINE Out == IF run = "executing" THEN "open" ELSE run
<1>1. Init => Contract!Init
  BY DEF Init, Contract!Init
<1>2. ASSUME Inv, [Next]_vars PROVE [Contract!Next]_(Contract!vars)
  <2> SUFFICES \/ UNCHANGED <<Out, Status, attempts>>
               \/ Contract!Next
    BY DEF Contract!vars, Status
  <2>0. Inv'
    BY <1>2, NextInv
  <2> USE DEF TypeOK, Verdicts, ActionStates
  <2>1. CASE OrdinaryStep
    <3>0. attempts' = attempts /\ TypeOK /\ TypeOK' /\ Effect
      BY <1>2, <2>0, <2>1 DEF OrdinaryStep, NoCall, Inv
    <3>1. CASE UNCHANGED <<run, step, act>>
      BY <3>0, <3>1 DEF Status
    <3>2. CASE \E s \in OpenSteps : run = "executing" /\ FailExecution(s)
      <4>1. Out = "open" /\ Out' = "failed" /\ act' = CleanedActions(NoFocal)
        BY <3>2 DEF FailExecution
      <4>2. \A a \in Actions : a # NoFocal
        BY DEF Actions, NoFocal
      <4>3. Status' = [a \in Actions |-> IF Status[a] = "armed" THEN "cancelled" ELSE Status[a]]
        BY <3>0, <4>1, <4>2, CleanedIsDisarmed DEF Status
      <4>4. Contract!Close("failed")
        BY <3>0, <4>1, <4>3 DEF Contract!Close, Contract!Disarmed, Status
      <4> QED
        BY <4>4 DEF Contract!Next
    <3>3. CASE \E a \in Actions : Called(a) /\ receipt[a] /\ FinalizeSuccess(a)
      <4> PICK a \in Actions : Called(a) /\ receipt[a] /\ FinalizeSuccess(a)
        BY <3>3
      <4>1. Out' = Out /\ act[a] = "dispatching" /\ act' = [act EXCEPT ![a] = "succeeded"]
        BY DEF Called, FinalizeSuccess
      <4>2. Status[a] = "calling" /\ Status' = [Status EXCEPT ![a] = "succeeded"]
        BY <3>0, <4>1 DEF Status
      <4>3. Contract!Conclude(a, "succeeded")
        BY <3>0, <4>1, <4>2 DEF Contract!Conclude, Status
      <4> QED
        BY <4>3 DEF Contract!Next, Contract!CallVerdicts
    <3>4. CASE \E a \in Actions, v \in {"failed", "outcome_unknown"} :
                 Called(a) /\ FinalizeFailure(a, v)
      <4> PICK a \in Actions, v \in {"failed", "outcome_unknown"} :
                 Called(a) /\ FinalizeFailure(a, v)
        BY <3>4
      <4>1. act[a] = "dispatching" /\ Status[a] = "calling"
        BY DEF Called, Status
      <4>2. CASE run = "executing"
        <5>1. Out = "open" /\ Out' = "failed" /\ act' = [CleanedActions(a) EXCEPT ![a] = v]
          BY <4>2 DEF FinalizeFailure
        <5>2. act'[a] = v /\ \A b \in Actions : b # a => act'[b] = CleanedActions(a)[b]
          BY <5>1 DEF CleanedActions
        <5>3. \A b \in Actions : b # a =>
                Status'[b] = IF Status[b] = "armed" THEN "cancelled" ELSE Status[b]
          BY <3>0, <5>2, CleanedIsDisarmed
        <5>4. Status'[a] = v
          BY <5>2 DEF Status
        <5>5. Status' = [[b \in Actions |-> IF Status[b] = "armed" THEN "cancelled" ELSE Status[b]]
                           EXCEPT ![a] = v]
          BY <5>3, <5>4 DEF Status
        <5>6. Contract!FailWith(a, v)
          BY <3>0, <4>1, <5>1, <5>5 DEF Contract!FailWith, Contract!Disarmed, Status
        <5> QED
          BY <5>6 DEF Contract!Next, Contract!CallVerdicts
      <4>3. CASE run # "executing"
        <5>1. Out' = Out /\ Out # "open" /\ act' = [act EXCEPT ![a] = v]
          BY <3>0, <4>3 DEF FinalizeFailure, RunStates
        <5>2. Status' = [Status EXCEPT ![a] = v]
          BY <3>0, <5>1 DEF Status
        <5>3. Contract!Conclude(a, v)
          BY <3>0, <4>1, <5>1, <5>2 DEF Contract!Conclude, Status
        <5> QED
          BY <5>3 DEF Contract!Next, Contract!CallVerdicts
      <4> QED
        BY <4>2, <4>3
    <3>5. CASE run = "executing" /\ OpenSteps = {} /\ run' = "failed" /\ UNCHANGED <<step, act>>
      <4>1. \A a \in Actions : act[a] # "dispatch_reserved"
        BY <1>2, <3>5 DEF Inv, Coupled, OpenSteps
      <4>2. Out = "open" /\ Out' = "failed"
            /\ Status' = [a \in Actions |-> IF Status[a] = "armed" THEN "cancelled" ELSE Status[a]]
        BY <3>0, <3>5, <4>1 DEF Status
      <4>3. Contract!Close("failed")
        BY <3>0, <4>2 DEF Contract!Close, Contract!Disarmed, Status
      <4> QED
        BY <4>3 DEF Contract!Next
    <3>6. CASE /\ run = "executing" /\ run' = "completed" /\ UNCHANGED <<step, act>>
               /\ \A a \in Actions : step[a] = "succeeded"
      <4>1. Out = "open" /\ Out' = "completed" /\ Status' = Status
            /\ \A a \in Actions : Status[a] = "succeeded"
        BY <1>2, <3>6 DEF Inv, SuccessIsEvidenced, Status
      <4>2. Contract!Complete
        BY <3>0, <4>1 DEF Contract!Complete, Status
      <4> QED
        BY <4>2 DEF Contract!Next
    <3>7. CASE \E a \in Idempotent :
                 /\ run = "executing" /\ act[a] = "dispatching" /\ attempts[a] < AttemptLimit
                 /\ act' = [act EXCEPT ![a] = "dispatch_reserved"] /\ UNCHANGED <<run, step>>
      <4> PICK a \in Idempotent :
                 /\ run = "executing" /\ act[a] = "dispatching" /\ attempts[a] < AttemptLimit
                 /\ act' = [act EXCEPT ![a] = "dispatch_reserved"] /\ UNCHANGED <<run, step>>
        BY <3>7
      <4>1. a \in Actions /\ Out = "open" /\ Out' = Out
        BY IdempotentAssumption
      <4>2. Status[a] = "calling" /\ Status' = [Status EXCEPT ![a] = "armed"]
        BY <3>0, <4>1 DEF Status
      <4>3. Contract!Rearm(a)
        BY <3>0, <4>1, <4>2 DEF Contract!Rearm, Status
      <4> QED
        BY <4>1, <4>3 DEF Contract!Next
    <3> QED
      BY <3>0, <3>1, <3>2, <3>3, <3>4, <3>5, <3>6, <3>7 DEF Effect
  <2>2. CASE CancelRun
    <3>1. Out = "open" /\ Out' = "cancelled" /\ act' = CleanedActions(NoFocal)
          /\ attempts' = attempts
      BY <2>2 DEF CancelRun
    <3>2. \A a \in Actions : a # NoFocal
      BY DEF Actions, NoFocal
    <3>3. Status' = [a \in Actions |-> IF Status[a] = "armed" THEN "cancelled" ELSE Status[a]]
      BY <1>2, <2>0, <3>1, <3>2, CleanedIsDisarmed DEF Status, Inv
    <3>4. Contract!Close("cancelled")
      BY <3>1, <3>3 DEF Contract!Close, Contract!Disarmed, Status
    <3> QED
      BY <3>4 DEF Contract!Next
  <2>3. ASSUME NEW w \in Workers, StartCall(w) PROVE Contract!Next
    <3> PICK a \in Actions : a = cur[w]
      BY <1>2 DEF Inv
    <3>1. run = "executing" /\ act[a] = "dispatch_reserved"
          /\ attempts[a] < AttemptLimit /\ (attempts[a] = 0 \/ a \in Idempotent)
      BY <1>2, <2>3 DEF Inv, StartCall, MayStart
    <3>2. /\ run' = run /\ act' = [act EXCEPT ![a] = "dispatching"]
          /\ attempts' = [attempts EXCEPT ![a] = @ + 1]
      BY <2>3 DEF StartCall
    <3>3. Status[a] = "armed" /\ Status' = [Status EXCEPT ![a] = "calling"]
      BY <1>2, <3>1, <3>2 DEF Status, Inv
    <3>4. Contract!Start(a)
      BY <3>1, <3>2, <3>3 DEF Contract!Start, Status
    <3> QED
      BY <3>4 DEF Contract!Next
  <2>4. ASSUME NEW w \in Workers, Execute(w) PROVE UNCHANGED <<Out, Status, attempts>>
    BY <2>4 DEF Execute, db, Status
  <2> QED
    BY <1>2, <2>1, <2>2, <2>3, <2>4, Steps DEF Inv
<1> QED
  BY <1>1, <1>2, Invariance, PTL DEF Spec, ImplementsContract, Contract!Spec

=============================================================================
