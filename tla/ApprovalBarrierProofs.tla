------------------------ MODULE ApprovalBarrierProofs ------------------------
(***************************************************************************)
(* Proofs of the safety properties of ApprovalBarrier, for every set of    *)
(* actions and workers and every bound.                                    *)
(***************************************************************************)
EXTENDS ApprovalBarrier, TLAPS

\* What the status of the set says about the rows below it.
Phase ==
  /\ set = "open" =>
       /\ run \in {"awaiting_approval", "failed"}
       /\ \A a \in Actions :
            leaf[a] \in {"pending", "approved", "expired"} /\ step[a] = "awaiting_approval"
  /\ set \in {"rejected", "cancelled"} =>
       /\ run = set
       /\ \A a \in Actions :
            /\ leaf[a] \in {"rejected", "expired", "superseded"}
            /\ act[a] = IF leaf[a] = "rejected" THEN "rejected" ELSE "cancelled"
            /\ step[a] # "ready"

\* An approved leaf carries an approval of its own generation.
Granted == \A a \in Actions : leaf[a] = "approved" => gen[a] \in granted[a]

\* The inductive invariant.
Inv == TypeOK /\ AllOrNothing /\ VetoCloses /\ LeafAgrees /\ NoStrandedApproval
       /\ Phase /\ Granted

-----------------------------------------------------------------------------
\* Every initial state satisfies the inductive invariant.
LEMMA InitInv == Init => Inv
BY ActionsAssumption, WorkersAssumption, GenerationAssumption, FaultsAssumption
   DEF Init, Inv, TypeOK, AllOrNothing, VetoCloses, LeafAgrees, NoStrandedApproval, Phase,
       Granted, Unanimous, Stale, Live, Generations, RunStates, SetStates, ActionStates,
       StepStates, LeafStates

\* A step that leaves the rows alone keeps everything but the types.
LEMMA SameRows ==
  ASSUME Inv, UNCHANGED <<run, set, act, step, leaf, gen, due, granted>>, TypeOK'
  PROVE  Inv'
BY DEF Inv, AllOrNothing, VetoCloses, LeafAgrees, NoStrandedApproval, Phase, Granted,
       Unanimous, Stale

-----------------------------------------------------------------------------
(* The barrier's evaluation, at a point of its unit of work where the       *)
(* leaves are lv and the action states ac.                                  *)

\* The types of what an evaluation leaves alone.
Frame ==
  /\ gen \in [Actions -> Generations]
  /\ due \in [Actions -> BOOLEAN]
  /\ claim \in Workers \cup {NoWorker}
  /\ pc \in [Workers -> {"idle", "evaluating", "failing"}]
  /\ seen \in [Workers -> [leaf : [Actions -> LeafStates], gen : [Actions -> Generations]]]
  /\ granted \in [Actions -> SUBSET Generations]
  /\ faults \in 0..MaxFaults

\* A leaf and an action state that may meet inside an open set, a decision
\* that was just recorded included.
Meet(l, x) ==
  /\ l \in {"pending", "approved", "expired", "rejected"}
  /\ x = IF l \in {"approved", "rejected"} THEN l ELSE "awaiting_approval"

\* Marking stale leaves of an open set as expired keeps the invariant.
LEMMA ExpireInv ==
  ASSUME Inv, set = "open", NEW stale \in SUBSET Actions,
         NEW lv \in [Actions -> LeafStates], NEW ac \in [Actions -> ActionStates],
         \A a \in Actions : Meet(lv[a], ac[a]), ~Vetoed(lv), stale # {},
         ExpireLeaves(stale, lv, ac), Frame', gen' = gen,
         \A a \in Actions : lv[a] = "approved" => gen[a] \in granted'[a]
  PROVE  Inv'
<1> USE DEF Inv, Meet, Vetoed, ExpireLeaves
<1>1. TypeOK'
  BY DEF TypeOK, Frame, LeafStates, ActionStates, StepStates, RunStates, SetStates
<1>2. \A a \in Actions : /\ leaf'[a] \in {"pending", "approved", "expired"}
                         /\ Meet(leaf'[a], act'[a])
  OBVIOUS
<1>3. AllOrNothing' /\ VetoCloses' /\ LeafAgrees' /\ Phase' /\ Granted'
  BY <1>2 DEF AllOrNothing, VetoCloses, LeafAgrees, Phase, Granted
<1>4. NoStrandedApproval'
  BY DEF NoStrandedApproval, Unanimous
<1> QED BY <1>1, <1>3, <1>4

\* Evaluating the barrier of an awaiting run keeps the invariant.
LEMMA EvaluateInv ==
  ASSUME Inv, run = "awaiting_approval",
         NEW lv \in [Actions -> LeafStates], NEW ac \in [Actions -> ActionStates],
         \A a \in Actions : Meet(lv[a], ac[a]),
         Evaluate(lv, ac, due'), Frame', gen' = gen,
         \A a \in Actions : lv[a] = "approved" => gen[a] \in granted'[a]
  PROVE  Inv'
<1>1. set = "open"
  BY DEF Inv, NoStrandedApproval
<1>2. CASE Vetoed(lv) /\ CloseSet("rejected", lv, ac)
  <2> USE <1>1, <1>2 DEF Meet, CloseSet, Live
  <2>1. TypeOK'
    BY DEF TypeOK, Frame, LeafStates, ActionStates, StepStates, RunStates, SetStates
  <2>2. Phase'
    BY DEF Phase
  <2>3. AllOrNothing' /\ VetoCloses' /\ LeafAgrees' /\ NoStrandedApproval' /\ Granted'
    BY <2>2 DEF Phase, AllOrNothing, VetoCloses, LeafAgrees, NoStrandedApproval, Granted
  <2> QED BY <2>1, <2>2, <2>3 DEF Inv
<1>3. CASE ~Vetoed(lv) /\ Stale(lv, due') # {} /\ ExpireLeaves(Stale(lv, due'), lv, ac)
  BY <1>1, <1>3, ExpireInv DEF Stale
<1>4. CASE Unanimous(lv) /\ Stale(lv, due') = {} /\ ReleaseSet
  <2> USE <1>4 DEF ReleaseSet
  <2>1. TypeOK'
    BY DEF TypeOK, Frame, LeafStates, ActionStates, StepStates, RunStates, SetStates
  <2>2. \A a \in Actions : gen'[a] \in granted'[a]
    BY DEF Unanimous
  <2> QED BY <2>1, <2>2 DEF Inv, Phase, AllOrNothing, VetoCloses, LeafAgrees,
                             NoStrandedApproval, Granted
<1>5. CASE ~Vetoed(lv) /\ ~Unanimous(lv) /\ Stale(lv, due') = {} /\ KeepWaiting(lv, ac)
  <2> USE <1>1, <1>5 DEF KeepWaiting, Meet
  <2>1. TypeOK'
    BY DEF Inv, TypeOK, Frame, LeafStates, ActionStates, StepStates, RunStates, SetStates
  <2>2. AllOrNothing' /\ VetoCloses' /\ LeafAgrees' /\ Phase' /\ Granted'
    BY DEF Inv, Vetoed, AllOrNothing, VetoCloses, LeafAgrees, Phase, Granted
  <2>3. NoStrandedApproval'
    BY DEF NoStrandedApproval, Unanimous
  <2> QED BY <2>1, <2>2, <2>3 DEF Inv
<1> QED BY <1>2, <1>3, <1>4, <1>5 DEF Evaluate

-----------------------------------------------------------------------------
(* Every step keeps the invariant.                                         *)

\* In an open set every leaf meets its action.
LEMMA OpenMeets ==
  ASSUME Inv, set = "open", NEW a \in Actions
  PROVE  Meet(leaf[a], act[a]) /\ leaf[a] # "rejected"
BY DEF Inv, TypeOK, LeafAgrees, Phase, Meet, LeafStates

\* A decision, with the evaluation in the same unit of work.
LEMMA DecideInv ==
  ASSUME Inv, NEW a \in Actions, NEW verdict \in {"approved", "rejected"}, Decide(a, verdict)
  PROVE  Inv'
<1> DEFINE lv == [leaf EXCEPT ![a] = verdict]
           ac == [act EXCEPT ![a] = verdict]
<1>1. run = "awaiting_approval" /\ set = "open" /\ Evaluate(lv, ac, due') /\ gen' = gen
  BY DEF Decide, Decidable
<1>2. lv \in [Actions -> LeafStates] /\ ac \in [Actions -> ActionStates]
  BY DEF Inv, TypeOK, LeafStates, ActionStates
<1>3. \A b \in Actions : Meet(lv[b], ac[b])
  BY <1>1, OpenMeets DEF Inv, TypeOK, Meet
<1>4. Frame'
  <2>1. due' \in [Actions -> BOOLEAN]
    BY DEF Inv, TypeOK, Decide
  <2>2. granted' \in [Actions -> SUBSET Generations]
    BY DEF Inv, TypeOK, Decide
  <2> QED BY <2>1, <2>2 DEF Inv, TypeOK, Decide, Frame
<1>5. \A b \in Actions : lv[b] = "approved" => gen[b] \in granted'[b]
  BY DEF Inv, TypeOK, Granted, Decide
<1> HIDE DEF lv, ac
<1> QED BY <1>1, <1>2, <1>3, <1>4, <1>5, EvaluateInv

\* A renewal opens a new pending generation, under whatever run.
LEMMA RenewInv ==
  ASSUME Inv, NEW a \in Actions, Renew(a)
  PROVE  Inv'
<1>1. set = "open"
  BY DEF Inv, TypeOK, AllOrNothing, Phase, LeafAgrees, Renew, RenewableState, Live, SetStates
<1>2. TypeOK'
  BY GenerationAssumption
     DEF Inv, TypeOK, Renew, Generations, LeafStates, ActionStates
<1>3. AllOrNothing' /\ VetoCloses' /\ LeafAgrees' /\ Phase' /\ Granted'
  BY <1>1 DEF Inv, TypeOK, Renew, AllOrNothing, VetoCloses, LeafAgrees, Phase, Granted
<1>4. NoStrandedApproval'
  BY <1>1 DEF Inv, TypeOK, Renew, NoStrandedApproval, Unanimous
<1> QED BY <1>2, <1>3, <1>4 DEF Inv

\* Cancelling closes the open set.
LEMMA CancelInv == ASSUME Inv, Cancel PROVE Inv'
<1> USE DEF Cancel, CloseSet, Live
<1>1. \A a \in Actions : Meet(leaf[a], act[a]) /\ leaf[a] # "rejected"
  BY OpenMeets
<1>2. TypeOK'
  BY DEF Inv, TypeOK, LeafStates, ActionStates, StepStates, RunStates, SetStates
<1>3. Phase' /\ AllOrNothing' /\ VetoCloses' /\ LeafAgrees' /\ NoStrandedApproval' /\ Granted'
  BY <1>1 DEF Meet, Phase, AllOrNothing, VetoCloses, LeafAgrees, NoStrandedApproval, Granted
<1> QED BY <1>2, <1>3 DEF Inv

\* The clock can only make a leaf stale.
LEMMA TickInv == ASSUME Inv, NEW a \in Actions, Tick(a) PROVE Inv'
<1>1. TypeOK'
  BY DEF Inv, TypeOK, Tick
<1>2. AllOrNothing' /\ VetoCloses' /\ LeafAgrees' /\ Phase' /\ Granted'
  BY DEF Inv, Tick, AllOrNothing, VetoCloses, LeafAgrees, Phase, Granted
<1>3. \A b \in Actions : due[b] => due'[b]
  BY DEF Inv, TypeOK, Tick
<1>4. NoStrandedApproval'
  BY <1>3 DEF Inv, Tick, NoStrandedApproval, Unanimous, Stale
<1> QED BY <1>1, <1>2, <1>4 DEF Inv

\* A torn load can only expire leaves that did not move, in an open set.
LEMMA TornExpiryInv == ASSUME Inv, NEW w \in Workers, EvaluateTornExpiry(w) PROVE Inv'
<1> DEFINE stale == Stale(seen[w].leaf, due)
<1>1. stale \in SUBSET Actions /\ stale # {} /\ \A a \in stale : leaf[a] \in Live
  BY DEF EvaluateTornExpiry, Stale, Unmoved
<1>2. set = "open"
  BY <1>1 DEF Inv, TypeOK, AllOrNothing, Phase, Live, SetStates
<1>3. \A a \in Actions : Meet(leaf[a], act[a]) /\ leaf[a] # "rejected"
  BY <1>2, OpenMeets
<1>4. Frame' /\ gen' = gen /\ ExpireLeaves(stale, leaf, act)
  BY DEF Inv, TypeOK, EvaluateTornExpiry, Proceed, Frame
<1>5. \A a \in Actions : leaf[a] = "approved" => gen[a] \in granted'[a]
  BY DEF Inv, Granted, EvaluateTornExpiry, Proceed
<1>6. leaf \in [Actions -> LeafStates] /\ act \in [Actions -> ActionStates] /\ ~Vetoed(leaf)
  BY <1>3 DEF Inv, TypeOK, Vetoed
<1> HIDE DEF stale
<1> QED BY <1>1, <1>2, <1>3, <1>4, <1>5, <1>6, ExpireInv

\* The worker fails the run.
LEMMA FailRunInv == ASSUME Inv, NEW w \in Workers, FailRun(w) PROVE Inv'
<1> USE DEF FailRun, Proceed
<1>1. TypeOK'
  BY DEF Inv, TypeOK, ActionStates, StepStates, RunStates
<1>2. CASE claim = w /\ run = "awaiting_approval" /\ run' = "failed" /\ UNCHANGED <<act, step>>
  BY <1>1, <1>2 DEF Inv, AllOrNothing, VetoCloses, LeafAgrees, NoStrandedApproval, Phase, Granted
<1>3. CASE /\ claim = w /\ run = "executing" /\ run' = "failed"
           /\ act' = [a \in Actions |-> "cancelled"]
           /\ \E first \in Actions :
                step' = [a \in Actions |-> IF a = first THEN "failed" ELSE "skipped"]
  BY <1>1, <1>3 DEF Inv, AllOrNothing, VetoCloses, LeafAgrees, NoStrandedApproval, Phase, Granted
<1>4. CASE UNCHANGED <<run, act, step>>
  <2>1. due' = due /\ gen' = gen /\ granted' = granted /\ set' = set /\ leaf' = leaf
    OBVIOUS
  <2> QED BY <1>1, <1>4, <2>1, SameRows
<1> QED BY <1>2, <1>3, <1>4

\* The inductive step.
LEMMA NextInv == Inv /\ [Next]_vars => Inv'
<1> SUFFICES ASSUME Inv, [Next]_vars PROVE Inv'
  OBVIOUS
<1>1. ASSUME NEW a \in Actions, Decide(a, "approved") \/ Decide(a, "rejected") PROVE Inv'
  BY <1>1, DecideInv
<1>2. ASSUME NEW a \in Actions, Renew(a) PROVE Inv'
  BY <1>2, RenewInv
<1>3. CASE Cancel
  BY <1>3, CancelInv
<1>4. ASSUME NEW a \in Actions, Tick(a) PROVE Inv'
  BY <1>4, TickInv
<1>5. ASSUME NEW w \in Workers, EvaluateWhole(w) PROVE Inv'
  <2>1. run = "awaiting_approval" /\ due' = due /\ gen' = gen /\ granted' = granted
    BY <1>5 DEF EvaluateWhole, Torn, Proceed
  <2>2. Evaluate(leaf, act, due')
    BY <1>5, <2>1 DEF EvaluateWhole
  <2>3. \A a \in Actions : Meet(leaf[a], act[a])
    BY <2>1, OpenMeets DEF Inv, NoStrandedApproval
  <2>4. Frame' /\ leaf \in [Actions -> LeafStates] /\ act \in [Actions -> ActionStates]
    BY <1>5 DEF Inv, TypeOK, EvaluateWhole, Proceed, Frame
  <2>5. \A a \in Actions : leaf[a] = "approved" => gen[a] \in granted'[a]
    BY <2>1 DEF Inv, Granted
  <2> QED BY <2>1, <2>2, <2>3, <2>4, <2>5, EvaluateInv
<1>6. ASSUME NEW w \in Workers, EvaluateTornExpiry(w) PROVE Inv'
  BY <1>6, TornExpiryInv
<1>7. ASSUME NEW w \in Workers, FailRun(w) PROVE Inv'
  BY <1>7, FailRunInv
<1>8. ASSUME NEW w \in Workers,
             Load(w) \/ EvaluateTornNothing(w) \/ EvaluateTornRaise(w) \/ InternalError(w)
               \/ Stop(w)
      PROVE  Inv'
  <2>1. UNCHANGED <<run, set, act, step, leaf, gen, due, granted>>
    BY <1>8 DEF Load, EvaluateTornNothing, EvaluateTornRaise, InternalError, Stop, KeepWaiting,
                Proceed, db
  <2>2. faults' \in 0..MaxFaults
    BY <1>8, FaultsAssumption
       DEF Inv, TypeOK, Load, EvaluateTornNothing, EvaluateTornRaise, InternalError, Stop,
           Proceed, Fault
  <2>3. claim' \in Workers \cup {NoWorker}
    BY <1>8 DEF Inv, TypeOK, Load, EvaluateTornNothing, EvaluateTornRaise, InternalError, Stop,
                Proceed
  <2>4. seen' \in [Workers -> [leaf : [Actions -> LeafStates], gen : [Actions -> Generations]]]
    BY <1>8 DEF Inv, TypeOK, Load, EvaluateTornNothing, EvaluateTornRaise, InternalError, Stop,
                Proceed
  <2>5. pc' \in [Workers -> {"idle", "evaluating", "failing"}]
    BY <1>8 DEF Inv, TypeOK, Load, EvaluateTornNothing, EvaluateTornRaise, InternalError, Stop,
                Proceed
  <2>6. TypeOK'
    BY <2>1, <2>2, <2>3, <2>4, <2>5 DEF Inv, TypeOK
  <2> QED BY <2>1, <2>6, SameRows
<1>9. CASE ClaimFreed \/ ClaimStalls \/ UNCHANGED vars
  <2>1. UNCHANGED <<run, set, act, step, leaf, gen, due, granted>>
    BY <1>9 DEF ClaimFreed, ClaimStalls, vars, db
  <2>2. TypeOK'
    BY <1>9, <2>1, FaultsAssumption DEF Inv, TypeOK, ClaimFreed, ClaimStalls, Fault, vars
  <2> QED BY <2>1, <2>2, SameRows
<1> QED BY <1>1, <1>2, <1>3, <1>4, <1>5, <1>6, <1>7, <1>8, <1>9 DEF Next, Api, Worker, Done

\* The inductive invariant holds throughout.
LEMMA Invariance == Spec => []Inv
BY InitInv, NextInv, PTL DEF Spec

-----------------------------------------------------------------------------
(* The theorems.                                                           *)

\* Every row, worker and history variable keeps its type.
THEOREM TypeCorrect == Spec => []TypeOK
BY Invariance, PTL DEF Inv

\* Release is all or nothing, on approvals of the current generations
\* (release_current_set and everything that can run beside it).
THEOREM BarrierIsAllOrNothing == Spec => []AllOrNothing
BY Invariance, PTL DEF Inv

\* One rejection closes the whole set (_reject_in_uow, close_current_set).
THEOREM OneVetoCloses == Spec => []VetoCloses
BY Invariance, PTL DEF Inv

\* Committed requests always pass the hydration check (_hydrate_unchecked).
THEOREM RequestsHydrate == Spec => []LeafAgrees
BY Invariance, PTL DEF Inv

\* No fully approved, unexpired plan is left waiting (decide evaluates the
\* barrier in its own unit of work).
THEOREM NothingStranded == Spec => []NoStrandedApproval
BY Invariance, PTL DEF Inv

\* The release consumes only unexpired approvals of current generations, and
\* a closed set never reopens.
THEOREM FreshRelease == Spec => ReleaseIsFresh
<1> DEFINE Fresh == /\ set # "open" => set' = set
                    /\ (set = "open" /\ set' = "released") =>
                         \A a \in Actions : gen'[a] \in granted'[a] /\ ~due'[a]
<1>1. Inv /\ Inv' /\ [Next]_vars => Fresh
  <2> SUFFICES ASSUME Inv, Inv', [Next]_vars PROVE Fresh
    OBVIOUS
  <2>1. set' = "released" => \A a \in Actions : gen'[a] \in granted'[a]
    BY DEF Inv, AllOrNothing
  <2>2. ASSUME NEW lv, NEW ac, run = "awaiting_approval", Evaluate(lv, ac, due') PROVE Fresh
    BY <2>1, <2>2 DEF Inv, TypeOK, NoStrandedApproval, Evaluate, CloseSet, ExpireLeaves,
                      ReleaseSet, KeepWaiting, Unanimous, Stale, Live
  <2>3. ASSUME NEW a \in Actions, Decide(a, "approved") \/ Decide(a, "rejected") PROVE Fresh
    BY <2>2, <2>3 DEF Decide, Decidable
  <2>4. ASSUME NEW w \in Workers, EvaluateWhole(w) PROVE Fresh
    BY <2>2, <2>4 DEF EvaluateWhole, Torn, Proceed
  <2>5. CASE Cancel
    BY <2>5 DEF Cancel, CloseSet
  <2>6. CASE set' = set
    BY <2>6
  <2>7. ASSUME NEW w \in Workers,
               Load(w) \/ EvaluateTornExpiry(w) \/ EvaluateTornNothing(w) \/ EvaluateTornRaise(w)
                 \/ InternalError(w) \/ FailRun(w) \/ Stop(w)
        PROVE  set' = set
    BY <2>7 DEF Load, EvaluateTornExpiry, EvaluateTornNothing, EvaluateTornRaise, InternalError,
                FailRun, Stop, KeepWaiting, ExpireLeaves, db
  <2>8. ASSUME NEW a \in Actions, Renew(a) \/ Tick(a) PROVE set' = set
    BY <2>8 DEF Renew, Tick
  <2>9. CASE ClaimFreed \/ ClaimStalls \/ UNCHANGED vars
    BY <2>9 DEF ClaimFreed, ClaimStalls, vars, db
  <2> QED BY <2>3, <2>4, <2>5, <2>6, <2>7, <2>8, <2>9 DEF Next, Api, Worker, Done
<1> QED BY <1>1, Invariance, PTL DEF Spec, ReleaseIsFresh

=============================================================================
