---------------------------- MODULE MCScheduling ----------------------------
\* A small instance of Scheduling for TLC.
EXTENDS Scheduling

\* The clock springs from wall time 1 to 3 at instant 2, and falls back at instant 4,
\* where wall time 4 occurs for the second time.
Zone == [t \in 0..16 |-> IF t \in 2..3 THEN t + 1 ELSE t]

\* Both expressions name the skipped and the repeated wall time.
WallsOf == [c \in Crons |-> IF c = "every" THEN 1..16 ELSE {w \in 1..16 : w % 2 = 0}]

Sparse == [cron |-> "even", policy |-> "run_once"]
Dense == [cron |-> "every", policy |-> "skip"]
TwoPlans == {Sparse, Dense}

\* A schedule that is about to be created, one that runs and one that is disabled.
Starts ==
  {[conf |-> [rev |-> 1, on |-> TRUE, plan |-> NoPlan, input |-> FALSE], plan |-> NoPlan],
   [conf |-> [rev |-> 1, on |-> TRUE, plan |-> Dense, input |-> TRUE], plan |-> Dense],
   [conf |-> [rev |-> 1, on |-> TRUE, plan |-> NoPlan, input |-> TRUE], plan |-> Sparse]}
=============================================================================
