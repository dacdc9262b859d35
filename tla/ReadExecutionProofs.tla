------------------------- MODULE ReadExecutionProofs -------------------------
(***************************************************************************)
(* Theorems about ReadExecution, for any number of runs and workers, every *)
(* attempt limit, timeout, lease and rate window, and any number of faults.*)
(*                                                                         *)
(* The rows of a run are changed by a handful of units of work; the first  *)
(* part shows of each that it takes sound rows to sound rows and rewrites  *)
(* nothing that was settled.  The second part lifts this to the actions,   *)
(* the third adds the time that the retries depend on.                     *)
(***************************************************************************)
EXTENDS ReadExecution, TLAPS, FiniteSetTheorems

-----------------------------------------------------------------------------
(* The inductive invariant.                                                *)

\* The run and its step move together, and a fence belongs to a cancellation.
Staged(d) ==
  /\ d.run \in Unplanned => d.step = "none"
  /\ d.run = "planned" => d.step = "pending"
  /\ d.run = "executing" => d.step \in {"ready", "executing", "succeeded"}
  /\ d.run = "completed" => d.step = "succeeded"
  /\ d.step = "none" => d.run \in Unplanned \cup {"failed", "cancelled"}
  /\ d.step = "executing" => d.run \in {"executing", "cancelled"}
  /\ d.step \in {"none", "pending", "ready"} => d.tries = 0
  /\ d.fenced => d.run = "cancelled" /\ d.step # "none"

\* What the attempts say agrees with the control, the step and the run.
Evident(d) ==
  /\ ControlLegal(d)
  /\ AttemptLegal(d)
  /\ d.step = "executing" => LineageValid(d)
  /\ Open(d) => d.step = "executing" \/ d.run = "failed"

\* One artifact, of the latest attempt or of a local transform.
Single(d) ==
  /\ d.outputs # {} <=> d.step = "succeeded"
  /\ \E m \in 0..MaxAttempts : d.outputs \subseteq {m}
  /\ \A n \in d.outputs \ {0} : d.out[n] = "succeeded" /\ n = d.tries

Charged(d) == d.calls = IF d.tries = 0 THEN 0 ELSE 1

Sound(d) == Staged(d) /\ Evident(d) /\ Single(d) /\ Charged(d)

\* What a worker holds in memory is about a run, an attempt and room in a window.
Holds(w) ==
  /\ wk[w].pc # "idle" => wk[w].job \in Runs
  /\ wk[w].pc \in {"calling", "returned"} => wk[w].try \in Numbers
  /\ wk[w].pc = "reserving" => wk[w].seen.used < Capacity

\* The counter of a window counts distinct calls: attempts that were reserved,
\* and calls of other runs, told apart by the counter they found.
Counted(s) ==
  /\ IsFiniteSet(window.booked[s])
  /\ window.used[s] = Cardinality(window.booked[s])
  /\ window.used[s] <= Capacity
  /\ \A r \in Runs, n \in Nat : <<r, n>> \in window.booked[s] => n <= db[r].tries
  /\ \A n \in Nat : <<NoRun, n>> \in window.booked[s] => n < window.used[s]

Inv ==
  /\ TypeOK
  /\ \A r \in Runs : Sound(db[r])
  /\ \A w \in Workers : Holds(w)
  /\ \A s \in Spans : Counted(s)

-----------------------------------------------------------------------------
(* Units of work on the rows of a run.                                     *)

\* What was settled stays settled, and no attempt disappears.
Settles(d, e) ==
  /\ \A n \in Numbers : d.out[n] \in Closed => e.out[n] = d.out[n]
  /\ d.run \notin Active => e.run = d.run
  /\ d.tries <= e.tries

\* A call that a cancellation preserved stays open.
Preserves(d, e) == d.run = "cancelled" /\ Open(d) /\ d.call > 0 => Open(e)

Follows(d, e) == e \in Rows /\ Sound(e) /\ Settles(d, e)

\* bounded_retry_delay_seconds is a number of seconds, one after the first attempt.
LEMMA DelayTyped ==
  ASSUME NEW n \in Numbers
  PROVE  Delay(n) \in Nat /\ Delay(1) = 1
<1>1. Delay(1) = 1 /\ Delay(2) = 2 /\ Delay(3) = 4 /\ Delay(4) = 8 /\ Delay(5) = 16 /\ Delay(6) = 32
  BY DEF Delay
<1>2. n > 6 => Delay(n) = 60
  BY DEF Delay
<1>3. n = 1 \/ n = 2 \/ n = 3 \/ n = 4 \/ n = 5 \/ n = 6 \/ n > 6
  BY AttemptsAssumption DEF Numbers
<1> QED BY <1>1, <1>2, <1>3

\* Rows whose attempts and artifacts were left alone.
LEMMA AttemptsUntouched ==
  ASSUME NEW d \in Rows, NEW e \in Rows, Sound(d),
         e.out = d.out, e.tries = d.tries, e.outputs = d.outputs, e.calls = d.calls,
         Staged(e), ControlLegal(e),
         e.step = "executing" => d.step = "executing",
         Open(d) => e.step = "executing" \/ e.run = "failed",
         d.step = "succeeded" <=> e.step = "succeeded",
         d.run \notin Active => e.run = d.run
  PROVE  Follows(d, e) /\ Preserves(d, e)
<1>1. Open(e) <=> Open(d)
  BY DEF Open, Last
<1>2. d.step = "executing" => LineageValid(e)
  BY DEF Sound, Evident, LineageValid, Last
<1>3. Evident(e)
  BY <1>1, <1>2 DEF Sound, Evident, AttemptLegal
<1>4. Single(e) /\ Charged(e)
  BY DEF Sound, Single, Charged
<1>5. d.tries <= e.tries
  BY AttemptsAssumption DEF Rows
<1>6. Settles(d, e)
  BY <1>5 DEF Settles
<1> QED BY <1>1, <1>3, <1>4, <1>6 DEF Follows, Preserves, Sound

\* A row's fields have their types.
LEMMA RowFields ==
  ASSUME NEW d \in Rows
  PROVE  /\ d.local \in BOOLEAN /\ d.run \in RunStates /\ d.step \in StepStates /\ d.fenced \in BOOLEAN
         /\ d.calls \in Nat /\ d.left \in Nat /\ d.tries \in 0..MaxAttempts /\ d.tries \in Nat
         /\ d.out \in [Numbers -> Outcomes] /\ d.call \in Nat /\ d.wait \in Nat
         /\ d.outputs \in SUBSET (0..MaxAttempts)
BY AttemptsAssumption DEF Rows

\* MARK_VALIDATED.
LEMMA ValidatedRows ==
  ASSUME NEW d \in Rows, Sound(d), d.run = "received"
  PROVE  LET e == [d EXCEPT !.run = "validated"] IN Follows(d, e) /\ Preserves(d, e)
<1> DEFINE e == [d EXCEPT !.run = "validated"]
<1>1. e \in Rows
  BY DEF Rows, RunStates
<1>2. /\ e.run = "validated" /\ e.step = d.step /\ e.out = d.out /\ e.tries = d.tries
      /\ e.outputs = d.outputs /\ e.calls = d.calls /\ e.left = d.left /\ e.fenced = d.fenced
  BY DEF Rows
<1> HIDE DEF e
<1>3. Staged(e) /\ ControlLegal(e)
  BY <1>2 DEF Sound, Staged, Evident, ControlLegal, Unplanned
<1>4. d.step = "none" /\ ~Open(d)
  BY DEF Sound, Staged, Evident, Open, Last, Unplanned
<1>5. Follows(d, e) /\ Preserves(d, e)
  BY <1>1, <1>2, <1>3, <1>4, AttemptsUntouched DEF Active
<1> QED BY <1>5 DEF e

\* The plan, its pending step and a control that has not started.
LEMMA PlannedRows ==
  ASSUME NEW d \in Rows, Sound(d), d.run = "validated"
  PROVE  Follows(d, WithControl(WithPlan(d))) /\ Preserves(d, WithControl(WithPlan(d)))
<1> DEFINE e == WithControl(WithPlan(d))
<1>1. e \in Rows
  BY DEF Rows, RunStates, StepStates, WithControl, WithPlan
<1>2. /\ e.run = "planned" /\ e.step = "pending" /\ e.out = d.out /\ e.tries = d.tries
      /\ e.outputs = d.outputs /\ e.calls = 0 /\ e.left = 0 /\ e.fenced = FALSE
  BY DEF Rows, WithControl, WithPlan
<1> HIDE DEF e
<1>3. d.tries = 0 /\ d.step = "none" /\ d.calls = 0 /\ ~Open(d)
  BY DEF Sound, Staged, Evident, Charged, ControlLegal, Open, Last, Unplanned
<1>4. Staged(e) /\ ControlLegal(e)
  BY <1>2, <1>3 DEF Staged, ControlLegal, Unplanned
<1>5. Follows(d, e) /\ Preserves(d, e)
  BY <1>1, <1>2, <1>3, <1>4, AttemptsUntouched DEF Active
<1> QED BY <1>5 DEF e

\* Activation starts the deadline of the run.
LEMMA ActivatedRows ==
  ASSUME NEW d \in Rows, Sound(d), d.run = "planned"
  PROVE  LET e == [d EXCEPT !.run = "executing", !.step = "ready", !.left = RunTimeout]
         IN  Follows(d, e) /\ Preserves(d, e)
<1> DEFINE e == [d EXCEPT !.run = "executing", !.step = "ready", !.left = RunTimeout]
<1>1. e \in Rows
  BY TimesAssumption DEF Rows, RunStates, StepStates
<1>2. /\ e.run = "executing" /\ e.step = "ready" /\ e.out = d.out /\ e.tries = d.tries
      /\ e.outputs = d.outputs /\ e.calls = d.calls /\ e.fenced = d.fenced
  BY DEF Rows
<1> HIDE DEF e
<1>3. d.tries = 0 /\ d.step = "pending" /\ d.calls = 0 /\ ~Open(d) /\ ~d.fenced
  BY DEF Sound, Staged, Evident, Charged, ControlLegal, Open, Last, Unplanned
<1>4. Staged(e) /\ ControlLegal(e)
  BY <1>2, <1>3 DEF Staged, ControlLegal, Unplanned
<1>5. Follows(d, e) /\ Preserves(d, e)
  BY <1>1, <1>2, <1>3, <1>4, AttemptsUntouched DEF Active
<1> QED BY <1>5 DEF e

\* Step and run fail together.
LEMMA FailedRows ==
  ASSUME NEW d \in Rows, Sound(d), d.run = "executing", d.step \in {"ready", "executing"}
  PROVE  Follows(d, FailBoth(d)) /\ Preserves(d, FailBoth(d))
<1> DEFINE e == FailBoth(d)
<1>1. e \in Rows
  BY DEF Rows, RunStates, StepStates, FailBoth
<1>2. /\ e.run = "failed" /\ e.step = "failed" /\ e.out = d.out /\ e.tries = d.tries
      /\ e.outputs = d.outputs /\ e.calls = d.calls /\ e.left = d.left /\ e.fenced = d.fenced
  BY DEF Rows, FailBoth
<1> HIDE DEF e
<1>3. Staged(e) /\ ControlLegal(e)
  BY <1>2 DEF Sound, Staged, Evident, ControlLegal, Unplanned
<1>5. Follows(d, e) /\ Preserves(d, e)
  BY <1>1, <1>2, <1>3, AttemptsUntouched DEF Active
<1> QED BY <1>5 DEF e

\* _fail of a run without a step that executes.
LEMMA RunFailedRows ==
  ASSUME NEW d \in Rows, Sound(d), d.run \in Active, d.step \notin {"ready", "executing"}
  PROVE  LET e == [d EXCEPT !.run = "failed"] IN Follows(d, e) /\ Preserves(d, e)
<1> DEFINE e == [d EXCEPT !.run = "failed"]
<1>1. e \in Rows
  BY DEF Rows, RunStates
<1>2. /\ e.run = "failed" /\ e.step = d.step /\ e.out = d.out /\ e.tries = d.tries
      /\ e.outputs = d.outputs /\ e.calls = d.calls /\ e.left = d.left /\ e.fenced = d.fenced
  BY DEF Rows
<1> HIDE DEF e
<1>3. Staged(e) /\ ControlLegal(e)
  BY <1>2 DEF Sound, Staged, Evident, ControlLegal, Unplanned, Active
<1>5. Follows(d, e) /\ Preserves(d, e)
  BY <1>1, <1>2, <1>3, AttemptsUntouched
<1> QED BY <1>5 DEF e

\* The run completes over its succeeded step.
LEMMA CompletedRows ==
  ASSUME NEW d \in Rows, Sound(d), d.run = "executing", d.step = "succeeded"
  PROVE  LET e == [d EXCEPT !.run = "completed"] IN Follows(d, e) /\ Preserves(d, e)
<1> DEFINE e == [d EXCEPT !.run = "completed"]
<1>1. e \in Rows
  BY DEF Rows, RunStates
<1>2. /\ e.run = "completed" /\ e.step = d.step /\ e.out = d.out /\ e.tries = d.tries
      /\ e.outputs = d.outputs /\ e.calls = d.calls /\ e.left = d.left /\ e.fenced = d.fenced
  BY DEF Rows
<1> HIDE DEF e
<1>3. Staged(e) /\ ControlLegal(e)
  BY <1>2 DEF Sound, Staged, Evident, ControlLegal, Unplanned
<1>4. ~Open(d)
  BY DEF Sound, Evident
<1>5. Follows(d, e) /\ Preserves(d, e)
  BY <1>1, <1>2, <1>3, <1>4, AttemptsUntouched DEF Active
<1> QED BY <1>5 DEF e

\* A run without a plan is cancelled.
LEMMA UnplannedCancelledRows ==
  ASSUME NEW d \in Rows, Sound(d), d.run \in Unplanned
  PROVE  LET e == [d EXCEPT !.run = "cancelled"] IN Follows(d, e) /\ Preserves(d, e)
<1> DEFINE e == [d EXCEPT !.run = "cancelled"]
<1>1. e \in Rows
  BY DEF Rows, RunStates
<1>2. /\ e.run = "cancelled" /\ e.step = d.step /\ e.out = d.out /\ e.tries = d.tries
      /\ e.outputs = d.outputs /\ e.calls = d.calls /\ e.left = d.left /\ e.fenced = d.fenced
  BY DEF Rows
<1> HIDE DEF e
<1>3. Staged(e) /\ ControlLegal(e)
  BY <1>2 DEF Sound, Staged, Evident, ControlLegal, Unplanned
<1>4. d.step = "none" /\ ~Open(d)
  BY DEF Sound, Staged, Evident, ControlLegal, Open, Last
<1>5. Follows(d, e) /\ Preserves(d, e)
  BY <1>1, <1>2, <1>3, <1>4, AttemptsUntouched DEF Active, Unplanned
<1> QED BY <1>5 DEF e

\* The fence of a cancellation ends what is queued and what waits, not a call.
LEMMA FencedRows ==
  ASSUME NEW d \in Rows, Sound(d), d.run \in Active \ Unplanned
  PROVE  Follows(d, Fence(d)) /\ Preserves(d, Fence(d))
<1> DEFINE t == CASE d.step \in {"pending", "ready"} -> "cancelled"
                  [] d.step = "executing" /\ ~Open(d) -> "failed" [] OTHER -> d.step
<1> DEFINE e == Fence(d)
<1>1. /\ t \in StepStates
      /\ d.step \in {"pending", "ready"} => t = "cancelled"
      /\ d.step = "executing" /\ ~Open(d) => t = "failed"
      /\ d.step = "executing" /\ Open(d) => t = "executing"
      /\ d.step \notin {"pending", "ready", "executing"} => t = d.step
  BY DEF Rows, StepStates
<1>2. e = [d EXCEPT !.fenced = TRUE, !.run = "cancelled", !.step = t]
  BY DEF Fence
<1> HIDE DEF t, e
<1>3. e \in Rows
  BY <1>1, <1>2 DEF Rows, RunStates
<1>4. /\ e.run = "cancelled" /\ e.step = t /\ e.out = d.out /\ e.tries = d.tries
      /\ e.outputs = d.outputs /\ e.calls = d.calls /\ e.left = d.left /\ e.fenced = TRUE
  BY <1>2 DEF Rows
<1>5. d.step \in {"pending", "ready", "executing", "succeeded"}
  BY DEF Sound, Staged, Active, Unplanned
<1>6. Staged(e) /\ ControlLegal(e)
  BY <1>1, <1>4, <1>5 DEF Sound, Staged, Evident, ControlLegal, Unplanned
<1>7. Open(d) => d.step = "executing"
  BY DEF Sound, Evident, Active
<1>8. Follows(d, e) /\ Preserves(d, e)
  BY <1>1, <1>3, <1>4, <1>5, <1>6, <1>7, AttemptsUntouched
<1> QED BY <1>8 DEF e

\* A second passes.
LEMMA AgedRows ==
  ASSUME NEW d \in Rows, Sound(d)
  PROVE  LET e == [d EXCEPT !.left = Less1(@), !.call = Less1(@), !.wait = Less1(@)]
         IN  Follows(d, e) /\ Preserves(d, e)
<1> DEFINE e == [d EXCEPT !.left = Less1(@), !.call = Less1(@), !.wait = Less1(@)]
<1>0. \A n \in Nat : Less1(n) \in Nat
  BY DEF Less1
<1>1. e \in Rows
  BY <1>0 DEF Rows
<1>2. /\ e.run = d.run /\ e.step = d.step /\ e.out = d.out /\ e.tries = d.tries
      /\ e.outputs = d.outputs /\ e.calls = d.calls /\ e.left = Less1(d.left) /\ e.fenced = d.fenced
  BY DEF Rows
<1> HIDE DEF e
<1>3. Staged(e)
  BY <1>2 DEF Sound, Staged
<1>4. ControlLegal(e)
  BY <1>2 DEF Sound, Evident, ControlLegal, Less1
<1>5. Follows(d, e) /\ Preserves(d, e)
  BY <1>1, <1>2, <1>3, <1>4, AttemptsUntouched DEF Sound, Evident
<1> QED BY <1>5 DEF e

\* A local transform persists the only artifact of its step.
LEMMA TransformedRows ==
  ASSUME NEW d \in Rows, Sound(d), d.run = "executing", d.step = "ready"
  PROVE  LET e == [d EXCEPT !.step = "succeeded", !.outputs = @ \cup {0}]
         IN  Follows(d, e) /\ Preserves(d, e)
<1> DEFINE p == d.outputs \cup {0}
<1> DEFINE e == [d EXCEPT !.step = "succeeded", !.outputs = @ \cup {0}]
<1>0. p \in SUBSET (0..MaxAttempts) /\ e = [d EXCEPT !.step = "succeeded", !.outputs = p]
  BY AttemptsAssumption, RowFields
<1>1. e \in Rows
  <2> HIDE DEF p, e
  <2> QED BY <1>0 DEF Rows, StepStates
<1>2. /\ e.run = d.run /\ e.step = "succeeded" /\ e.out = d.out /\ e.tries = d.tries
      /\ e.outputs = d.outputs \cup {0} /\ e.calls = d.calls /\ e.left = d.left /\ e.fenced = d.fenced
  BY DEF Rows
<1> HIDE DEF e
<1>3. d.outputs = {} /\ d.tries = 0 /\ 0 \in 0..MaxAttempts /\ ~Open(e)
  BY <1>2, AttemptsAssumption DEF Sound, Staged, Single, Open, Last
<1>4. e.outputs = {0}
  BY <1>2, <1>3
<1>5. Staged(e) /\ ControlLegal(e) /\ Charged(e)
  BY <1>2, <1>3 DEF Sound, Staged, Evident, ControlLegal, Charged, Unplanned
<1>6. Single(e)
  BY <1>2, <1>3, <1>4 DEF Single
<1>7. AttemptLegal(e)
  <2> SUFFICES ASSUME NEW n \in Numbers
               PROVE  (e.out[n] = "none" <=> n > e.tries) /\ (e.out[n] = "succeeded" <=> n \in e.outputs)
    BY DEF AttemptLegal
  <2>1. n # 0
    BY AttemptsAssumption DEF Numbers
  <2> QED BY <1>2, <1>3, <1>4, <2>1 DEF Sound, Evident, AttemptLegal
<1>8. Evident(e)
  BY <1>2, <1>3, <1>5, <1>7 DEF Evident
<1>9. Settles(d, e) /\ Preserves(d, e)
  BY <1>2, <1>3 DEF Settles, Preserves, Active
<1>10. Follows(d, e) /\ Preserves(d, e)
  BY <1>1, <1>5, <1>6, <1>8, <1>9 DEF Follows, Sound
<1> QED BY <1>10 DEF e

\* A reservation opens the next attempt after attempts that are to be retried.
LEMMA ReservedRows ==
  ASSUME NEW d \in Rows, Sound(d), d.run = "executing", d.step \in {"ready", "executing"}, ~Open(d),
         NEW n, n = d.tries + 1, n <= MaxAttempts, NEW c \in Nat
  PROVE  LET e == [d EXCEPT !.calls = Charge(d), !.step = "executing", !.tries = n,
                     !.out[n] = "open", !.call = c]
         IN  Follows(d, e) /\ Preserves(d, e) /\ e.tries = n
<1> DEFINE f == [d.out EXCEPT ![n] = "open"]
<1> DEFINE e == [d EXCEPT !.calls = Charge(d), !.step = "executing", !.tries = n,
                     !.out[n] = "open", !.call = c]
<1>1. n \in Nat /\ n \in Numbers /\ n \in 0..MaxAttempts /\ d.tries \in Nat /\ d.calls \in Nat
  BY AttemptsAssumption DEF Rows, Numbers
<1>2. f \in [Numbers -> Outcomes] /\ f[n] = "open" /\ \A k \in Numbers \ {n} : f[k] = d.out[k]
  BY <1>1 DEF Rows, Outcomes
<1>3. e = [d EXCEPT !.calls = Charge(d), !.step = "executing", !.tries = n, !.out = f, !.call = c]
  OBVIOUS
<1>4. Charge(d) = 1
  BY <1>1 DEF Charge, Sound, Charged
<1> HIDE DEF f, e
<1>5. e \in Rows
  <2>1. e = [d EXCEPT !.calls = 1, !.step = "executing", !.tries = n, !.out = f, !.call = c]
    BY <1>3, <1>4
  <2>2. 1 \in Nat
    OBVIOUS
  <2> QED BY <1>1, <1>2, <2>1, <2>2 DEF Rows, StepStates
<1>6. /\ e.run = "executing" /\ e.step = "executing" /\ e.out = f /\ e.tries = n
      /\ e.outputs = d.outputs /\ e.calls = 1 /\ e.left = d.left /\ e.fenced = d.fenced
  BY <1>3, <1>4 DEF Rows
<1>7. d.outputs = {}
  BY DEF Sound, Single
<1>8. Staged(e) /\ ControlLegal(e) /\ Charged(e)
  BY <1>1, <1>6 DEF Sound, Staged, ControlLegal, Charged, Unplanned
<1>9. Single(e)
  BY <1>6, <1>7 DEF Sound, Single
<1>10. \A k \in Numbers : k < n => d.out[k] = "retry"
  <2> SUFFICES ASSUME NEW k \in Numbers, k < n PROVE d.out[k] = "retry"
    OBVIOUS
  <2>1. k \in Nat /\ k >= 1 /\ d.tries >= k
    BY <1>1 DEF Numbers
  <2>2. d.step = "executing"
    BY <2>1, <1>1 DEF Sound, Staged
  <2>3. LineageValid(d)
    BY <2>2 DEF Sound, Evident
  <2>4. CASE k = d.tries
    BY <2>1, <2>3, <2>4 DEF LineageValid, Last, Open
  <2>5. CASE k # d.tries
    <3>1. k \in 1..(d.tries - 1)
      BY <2>1, <2>5, <1>1
    <3> QED BY <3>1, <2>3 DEF LineageValid
  <2> QED BY <2>4, <2>5
<1>11. AttemptLegal(e)
  <2> SUFFICES ASSUME NEW k \in Numbers
               PROVE  (f[k] = "none" <=> k > n) /\ (f[k] = "succeeded" <=> k \in {})
    BY <1>6, <1>7 DEF AttemptLegal
  <2>1. k \in Nat
    BY DEF Numbers
  <2>2. d.out[k] = "none" <=> k > d.tries
    BY DEF Sound, Evident, AttemptLegal
  <2>3. d.out[k] # "succeeded"
    BY <1>7 DEF Sound, Evident, AttemptLegal
  <2> QED BY <1>1, <1>2, <2>1, <2>2, <2>3
<1>12. LineageValid(e) /\ Open(e)
  <2>1. Last(e) = "open" /\ n > 0
    BY <1>1, <1>2, <1>6 DEF Last, Numbers
  <2>2. ASSUME NEW k \in 1..(n - 1) PROVE e.out[k] = "retry"
    <3>1. k \in Numbers /\ k < n /\ k # n
      BY <1>1, AttemptsAssumption DEF Numbers
    <3> QED BY <1>2, <1>6, <1>10, <3>1
  <2> QED BY <1>6, <2>1, <2>2 DEF LineageValid, Open
<1>13. Evident(e)
  BY <1>6, <1>8, <1>11, <1>12 DEF Evident
<1>14. Settles(d, e)
  <2>1. d.out[n] = "none"
    BY <1>1 DEF Sound, Evident, AttemptLegal
  <2>2. ASSUME NEW k \in Numbers, d.out[k] \in Closed PROVE e.out[k] = d.out[k]
    BY <1>2, <1>6, <2>1, <2>2 DEF Closed
  <2> QED BY <1>1, <1>6, <2>2 DEF Settles
<1>15. Follows(d, e) /\ Preserves(d, e) /\ e.tries = n
  BY <1>5, <1>6, <1>8, <1>9, <1>12, <1>13, <1>14 DEF Follows, Sound, Preserves
<1> QED BY <1>15 DEF e

\* The only attempt that can be open under an executing step is the latest.
LEMMA OpenIsLatest ==
  ASSUME NEW d \in Rows, Sound(d), d.step = "executing", NEW n \in Numbers, d.out[n] = "open"
  PROVE  n = d.tries /\ Open(d)
<1>1. n \in Nat /\ n >= 1 /\ d.tries \in Nat
  BY AttemptsAssumption DEF Rows, Numbers
<1>2. ~(n > d.tries)
  BY DEF Sound, Evident, AttemptLegal
<1>3. ~(n < d.tries)
  <2> SUFFICES ASSUME n < d.tries PROVE FALSE
    OBVIOUS
  <2>1. n \in 1..(d.tries - 1)
    BY <1>1
  <2> QED BY <2>1 DEF Sound, Evident, LineageValid
<1>4. n = d.tries
  BY <1>1, <1>2, <1>3
<1> QED BY <1>1, <1>4 DEF Open, Last

\* complete_attempt stores a closed outcome; a retry only while the run executes.
LEMMA OutcomeIsClosed ==
  ASSUME NEW d \in Rows, Sound(d), d.step = "executing", NEW n, NEW res \in Results
  PROVE  /\ Outcome(d, n, res) \in Closed
         /\ Outcome(d, n, res) = "retry" => d.run = "executing" /\ n < MaxAttempts
         /\ res = "cancelled" => Outcome(d, n, res) = "cancelled"
<1>1. d.run \in {"executing", "cancelled"} /\ d.fenced \in BOOLEAN /\ (d.fenced => d.run = "cancelled")
  BY DEF Rows, Sound, Staged
<1>2. CASE res = "succeeded"
  BY <1>2 DEF Outcome, Closed, Outcomes
<1>3. CASE res # "succeeded" /\ d.run = "cancelled"
  BY <1>3 DEF Outcome, Closed, Outcomes
<1>4. CASE res \in {"transient", "timed_out"} /\ d.run = "executing"
  <2>1. Outcome(d, n, res) = IF n < MaxAttempts /\ Delay(n) < d.left THEN "retry" ELSE "exhausted"
    BY <1>1, <1>4 DEF Outcome
  <2> QED BY <1>4, <2>1 DEF Closed, Outcomes
<1>5. CASE res \in {"permanent", "cancelled"} /\ d.run = "executing"
  BY <1>1, <1>5 DEF Outcome, Closed, Outcomes
<1> QED BY <1>1, <1>2, <1>3, <1>4, <1>5 DEF Results

\* A closed attempt moves its step, and the run while it executes, accordingly.
LEMMA ClosedRows ==
  ASSUME NEW d \in Rows, Sound(d), d.step = "executing", NEW n \in Numbers, d.out[n] = "open",
         NEW o \in Closed, o = "retry" => d.run = "executing"
  PROVE  /\ Follows(d, Close(d, n, o))
         /\ Close(d, n, o).tries = d.tries /\ ~Open(Close(d, n, o))
         /\ Close(d, n, o).call = d.call
         /\ Close(d, n, o).wait = IF o = "retry" THEN Delay(n) ELSE d.wait
<1> DEFINE f == [d.out EXCEPT ![n] = o]
<1> DEFINE v == IF o = "retry" THEN Delay(n) ELSE d.wait
<1> DEFINE c == [d EXCEPT !.out = f, !.wait = v]
<1> DEFINE ends == o \notin {"retry", "succeeded"} /\ d.run = "executing" /\ ~d.fenced
<1> DEFINE t == IF o = "retry" THEN "executing" ELSE IF o = "succeeded" THEN "succeeded" ELSE "failed"
<1> DEFINE q == IF ends THEN "failed" ELSE d.run
<1> DEFINE p == IF o = "succeeded" THEN d.outputs \cup {n} ELSE d.outputs
<1> DEFINE e == Close(d, n, o)
<1>1. n = d.tries /\ n \in Nat /\ n > 0 /\ n \in 0..MaxAttempts /\ d.outputs = {} /\ LineageValid(d)
  BY OpenIsLatest, AttemptsAssumption DEF Sound, Single, Evident, Numbers
<1>2. f \in [Numbers -> Outcomes] /\ f[n] = o /\ \A k \in Numbers \ {n} : f[k] = d.out[k]
  BY DEF Rows, Closed
<1>3. v \in Nat
  BY DelayTyped DEF Rows
<1>4. d.run \in {"executing", "cancelled"} /\ d.fenced \in BOOLEAN /\ (d.fenced => d.run = "cancelled")
  BY DEF Rows, Sound, Staged
<1>5. [d EXCEPT !.out[n] = o, !.wait = IF o = "retry" THEN Delay(n) ELSE @] = c
  OBVIOUS
<1>6. /\ c \in Rows /\ c.run = d.run /\ c.step = "executing" /\ c.out = f /\ c.tries = d.tries
      /\ c.outputs = {} /\ c.calls = d.calls /\ c.left = d.left /\ c.fenced = d.fenced
      /\ c.call = d.call /\ c.wait = v
  <2> HIDE DEF f, v
  <2> QED BY <1>1, <1>2, <1>3 DEF Rows
<1>7. e = CASE o = "retry" -> c
            [] o = "succeeded" -> [c EXCEPT !.step = "succeeded", !.outputs = @ \cup {n}]
            [] OTHER -> IF d.run = "executing" /\ ~d.fenced THEN FailBoth(c)
                        ELSE [c EXCEPT !.step = "failed"]
  BY <1>5, Zenon DEF Close
<1> HIDE DEF c, e, f, v
<1>8. /\ e \in Rows /\ e.run = q /\ e.step = t /\ e.out = f /\ e.tries = d.tries
      /\ e.outputs = p /\ e.calls = d.calls /\ e.left = d.left /\ e.fenced = d.fenced
      /\ e.call = d.call /\ e.wait = v
  <2>1. CASE o = "retry"
    <3>1. e = c
      BY <1>7, <2>1
    <3> QED BY <1>1, <1>6, <2>1, <3>1
  <2>2. CASE o = "succeeded"
    <3>1. e = [c EXCEPT !.step = "succeeded", !.outputs = @ \cup {n}]
      BY <1>7, <2>2
    <3> QED BY <1>1, <1>6, <2>2, <3>1 DEF Rows, StepStates
  <2>3. CASE o \notin {"retry", "succeeded"} /\ d.run = "executing" /\ ~d.fenced
    <3>1. e = FailBoth(c)
      BY <1>7, <2>3
    <3> QED BY <1>1, <1>6, <2>3, <3>1 DEF Rows, StepStates, RunStates, FailBoth
  <2>4. CASE o \notin {"retry", "succeeded"} /\ ~(d.run = "executing" /\ ~d.fenced)
    <3>1. e = [c EXCEPT !.step = "failed"]
      BY <1>7, <2>4
    <3> QED BY <1>1, <1>6, <2>4, <3>1 DEF Rows, StepStates
  <2> QED BY <2>1, <2>2, <2>3, <2>4
<1>9. Staged(e) /\ ControlLegal(e) /\ Charged(e)
  BY <1>1, <1>4, <1>8 DEF Sound, Staged, Evident, ControlLegal, Charged, Unplanned
<1>10. Single(e)
  BY <1>1, <1>2, <1>8 DEF Sound, Single
<1>11. Last(e) = o /\ ~Open(e)
  BY <1>1, <1>2, <1>8 DEF Last, Open, Closed
<1>12. AttemptLegal(e)
  <2> SUFFICES ASSUME NEW k \in Numbers
               PROVE  (e.out[k] = "none" <=> k > d.tries) /\ (e.out[k] = "succeeded" <=> k \in e.outputs)
    BY <1>8 DEF AttemptLegal
  <2>1. (d.out[k] = "none" <=> k > d.tries) /\ d.out[k] # "succeeded"
    BY <1>1 DEF Sound, Evident, AttemptLegal
  <2>2. CASE k = n
    BY <1>1, <1>2, <1>8, <2>1, <2>2 DEF Closed
  <2>3. CASE k # n
    BY <1>1, <1>2, <1>8, <2>1, <2>3
  <2> QED BY <2>2, <2>3
<1>13. e.step = "executing" => LineageValid(e)
  <2> SUFFICES ASSUME e.step = "executing" PROVE LineageValid(e)
    OBVIOUS
  <2>1. o = "retry"
    BY <1>8
  <2>2. ASSUME NEW k \in 1..(d.tries - 1) PROVE e.out[k] = "retry"
    <3>1. k \in Numbers /\ k # n
      BY <1>1, AttemptsAssumption DEF Numbers
    <3> QED BY <1>1, <1>2, <1>8, <3>1 DEF LineageValid
  <2> QED BY <1>1, <1>8, <1>11, <2>1, <2>2 DEF LineageValid
<1>14. Settles(d, e)
  <2>1. ASSUME NEW k \in Numbers, d.out[k] \in Closed PROVE e.out[k] = d.out[k]
    BY <1>2, <1>8, <2>1 DEF Closed
  <2>2. d.run \notin Active => e.run = d.run
    BY <1>8 DEF Active
  <2> QED BY <1>1, <1>8, <2>1, <2>2 DEF Settles
<1>15. Follows(d, e)
  BY <1>8, <1>9, <1>10, <1>11, <1>12, <1>13, <1>14 DEF Follows, Sound, Evident
<1> QED BY <1>8, <1>11, <1>15 DEF e, v

-----------------------------------------------------------------------------
(* The actions, one facet of the state at a time: the rows.                *)

\* The worker whose call the attempt n of run r is.
Closes(w, r, n) ==
  /\ Job(w) = r /\ wk[w].pc \in {"calling", "returned"}
  /\ wk[w].try = n /\ wk'[w] # wk[w]

\* Every run's rows follow from those before, and only the worker of a call
\* closes it while its run is cancelled and its time has not run out.
Progress ==
  /\ db' \in [Runs -> Rows]
  /\ \A r \in Runs : /\ Follows(db[r], db'[r])
                     /\ Preserves(db[r], db'[r]) \/ \E w \in Workers : Closes(w, r, db[r].tries)

\* In a reachable state the rows of every run are sound.
LEMMA RowsOf ==
  ASSUME Inv, NEW r \in Runs
  PROVE  db[r] \in Rows /\ Sound(db[r])
BY DEF Inv, TypeOK

\* A step that writes no row.
LEMMA Unmoved == ASSUME Inv, UNCHANGED db PROVE Progress
<1>1. ASSUME NEW r \in Runs PROVE Follows(db[r], db'[r]) /\ Preserves(db[r], db'[r])
  <2>1. db[r] \in Rows /\ Sound(db[r]) /\ db'[r] = db[r] /\ db[r].tries \in Nat
    BY RowsOf, RowFields
  <2> QED BY <2>1 DEF Follows, Settles, Preserves
<1>2. db' \in [Runs -> Rows]
  BY DEF Inv, TypeOK
<1> QED BY <1>1, <1>2 DEF Progress

\* A step that writes the rows of one run.
LEMMA Moved ==
  ASSUME Inv, NEW r \in Runs, NEW e, db' = [db EXCEPT ![r] = e], Follows(db[r], e),
         Preserves(db[r], e) \/ \E w \in Workers : Closes(w, r, db[r].tries)
  PROVE  Progress
<1>1. db \in [Runs -> Rows] /\ e \in Rows
  BY DEF Inv, TypeOK, Follows
<1>2. db' \in [Runs -> Rows] /\ db'[r] = e /\ \A q \in Runs \ {r} : db'[q] = db[q]
  BY <1>1
<1>3. ASSUME NEW q \in Runs, q # r PROVE Follows(db[q], db'[q]) /\ Preserves(db[q], db'[q])
  <2>1. db[q] \in Rows /\ Sound(db[q]) /\ db'[q] = db[q] /\ db[q].tries \in Nat
    BY <1>2, <1>3, RowsOf, RowFields
  <2> QED BY <2>1 DEF Follows, Settles, Preserves
<1> QED BY <1>2, <1>3 DEF Progress

\* A worker that advances a run works on it.
LEMMA JobOf ==
  ASSUME Inv, NEW w \in Workers, wk[w].pc # "idle"
  PROVE  Job(w) \in Runs /\ db[Job(w)] \in Rows /\ Sound(db[Job(w)])
BY RowsOf DEF Inv, Holds, Job

\* Planning, activation and local transforms.
LEMMA PlanningRows ==
  ASSUME Inv, NEW w \in Workers,
         MarkValidated(w) \/ PersistPlan(w) \/ Activate(w) \/ LocalTransform(w)
  PROVE  Progress
<1> DEFINE r == Job(w)
<1>1. r \in Runs /\ db[r] \in Rows /\ Sound(db[r]) /\ db \in [Runs -> Rows]
  BY JobOf DEF MarkValidated, PersistPlan, Activate, LocalTransform, Advancing, Inv, TypeOK
<1>2. CASE MarkValidated(w)
  <2>1. db' = [db EXCEPT ![r] = [db[r] EXCEPT !.run = "validated"]] /\ db[r].run = "received"
    BY <1>1, <1>2 DEF MarkValidated, Advancing
  <2> QED BY <1>1, <2>1, ValidatedRows, Moved
<1>3. CASE PersistPlan(w)
  <2>1. db' = [db EXCEPT ![r] = WithControl(WithPlan(db[r]))] /\ db[r].run = "validated"
    BY <1>1, <1>3 DEF PersistPlan, Advancing
  <2> QED BY <1>1, <2>1, PlannedRows, Moved
<1>4. CASE Activate(w)
  <2>1. /\ db' = [db EXCEPT ![r] = [db[r] EXCEPT !.run = "executing", !.step = "ready", !.left = RunTimeout]]
        /\ db[r].run = "planned"
    BY <1>1, <1>4 DEF Activate, Advancing
  <2> QED BY <1>1, <2>1, ActivatedRows, Moved
<1>5. CASE LocalTransform(w)
  <2>1. db[r].run = "executing" /\ db[r].step = "ready"
    BY <1>5 DEF LocalTransform, Advancing
  <2>2. \/ db' = [db EXCEPT ![r] = [db[r] EXCEPT !.step = "succeeded", !.outputs = @ \cup {0}]]
        \/ UNCHANGED db
    BY <1>1, <1>5 DEF LocalTransform
  <2> QED BY <1>1, <2>1, <2>2, TransformedRows, Moved, Unmoved
<1> QED BY <1>2, <1>3, <1>4, <1>5

\* Denials, reservations, and the ends of a run.
LEMMA EndingRows ==
  ASSUME Inv, NEW w \in Workers,
         DenyDeadline(w) \/ DenyContract(w) \/ CommitReservation(w) \/ Finish(w) \/ FailRun(w)
  PROVE  Progress
<1> DEFINE r == Job(w)
<1>1. r \in Runs /\ db[r] \in Rows /\ Sound(db[r]) /\ db \in [Runs -> Rows]
  BY JobOf DEF DenyDeadline, DenyContract, CommitReservation, Finish, FailRun, Reserving, Advancing, Inv, TypeOK
<1>2. CASE DenyDeadline(w) \/ DenyContract(w)
  <2>1. db[r].run = "executing" /\ db[r].step \in {"ready", "executing"}
    BY <1>2 DEF DenyDeadline, DenyContract, Reserving, Advancing
  <2>2. db' = [db EXCEPT ![r] = IF db[r].run = "executing" THEN FailBoth(db[r]) ELSE db[r]]
    BY <1>1, <1>2 DEF DenyDeadline, DenyContract, DenyTerminal
  <2>3. db' = [db EXCEPT ![r] = FailBoth(db[r])]
    BY <2>1, <2>2
  <2> QED BY <1>1, <2>1, <2>3, FailedRows, Moved
<1>3. CASE CommitReservation(w)
  <2> DEFINE n == wk[w].seen.tries + 1
  <2> DEFINE c == wk[w].seen.call
  <2>1. /\ db[r].run = "executing" /\ db[r].step \in {"ready", "executing"} /\ ~Open(db[r])
        /\ n = db[r].tries + 1 /\ n <= MaxAttempts
    BY <1>3 DEF CommitReservation, ControlUnchanged
  <2>2. c \in Nat
    BY DEF Inv, TypeOK, Processes, Snapshots
  <2> DEFINE e == [db[r] EXCEPT !.calls = Charge(db[r]), !.step = "executing", !.tries = n,
                     !.out[n] = "open", !.call = c]
  <2>3. db' = [db EXCEPT ![r].calls = Charge(db[r]), ![r].step = "executing", ![r].tries = n,
                 ![r].out[n] = "open", ![r].call = c]
    BY <1>3 DEF CommitReservation
  <2> HIDE DEF n, c
  <2>4. db' = [db EXCEPT ![r] = e]
    <3> DEFINE f1 == [db EXCEPT ![r].calls = Charge(db[r])]
    <3> DEFINE f2 == [f1 EXCEPT ![r].step = "executing"]
    <3> DEFINE f3 == [f2 EXCEPT ![r].tries = n]
    <3> DEFINE f4 == [f3 EXCEPT ![r].out[n] = "open"]
    <3> DEFINE d1 == [db[r] EXCEPT !.calls = Charge(db[r])]
    <3> DEFINE d2 == [d1 EXCEPT !.step = "executing"]
    <3> DEFINE d3 == [d2 EXCEPT !.tries = n]
    <3> DEFINE d4 == [d3 EXCEPT !.out[n] = "open"]
    <3> DEFINE d5 == [d4 EXCEPT !.call = c]
    <3>1. db' = [f4 EXCEPT ![r].call = c] /\ d5 = e
      BY <2>3
    <3>2. f1 = [db EXCEPT ![r] = d1]
      BY <1>1
    <3>3. f2 = [db EXCEPT ![r] = d2]
      <4> HIDE DEF f1, d1
      <4> QED BY <1>1, <3>2
    <3>4. f3 = [db EXCEPT ![r] = d3]
      <4> HIDE DEF f2, d2
      <4> QED BY <1>1, <3>3
    <3>5. f4 = [db EXCEPT ![r] = d4]
      <4> HIDE DEF f3, d3
      <4> QED BY <1>1, <3>4
    <3> HIDE DEF f4, d4, e
    <3> QED BY <1>1, <3>1, <3>5
  <2>5. Follows(db[r], e) /\ Preserves(db[r], e)
    BY <1>1, <2>1, <2>2, ReservedRows
  <2> HIDE DEF e
  <2> QED BY <1>1, <2>4, <2>5, Moved
<1>4. CASE Finish(w)
  <2>1. \/ /\ db' = [db EXCEPT ![r] = [db[r] EXCEPT !.run = "completed"]]
           /\ db[r].run = "executing" /\ db[r].step = "succeeded"
        \/ UNCHANGED db
    BY <1>1, <1>4 DEF Finish
  <2> QED BY <1>1, <2>1, CompletedRows, Moved, Unmoved
<1>5. CASE FailRun(w)
  <2>1. CASE ~Owns(w, r) \/ db[r].run \notin Active
    BY <1>5, <2>1, Unmoved DEF FailRun
  <2>2. CASE Owns(w, r) /\ db[r].run \in Active /\ db[r].step \in {"ready", "executing"}
    <3>1. db' = [db EXCEPT ![r] = FailBoth(db[r])]
      BY <1>1, <1>5, <2>2 DEF FailRun
    <3>2. db[r].run = "executing"
      BY <1>1, <2>2 DEF Sound, Staged, Active, Unplanned
    <3> QED BY <1>1, <2>2, <3>1, <3>2, FailedRows, Moved
  <2>3. CASE Owns(w, r) /\ db[r].run \in Active /\ db[r].step \notin {"ready", "executing"}
    <3>1. db' = [db EXCEPT ![r] = [db[r] EXCEPT !.run = "failed"]]
      BY <1>1, <1>5, <2>3 DEF FailRun
    <3> QED BY <1>1, <2>3, <3>1, RunFailedRows, Moved
  <2> QED BY <2>1, <2>2, <2>3
<1> QED BY <1>2, <1>3, <1>4, <1>5

\* Calls that are closed by their worker, by recovery or by an interruption.
LEMMA ClosingRows ==
  ASSUME Inv, NEW w \in Workers,
         \/ Complete(w) \/ RecoverExpired(w) \/ RecoverCancelled(w) \/ Stop(w) \/ LoseLease(w)
  PROVE  Progress
<1> DEFINE r == Job(w)
<1>1. r \in Runs /\ db[r] \in Rows /\ Sound(db[r]) /\ db \in [Runs -> Rows]
  BY JobOf DEF Complete, RecoverExpired, RecoverCancelled, Stop, LoseLease, Reserving, Advancing, Inv, TypeOK
<1>2. wk[w] \in Processes /\ wk[w].res \in Results /\ (wk[w].pc \in {"calling", "returned"} => wk[w].try \in Numbers)
  BY DEF Inv, TypeOK, Holds, Processes
<1>3. wk \in [Workers -> Processes] /\ (\A p : Goto(w, p) => wk'[w].pc = p)
  BY DEF Inv, TypeOK, Goto, Idle
<1>4. Open(db[r]) => db[r].tries \in Numbers /\ db[r].out[db[r].tries] = "open"
  BY <1>1, AttemptsAssumption DEF Open, Last, Rows, Numbers
<1>5. CASE Complete(w)
  <2> DEFINE n == wk[w].try
  <2> DEFINE o == Outcome(db[r], n, wk[w].res)
  <2>1. n \in Numbers /\ db[r].out[n] = "open" /\ db[r].step = "executing"
    BY <1>2, <1>5 DEF Complete, StillOpen
  <2>2. o \in Closed /\ (o = "retry" => db[r].run = "executing")
    BY <1>1, <1>2, <2>1, OutcomeIsClosed
  <2>3. db' = [db EXCEPT ![r] = Close(db[r], n, o)]
    BY <1>1, <1>5 DEF Complete, Completed
  <2>4. wk'[w] # wk[w] /\ wk[w].pc = "returned"
    <3>1. wk[w].pc = "returned" /\ \E p \in {"finishing", "releasing", "failing"} : Goto(w, p)
      BY <1>5 DEF Complete
    <3> QED BY <1>3, <3>1
  <2>5. Closes(w, r, db[r].tries)
    BY <1>1, <2>1, <2>4, OpenIsLatest DEF Closes
  <2> HIDE DEF o, n
  <2> QED BY <1>1, <2>1, <2>2, <2>3, <2>5, ClosedRows, Moved
<1>6. CASE RecoverExpired(w)
  <2> DEFINE n == db[r].tries
  <2> DEFINE o == Outcome(db[r], n, "timed_out")
  <2>1. n \in Numbers /\ db[r].out[n] = "open" /\ db[r].run = "executing" /\ Open(db[r])
    BY <1>4, <1>6 DEF RecoverExpired, Expired, Reserving, Advancing
  <2>2. db[r].step = "executing"
    BY <1>1, <2>1 DEF Sound, Evident
  <2>3. o \in Closed
    BY <1>1, <2>2, OutcomeIsClosed DEF Results
  <2>4. db' = [db EXCEPT ![r] = Close(db[r], n, o)]
    BY <1>1, <1>6 DEF RecoverExpired
  <2> HIDE DEF o, n
  <2>5. Follows(db[r], Close(db[r], n, o)) /\ Preserves(db[r], Close(db[r], n, o))
    BY <1>1, <2>1, <2>2, <2>3, ClosedRows DEF Preserves
  <2> QED BY <1>1, <2>4, <2>5, Moved
<1>7. CASE RecoverCancelled(w)
  <2>1. CASE Owns(w, r) /\ Expired(db[r]) /\ db[r].step = "executing"
    <3> DEFINE n == db[r].tries
    <3>1. n \in Numbers /\ db[r].out[n] = "open" /\ db[r].call = 0
      BY <1>4, <2>1 DEF Expired
    <3>2. db' = [db EXCEPT ![r] = Close(db[r], n, "cancelled")]
      BY <1>1, <1>7, <2>1 DEF RecoverCancelled
    <3> HIDE DEF n
    <3>3. Follows(db[r], Close(db[r], n, "cancelled")) /\ Preserves(db[r], Close(db[r], n, "cancelled"))
      BY <1>1, <2>1, <3>1, ClosedRows DEF Preserves, Closed, Outcomes
    <3> QED BY <1>1, <3>2, <3>3, Moved
  <2>2. CASE ~(Owns(w, r) /\ Expired(db[r]) /\ db[r].step = "executing")
    BY <1>7, <2>2, Unmoved DEF RecoverCancelled
  <2> QED BY <2>1, <2>2
<1>8. CASE Stop(w) \/ LoseLease(w)
  <2>1. Interrupted(w)
    BY <1>8 DEF Stop, LoseLease
  <2>2. CASE wk[w].pc = "calling" /\ StillOpen(w)
    <3> DEFINE n == wk[w].try
    <3> DEFINE o == Outcome(db[r], n, "cancelled")
    <3>1. n \in Numbers /\ db[r].out[n] = "open" /\ db[r].step = "executing"
      BY <1>2, <2>2 DEF StillOpen
    <3>2. o \in Closed /\ (o = "retry" => db[r].run = "executing")
      BY <1>1, <3>1, OutcomeIsClosed DEF Results
    <3>3. db' = [db EXCEPT ![r] = Close(db[r], n, o)]
      BY <1>1, <2>1, <2>2 DEF Interrupted
    <3>4. Closes(w, r, db[r].tries)
      <4>1. wk'[w].pc = "releasing"
        BY <1>3, <2>1 DEF Interrupted
      <4> QED BY <1>1, <2>2, <3>1, <4>1, OpenIsLatest DEF Closes
    <3> HIDE DEF o, n
    <3> QED BY <1>1, <3>1, <3>2, <3>3, <3>4, ClosedRows, Moved
  <2>3. CASE ~(wk[w].pc = "calling" /\ StillOpen(w))
    BY <2>1, <2>3, Unmoved DEF Interrupted
  <2> QED BY <2>2, <2>3
<1> QED BY <1>5, <1>6, <1>7, <1>8

\* A second passes for every run.
LEMMA TickRows == ASSUME Inv, Tick PROVE Progress
<1>1. ASSUME NEW r \in Runs PROVE Follows(db[r], db'[r]) /\ Preserves(db[r], db'[r])
  <2>1. db'[r] = [db[r] EXCEPT !.left = Less1(@), !.call = Less1(@), !.wait = Less1(@)]
    BY DEF Tick
  <2> QED BY <2>1, RowsOf, AgedRows
<1>2. db' \in [Runs -> Rows]
  <2>1. \A r \in Runs : db'[r] \in Rows
    BY <1>1 DEF Follows
  <2>2. db' = [r \in Runs |-> [db[r] EXCEPT !.left = Less1(@), !.call = Less1(@), !.wait = Less1(@)]]
    BY DEF Tick
  <2>3. db' = [r \in Runs |-> db'[r]]
    BY <2>2, Zenon
  <2> QED BY <2>1, <2>3
<1> QED BY <1>1, <1>2 DEF Progress

\* Every step takes sound rows to sound rows and rewrites nothing settled.
LEMMA RowsSteps == ASSUME Inv, Next PROVE Progress
<1>1. ASSUME NEW w \in Workers, Advance(w) PROVE Progress
  <2>1. CASE \/ MarkValidated(w) \/ PersistPlan(w) \/ Activate(w) \/ LocalTransform(w)
    BY <2>1, PlanningRows
  <2>2. CASE \/ DenyDeadline(w) \/ CommitReservation(w) \/ Finish(w) \/ FailRun(w)
    BY <2>2, EndingRows
  <2>3. CASE \/ Complete(w) \/ RecoverExpired(w) \/ RecoverCancelled(w) \/ LoseLease(w)
    BY <2>3, ClosingRows
  <2>4. CASE \/ \E r \in Runs : ClaimRun(w, r) \/ ClaimCancelled(w, r)
             \/ Replay(w) \/ Conflict(w) \/ Leave(w) \/ ResumeFinished(w)
             \/ DenyInProgress(w) \/ DenyBackoff(w) \/ DenyRate(w)
             \/ LoadReservation(w) \/ LoseReservation(w) \/ Return(w) \/ CompletionRefused(w) \/ Release(w)
    <3>1. UNCHANGED db
      BY <2>4 DEF ClaimRun, ClaimCancelled, TakeClaim, Replay, Conflict, Leave, ResumeFinished, Deny,
                  DenyInProgress, DenyBackoff, DenyRate, LoadReservation, LoseReservation, Return,
                  CompletionRefused, Release
    <3> QED BY <3>1, Unmoved
  <2> QED BY <1>1, <2>1, <2>2, <2>3, <2>4 DEF Advance
<1>2. ASSUME NEW w \in Workers, Disturb(w) \/ Thaw(w) PROVE Progress
  <2>1. CASE Refuse(w) \/ CompletionFails(w) \/ Crash(w) \/ Stall(w) \/ Thaw(w)
    BY <2>1, Unmoved DEF Refuse, CompletionFails, Crash, Stall, Thaw
  <2> QED BY <1>2, <2>1, EndingRows, ClosingRows DEF Disturb
<1>3. ASSUME NEW r \in Runs, CancelUnplanned(r) \/ Cancel(r) PROVE Progress
  <2>1. db[r] \in Rows /\ Sound(db[r]) /\ db \in [Runs -> Rows]
    BY RowsOf DEF Inv, TypeOK
  <2>2. CASE CancelUnplanned(r)
    <3>1. db' = [db EXCEPT ![r] = [db[r] EXCEPT !.run = "cancelled"]] /\ db[r].run \in Unplanned
      BY <2>1, <2>2 DEF CancelUnplanned
    <3> QED BY <2>1, <3>1, UnplannedCancelledRows, Moved
  <2>3. CASE Cancel(r)
    <3>1. db' = [db EXCEPT ![r] = Fence(db[r])] /\ db[r].run \in Active \ Unplanned
      BY <2>1, <2>3 DEF Cancel
    <3> QED BY <2>1, <3>1, FencedRows, Moved
  <2> QED BY <1>3, <2>2, <2>3
<1>4. CASE ReserveElsewhere
  BY <1>4, Unmoved DEF ReserveElsewhere
<1> QED BY <1>1, <1>2, <1>3, <1>4, TickRows DEF Next

-----------------------------------------------------------------------------
(* The workers.                                                            *)

Held == wk \in [Workers -> Processes] /\ \A w \in Workers : Holds(w)

\* A step that changes what one worker holds.
LEMMA WorkerChanged ==
  ASSUME Inv, NEW w \in Workers, NEW k \in Processes, wk' = [wk EXCEPT ![w] = k],
         k.pc # "idle" => k.job \in Runs,
         k.pc \in {"calling", "returned"} => k.try \in Numbers,
         k.pc = "reserving" => k.seen.used < Capacity
  PROVE  Held'
<1>1. wk' \in [Workers -> Processes] /\ wk'[w] = k /\ \A v \in Workers \ {w} : wk'[v] = wk[v]
  BY DEF Inv, TypeOK
<1>2. ASSUME NEW v \in Workers PROVE Holds(v)'
  <2>1. CASE v = w
    BY <1>1, <2>1 DEF Holds
  <2>2. CASE v # w
    BY <1>1, <2>2 DEF Holds, Inv
  <2> QED BY <2>1, <2>2
<1> QED BY <1>1, <1>2 DEF Held

\* A step of nobody's.
LEMMA WorkerUnchanged == ASSUME Inv, UNCHANGED wk PROVE Held'
BY DEF Held, Inv, TypeOK, Holds

\* An idle worker is a process that holds nothing.
LEMMA IdleTyped == Idle \in Processes /\ Blank \in Snapshots
<1>1. 0 \in 0..MaxAttempts
  BY AttemptsAssumption
<1>2. Blank \in Snapshots
  BY <1>1 DEF Blank, Snapshots, Spans
<1>3. "received" \in RunStates /\ "succeeded" \in Results /\ "idle" \in Pcs
  BY DEF RunStates, Results, Pcs
<1> QED BY <1>1, <1>2, <1>3 DEF Idle, Processes

\* A worker that goes on with its run alone in memory.
LEMMA WorkerMoved ==
  ASSUME Inv, NEW w \in Workers, wk[w].pc # "idle", NEW p \in Pcs \ {"calling", "returned", "reserving"},
         Goto(w, p)
  PROVE  Held'
<1> DEFINE k == [Idle EXCEPT !.pc = p, !.job = Job(w)]
<1>1. Job(w) \in Runs
  BY JobOf
<1>2. k \in Processes /\ k.pc = p /\ k.job = Job(w)
  BY <1>1, IdleTyped DEF Processes, Pcs
<1>3. wk' = [wk EXCEPT ![w] = k]
  BY DEF Goto
<1> HIDE DEF k
<1> QED BY <1>1, <1>2, <1>3, WorkerChanged

\* A worker that is idle again.
LEMMA WorkerFreed ==
  ASSUME Inv, NEW w \in Workers, wk' = [wk EXCEPT ![w] = Idle]
  PROVE  Held'
<1>1. Idle.pc = "idle"
  BY DEF Idle
<1> QED BY <1>1, IdleTyped, WorkerChanged

\* What a worker holds has its type.
LEMMA ProcessOf ==
  ASSUME Inv, NEW w \in Workers
  PROVE  /\ wk[w] \in Processes /\ wk \in [Workers -> Processes] /\ wk[w].seen \in Snapshots
         /\ wk[w].seen.used \in Nat /\ wk[w].seen.call \in Nat /\ wk[w].seen.span \in Spans
         /\ wk[w].seen.tries \in 0..MaxAttempts /\ wk[w].stalled \in BOOLEAN /\ wk[w].pc \in Pcs
BY DEF Inv, TypeOK, Processes, Snapshots

\* The steps of a worker that keep some of what it holds.
LEMMA HoldingSteps ==
  ASSUME Inv, NEW w \in Workers,
         \/ \E r \in Runs : ClaimRun(w, r) \/ ClaimCancelled(w, r)
         \/ MarkValidated(w) \/ PersistPlan(w) \/ Activate(w) \/ Replay(w)
         \/ LoadReservation(w) \/ CommitReservation(w) \/ Return(w) \/ Stall(w) \/ Thaw(w)
  PROVE  Held'
<1>1. wk[w] \in Processes /\ wk \in [Workers -> Processes] /\ Holds(w)
  BY ProcessOf DEF Inv
<1>2. ASSUME NEW r \in Runs, ClaimRun(w, r) \/ ClaimCancelled(w, r) PROVE Held'
  <2>1. PICK p \in {"claimed", "recovering"} : TakeClaim(w, r, p)
    BY <1>2 DEF ClaimRun, ClaimCancelled
  <2> DEFINE k == [wk[w] EXCEPT !.pc = p, !.job = r, !.at = db[r].run]
  <2>2. db[r].run \in RunStates
    BY RowsOf, RowFields
  <2>3. k \in Processes /\ k.pc = p /\ k.job = r
    BY <1>1, <2>2 DEF Processes, Pcs
  <2>4. wk' = [wk EXCEPT ![w] = k]
    BY <1>1, <2>1 DEF TakeClaim
  <2> HIDE DEF k
  <2> QED BY <2>3, <2>4, WorkerChanged
<1>3. CASE MarkValidated(w) \/ PersistPlan(w) \/ Activate(w) \/ Replay(w)
  <2>1. PICK s \in RunStates : wk' = [wk EXCEPT ![w].at = s]
    <3>1. CASE Replay(w)
      <4>1. wk[w].pc # "idle"
        BY <3>1 DEF Replay, Overtaken
      <4>2. db[Job(w)].run \in RunStates
        BY <4>1, JobOf, RowFields
      <4> QED BY <3>1, <4>2 DEF Replay
    <3>2. CASE MarkValidated(w)
      BY <3>2 DEF MarkValidated, RunStates
    <3>3. CASE PersistPlan(w)
      BY <3>3 DEF PersistPlan, RunStates
    <3>4. CASE Activate(w)
      BY <3>4 DEF Activate, RunStates
    <3> QED BY <1>3, <3>1, <3>2, <3>3, <3>4
  <2> DEFINE k == [wk[w] EXCEPT !.at = s]
  <2>2. k \in Processes /\ k.pc = wk[w].pc /\ k.job = wk[w].job /\ k.try = wk[w].try /\ k.seen = wk[w].seen
    BY <1>1 DEF Processes
  <2>3. wk' = [wk EXCEPT ![w] = k]
    BY <1>1, <2>1
  <2> HIDE DEF k
  <2> QED BY <1>1, <2>2, <2>3, WorkerChanged DEF Holds
<1>4. CASE LoadReservation(w)
  <2> DEFINE d == db[Job(w)]
  <2> DEFINE n == [tries |-> d.tries, span |-> "now", used |-> window.used["now"], call |-> Least(StepTimeout, d.left)]
  <2> DEFINE k == [wk[w] EXCEPT !.pc = "reserving", !.at = Idle.at, !.seen = n]
  <2>1. wk[w].pc = "claimed" /\ window.used["now"] < Capacity
    BY <1>4 DEF LoadReservation, MayRetry, InTime, Reserving, Advancing
  <2>2. Job(w) \in Runs /\ d \in Rows
    BY <2>1, JobOf
  <2>3. n \in Snapshots /\ n.used = window.used["now"]
    <3>1. Least(StepTimeout, d.left) \in Nat /\ d.tries \in 0..MaxAttempts
      BY <2>2, RowFields, TimesAssumption DEF Least
    <3>2. window.used["now"] \in Nat
      BY DEF Inv, TypeOK, Spans
    <3> HIDE DEF d
    <3> QED BY <3>1, <3>2 DEF Snapshots, Spans
  <2>4. Idle.at \in RunStates
    BY DEF Idle, RunStates
  <2> HIDE DEF n
  <2>5. k \in Processes /\ k.pc = "reserving" /\ k.job = wk[w].job /\ k.seen = n
    BY <1>1, <2>3, <2>4 DEF Processes, Pcs
  <2>6. wk' = [wk EXCEPT ![w] = k]
    BY <1>1, <1>4 DEF LoadReservation, n
  <2> HIDE DEF k
  <2> QED BY <2>1, <2>2, <2>3, <2>5, <2>6, WorkerChanged DEF Job
<1>5. CASE CommitReservation(w)
  <2> DEFINE n == wk[w].seen.tries + 1
  <2> DEFINE k == [wk[w] EXCEPT !.pc = "calling", !.try = n, !.seen = Blank]
  <2>1. wk[w].pc = "reserving" /\ n <= MaxAttempts
    BY <1>5 DEF CommitReservation
  <2>2. n \in Numbers /\ n \in 0..MaxAttempts
    BY <2>1, ProcessOf, AttemptsAssumption DEF Numbers
  <2>3. wk' = [wk EXCEPT ![w] = k]
    BY <1>1, <1>5 DEF CommitReservation
  <2> HIDE DEF n
  <2>4. k \in Processes /\ k.pc = "calling" /\ k.job = wk[w].job /\ k.try = n
    BY <1>1, <2>2, IdleTyped DEF Processes, Pcs
  <2> HIDE DEF k
  <2> QED BY <1>1, <2>1, <2>2, <2>3, <2>4, WorkerChanged DEF Holds
<1>6. CASE Return(w)
  <2>1. PICK res \in Answers(w) : wk' = [wk EXCEPT ![w].pc = "returned", ![w].res = res]
    BY <1>6 DEF Return
  <2>2. res \in Results /\ wk[w].pc = "calling"
    BY <1>6, <2>1, ResultsAssumption DEF Return, Answers, Results
  <2> DEFINE k == [wk[w] EXCEPT !.pc = "returned", !.res = res]
  <2>3. k \in Processes /\ k.pc = "returned" /\ k.job = wk[w].job /\ k.try = wk[w].try
    BY <1>1, <2>2 DEF Processes, Pcs
  <2>4. wk' = [wk EXCEPT ![w] = k]
    BY <1>1, <2>1
  <2> HIDE DEF k
  <2> QED BY <1>1, <2>2, <2>3, <2>4, WorkerChanged DEF Holds
<1>7. CASE Stall(w) \/ Thaw(w)
  <2>1. PICK b \in BOOLEAN : wk' = [wk EXCEPT ![w].stalled = b]
    BY <1>7 DEF Stall, Thaw
  <2> DEFINE k == [wk[w] EXCEPT !.stalled = b]
  <2>2. k \in Processes /\ k.pc = wk[w].pc /\ k.job = wk[w].job /\ k.try = wk[w].try /\ k.seen = wk[w].seen
    BY <1>1 DEF Processes
  <2>3. wk' = [wk EXCEPT ![w] = k]
    BY <1>1, <2>1
  <2> HIDE DEF k
  <2> QED BY <1>1, <2>2, <2>3, WorkerChanged DEF Holds
<1> QED BY <1>2, <1>3, <1>4, <1>5, <1>6, <1>7

\* The steps that end a worker's advancement, or a part of it.
LEMMA LeavingSteps ==
  ASSUME Inv, NEW w \in Workers,
         \/ Conflict(w) \/ Refuse(w) \/ Leave(w) \/ ResumeFinished(w) \/ LocalTransform(w)
         \/ DenyInProgress(w) \/ RecoverExpired(w) \/ DenyContract(w) \/ DenyDeadline(w) \/ DenyBackoff(w)
         \/ DenyRate(w) \/ LoseReservation(w) \/ Complete(w) \/ CompletionRefused(w) \/ CompletionFails(w)
         \/ Finish(w) \/ FailRun(w) \/ RecoverCancelled(w) \/ Stop(w) \/ LoseLease(w)
  PROVE  wk[w].pc # "idle" /\ \E p \in {"failing", "releasing", "finishing"} : Goto(w, p)
<1>1. CASE Conflict(w) \/ Refuse(w) \/ Leave(w) \/ ResumeFinished(w) \/ LocalTransform(w)
  BY <1>1 DEF Conflict, Overtaken, Refuse, Leave, ResumeFinished, LocalTransform, Advancing
<1>2. CASE DenyInProgress(w) \/ DenyBackoff(w) \/ DenyRate(w) \/ LoseReservation(w)
  BY <1>2 DEF DenyInProgress, DenyBackoff, DenyRate, LoseReservation, Deny, MayRetry, InTime, Reserving, Advancing
<1>3. CASE DenyContract(w) \/ DenyDeadline(w)
  BY <1>3 DEF DenyContract, DenyDeadline, DenyTerminal, Reserving, Advancing
<1>4. CASE RecoverExpired(w)
  BY <1>4 DEF RecoverExpired, Reserving, Advancing
<1>5. CASE Complete(w)
  BY <1>5 DEF Complete
<1>6. CASE CompletionRefused(w) \/ CompletionFails(w) \/ Finish(w) \/ FailRun(w) \/ RecoverCancelled(w)
  BY <1>6 DEF CompletionRefused, CompletionFails, Finish, FailRun, RecoverCancelled
<1>7. CASE Stop(w) \/ LoseLease(w)
  BY <1>7 DEF Stop, LoseLease, Interrupted
<1> QED BY <1>1, <1>2, <1>3, <1>4, <1>5, <1>6, <1>7

\* A second passes: a reservation in flight loses a second, or its window.
LEMMA TickWorkers == ASSUME Inv, Tick PROVE Held'
<1>1. ASSUME NEW w \in Workers
      PROVE  /\ wk'[w] \in Processes /\ wk'[w].pc = wk[w].pc /\ wk'[w].job = wk[w].job
             /\ wk'[w].try = wk[w].try /\ wk'[w].seen.used = wk[w].seen.used
  <2>1. wk'[w] = IF wk[w].pc # "reserving" THEN wk[w]
                 ELSE [wk[w] EXCEPT !.seen.call = Less1(@),
                         !.seen.span = IF window.left > 1 THEN @ ELSE "before"]
    BY DEF Tick
  <2>2. CASE wk[w].pc # "reserving"
    BY <2>1, <2>2, ProcessOf
  <2>3. CASE wk[w].pc = "reserving"
    <3> DEFINE c == Less1(wk[w].seen.call)
    <3> DEFINE s == IF window.left > 1 THEN wk[w].seen.span ELSE "before"
    <3> DEFINE n == [wk[w].seen EXCEPT !.call = c, !.span = s]
    <3>1. c \in Nat /\ s \in Spans
      BY ProcessOf DEF Less1, Spans
    <3> HIDE DEF c, s
    <3>2. n \in Snapshots /\ n.used = wk[w].seen.used
      BY <3>1, ProcessOf DEF Snapshots
    <3>3. wk'[w] = [wk[w] EXCEPT !.seen = n]
      BY <2>1, <2>3, ProcessOf DEF Processes, Snapshots, c, s
    <3> HIDE DEF n
    <3> QED BY <3>2, <3>3, ProcessOf DEF Processes
  <2> QED BY <2>2, <2>3
<1>2. wk' \in [Workers -> Processes]
  <2>1. wk' = [w \in Workers |-> IF wk[w].pc # "reserving" THEN wk[w]
              ELSE [wk[w] EXCEPT !.seen.call = Less1(@),
                      !.seen.span = IF window.left > 1 THEN @ ELSE "before"]]
    BY DEF Tick
  <2>2. wk' = [w \in Workers |-> wk'[w]]
    BY <2>1, Zenon
  <2> QED BY <1>1, <2>2
<1> QED BY <1>1, <1>2 DEF Held, Holds, Inv

\* Every step leaves the workers with what they need.
LEMMA WorkerSteps == ASSUME Inv, Next PROVE Held'
<1>1. ASSUME NEW w \in Workers, wk[w].pc # "idle",
             \E p \in {"failing", "releasing", "finishing"} : Goto(w, p)
      PROVE  Held'
  BY <1>1, WorkerMoved DEF Pcs
<1>2. ASSUME NEW w \in Workers, Release(w) \/ Crash(w) PROVE Held'
  BY <1>2, WorkerFreed DEF Release, Crash
<1>3. ASSUME NEW w \in Workers, Advance(w) \/ Thaw(w) \/ Disturb(w) PROVE Held'
  BY <1>1, <1>2, <1>3, HoldingSteps, LeavingSteps DEF Advance, Disturb
<1>4. ASSUME NEW r \in Runs, CancelUnplanned(r) \/ Cancel(r) PROVE Held'
  BY <1>4, WorkerUnchanged DEF CancelUnplanned, Cancel
<1>5. CASE ReserveElsewhere
  BY <1>5, WorkerUnchanged DEF ReserveElsewhere
<1> QED BY <1>3, <1>4, <1>5, TickWorkers DEF Next

-----------------------------------------------------------------------------
(* The rate windows.                                                       *)

Windows == [used : [Spans -> Nat], booked : [Spans -> SUBSET ((Runs \cup {NoRun}) \X Nat)], left : Nat]

WindowsCount == window \in Windows /\ \A s \in Spans : Counted(s)

\* The windows have their type and count their calls.
LEMMA WindowOf ==
  ASSUME Inv
  PROVE  /\ window \in Windows /\ window.used \in [Spans -> Nat] /\ window.left \in Nat
         /\ window.booked \in [Spans -> SUBSET ((Runs \cup {NoRun}) \X Nat)]
         /\ \A s \in Spans : Counted(s)
BY DEF Inv, TypeOK, Windows

\* Attempts never disappear, so what was booked stays booked for a reserved attempt.
LEMMA TriesGrow ==
  ASSUME Inv, Progress, NEW r \in Runs, NEW n \in Nat, n <= db[r].tries
  PROVE  n <= db'[r].tries
<1>1. db[r].tries \in Nat /\ db'[r].tries \in Nat /\ db[r].tries <= db'[r].tries
  BY RowsOf, RowFields DEF Progress, Follows, Settles
<1> QED BY <1>1

\* A step that books no call.
LEMMA WindowUntouched == ASSUME Inv, Progress, UNCHANGED window PROVE WindowsCount'
<1>1. ASSUME NEW s \in Spans PROVE Counted(s)'
  BY WindowOf, TriesGrow DEF Counted
<1> QED BY <1>1, WindowOf DEF WindowsCount, Windows

\* One more distinct call under the capacity.
LEMMA WindowBooked ==
  ASSUME Inv, Progress, NEW s \in Spans, NEW p \in (Runs \cup {NoRun}) \X Nat, p \notin window.booked[s],
         window.used[s] < Capacity,
         \A r \in Runs, n \in Nat : p = <<r, n>> => n <= db'[r].tries,
         \A n \in Nat : p = <<NoRun, n>> => n <= window.used[s],
         window' = [window EXCEPT !.used[s] = window.used[s] + 1, !.booked[s] = @ \cup {p}]
  PROVE  WindowsCount'
<1> DEFINE u == [window.used EXCEPT ![s] = window.used[s] + 1]
<1> DEFINE S == window.booked[s] \cup {p}
<1> DEFINE b == [window.booked EXCEPT ![s] = S]
<1>1. window' = [window EXCEPT !.used = u, !.booked = b]
  OBVIOUS
<1>2. window.used[s] \in Nat /\ u \in [Spans -> Nat] /\ u[s] = window.used[s] + 1
      /\ \A t \in Spans \ {s} : u[t] = window.used[t]
  BY WindowOf
<1>3. S \in SUBSET ((Runs \cup {NoRun}) \X Nat)
  BY WindowOf
<1>4. IsFiniteSet(S) /\ Cardinality(S) = window.used[s] + 1
  <2> DEFINE B == window.booked[s]
  <2>1. IsFiniteSet(B) /\ Cardinality(B) = window.used[s]
    BY WindowOf DEF Counted
  <2> HIDE DEF B
  <2>2. IsFiniteSet(B \cup {p}) /\ (p \notin B => Cardinality(B \cup {p}) = Cardinality(B) + 1)
    BY <2>1, FS_AddElement
  <2> QED BY <2>1, <2>2 DEF B
<1>5. \A q : q \in S <=> (q \in window.booked[s] \/ q = p)
  OBVIOUS
<1> HIDE DEF S, u
<1>6. b \in [Spans -> SUBSET ((Runs \cup {NoRun}) \X Nat)] /\ b[s] = S
      /\ \A t \in Spans \ {s} : b[t] = window.booked[t]
  BY WindowOf, <1>3
<1> HIDE DEF b
<1>7. window' \in Windows /\ window'.used = u /\ window'.booked = b
  BY <1>1, <1>2, <1>6, WindowOf DEF Windows
<1>8. ASSUME NEW t \in Spans PROVE Counted(t)'
  <2>1. CASE t # s
    <3>1. window'.used[t] = window.used[t] /\ window'.booked[t] = window.booked[t]
      BY <1>2, <1>6, <1>7, <2>1
    <3> QED BY <3>1, WindowOf, TriesGrow DEF Counted
  <2>2. CASE t = s
    <3>1. window'.used[t] = window.used[s] + 1 /\ window'.booked[t] = S
      BY <1>2, <1>6, <1>7, <2>2
    <3>2. ASSUME NEW r \in Runs, NEW n \in Nat, <<r, n>> \in S PROVE n <= db'[r].tries
      BY <1>5, <3>2, WindowOf, TriesGrow DEF Counted
    <3>3. ASSUME NEW n \in Nat, <<NoRun, n>> \in S PROVE n < window.used[s] + 1
      <4>1. CASE <<NoRun, n>> = p
        BY <1>2, <4>1
      <4>2. CASE <<NoRun, n>> \in window.booked[s]
        <5>1. n < window.used[s]
          BY <4>2, WindowOf DEF Counted
        <5> QED BY <1>2, <5>1
      <4> QED BY <1>5, <3>3, <4>1, <4>2
    <3>4. window.used[s] + 1 <= Capacity
      BY <1>2, CapacityAssumption
    <3> QED BY <1>4, <3>1, <3>2, <3>3, <3>4 DEF Counted
  <2> QED BY <2>1, <2>2
<1> QED BY <1>7, <1>8 DEF WindowsCount, Windows

\* The reservation of an attempt that no window has seen.
LEMMA CommitWindow == ASSUME Inv, Progress, NEW w \in Workers, CommitReservation(w) PROVE WindowsCount'
<1> DEFINE r == Job(w)
<1> DEFINE n == wk[w].seen.tries + 1
<1> DEFINE s == wk[w].seen.span
<1> DEFINE p == <<r, n>>
<1>1. /\ wk[w].pc = "reserving" /\ db[r].tries = wk[w].seen.tries /\ n <= MaxAttempts
      /\ window.used[s] = wk[w].seen.used
      /\ window' = [window EXCEPT !.used[s] = wk[w].seen.used + 1, !.booked[s] = @ \cup {p}]
  BY DEF CommitReservation, ControlUnchanged, WindowUnchanged
<1>2. r \in Runs /\ db[r] \in Rows /\ s \in Spans /\ db[r].tries \in Nat
  BY <1>1, JobOf, RowFields, ProcessOf
<1>3. n \in Nat /\ n \in Numbers /\ n > db[r].tries
  BY <1>1, <1>2, AttemptsAssumption DEF Numbers
<1>4. window.used[s] < Capacity
  BY <1>1 DEF Inv, Holds
<1>5. p \notin window.booked[s]
  BY <1>2, <1>3, WindowOf DEF Counted
<1>6. db'[r].tries = n
  <2>1. db' = [db EXCEPT ![r].calls = Charge(db[r]), ![r].step = "executing", ![r].tries = n,
                 ![r].out[n] = "open", ![r].call = wk[w].seen.call]
    BY DEF CommitReservation
  <2>2. db \in [Runs -> Rows]
    BY DEF Inv, TypeOK
  <2> HIDE DEF n
  <2> QED BY <1>2, <2>1, <2>2 DEF Rows
<1>7. p \in (Runs \cup {NoRun}) \X Nat
  BY <1>2, <1>3
<1>8. \A q \in Runs, m \in Nat : p = <<q, m>> => m <= db'[q].tries
  <2> SUFFICES ASSUME NEW q \in Runs, NEW m \in Nat, p = <<q, m>> PROVE m <= db'[q].tries
    OBVIOUS
  <2>1. q = r /\ m = n
    OBVIOUS
  <2> QED BY <1>6, <2>1
<1>9. \A m \in Nat : p = <<NoRun, m>> => m <= window.used[s]
  BY <1>2, RunsAssumption
<1>10. window' = [window EXCEPT !.used[s] = window.used[s] + 1, !.booked[s] = @ \cup {p}]
  BY <1>1
<1> HIDE DEF p, s, r, n
<1> QED BY <1>2, <1>4, <1>5, <1>7, <1>8, <1>9, <1>10, WindowBooked

\* The reservation of a run outside the instance.
LEMMA ElsewhereWindow == ASSUME Inv, Progress, ReserveElsewhere PROVE WindowsCount'
<1> DEFINE s == "now"
<1> DEFINE p == <<NoRun, window.used[s]>>
<1>1. /\ window.used[s] < Capacity
      /\ window' = [window EXCEPT !.used[s] = window.used[s] + 1, !.booked[s] = @ \cup {p}]
  BY DEF ReserveElsewhere
<1>2. s \in Spans /\ window.used[s] \in Nat
  BY WindowOf DEF Spans
<1>3. p \in (Runs \cup {NoRun}) \X Nat /\ p \notin window.booked[s]
  BY <1>2, WindowOf DEF Counted
<1>4. \A r \in Runs, n \in Nat : p = <<r, n>> => n <= db'[r].tries
  BY RunsAssumption
<1>5. \A n \in Nat : p = <<NoRun, n>> => n <= window.used[s]
  BY <1>2
<1> HIDE DEF p, s
<1> QED BY <1>1, <1>2, <1>3, <1>4, <1>5, WindowBooked

\* A window grows older, or becomes the one before.
LEMMA TickWindow == ASSUME Inv, Progress, Tick PROVE WindowsCount'
<1>1. CASE window.left > 1
  <2>1. window' = [window EXCEPT !.left = window.left - 1]
    BY <1>1 DEF Tick
  <2>2. window' \in Windows /\ window'.used = window.used /\ window'.booked = window.booked
    BY <1>1, <2>1, WindowOf DEF Windows
  <2>3. ASSUME NEW s \in Spans PROVE Counted(s)'
    BY <2>2, WindowOf, TriesGrow DEF Counted
  <2> QED BY <2>2, <2>3 DEF WindowsCount, Windows
<1>2. CASE ~(window.left > 1)
  <2> DEFINE u == [now |-> 0, before |-> window.used["now"]]
  <2> DEFINE b == [now |-> {}, before |-> window.booked["now"]]
  <2>1. window' = [used |-> u, booked |-> b, left |-> WindowLength]
    BY <1>2 DEF Tick
  <2>2. "now" \in Spans /\ window.used["now"] \in Nat /\ Counted("now")
        /\ window.booked["now"] \in SUBSET ((Runs \cup {NoRun}) \X Nat)
    BY WindowOf DEF Spans
  <2>3. u \in [Spans -> Nat] /\ u["now"] = 0 /\ u["before"] = window.used["now"]
    BY <2>2 DEF Spans
  <2>4. b \in [Spans -> SUBSET ((Runs \cup {NoRun}) \X Nat)] /\ b["now"] = {} /\ b["before"] = window.booked["now"]
    BY <2>2 DEF Spans
  <2> HIDE DEF u, b
  <2>5. window' \in Windows /\ window'.used = u /\ window'.booked = b
    BY <2>1, <2>3, <2>4, TimesAssumption DEF Windows
  <2>6. Counted("now")'
    <3>1. IsFiniteSet({}) /\ Cardinality({}) = 0 /\ 0 <= Capacity
      BY FS_EmptySet, CapacityAssumption
    <3> QED BY <2>3, <2>4, <2>5, <3>1 DEF Counted
  <2>7. Counted("before")'
    BY <2>2, <2>3, <2>4, <2>5, TriesGrow DEF Counted
  <2> QED BY <2>5, <2>6, <2>7 DEF WindowsCount, Windows, Spans
<1> QED BY <1>1, <1>2

\* Every step keeps the windows honest.
LEMMA WindowSteps == ASSUME Inv, Next, Progress PROVE WindowsCount'
<1>1. ASSUME NEW w \in Workers, Advance(w), ~CommitReservation(w) PROVE UNCHANGED window
  BY <1>1 DEF Advance, ClaimRun, ClaimCancelled, TakeClaim, MarkValidated, PersistPlan, Activate, Replay,
              Conflict, Leave, ResumeFinished, LocalTransform, Deny, DenyInProgress, RecoverExpired,
              DenyDeadline, DenyTerminal, DenyBackoff, DenyRate, LoadReservation, LoseReservation, Return,
              Complete, CompletionRefused, Finish, FailRun, Release, RecoverCancelled, LoseLease, Interrupted
<1>2. ASSUME NEW w \in Workers, Thaw(w) \/ Disturb(w) PROVE UNCHANGED window
  BY <1>2 DEF Thaw, Disturb, Refuse, DenyContract, DenyTerminal, CompletionFails, Crash, Stall, Stop, Interrupted
<1>3. ASSUME NEW r \in Runs, CancelUnplanned(r) \/ Cancel(r) PROVE UNCHANGED window
  BY <1>3 DEF CancelUnplanned, Cancel
<1> QED BY <1>1, <1>2, <1>3, WindowUntouched, CommitWindow, ElsewhereWindow, TickWindow DEF Next

-----------------------------------------------------------------------------
(* Claims, denials and faults, and the invariant.                          *)

Registers ==
  /\ claim \in [Runs -> Claims]
  /\ denied \in [Runs -> SUBSET Denials]
  /\ faults \in [spent : Nat, hung : BOOLEAN]

\* A fault is counted.
LEMMA FaultTyped ==
  ASSUME Inv, NEW kind, Fault(kind)
  PROVE  faults' \in [spent : Nat, hung : BOOLEAN]
<1>1. faults.spent \in Nat /\ faults.hung \in BOOLEAN
  BY DEF Inv, TypeOK
<1>2. faults.spent + 1 \in Nat /\ (faults.hung \/ kind \in {"stall", "stop"}) \in BOOLEAN
  BY <1>1
<1> DEFINE h == faults.hung \/ kind \in {"stall", "stop"}
<1>3. faults' = [spent |-> faults.spent + 1, hung |-> h]
  BY DEF Fault
<1> HIDE DEF h
<1> QED BY <1>2, <1>3 DEF h

\* A claim row is rewritten whole.
LEMMA ClaimTyped ==
  ASSUME Inv, NEW r \in Runs, NEW c \in Claims, claim' = [claim EXCEPT ![r] = c]
  PROVE  claim' \in [Runs -> Claims]
BY DEF Inv, TypeOK

\* A denial is added to the timeline of its run.
LEMMA DenialTyped ==
  ASSUME Inv, NEW w \in Workers, NEW code \in Denials, denied' = [denied EXCEPT ![Job(w)] = @ \cup {code}]
  PROVE  denied' \in [Runs -> SUBSET Denials]
BY DEF Inv, TypeOK

\* What a step does to the claims.
LEMMA ClaimSteps == ASSUME Inv, Next PROVE claim' \in [Runs -> Claims]
<1>0. claim \in [Runs -> Claims]
  BY DEF Inv, TypeOK
<1>1. ASSUME NEW w \in Workers, NEW r \in Runs, ClaimRun(w, r) \/ ClaimCancelled(w, r)
      PROVE  claim' \in [Runs -> Claims]
  <2>1. [owner |-> w, lease |-> Lease, pause |-> 0] \in Claims
    BY TimesAssumption DEF Claims
  <2> QED BY <1>1, <2>1, ClaimTyped DEF ClaimRun, ClaimCancelled, TakeClaim
<1>2. ASSUME NEW w \in Workers, Release(w) PROVE claim' \in [Runs -> Claims]
  <2>1. [owner |-> NoWorker, lease |-> 0, pause |-> Pause] \in Claims
    BY DEF Claims, Pause
  <2>2. Job(w) \in Runs
    BY <1>2, JobOf DEF Release
  <2> QED BY <1>0, <1>2, <2>1, <2>2, ClaimTyped DEF Release
<1>3. ASSUME NEW w \in Workers, Crash(w) PROVE claim' \in [Runs -> Claims]
  <2> DEFINE r == Job(w)
  <2> DEFINE o == IF claim[r].owner = w THEN DeadWorker ELSE claim[r].owner
  <2>1. r \in Runs
    BY <1>3, JobOf DEF Crash
  <2>2. claim[r] \in Claims /\ o \in Workers \cup {NoWorker, DeadWorker}
    BY <1>0, <2>1 DEF Claims
  <2>3. claim' = [claim EXCEPT ![r] = [claim[r] EXCEPT !.owner = o]]
    BY <1>0, <1>3, <2>1 DEF Crash
  <2> HIDE DEF o
  <2>4. [claim[r] EXCEPT !.owner = o] \in Claims
    BY <2>2 DEF Claims
  <2> QED BY <2>1, <2>3, <2>4, ClaimTyped
<1>4. ASSUME Tick PROVE claim' \in [Runs -> Claims]
  <2>1. \A n \in Nat : Less1(n) \in Nat
    BY DEF Less1
  <2>2. ASSUME NEW r \in Runs PROVE claim'[r] \in Claims
    <3> DEFINE o == claim[r].owner
    <3> DEFINE l == IF o \in Workers /\ claim[r].lease > 0 /\ ~wk[o].stalled THEN Lease ELSE Less1(claim[r].lease)
    <3>1. claim'[r] = [claim[r] EXCEPT !.lease = l, !.pause = Less1(@)]
      BY <1>4 DEF Tick
    <3>2. claim[r] \in Claims /\ claim[r].lease \in Nat
      BY <1>0 DEF Claims
    <3>3. l \in Nat
      BY <2>1, <3>2, TimesAssumption
    <3> HIDE DEF l
    <3> QED BY <2>1, <3>1, <3>2, <3>3 DEF Claims
  <2>3. claim' = [r \in Runs |-> claim'[r]]
    <3>1. claim' = [r \in Runs |->
             LET o == claim[r].owner
                 renewed == o \in Workers /\ claim[r].lease > 0 /\ ~wk[o].stalled
             IN  [claim[r] EXCEPT !.lease = IF renewed THEN Lease ELSE Less1(@), !.pause = Less1(@)]]
      BY <1>4 DEF Tick
    <3> QED BY <3>1, Zenon
  <2> QED BY <2>2, <2>3
<1>5. ASSUME NEW w \in Workers, Advance(w) PROVE claim' \in [Runs -> Claims]
  BY <1>0, <1>1, <1>2, <1>5
     DEF Advance, MarkValidated, PersistPlan, Activate, Replay,
         Conflict, Leave, ResumeFinished, LocalTransform, Deny, DenyInProgress, RecoverExpired,
         DenyDeadline, DenyTerminal, DenyBackoff, DenyRate, LoadReservation, CommitReservation, LoseReservation,
         Return, Complete, CompletionRefused, Finish, FailRun, RecoverCancelled, LoseLease, Interrupted
<1>6. ASSUME NEW w \in Workers, Thaw(w) \/ Disturb(w) PROVE claim' \in [Runs -> Claims]
  BY <1>0, <1>3, <1>6 DEF Thaw, Disturb, Refuse, DenyContract, DenyTerminal, CompletionFails, Stall, Stop, Interrupted
<1>7. ASSUME NEW r \in Runs, CancelUnplanned(r) \/ Cancel(r) PROVE claim' \in [Runs -> Claims]
  BY <1>0, <1>7 DEF CancelUnplanned, Cancel
<1>8. CASE ReserveElsewhere
  BY <1>0, <1>8 DEF ReserveElsewhere
<1> QED BY <1>4, <1>5, <1>6, <1>7, <1>8 DEF Next

\* What a step does to the denials and the faults.
LEMMA RegisterSteps == ASSUME Inv, Next PROVE Registers'
<1> DEFINE D == denied' \in [Runs -> SUBSET Denials]
<1> DEFINE F == faults' \in [spent : Nat, hung : BOOLEAN]
<1>1. (UNCHANGED denied => D) /\ (UNCHANGED faults => F)
  BY DEF Inv, TypeOK
<1>2. ASSUME NEW w \in Workers, NEW code \in Denials, Deny(w, code) PROVE D /\ F
  BY <1>1, <1>2, DenialTyped DEF Deny
<1>3. ASSUME NEW w \in Workers, NEW code \in Denials, DenyTerminal(w, code) PROVE D
  BY <1>3, DenialTyped DEF DenyTerminal
<1>4. ASSUME NEW kind, Fault(kind) PROVE F
  BY <1>4, FaultTyped
<1> HIDE DEF D, F
<1>5. ASSUME NEW w \in Workers, Advance(w) PROVE D /\ F
  <2>1. CASE DenyInProgress(w) \/ DenyBackoff(w) \/ DenyRate(w) \/ LoseReservation(w)
    BY <1>2, <2>1 DEF DenyInProgress, DenyBackoff, DenyRate, LoseReservation, Denials
  <2>2. CASE DenyDeadline(w)
    BY <1>1, <1>3, <2>2 DEF DenyDeadline, Denials
  <2> QED BY <1>1, <1>5, <2>1, <2>2
     DEF Advance, ClaimRun, ClaimCancelled, TakeClaim, MarkValidated, PersistPlan, Activate, Replay,
         Conflict, Leave, ResumeFinished, LocalTransform, RecoverExpired, LoadReservation, CommitReservation,
         Return, Complete, CompletionRefused, Finish, FailRun, Release, RecoverCancelled, LoseLease, Interrupted
<1>6. ASSUME NEW w \in Workers, Thaw(w) \/ Disturb(w) PROVE D /\ F
  <2>1. CASE DenyContract(w)
    BY <1>3, <1>4, <2>1 DEF DenyContract, Denials
  <2> QED BY <1>1, <1>4, <1>6, <2>1 DEF Thaw, Disturb, Refuse, CompletionFails, Crash, Stall, Stop, Interrupted
<1>7. ASSUME NEW r \in Runs, CancelUnplanned(r) \/ Cancel(r) PROVE D /\ F
  BY <1>1, <1>7 DEF CancelUnplanned, Cancel
<1>8. ASSUME ReserveElsewhere \/ Tick PROVE D /\ F
  BY <1>1, <1>8 DEF ReserveElsewhere, Tick
<1>9. D /\ F
  BY <1>5, <1>6, <1>7, <1>8 DEF Next
<1> QED BY <1>9, ClaimSteps DEF Registers, D, F

\* Init establishes the invariant.
LEMMA InitInv == Init => Inv
<1> SUFFICES ASSUME Init PROVE Inv
  OBVIOUS
<1>1. PICK local \in [Runs -> LocalChoices] :
       db = [r \in Runs |-> [local |-> local[r], run |-> "received", step |-> "none", fenced |-> FALSE, calls |-> 0,
                  left |-> 0, tries |-> 0, out |-> [n \in Numbers |-> "none"], call |-> 0, wait |-> 0,
                  outputs |-> {}]]
  BY DEF Init
<1>2. ASSUME NEW r \in Runs PROVE db[r] \in Rows /\ Sound(db[r])
  <2> DEFINE f == [n \in Numbers |-> "none"]
  <2> DEFINE d == db[r]
  <2>1. f \in [Numbers -> Outcomes] /\ \A n \in Numbers : f[n] = "none"
    BY DEF Outcomes
  <2>2. d = [local |-> local[r], run |-> "received", step |-> "none", fenced |-> FALSE, calls |-> 0,
             left |-> 0, tries |-> 0, out |-> f, call |-> 0, wait |-> 0, outputs |-> {}]
    BY <1>1
  <2>3. local[r] \in BOOLEAN /\ 0 \in 0..MaxAttempts
    BY RunsAssumption, AttemptsAssumption
  <2> HIDE DEF f, d
  <2>4. d \in Rows
    BY <2>1, <2>2, <2>3 DEF Rows, RunStates, StepStates
  <2>5. /\ d.run = "received" /\ d.step = "none" /\ d.fenced = FALSE /\ d.calls = 0 /\ d.left = 0
        /\ d.tries = 0 /\ d.out = f /\ d.outputs = {}
    BY <2>2
  <2>6. Staged(d) /\ Charged(d)
    BY <2>5 DEF Staged, Charged, Unplanned
  <2>7. Single(d)
    BY <2>3, <2>5 DEF Single
  <2>8. AttemptLegal(d)
    <3> SUFFICES ASSUME NEW n \in Numbers
                 PROVE  (d.out[n] = "none" <=> n > d.tries) /\ (d.out[n] = "succeeded" <=> n \in d.outputs)
      BY DEF AttemptLegal
    <3>1. n > 0
      BY AttemptsAssumption DEF Numbers
    <3> QED BY <2>1, <2>5, <3>1
  <2>9. Evident(d)
    BY <2>5, <2>8 DEF Evident, ControlLegal, Open, Last
  <2> QED BY <2>4, <2>6, <2>7, <2>9 DEF Sound, d
<1>3. db \in [Runs -> Rows]
  BY <1>1, <1>2
<1>4. claim \in [Runs -> Claims] /\ denied \in [Runs -> SUBSET Denials] /\ faults \in [spent : Nat, hung : BOOLEAN]
  BY DEF Init, Claims
<1>5. wk \in [Workers -> Processes] /\ \A w \in Workers : Holds(w)
  <2>1. wk = [w \in Workers |-> Idle] /\ Idle.pc = "idle"
    BY DEF Init, Idle
  <2> QED BY <2>1, IdleTyped DEF Holds
<1>6. window \in Windows /\ \A s \in Spans : Counted(s)
  <2> DEFINE u == [s \in Spans |-> 0]
  <2> DEFINE b == [s \in Spans |-> {}]
  <2>1. window = [used |-> u, booked |-> b, left |-> WindowLength]
    BY DEF Init
  <2>2. u \in [Spans -> Nat] /\ b \in [Spans -> SUBSET ((Runs \cup {NoRun}) \X Nat)]
        /\ \A s \in Spans : u[s] = 0 /\ b[s] = {}
    OBVIOUS
  <2> HIDE DEF u, b
  <2>3. window \in Windows /\ window.used = u /\ window.booked = b
    BY <2>1, <2>2, TimesAssumption DEF Windows
  <2>4. IsFiniteSet({}) /\ Cardinality({}) = 0 /\ 0 <= Capacity
    BY FS_EmptySet, CapacityAssumption
  <2> QED BY <2>2, <2>3, <2>4 DEF Counted
<1> QED BY <1>2, <1>3, <1>4, <1>5, <1>6 DEF Inv, TypeOK, Windows

\* Every step keeps it.
LEMMA NextInv == ASSUME Inv, [Next]_vars PROVE Inv' /\ Progress
<1>1. CASE Next
  <2>1. Progress /\ Held' /\ WindowsCount' /\ Registers'
    BY <1>1, RowsSteps, WorkerSteps, WindowSteps, RegisterSteps
  <2>2. TypeOK'
    BY <2>1 DEF Progress, Held, WindowsCount, Windows, Registers, TypeOK
  <2>3. \A r \in Runs : Sound(db[r])'
    BY <2>1 DEF Progress, Follows
  <2> QED BY <2>1, <2>2, <2>3 DEF Inv, Held, WindowsCount
<1>2. CASE UNCHANGED vars
  <2>1. UNCHANGED <<db, claim, window, denied, wk, faults>>
    BY <1>2 DEF vars
  <2>2. Progress
    BY <2>1, Unmoved
  <2>3. TypeOK'
    BY <2>1 DEF Inv, TypeOK
  <2>4. Held' /\ WindowsCount'
    BY <2>1, <2>2, WorkerUnchanged, WindowUntouched
  <2>5. \A r \in Runs : Sound(db[r])'
    BY <2>2 DEF Progress, Follows
  <2> QED BY <2>2, <2>3, <2>4, <2>5 DEF Inv, Held, WindowsCount
<1> QED BY <1>1, <1>2

\* The invariant holds in every reachable state.
LEMMA Invariance == Spec => []Inv
<1>1. Inv /\ [Next]_vars => Inv'
  BY NextInv
<1> QED BY InitInv, <1>1, PTL DEF Spec

-----------------------------------------------------------------------------
(* Results.                                                                *)

\* Every variable keeps its type.
THEOREM TypeCorrect == Spec => []TypeOK
<1>1. Inv => TypeOK
  BY DEF Inv
<1> QED BY <1>1, Invariance, PTL

\* Whoever crashed, planned late, recovered or cancelled: the attempts never
\* contradict the step and the run, and every row can be loaded again.
THEOREM AttemptsNeverContradict == Spec => []EvidenceIsConsistent
<1>1. ASSUME Inv PROVE EvidenceIsConsistent
  <2> SUFFICES ASSUME NEW r \in Runs
               PROVE  LET d == db[r] IN
                      /\ ControlLegal(d) /\ AttemptLegal(d)
                      /\ d.step = "executing" => LineageValid(d)
                      /\ Open(d) => d.step = "executing" \/ d.run = "failed"
                      /\ d.step = "executing" => d.run \in {"executing", "cancelled"}
                      /\ d.run \in Unplanned => d.step = "none"
                      /\ d.step = "none" => d.run \in Unplanned \cup {"failed", "cancelled"} /\ ~d.fenced
    BY DEF EvidenceIsConsistent
  <2> QED BY <1>1, RowsOf DEF Sound, Staged, Evident
<1> QED BY <1>1, Invariance, PTL

\* One logical call is charged per run, and no window admits more distinct
\* calls than its capacity, however many workers race for it.
THEOREM BudgetsHold == Spec => []BudgetsAreHonest
<1>1. ASSUME Inv PROVE BudgetsAreHonest
  BY <1>1, RowsOf DEF BudgetsAreHonest, Inv, Counted, Sound, Charged
<1> QED BY <1>1, Invariance, PTL

\* A succeeded step has exactly one artifact and a completed run rests on it:
\* late and duplicate results add nothing.
THEOREM ExactlyOneOutput == Spec => []OneOutput
<1>1. ASSUME Inv PROVE OneOutput
  <2> SUFFICES ASSUME NEW r \in Runs
               PROVE  LET d == db[r] IN
                      /\ d.outputs # {} <=> d.step = "succeeded"
                      /\ Cardinality(d.outputs) <= 1
                      /\ \A n \in d.outputs \ {0} : d.out[n] = "succeeded" /\ n = d.tries
                      /\ d.run = "completed" => d.step = "succeeded" /\ ~Open(d)
    BY DEF OneOutput
  <2> DEFINE d == db[r]
  <2>1. d \in Rows /\ Sound(d)
    BY <1>1, RowsOf
  <2> HIDE DEF d
  <2>2. PICK m \in 0..MaxAttempts : d.outputs \subseteq {m}
    BY <2>1 DEF Sound, Single
  <2>3. IsFiniteSet({m}) /\ Cardinality({m}) = 1
    BY FS_Singleton
  <2>4. Cardinality(d.outputs) <= 1
    BY <2>2, <2>3, FS_Subset, FS_CardinalityType
  <2>5. d.run = "completed" => d.step = "succeeded" /\ ~Open(d)
    BY <2>1 DEF Sound, Staged, Evident
  <2> QED BY <2>1, <2>4, <2>5 DEF Sound, Single, d
<1> QED BY <1>1, Invariance, PTL

\* A recorded outcome is never rewritten and a terminal run stays as it is; a
\* call that a cancellation preserved is closed by its own worker until it
\* expires.
THEOREM OutcomesStand == Spec => OutcomesAreFinal
<1> DEFINE Stands ==
      \A r \in Runs :
       /\ \A n \in Numbers : db[r].out[n] \in Closed => db'[r].out[n] = db[r].out[n]
       /\ db[r].run \notin Active => db'[r].run = db[r].run
       /\ db[r].run = "cancelled" /\ Open(db[r]) /\ db[r].call > 0 /\ ~Open(db'[r])
          => \E w \in Workers : Job(w) = r /\ wk[w].pc \in {"calling", "returned"}
                                /\ wk[w].try = db[r].tries /\ wk'[w] # wk[w]
<1>1. ASSUME Inv, [Next]_vars PROVE Stands
  <2>1. Progress
    BY <1>1, NextInv
  <2> SUFFICES ASSUME NEW r \in Runs
               PROVE  /\ \A n \in Numbers : db[r].out[n] \in Closed => db'[r].out[n] = db[r].out[n]
                      /\ db[r].run \notin Active => db'[r].run = db[r].run
                      /\ db[r].run = "cancelled" /\ Open(db[r]) /\ db[r].call > 0 /\ ~Open(db'[r])
                         => \E w \in Workers : Job(w) = r /\ wk[w].pc \in {"calling", "returned"}
                                               /\ wk[w].try = db[r].tries /\ wk'[w] # wk[w]
    OBVIOUS
  <2>2. Settles(db[r], db'[r]) /\ (Preserves(db[r], db'[r]) \/ \E w \in Workers : Closes(w, r, db[r].tries))
    BY <2>1 DEF Progress, Follows
  <2> QED BY <2>2 DEF Settles, Preserves, Closes
<1>2. Inv /\ [Next]_vars => [Stands]_vars
  BY <1>1
<1> QED BY <1>2, Invariance, PTL DEF Spec, OutcomesAreFinal

-----------------------------------------------------------------------------
(* Time.  The retry of a call waits for its claim: when another worker may *)
(* claim the run, its call has expired and its backoff has passed.         *)

\* The lease outlasts a call, and the only backoff, that of the first attempt,
\* is as long as the pause of a released claim.  The deployed lease is 90 s; the
\* catalog's calls have 30 s and its operations at most two attempts.
Slack == StepTimeout <= Lease /\ MaxAttempts <= 2

\* A worker keeps the claim of its run for as long as it works on it.
Punctual(w) ==
  /\ ~wk[w].stalled
  /\ wk[w].pc # "idle" => claim[Job(w)].owner = w
  /\ wk[w].pc = "reserving" => wk[w].seen.call <= StepTimeout
  /\ (wk[w].pc \in {"claimed", "reserving"} /\ db[Job(w)].run \in Active)
       => db[Job(w)].wait = 0 /\ (Open(db[Job(w)]) => db[Job(w)].call = 0)
  /\ (wk[w].pc = "releasing" /\ db[Job(w)].run \in Active) => ~Open(db[Job(w)])
  /\ wk[w].pc = "recovering" => db[Job(w)].run \notin Active

\* What a worker leaves behind has run out when its claim has.
RunsOut(r) ==
  /\ db[r].wait <= Pause /\ db[r].call <= StepTimeout
  /\ claim[r].owner \in Workers => claim[r].lease = Lease
  /\ (claim[r].owner \notin Workers /\ db[r].run \in Active)
       => /\ Open(db[r]) => db[r].call <= claim[r].lease
          /\ db[r].wait <= claim[r].lease \/ db[r].wait <= claim[r].pause

OnTime == (\A w \in Workers : Punctual(w)) /\ (\A r \in Runs : RunsOut(r))

Turns == \A r \in Runs : denied[r] \cap {"attempt_in_progress", "retry_not_ready"} = {}

Timed == ~faults.hung => OnTime /\ Turns

\* The times are numbers of seconds.
LEMMA Numeric ==
  ASSUME Inv, NEW r \in Runs
  PROVE  /\ db[r].wait \in Nat /\ db[r].call \in Nat /\ db[r].left \in Nat
         /\ claim[r] \in Claims /\ claim[r].lease \in Nat /\ claim[r].pause \in Nat
         /\ StepTimeout \in Nat /\ Lease \in Nat /\ Lease > 0 /\ Pause = 1
<1>1. claim[r] \in Claims
  BY DEF Inv, TypeOK
<1> QED BY <1>1, RowsOf, RowFields, TimesAssumption DEF Claims, Pause

\* No two workers work on one run.
LEMMA Alone ==
  ASSUME OnTime, NEW w \in Workers, NEW v \in Workers, v # w, wk[w].pc # "idle", wk[v].pc # "idle"
  PROVE  Job(v) # Job(w)
BY DEF OnTime, Punctual

\* A worker's own step leaves the other workers where they were.
LEMMA OthersPunctual ==
  ASSUME OnTime, NEW w \in Workers, NEW v \in Workers, v # w, Inv, wk[w].pc # "idle", wk'[v] = wk[v],
         \A q \in Runs \ {Job(w)} : db'[q] = db[q] /\ claim'[q] = claim[q]
  PROVE  Punctual(v)'
<1>1. Punctual(v)
  BY DEF OnTime
<1>2. CASE wk[v].pc = "idle"
  BY <1>1, <1>2 DEF Punctual
<1>3. CASE wk[v].pc # "idle"
  <2>1. Job(v) \in Runs /\ Job(v) # Job(w)
    BY <1>3, Alone, JobOf
  <2>2. db'[Job(v)] = db[Job(v)] /\ claim'[Job(v)] = claim[Job(v)] /\ Job(v)' = Job(v)
    BY <2>1 DEF Job
  <2> QED BY <1>1, <2>2 DEF Punctual, Job
<1> QED BY <1>2, <1>3

\* What the process k of the worker w of a run may be, over the rows e.
Fits(k, e) ==
  /\ ~k.stalled /\ k.pc # "idle"
  /\ k.pc = "reserving" => k.seen.call <= StepTimeout
  /\ (k.pc \in {"claimed", "reserving"} /\ e.run \in Active) => e.wait = 0 /\ (Open(e) => e.call = 0)
  /\ (k.pc = "releasing" /\ e.run \in Active) => ~Open(e)
  /\ k.pc = "recovering" => e.run \notin Active
  /\ e.wait <= Pause /\ e.call <= StepTimeout

\* A step of a worker under its claim.
LEMMA OwnStep ==
  ASSUME Inv, OnTime, NEW w \in Workers, wk[w].pc # "idle", UNCHANGED claim,
         \A v \in Workers \ {w} : wk'[v] = wk[v],
         wk'[w].job = Job(w),
         \A q \in Runs \ {Job(w)} : db'[q] = db[q],
         Fits(wk'[w], db'[Job(w)])
  PROVE  OnTime'
<1> DEFINE r == Job(w)
<1>1. r \in Runs /\ claim[r].owner = w /\ claim[r].lease = Lease
  BY JobOf DEF OnTime, Punctual, RunsOut
<1>2. ASSUME NEW v \in Workers PROVE Punctual(v)'
  <2>1. CASE v = w
    BY <1>1, <2>1 DEF Punctual, Fits, Job
  <2>2. CASE v # w
    BY <2>2, OthersPunctual
  <2> QED BY <2>1, <2>2
<1>3. ASSUME NEW q \in Runs PROVE RunsOut(q)'
  <2>1. CASE q = r
    BY <1>1, <2>1 DEF RunsOut, Fits
  <2>2. CASE q # r
    <3>1. RunsOut(q) /\ db'[q] = db[q] /\ claim'[q] = claim[q]
      BY <2>2 DEF OnTime
    <3> QED BY <3>1 DEF RunsOut
  <2> QED BY <2>1, <2>2
<1> QED BY <1>2, <1>3 DEF OnTime

\* A worker that goes on elsewhere over rows it left alone or ended.
LEMMA Went ==
  ASSUME Inv, OnTime, NEW w \in Workers, wk[w].pc # "idle", UNCHANGED claim,
         NEW p \in {"failing", "releasing", "finishing"}, Goto(w, p),
         \A q \in Runs \ {Job(w)} : db'[q] = db[q],
         db'[Job(w)].wait <= Pause, db'[Job(w)].call <= StepTimeout,
         (p = "releasing" /\ db'[Job(w)].run \in Active) => ~Open(db'[Job(w)])
  PROVE  OnTime'
<1>1. wk \in [Workers -> Processes]
  BY DEF Inv, TypeOK
<1>2. wk' = [wk EXCEPT ![w] = [Idle EXCEPT !.pc = p, !.job = Job(w)]]
  BY DEF Goto
<1>3. wk'[w].pc = p /\ wk'[w].job = Job(w) /\ wk'[w].stalled = FALSE
      /\ \A v \in Workers \ {w} : wk'[v] = wk[v]
  BY <1>1, <1>2 DEF Idle
<1>4. Fits(wk'[w], db'[Job(w)])
  BY <1>3 DEF Fits
<1> QED BY <1>3, <1>4, OwnStep

\* While no process hung, a worker owns the run it works on.
LEMMA WorkOf ==
  ASSUME Inv, OnTime, NEW w \in Workers, wk[w].pc # "idle"
  PROVE  /\ Job(w) \in Runs /\ db[Job(w)] \in Rows /\ Sound(db[Job(w)]) /\ db \in [Runs -> Rows]
         /\ wk \in [Workers -> Processes] /\ wk[w] \in Processes
         /\ db[Job(w)].wait <= Pause /\ db[Job(w)].call <= StepTimeout /\ Owns(w, Job(w))
         /\ claim[Job(w)].owner = w /\ claim[Job(w)].lease = Lease /\ Punctual(w)
<1>1. Job(w) \in Runs /\ db[Job(w)] \in Rows /\ Sound(db[Job(w)])
  BY JobOf
<1>2. RunsOut(Job(w)) /\ Punctual(w)
  BY <1>1 DEF OnTime
<1>3. claim[Job(w)].owner = w /\ claim[Job(w)].lease = Lease /\ Lease > 0
  BY <1>1, <1>2, Numeric DEF RunsOut, Punctual
<1> QED BY <1>1, <1>2, <1>3 DEF Inv, TypeOK, RunsOut, Owns

\* A claim is taken only when everything it protected has run out.
LEMMA ClaimOnTime ==
  ASSUME Inv, OnTime, NEW w \in Workers, NEW r \in Runs, ClaimRun(w, r) \/ ClaimCancelled(w, r)
  PROVE  OnTime'
<1>1. PICK p \in {"claimed", "recovering"} :
        TakeClaim(w, r, p) /\ (p = "recovering" => db[r].run \notin Active)
  BY DEF ClaimRun, ClaimCancelled, Active
<1>2. /\ wk \in [Workers -> Processes] /\ claim \in [Runs -> Claims] /\ UNCHANGED db
      /\ wk[w].pc = "idle" /\ claim[r].lease = 0 /\ claim[r].pause = 0
  BY <1>1 DEF Inv, TypeOK, TakeClaim, Claimable
<1>3. claim[r].owner \notin Workers
  BY <1>2, Numeric DEF OnTime, RunsOut
<1>4. db[r].run \in Active => db[r].wait = 0 /\ (Open(db[r]) => db[r].call = 0)
  BY <1>2, <1>3, Numeric DEF OnTime, RunsOut
<1>5. /\ claim'[r].owner = w /\ claim'[r].lease = Lease
      /\ \A q \in Runs \ {r} : claim'[q] = claim[q]
  BY <1>1, <1>2 DEF TakeClaim
<1>6. /\ wk'[w].pc = p /\ wk'[w].job = r /\ wk'[w].stalled = wk[w].stalled
      /\ \A v \in Workers \ {w} : wk'[v] = wk[v]
  BY <1>1, <1>2 DEF TakeClaim, Processes
<1>7. ASSUME NEW v \in Workers PROVE Punctual(v)'
  <2>1. CASE v = w
    <3>1. Job(v)' = r /\ ~wk'[v].stalled
      BY <1>6, <2>1 DEF Job, OnTime, Punctual
    <3> QED BY <1>1, <1>2, <1>4, <1>5, <1>6, <2>1, <3>1 DEF Punctual
  <2>2. CASE v # w
    <3>1. Punctual(v) /\ wk'[v] = wk[v] /\ Job(v)' = Job(v)
      BY <1>6, <2>2 DEF OnTime, Job
    <3>2. CASE wk[v].pc = "idle"
      BY <3>1, <3>2 DEF Punctual
    <3>3. CASE wk[v].pc # "idle"
      <4>1. Job(v) \in Runs /\ claim[Job(v)].owner = v
        BY <3>1, <3>3, JobOf DEF Punctual
      <4>2. Job(v) # r
        BY <1>3, <4>1
      <4>3. claim'[Job(v)] = claim[Job(v)]
        BY <1>5, <4>1, <4>2
      <4> QED BY <1>2, <3>1, <4>3 DEF Punctual
    <3> QED BY <3>2, <3>3
  <2> QED BY <2>1, <2>2
<1>8. ASSUME NEW q \in Runs PROVE RunsOut(q)'
  <2>1. RunsOut(q) /\ db' = db
    BY <1>2 DEF OnTime
  <2>2. CASE q = r
    BY <1>5, <2>1, <2>2 DEF RunsOut
  <2>3. CASE q # r
    <3>1. claim'[q] = claim[q]
      BY <1>5, <2>3
    <3> QED BY <2>1, <3>1 DEF RunsOut
  <2> QED BY <2>2, <2>3
<1> QED BY <1>7, <1>8 DEF OnTime

\* Planning goes on under the claim.
LEMMA PlanningOnTime ==
  ASSUME Inv, OnTime, NEW w \in Workers,
         MarkValidated(w) \/ PersistPlan(w) \/ Activate(w) \/ Replay(w)
  PROVE  OnTime'
<1> DEFINE r == Job(w)
<1>1. wk[w].pc = "claimed" /\ db[r].run \in Active
  BY DEF MarkValidated, PersistPlan, Activate, Replay, Overtaken, Advancing, Active
<1>2. /\ r \in Runs /\ db[r] \in Rows /\ Sound(db[r]) /\ db \in [Runs -> Rows]
      /\ wk \in [Workers -> Processes] /\ wk[w] \in Processes
      /\ db[r].wait <= Pause /\ db[r].call <= StepTimeout /\ Punctual(w)
  BY <1>1, WorkOf
<1>3. /\ UNCHANGED claim /\ \E s : wk' = [wk EXCEPT ![w].at = s]
  BY DEF MarkValidated, PersistPlan, Activate, Replay
<1>4. /\ wk'[w].pc = "claimed" /\ wk'[w].job = r /\ wk'[w].stalled = wk[w].stalled
      /\ \A v \in Workers \ {w} : wk'[v] = wk[v]
  BY <1>1, <1>2, <1>3 DEF Processes, Job
<1>5. /\ \A q \in Runs \ {r} : db'[q] = db[q]
      /\ db'[r].wait = db[r].wait /\ db'[r].call = db[r].call
      /\ db'[r].tries = db[r].tries /\ db'[r].out = db[r].out
  <2>1. CASE MarkValidated(w)
    BY <1>2, <2>1 DEF MarkValidated, Rows
  <2>2. CASE PersistPlan(w)
    <3>1. db' = [db EXCEPT ![r] = WithControl(WithPlan(db[r]))]
      BY <1>2, <2>2 DEF PersistPlan
    <3> QED BY <1>2, <3>1 DEF WithControl, WithPlan, Rows
  <2>3. CASE Activate(w)
    BY <1>2, <2>3 DEF Activate, Rows
  <2>4. CASE Replay(w)
    BY <2>4 DEF Replay
  <2> QED BY <2>1, <2>2, <2>3, <2>4
<1>6. Open(db'[r]) <=> Open(db[r])
  BY <1>5 DEF Open, Last
<1>7. Fits(wk'[w], db'[r])
  BY <1>1, <1>2, <1>4, <1>5, <1>6 DEF Fits, Punctual
<1> QED BY <1>1, <1>3, <1>4, <1>5, <1>7, OwnStep

\* A reservation gives its call no more than the step timeout.
LEMMA ReservingOnTime ==
  ASSUME Inv, OnTime, NEW w \in Workers, LoadReservation(w) \/ CommitReservation(w) \/ Return(w)
  PROVE  OnTime'
<1> DEFINE r == Job(w)
<1>1. wk[w].pc # "idle"
  BY DEF LoadReservation, MayRetry, InTime, Reserving, Advancing, CommitReservation, Return
<1>2. /\ r \in Runs /\ db[r] \in Rows /\ Sound(db[r]) /\ db \in [Runs -> Rows]
      /\ wk \in [Workers -> Processes] /\ wk[w] \in Processes
      /\ db[r].wait <= Pause /\ db[r].call <= StepTimeout /\ Punctual(w)
  BY <1>1, WorkOf
<1>3. CASE LoadReservation(w)
  <2> DEFINE n == [tries |-> db[r].tries, span |-> "now", used |-> window.used["now"],
                   call |-> Least(StepTimeout, db[r].left)]
  <2>1. UNCHANGED <<db, claim>> /\ wk[w].pc = "claimed"
    BY <1>3 DEF LoadReservation, MayRetry, InTime, Reserving, Advancing
  <2>2. wk' = [wk EXCEPT ![w].pc = "reserving", ![w].at = Idle.at, ![w].seen = n]
    BY <1>3 DEF LoadReservation
  <2>3. n.call <= StepTimeout
    BY <1>2, Numeric DEF Least
  <2> HIDE DEF n
  <2>4. /\ wk'[w].pc = "reserving" /\ wk'[w].job = r /\ wk'[w].stalled = wk[w].stalled /\ wk'[w].seen = n
        /\ \A v \in Workers \ {w} : wk'[v] = wk[v]
    BY <1>2, <2>2 DEF Processes, Job
  <2>5. Fits(wk'[w], db'[r])
    BY <1>2, <2>1, <2>3, <2>4 DEF Fits, Punctual
  <2> QED BY <1>1, <2>1, <2>4, <2>5, OwnStep
<1>4. CASE CommitReservation(w)
  <2> DEFINE n == wk[w].seen.tries + 1
  <2> DEFINE c == wk[w].seen.call
  <2>1. UNCHANGED claim /\ wk[w].pc = "reserving" /\ c <= StepTimeout
    BY <1>2, <1>4 DEF CommitReservation, Punctual
  <2>2. wk' = [wk EXCEPT ![w].pc = "calling", ![w].try = n, ![w].seen = Blank]
    BY <1>4 DEF CommitReservation
  <2>3. db' = [db EXCEPT ![r].calls = Charge(db[r]), ![r].step = "executing", ![r].tries = n,
                 ![r].out[n] = "open", ![r].call = c]
    BY <1>4 DEF CommitReservation
  <2> HIDE DEF n, c
  <2>4. /\ wk'[w].pc = "calling" /\ wk'[w].job = r /\ wk'[w].stalled = wk[w].stalled
        /\ \A v \in Workers \ {w} : wk'[v] = wk[v]
    BY <1>2, <2>2 DEF Processes, Job
  <2>5. db'[r].wait = db[r].wait /\ db'[r].call = c /\ \A q \in Runs \ {r} : db'[q] = db[q]
    BY <1>2, <2>3 DEF Rows
  <2>6. Fits(wk'[w], db'[r])
    BY <1>2, <2>1, <2>4, <2>5 DEF Fits, Punctual
  <2> QED BY <1>1, <2>1, <2>4, <2>5, <2>6, OwnStep
<1>5. CASE Return(w)
  <2>1. UNCHANGED <<db, claim>> /\ \E res : wk' = [wk EXCEPT ![w].pc = "returned", ![w].res = res]
    BY <1>5 DEF Return
  <2>2. /\ wk'[w].pc = "returned" /\ wk'[w].job = r /\ wk'[w].stalled = wk[w].stalled
        /\ \A v \in Workers \ {w} : wk'[v] = wk[v]
    BY <1>2, <2>1 DEF Processes, Job
  <2>3. Fits(wk'[w], db'[r])
    BY <1>2, <2>1, <2>2 DEF Fits, Punctual
  <2> QED BY <1>1, <2>1, <2>2, <2>3, OwnStep
<1> QED BY <1>3, <1>4, <1>5

\* Steps that end in _fail or in the completion of the run.
LEMMA TurningOnTime ==
  ASSUME Inv, OnTime, NEW w \in Workers,
         \/ Conflict(w) \/ Refuse(w) \/ ResumeFinished(w) \/ LocalTransform(w)
         \/ DenyInProgress(w) \/ DenyContract(w) \/ DenyDeadline(w) \/ DenyBackoff(w) \/ DenyRate(w)
         \/ LoseReservation(w) \/ CompletionRefused(w) \/ CompletionFails(w)
  PROVE  OnTime'
<1> DEFINE r == Job(w)
<1>1. /\ wk[w].pc # "idle" /\ UNCHANGED claim
      /\ \E p \in {"failing", "finishing"} : Goto(w, p)
  BY DEF Conflict, Overtaken, Refuse, ResumeFinished, LocalTransform, Advancing, DenyInProgress, DenyContract,
         DenyDeadline, DenyBackoff, DenyRate, LoseReservation, CompletionRefused, CompletionFails, Deny,
         DenyTerminal, MayRetry, InTime, Reserving
<1>2. /\ r \in Runs /\ db[r] \in Rows /\ db \in [Runs -> Rows]
      /\ db[r].wait <= Pause /\ db[r].call <= StepTimeout
  BY <1>1, WorkOf
<1>3. /\ \A q \in Runs \ {r} : db'[q] = db[q]
      /\ db'[r].wait = db[r].wait /\ db'[r].call = db[r].call
  <2>1. CASE UNCHANGED db
    BY <2>1
  <2>2. CASE LocalTransform(w) /\ db' # db
    BY <1>2, <2>2 DEF LocalTransform, Rows
  <2>3. CASE DenyContract(w) \/ DenyDeadline(w)
    <3>1. db' = [db EXCEPT ![r] = IF db[r].run = "executing" THEN FailBoth(db[r]) ELSE db[r]]
      BY <1>2, <2>3 DEF DenyContract, DenyDeadline, DenyTerminal
    <3>2. FailBoth(db[r]).wait = db[r].wait /\ FailBoth(db[r]).call = db[r].call
      BY <1>2 DEF FailBoth, Rows
    <3> QED BY <1>2, <3>1, <3>2
  <2> QED BY <2>1, <2>2, <2>3
     DEF Conflict, Refuse, ResumeFinished, DenyInProgress, DenyBackoff, DenyRate, LoseReservation,
         CompletionRefused, CompletionFails, Deny
<1> QED BY <1>1, <1>2, <1>3, Went

\* Steps that end in the release of the claim.
LEMMA EndingOnTime ==
  ASSUME Inv, OnTime, NEW w \in Workers, Leave(w) \/ Finish(w) \/ FailRun(w)
  PROVE  OnTime'
<1> DEFINE r == Job(w)
<1>1. wk[w].pc # "idle" /\ UNCHANGED claim /\ \E p \in {"failing", "releasing"} : Goto(w, p)
  BY DEF Leave, Finish, FailRun
<1>2. /\ r \in Runs /\ db[r] \in Rows /\ db \in [Runs -> Rows] /\ Owns(w, r)
      /\ db[r].wait <= Pause /\ db[r].call <= StepTimeout
  BY <1>1, WorkOf
<1>3. CASE Leave(w)
  <2>1. UNCHANGED db /\ db[r].run \notin Active
    BY <1>3 DEF Leave
  <2> QED BY <1>1, <1>2, <2>1, Went
<1>4. CASE Finish(w)
  <2>1. CASE UNCHANGED db /\ Goto(w, "failing")
    BY <1>1, <1>2, <2>1, Went
  <2>2. CASE db' = [db EXCEPT ![r].run = "completed"] /\ Goto(w, "releasing")
    <3>1. /\ \A q \in Runs \ {r} : db'[q] = db[q]
          /\ db'[r].wait = db[r].wait /\ db'[r].call = db[r].call /\ db'[r].run = "completed"
      BY <1>2, <2>2 DEF Rows
    <3>2. db'[r].run \notin Active
      BY <3>1 DEF Active
    <3> QED BY <1>1, <1>2, <2>2, <3>1, <3>2, Went
  <2> QED BY <1>4, <2>1, <2>2 DEF Finish
<1>5. CASE FailRun(w)
  <2>1. Goto(w, "releasing")
    BY <1>5 DEF FailRun
  <2>2. CASE db[r].run \notin Active
    <3>1. UNCHANGED db
      BY <1>5, <2>2 DEF FailRun
    <3> QED BY <1>1, <1>2, <2>1, <2>2, <3>1, Went
  <2>3. CASE db[r].run \in Active
    <3> DEFINE e == IF db[r].step \in {"ready", "executing"} THEN FailBoth(db[r])
                    ELSE [db[r] EXCEPT !.run = "failed"]
    <3>1. db' = [db EXCEPT ![r] = e]
      BY <1>2, <1>5, <2>3 DEF FailRun
    <3>2. e.wait = db[r].wait /\ e.call = db[r].call /\ e.run = "failed"
      BY <1>2 DEF FailBoth, Rows
    <3> HIDE DEF e
    <3>3. /\ \A q \in Runs \ {r} : db'[q] = db[q]
          /\ db'[r] = e
      BY <1>2, <3>1
    <3>4. db'[r].run \notin Active
      BY <3>2, <3>3 DEF Active
    <3> QED BY <1>1, <1>2, <2>1, <3>2, <3>3, <3>4, Went
  <2> QED BY <2>2, <2>3
<1> QED BY <1>3, <1>4, <1>5

\* A closed attempt: its backoff, if it is to be retried, is that of the first.
LEMMA ClosingOnTime ==
  ASSUME Slack, Inv, OnTime, NEW w \in Workers, Complete(w) \/ RecoverExpired(w) \/ RecoverCancelled(w)
  PROVE  OnTime'
<1> DEFINE r == Job(w)
<1>1. wk[w].pc # "idle" /\ UNCHANGED claim
      /\ \E p \in {"failing", "releasing", "finishing"} : Goto(w, p)
  BY LeavingSteps DEF Complete, RecoverExpired, RecoverCancelled
<1>2. /\ r \in Runs /\ db[r] \in Rows /\ Sound(db[r]) /\ db \in [Runs -> Rows] /\ Owns(w, r)
      /\ db[r].wait <= Pause /\ db[r].call <= StepTimeout /\ Punctual(w)
  BY <1>1, WorkOf
<1>3. ASSUME NEW n \in Numbers, db[r].out[n] = "open", db[r].step = "executing", NEW o \in Closed,
             o = "retry" => db[r].run = "executing" /\ n < MaxAttempts,
             db' = [db EXCEPT ![r] = Close(db[r], n, o)]
      PROVE  OnTime'
  <2> DEFINE e == Close(db[r], n, o)
  <2>1. ~Open(e) /\ e.call = db[r].call /\ e.wait = IF o = "retry" THEN Delay(n) ELSE db[r].wait
    BY <1>2, <1>3, ClosedRows
  <2>2. o = "retry" => Delay(n) <= Pause
    <3> SUFFICES ASSUME o = "retry" PROVE Delay(n) <= Pause
      OBVIOUS
    <3>1. n = 1
      BY <1>3, AttemptsAssumption DEF Slack, Numbers
    <3> QED BY <3>1, DelayTyped DEF Pause
  <2>3. db'[r] = e /\ \A q \in Runs \ {r} : db'[q] = db[q]
    BY <1>2, <1>3
  <2> HIDE DEF e
  <2>4. db'[r].wait <= Pause /\ db'[r].call <= StepTimeout /\ ~Open(db'[r])
    BY <1>2, <2>1, <2>2, <2>3
  <2> QED BY <1>1, <2>3, <2>4, Went
<1>4. CASE Complete(w)
  <2> DEFINE n == wk[w].try
  <2> DEFINE o == Outcome(db[r], n, wk[w].res)
  <2>1. n \in Numbers /\ db[r].out[n] = "open" /\ db[r].step = "executing" /\ wk[w].res \in Results
    BY <1>4 DEF Complete, StillOpen, Inv, Holds, TypeOK, Processes
  <2>2. o \in Closed /\ (o = "retry" => db[r].run = "executing" /\ n < MaxAttempts)
    BY <1>2, <2>1, OutcomeIsClosed
  <2>3. db' = [db EXCEPT ![r] = Close(db[r], n, o)]
    BY <1>2, <1>4 DEF Complete, Completed
  <2> HIDE DEF o, n
  <2> QED BY <1>3, <2>1, <2>2, <2>3
<1>5. Open(db[r]) => db[r].tries \in Numbers /\ db[r].out[db[r].tries] = "open"
  BY <1>2, AttemptsAssumption DEF Open, Last, Rows, Numbers
<1>6. CASE RecoverExpired(w)
  <2> DEFINE n == db[r].tries
  <2> DEFINE o == Outcome(db[r], n, "timed_out")
  <2>1. n \in Numbers /\ db[r].out[n] = "open" /\ db[r].run = "executing" /\ Open(db[r])
    BY <1>5, <1>6 DEF RecoverExpired, Expired, Reserving, Advancing
  <2>2. db[r].step = "executing"
    BY <1>2, <2>1 DEF Sound, Evident
  <2>3. o \in Closed /\ (o = "retry" => db[r].run = "executing" /\ n < MaxAttempts)
    BY <1>2, <2>2, OutcomeIsClosed DEF Results
  <2>4. db' = [db EXCEPT ![r] = Close(db[r], n, o)]
    BY <1>2, <1>6 DEF RecoverExpired
  <2> HIDE DEF o, n
  <2> QED BY <1>3, <2>1, <2>2, <2>3, <2>4
<1>7. CASE RecoverCancelled(w)
  <2>1. CASE Expired(db[r]) /\ db[r].step = "executing"
    <3> DEFINE n == db[r].tries
    <3>1. n \in Numbers /\ db[r].out[n] = "open"
      BY <1>5, <2>1 DEF Expired
    <3>2. db' = [db EXCEPT ![r] = Close(db[r], n, "cancelled")]
      BY <1>2, <1>7, <2>1 DEF RecoverCancelled
    <3>3. "cancelled" \in Closed
      BY DEF Closed, Outcomes
    <3> HIDE DEF n
    <3> QED BY <1>3, <2>1, <3>1, <3>2, <3>3
  <2>2. CASE ~(Expired(db[r]) /\ db[r].step = "executing")
    <3>1. UNCHANGED db /\ db[r].run \notin Active
      BY <1>2, <1>7, <2>2 DEF RecoverCancelled, Punctual
    <3> QED BY <1>1, <1>2, <3>1, Went
  <2> QED BY <2>1, <2>2
<1> QED BY <1>4, <1>6, <1>7

\* A claim that is released or orphaned: what it protected outlives neither
\* the pause nor the lease.
LEMMA LettingGo ==
  ASSUME Slack, Inv, OnTime, NEW w \in Workers, Release(w) \/ Crash(w)
  PROVE  OnTime'
<1> DEFINE r == Job(w)
<1>1. /\ wk[w].pc # "idle" /\ UNCHANGED db /\ wk' = [wk EXCEPT ![w] = Idle]
  BY DEF Release, Crash
<1>2. /\ r \in Runs /\ wk \in [Workers -> Processes] /\ claim[r].owner = w /\ claim[r].lease = Lease
      /\ db[r].wait <= Pause /\ db[r].call <= StepTimeout /\ Punctual(w)
  BY <1>1, WorkOf
<1>3. claim \in [Runs -> Claims] /\ claim[r] \in Claims
  BY <1>2 DEF Inv, TypeOK
<1>4. /\ wk'[w].pc = "idle" /\ wk'[w].stalled = FALSE
      /\ \A v \in Workers \ {w} : wk'[v] = wk[v]
  BY <1>1, <1>2 DEF Idle
<1>5. /\ \A q \in Runs \ {r} : claim'[q] = claim[q]
      /\ claim'[r].owner \notin Workers
      /\ \/ claim'[r].pause = Pause /\ wk[w].pc = "releasing"
         \/ claim'[r].lease = Lease
  <2>1. CASE Release(w)
    <3>1. claim' = [claim EXCEPT ![r] = [owner |-> NoWorker, lease |-> 0, pause |-> Pause]]
      BY <1>2, <2>1 DEF Release
    <3> QED BY <1>2, <1>3, <2>1, <3>1, WorkersAssumption DEF Release
  <2>2. CASE Crash(w)
    <3>1. claim' = [claim EXCEPT ![r] = [claim[r] EXCEPT !.owner = DeadWorker]]
      BY <1>2, <1>3, <2>2 DEF Crash
    <3> QED BY <1>2, <1>3, <3>1, WorkersAssumption DEF Claims
  <2> QED BY <2>1, <2>2
<1>6. ASSUME NEW v \in Workers PROVE Punctual(v)'
  <2>1. CASE v = w
    BY <1>4, <2>1 DEF Punctual
  <2>2. CASE v # w
    BY <1>1, <1>4, <1>5, <2>2, OthersPunctual
  <2> QED BY <2>1, <2>2
<1>7. ASSUME NEW q \in Runs PROVE RunsOut(q)'
  <2>1. RunsOut(q) /\ db' = db
    BY <1>1 DEF OnTime
  <2>2. CASE q # r
    <3>1. claim'[q] = claim[q]
      BY <1>5, <2>2
    <3> QED BY <2>1, <3>1 DEF RunsOut
  <2>3. CASE q = r
    <3>1. CASE claim'[r].pause = Pause /\ wk[w].pc = "releasing"
      BY <1>2, <1>5, <2>1, <2>3, <3>1 DEF RunsOut, Punctual
    <3>2. CASE claim'[r].lease = Lease
      <4>1. db[r].call <= Lease /\ db[r].wait <= Lease
        BY <1>2, Numeric DEF Slack
      <4> QED BY <1>2, <1>5, <2>1, <2>3, <3>2, <4>1 DEF RunsOut
    <3> QED BY <1>5, <3>1, <3>2
  <2> QED BY <2>2, <2>3
<1> QED BY <1>6, <1>7 DEF OnTime

\* A cancelled run is no longer active.
LEMMA CancelOnTime ==
  ASSUME Inv, OnTime, NEW r \in Runs, CancelUnplanned(r) \/ Cancel(r)
  PROVE  OnTime'
<1>1. UNCHANGED <<wk, claim>> /\ db \in [Runs -> Rows] /\ db[r] \in Rows
  BY RowsOf DEF CancelUnplanned, Cancel, Inv, TypeOK
<1>2. /\ \A q \in Runs \ {r} : db'[q] = db[q]
      /\ db'[r].wait = db[r].wait /\ db'[r].call = db[r].call /\ db'[r].run = "cancelled"
  <2>1. CASE CancelUnplanned(r)
    BY <1>1, <2>1 DEF CancelUnplanned, Rows
  <2>2. CASE Cancel(r)
    <3>1. db' = [db EXCEPT ![r] = Fence(db[r])]
      BY <1>1, <2>2 DEF Cancel
    <3>2. /\ Fence(db[r]).wait = db[r].wait /\ Fence(db[r]).call = db[r].call
          /\ Fence(db[r]).run = "cancelled"
      BY <1>1 DEF Fence, Rows
    <3> QED BY <1>1, <3>1, <3>2
  <2> QED BY <2>1, <2>2
<1>3. db'[r].run \notin Active
  BY <1>2 DEF Active
<1>4. ASSUME NEW v \in Workers PROVE Punctual(v)'
  <2>1. Punctual(v) /\ Job(v)' = Job(v)
    BY <1>1 DEF OnTime, Job
  <2>2. CASE wk[v].pc = "idle"
    BY <1>1, <2>1, <2>2 DEF Punctual
  <2>3. CASE wk[v].pc # "idle" /\ Job(v) # r
    <3>1. db'[Job(v)] = db[Job(v)]
      BY <1>2, <2>3, JobOf
    <3> QED BY <1>1, <2>1, <3>1 DEF Punctual
  <2>4. CASE Job(v) = r
    BY <1>1, <1>3, <2>1, <2>4 DEF Punctual
  <2> QED BY <2>2, <2>3, <2>4
<1>5. ASSUME NEW q \in Runs PROVE RunsOut(q)'
  <2>1. RunsOut(q)
    BY DEF OnTime
  <2> QED BY <1>1, <1>2, <1>3, <2>1 DEF RunsOut
<1> QED BY <1>4, <1>5 DEF OnTime

\* A second passes for the deadlines, the leases and the pauses together.
LEMMA TickOnTime == ASSUME Inv, OnTime, Tick PROVE OnTime'
<1>1. ASSUME NEW m \in Nat, NEW n \in Nat PROVE (m <= n => Less1(m) <= Less1(n)) /\ Less1(m) <= m /\ Less1(m) \in Nat
  BY <1>1 DEF Less1
<1>2. ASSUME NEW r \in Runs
      PROVE  /\ db'[r].wait = Less1(db[r].wait) /\ db'[r].call = Less1(db[r].call)
             /\ db'[r].run = db[r].run /\ (Open(db'[r]) <=> Open(db[r]))
  <2>1. db'[r] = [db[r] EXCEPT !.left = Less1(@), !.call = Less1(@), !.wait = Less1(@)] /\ db[r] \in Rows
    BY RowsOf DEF Tick
  <2>2. /\ db'[r].wait = Less1(db[r].wait) /\ db'[r].call = Less1(db[r].call)
        /\ db'[r].run = db[r].run /\ db'[r].tries = db[r].tries /\ db'[r].out = db[r].out
    BY <2>1 DEF Rows
  <2> QED BY <2>2 DEF Open, Last
<1>3. ASSUME NEW r \in Runs
      PROVE  /\ claim'[r].owner = claim[r].owner /\ claim'[r].pause = Less1(claim[r].pause)
             /\ claim[r].owner \in Workers => claim'[r].lease = Lease
             /\ claim[r].owner \notin Workers => claim'[r].lease = Less1(claim[r].lease)
  <2> DEFINE o == claim[r].owner
  <2> DEFINE l == IF o \in Workers /\ claim[r].lease > 0 /\ ~wk[o].stalled THEN Lease ELSE Less1(claim[r].lease)
  <2>1. claim'[r] = [claim[r] EXCEPT !.lease = l, !.pause = Less1(@)]
    BY DEF Tick
  <2>2. claim[r] \in Claims /\ claim[r].lease \in Nat /\ Lease > 0
    BY Numeric
  <2>3. o \in Workers => claim[r].lease = Lease /\ ~wk[o].stalled
    BY DEF OnTime, RunsOut, Punctual
  <2>4. (o \in Workers => l = Lease) /\ (o \notin Workers => l = Less1(claim[r].lease))
    BY <2>2, <2>3
  <2> HIDE DEF l
  <2> QED BY <2>1, <2>2, <2>4 DEF Claims
<1>4. ASSUME NEW w \in Workers
      PROVE  /\ wk'[w].pc = wk[w].pc /\ wk'[w].job = wk[w].job /\ wk'[w].stalled = wk[w].stalled
             /\ wk[w].pc = "reserving" => wk'[w].seen.call = Less1(wk[w].seen.call)
  <2>1. wk'[w] = IF wk[w].pc # "reserving" THEN wk[w]
                 ELSE [wk[w] EXCEPT !.seen.call = Less1(@),
                         !.seen.span = IF window.left > 1 THEN @ ELSE "before"]
    BY DEF Tick
  <2>2. CASE wk[w].pc # "reserving"
    BY <2>1, <2>2
  <2>3. CASE wk[w].pc = "reserving"
    <3> DEFINE s == IF window.left > 1 THEN wk[w].seen.span ELSE "before"
    <3> DEFINE n == [wk[w].seen EXCEPT !.call = Less1(@), !.span = s]
    <3>1. n.call = Less1(wk[w].seen.call)
      <4> HIDE DEF s
      <4> QED BY ProcessOf DEF Snapshots
    <3>2. wk'[w] = [wk[w] EXCEPT !.seen = n]
      BY <2>1, <2>3, ProcessOf DEF Processes, Snapshots
    <3> HIDE DEF n
    <3> QED BY <3>1, <3>2, ProcessOf DEF Processes
  <2> QED BY <2>2, <2>3
<1>5. Less1(0) = 0
  BY DEF Less1
<1>6. ASSUME NEW w \in Workers PROVE Punctual(w)'
  <2>1. Punctual(w) /\ Job(w)' = Job(w)
    BY <1>4 DEF OnTime, Job
  <2>2. CASE wk[w].pc = "idle"
    BY <1>4, <2>1, <2>2 DEF Punctual
  <2>3. CASE wk[w].pc # "idle"
    <3>1. Job(w) \in Runs
      BY <2>3, JobOf
    <3>2. wk[w].pc = "reserving" => wk'[w].seen.call <= StepTimeout
      <4>1. wk[w].seen.call \in Nat /\ StepTimeout \in Nat
        BY ProcessOf, TimesAssumption
      <4> QED BY <1>1, <1>4, <2>1, <4>1 DEF Punctual
    <3> QED BY <1>2, <1>3, <1>4, <1>5, <2>1, <2>3, <3>1, <3>2 DEF Punctual
  <2> QED BY <2>2, <2>3
<1>7. ASSUME NEW r \in Runs PROVE RunsOut(r)'
  <2>1. RunsOut(r)
    BY DEF OnTime
  <2>2. /\ db[r].wait \in Nat /\ db[r].call \in Nat /\ claim[r].lease \in Nat /\ claim[r].pause \in Nat
        /\ StepTimeout \in Nat /\ Pause \in Nat
    BY Numeric
  <2>3. db'[r].wait <= Pause /\ db'[r].call <= StepTimeout
    BY <1>1, <1>2, <2>1, <2>2 DEF RunsOut
  <2>4. claim'[r].owner \in Workers => claim'[r].lease = Lease
    BY <1>3
  <2>5. ASSUME claim'[r].owner \notin Workers, db'[r].run \in Active
        PROVE  /\ Open(db'[r]) => db'[r].call <= claim'[r].lease
               /\ db'[r].wait <= claim'[r].lease \/ db'[r].wait <= claim'[r].pause
    <3>1. claim[r].owner \notin Workers /\ db[r].run \in Active
      BY <1>2, <1>3, <2>5
    <3>2. /\ Open(db[r]) => db[r].call <= claim[r].lease
          /\ db[r].wait <= claim[r].lease \/ db[r].wait <= claim[r].pause
      BY <2>1, <3>1 DEF RunsOut
    <3> QED BY <1>1, <1>2, <1>3, <2>2, <3>1, <3>2
  <2> QED BY <2>3, <2>4, <2>5 DEF RunsOut
<1> QED BY <1>6, <1>7 DEF OnTime

\* A process that hung is remembered.
LEMMA HungStays ==
  ASSUME Inv, [Next]_vars, ~faults'.hung
  PROVE  ~faults.hung /\ \A w \in Workers : ~Stall(w) /\ ~Stop(w)
<1>1. ASSUME NEW kind, Fault(kind) PROVE ~faults.hung /\ kind \notin {"stall", "stop"}
  BY <1>1 DEF Fault
<1>2. ASSUME NEW w \in Workers, Advance(w) PROVE ~faults.hung
  BY <1>2 DEF Advance, ClaimRun, ClaimCancelled, TakeClaim, MarkValidated, PersistPlan, Activate, Replay,
         Conflict, Leave, ResumeFinished, LocalTransform, Deny, DenyInProgress, RecoverExpired,
         DenyDeadline, DenyBackoff, DenyRate, LoadReservation, CommitReservation, LoseReservation,
         Return, Complete, CompletionRefused, Finish, FailRun, Release, RecoverCancelled, LoseLease
<1>3. ASSUME NEW w \in Workers, Thaw(w) \/ Disturb(w) PROVE ~faults.hung
  BY <1>1, <1>3 DEF Thaw, Disturb, Refuse, DenyContract, CompletionFails, Crash, Stall, Stop
<1>4. ASSUME NEW r \in Runs, CancelUnplanned(r) \/ Cancel(r) PROVE ~faults.hung
  BY <1>4 DEF CancelUnplanned, Cancel
<1>5. ASSUME ReserveElsewhere \/ Tick \/ UNCHANGED vars PROVE ~faults.hung
  BY <1>5 DEF ReserveElsewhere, Tick, vars
<1>6. ASSUME NEW w \in Workers PROVE ~Stall(w) /\ ~Stop(w)
  BY <1>1 DEF Stall, Stop
<1> QED BY <1>2, <1>3, <1>4, <1>5, <1>6 DEF Next

\* The claim of a worker that never hung is never lost.
LEMMA NothingLost ==
  ASSUME Inv, OnTime, NEW w \in Workers
  PROVE  ~LoseLease(w) /\ ~Thaw(w) /\ ~DenyInProgress(w) /\ ~DenyBackoff(w)
<1>1. Punctual(w)
  BY DEF OnTime
<1>2. ~LoseLease(w)
  BY WorkOf DEF LoseLease
<1>3. ~Thaw(w)
  BY <1>1 DEF Punctual, Thaw
<1>4. ASSUME Reserving(w) PROVE db[Job(w)].wait = 0 /\ (Open(db[Job(w)]) => db[Job(w)].call = 0)
  BY <1>1, <1>4 DEF Punctual, Reserving, Advancing, Active
<1>5. ~DenyInProgress(w)
  BY <1>4 DEF DenyInProgress, Expired
<1>6. ~DenyBackoff(w)
  BY <1>4 DEF DenyBackoff, InTime
<1> QED BY <1>2, <1>3, <1>5, <1>6

\* Every step by which no process hangs keeps the times in order.
LEMMA NextOnTime ==
  ASSUME Slack, Inv, OnTime, [Next]_vars, ~faults'.hung
  PROVE  OnTime'
<1>1. ASSUME NEW w \in Workers, Advance(w) \/ Thaw(w) \/ Disturb(w) PROVE OnTime'
  BY <1>1, ClaimOnTime, PlanningOnTime, ReservingOnTime, TurningOnTime, EndingOnTime, ClosingOnTime,
     LettingGo, HungStays, NothingLost DEF Advance, Disturb
<1>2. ASSUME UNCHANGED <<db, claim, wk>> PROVE OnTime'
  BY <1>2 DEF OnTime, Punctual, RunsOut, Job
<1>3. CASE ReserveElsewhere \/ UNCHANGED vars
  BY <1>2, <1>3 DEF ReserveElsewhere, vars
<1> QED BY <1>1, <1>3, CancelOnTime, TickOnTime DEF Next

\* No such step denies a retry its turn.
LEMMA NextTurns ==
  ASSUME Inv, OnTime, Turns, [Next]_vars
  PROVE  Turns'
<1>0. denied \in [Runs -> SUBSET Denials]
  BY DEF Inv, TypeOK
<1>1. ASSUME UNCHANGED denied PROVE Turns'
  BY <1>1 DEF Turns
<1>2. ASSUME NEW w \in Workers, NEW code \in Denials \ {"attempt_in_progress", "retry_not_ready"},
             denied' = [denied EXCEPT ![Job(w)] = @ \cup {code}]
      PROVE  Turns'
  <2>1. ASSUME NEW r \in Runs PROVE denied'[r] \cap {"attempt_in_progress", "retry_not_ready"} = {}
    <3>1. denied'[r] \subseteq denied[r] \cup {code}
      BY <1>0, <1>2
    <3> QED BY <1>2, <3>1 DEF Turns
  <2> QED BY <2>1 DEF Turns
<1>3. ASSUME NEW w \in Workers, DenyRate(w) \/ LoseReservation(w) \/ DenyDeadline(w) \/ DenyContract(w)
      PROVE  Turns'
  BY <1>2, <1>3 DEF DenyRate, LoseReservation, DenyDeadline, DenyContract, Deny, DenyTerminal, Denials
<1>4. ASSUME NEW w \in Workers, Advance(w) PROVE Turns'
  BY <1>1, <1>3, <1>4, NothingLost
     DEF Advance, ClaimRun, ClaimCancelled, TakeClaim, MarkValidated, PersistPlan, Activate, Replay,
         Conflict, Leave, ResumeFinished, LocalTransform, RecoverExpired, LoadReservation, CommitReservation,
         Return, Complete, CompletionRefused, Finish, FailRun, Release, RecoverCancelled
<1>5. ASSUME NEW w \in Workers, Thaw(w) \/ Disturb(w) PROVE Turns'
  BY <1>1, <1>3, <1>5 DEF Thaw, Disturb, Refuse, CompletionFails, Crash, Stall, Stop, Interrupted
<1>6. ASSUME NEW r \in Runs, CancelUnplanned(r) \/ Cancel(r) PROVE Turns'
  BY <1>1, <1>6 DEF CancelUnplanned, Cancel
<1>7. CASE ReserveElsewhere \/ Tick \/ UNCHANGED vars
  BY <1>1, <1>7 DEF ReserveElsewhere, Tick, vars
<1> QED BY <1>4, <1>5, <1>6, <1>7 DEF Next

\* The times are in order at the start.
LEMMA InitTimed == ASSUME Init PROVE Timed
<1>1. ASSUME NEW w \in Workers PROVE Punctual(w)
  <2>1. wk[w].pc = "idle" /\ wk[w].stalled = FALSE
    BY DEF Init, Idle
  <2> QED BY <2>1 DEF Punctual
<1>2. ASSUME NEW r \in Runs PROVE RunsOut(r)
  <2>1. /\ db[r].wait = 0 /\ db[r].call = 0 /\ claim[r].owner = NoWorker
        /\ claim[r].lease = 0 /\ claim[r].pause = 0
    BY DEF Init
  <2> QED BY <2>1, WorkersAssumption, TimesAssumption DEF RunsOut, Pause
<1>3. Turns
  BY DEF Init, Turns
<1> QED BY <1>1, <1>2, <1>3 DEF Timed, OnTime

\* While no process hung, the worker that claims a run next finds neither its
\* call still open nor its backoff still running, after a crash too: the lease
\* outlasts the call, and the pause of a released claim the backoff.  The
\* hypothesis is what the catalog and the worker's settings provide.
THEOREM RetriesAreNotDenied == Slack => (Spec => []RetriesGetTheirTurn)
<1> SUFFICES ASSUME Slack PROVE Spec => []RetriesGetTheirTurn
  OBVIOUS
<1>1. Init => Timed
  BY InitTimed
<1>2. ASSUME Inv, Timed, [Next]_vars PROVE Timed'
  <2> SUFFICES ASSUME ~faults'.hung PROVE OnTime' /\ Turns'
    BY DEF Timed
  <2>1. OnTime /\ Turns
    BY <1>2, HungStays DEF Timed
  <2> QED BY <1>2, <2>1, NextOnTime, NextTurns
<1>3. Timed => RetriesGetTheirTurn
  BY DEF Timed, Turns, RetriesGetTheirTurn
<1>4. Inv /\ Timed /\ [Next]_vars => Timed'
  BY <1>2
<1> QED BY <1>1, <1>3, <1>4, Invariance, PTL DEF Spec
=============================================================================
