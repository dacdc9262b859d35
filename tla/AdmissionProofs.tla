--------------------------- MODULE AdmissionProofs ---------------------------
(***************************************************************************)
(* Theorems about Admission, for every catalog of instances, any number of *)
(* requests, events, bodies, releases and revisions, and every fault.      *)
(*                                                                         *)
(* The properties are about what was committed and what was answered; the  *)
(* invariant adds what a request that is still on its way knows and holds. *)
(***************************************************************************)
EXTENDS Admission, TLAPS, FiniteSetTheorems, WellFoundedInduction

ReqStates ==
  [pc : {"idle", "reading", "locking", "locked", "answered"}, kind : Kinds, event : EventIds,
   trigger : Triggers, body : Bodies, target : Instances, release : 1..MaxRelease,
   held : SUBSET Instances, seen : [Instances -> Confs \cup {Unread}], known : BOOLEAN,
   answer : Answers, receipt : Requests \cup {Nobody}]

Typed == TypeOK /\ req \in [Requests -> ReqStates]

\* A request holds the rows whose lock is its own, the lowest ones of those it
\* wants, and what it has read of them is what is there.
Locks ==
  /\ \A i \in Instances, r \in Requests : lock[i] = r <=> i \in req[r].held
  /\ \A r \in Requests :
       /\ req[r].pc \notin {"locking", "locked"} => req[r].held = {}
       /\ req[r].held \subseteq Wanted(r)
       /\ req[r].pc = "locked" => req[r].held = Wanted(r)
       /\ \A i \in req[r].held : req[r].seen[i] = conf[i]
       /\ \A i \in req[r].held, j \in Wanted(r) \ req[r].held : i < j

\* What a webhook request was told is backed by the receipt of its event.
WebhookBacked(r) ==
  /\ req[r].event \in Events
  /\ req[r].known => req[r].pc \in {"reading", "answered"} /\ receipts[req[r].event] # NoReceipt
  /\ req[r].known /\ req[r].pc = "answered" =>
       req[r].answer \in {"replayed", "conflict", "unavailable", "lost"}
  /\ req[r].answer \notin {"orphaned", "mixed"}
  /\ req[r].answer = "created" => receipts[req[r].event] # NoReceipt /\ receipts[req[r].event].id = r
  /\ req[r].answer = "replayed" =>
       /\ receipts[req[r].event] # NoReceipt
       /\ req[r].receipt = receipts[req[r].event].id
       /\ req[r].body = receipts[req[r].event].body
       /\ req[r].trigger = receipts[req[r].event].trigger

\* What a manual caller was told is backed by the work under its key.
CommandBacked(r) ==
  /\ req[r].answer \in {"created", "replayed", "expired"} => works[ManualKey(r)] # NoWork
  /\ req[r].answer \in {"created", "replayed"} =>
       /\ SameDigests(works[ManualKey(r)], Candidate(r, req[r].target))
       /\ runs[ManualKey(r)] = Candidate(r, req[r].target).rev
  /\ req[r].answer = "expired" => works[ManualKey(r)].erased

Accounted(r) ==
  /\ req[r].pc # "answered" => req[r].answer = "none"
  /\ req[r].pc = "idle" => ~req[r].known
  /\ req[r].pc \in {"idle", "reading"} => req[r].kind = "webhook"
  /\ req[r].kind = "webhook" => WebhookBacked(r)
  /\ req[r].kind = "manual" => CommandBacked(r)

\* At most one caller created the work under a manual key.
CreatedOnce ==
  \A r, s \in Of("manual") :
    req[r].answer = "created" /\ req[s].answer = "created" /\ ManualKey(r) = ManualKey(s) => r = s

\* A run belongs to its work and has its revision.
RunsOfWorks == \A k \in Keys : runs[k] = IF works[k] = NoWork THEN NoRun ELSE works[k].rev

\* The inductive invariant.
Inv ==
  /\ Typed /\ Locks /\ RunsOfWorks /\ CreatedOnce /\ (\A r \in Requests : Accounted(r))
  /\ FanOutIsWhole /\ TimelineTellsTheTruth

-----------------------------------------------------------------------------
(* Rows are told from absent rows.                                         *)

\* A stored work item is never taken for a missing one.
LEMMA WorkIsThere == ASSUME NEW work \in Works PROVE work # NoWork
<1>1. "rev" \in DOMAIN work
  BY DEF Works
<1>2. DOMAIN NoWork = {"body"}
  BY DEF NoWork
<1> QED BY <1>1, <1>2

\* A stored receipt is never taken for a missing one.
LEMMA ReceiptIsThere == ASSUME NEW receipt \in Receipts PROVE receipt # NoReceipt
<1>1. "id" \in DOMAIN receipt
  BY DEF Receipts
<1>2. DOMAIN NoReceipt = {"body"}
  BY DEF NoReceipt
<1> QED BY <1>1, <1>2

\* The initial state of a request.
LEMMA IdleTyped == Idle \in ReqStates
<1>1. /\ (CHOOSE e \in Events : TRUE) \in EventIds /\ (CHOOSE t \in Triggers : TRUE) \in Triggers
      /\ (CHOOSE b \in Bodies : TRUE) \in Bodies /\ (CHOOSE i \in Instances : TRUE) \in Instances
  BY NonEmptyAssumption DEF EventIds
<1>2. 1 \in 1..MaxRelease /\ [i \in Instances |-> Unread] \in [Instances -> Confs \cup {Unread}]
  BY BoundsAssumption
<1> QED BY <1>1, <1>2 DEF Idle, ReqStates, Kinds, Answers

\* Init establishes the invariant.
LEMMA InitInv == Init => Inv
<1> SUFFICES ASSUME Init PROVE Inv
  OBVIOUS
<1>1. Typed
  <2>1. conf \in [Instances -> Confs] /\ release \in 1..MaxRelease
    BY BoundsAssumption DEF Init
  <2>2. req \in [Requests -> ReqStates]
    BY IdleTyped DEF Init
  <2>3. /\ lock \in [Instances -> Requests \cup {Nobody}] /\ works \in [Keys -> Works \cup {NoWork}]
        /\ runs \in [Keys -> 0..MaxRevision] /\ receipts \in [EventIds -> Receipts \cup {NoReceipt}]
    BY BoundsAssumption DEF Init, NoRun
  <2>4. audits = {}
    BY DEF Init
  <2> QED BY <2>1, <2>2, <2>3, <2>4 DEF Typed, TypeOK, ReqStates
<1>2. Locks
  BY RequestsAssumption DEF Init, Locks, Idle
<1>3. RunsOfWorks /\ FanOutIsWhole /\ TimelineTellsTheTruth
  BY DEF Init, RunsOfWorks, FanOutIsWhole, TimelineTellsTheTruth, EventIds, Keys, Kinds
<1>4. CreatedOnce
  BY DEF Init, CreatedOnce, Idle, Of
<1>5. \A r \in Requests : Accounted(r)
  <2>1. (CHOOSE e \in Events : TRUE) \in Events
    BY NonEmptyAssumption
  <2> QED BY <2>1 DEF Init, Accounted, WebhookBacked, Idle
<1> QED BY <1>1, <1>2, <1>3, <1>4, <1>5 DEF Inv

-----------------------------------------------------------------------------
(* What every step keeps.                                                  *)

\* Committed work, runs and receipts stay as they are; only the payload of
\* work may be erased.
Grows ==
  /\ \A k \in Keys : works[k] # NoWork =>
       /\ works'[k] # NoWork /\ SameDigests(works[k], works'[k]) /\ runs'[k] = runs[k]
       /\ works[k].erased => works'[k].erased
  /\ \A e \in EventIds : receipts[e] # NoReceipt => receipts'[e] = receipts[e]

\* The key of a manual request names a work item.
LEMMA KeyOfCommand ==
  ASSUME Typed, NEW r \in Requests
  PROVE  ManualKey(r) \in Keys
BY DEF Typed, ReqStates, ManualKey, Keys, Kinds

\* A request that does not move stays accounted for.
LEMMA OthersStay ==
  ASSUME Inv, Grows, NEW s \in Requests, req'[s] = req[s]
  PROVE  Accounted(s)'
<1>1. req[s].event \in EventIds /\ Accounted(s) /\ ManualKey(s) \in Keys
  BY KeyOfCommand DEF Inv, Typed, ReqStates
<1>2. ManualKey(s)' = ManualKey(s) /\ Candidate(s, req[s].target)' = Candidate(s, req[s].target)
  BY DEF ManualKey, Candidate
<1>3. req[s].kind = "webhook" => WebhookBacked(s)'
  BY <1>1 DEF Grows, Accounted, WebhookBacked
<1>4. req[s].kind = "manual" => CommandBacked(s)'
  BY <1>1, <1>2 DEF Grows, Accounted, CommandBacked, SameDigests
<1> QED BY <1>1, <1>3, <1>4 DEF Accounted

\* One request moves, and every event that is audited now tells the truth.
Truthful ==
  /\ audits \subseteq audits'
  /\ audits' \subseteq [kind : AuditKinds, request : Requests, event : EventIds,
                        receipt : Requests \cup {Nobody}]
  /\ \A a \in audits' \ audits :
       /\ a.kind # "received"
       /\ a.kind \in {"duplicate_suppressed", "idempotency_collision"} =>
            receipts[a.event] # NoReceipt /\ a.receipt = receipts[a.event].id

Moves(r) ==
  /\ req' \in [Requests -> ReqStates]
  /\ \A s \in Requests \ {r} : req'[s] = req[s]

\* A step of one request that admits nothing keeps the invariant, if the
\* request keeps to its locks and is told no more than is so.
LEMMA NothingAdmitted ==
  ASSUME Inv, NEW r \in Requests, Moves(r), Truthful, Locks', Accounted(r)',
         req'[r].kind = "manual" => req'[r].answer # "created",
         lock' \in [Instances -> Requests \cup {Nobody}],
         UNCHANGED <<conf, works, runs, receipts, release>>
  PROVE  Inv'
<1>1. Typed'
  BY DEF Inv, Typed, TypeOK, Moves, Truthful, ReqStates
<1>2. Grows
  BY DEF Grows, SameDigests
<1>3. \A s \in Requests : Accounted(s)'
  BY <1>2, OthersStay DEF Moves
<1>4. CreatedOnce'
  BY DEF Inv, CreatedOnce, Moves, Of, ManualKey
<1>5. RunsOfWorks' /\ FanOutIsWhole'
  BY DEF Inv, RunsOfWorks, FanOutIsWhole
<1>6. TimelineTellsTheTruth'
  <2>1. ASSUME NEW e \in Events
        PROVE  {a \in audits' : a.kind = "received" /\ a.event = e}
                 = {a \in audits : a.kind = "received" /\ a.event = e}
    BY DEF Truthful
  <2> QED BY <2>1 DEF Inv, TimelineTellsTheTruth, Truthful
<1> QED BY <1>1, <1>3, <1>4, <1>5, <1>6 DEF Inv

\* What a request is told: nothing else of it changes.
LEMMA Answered ==
  ASSUME Inv, NEW r \in Requests, NEW answer \in Answers, NEW receipt \in Requests \cup {Nobody},
         Answer(r, answer, receipt)
  PROVE  /\ Moves(r)
         /\ req'[r].pc = "answered" /\ req'[r].answer = answer /\ req'[r].receipt = receipt
         /\ req'[r].held = {} /\ req'[r].kind = req[r].kind /\ req'[r].event = req[r].event
         /\ req'[r].trigger = req[r].trigger /\ req'[r].body = req[r].body
         /\ req'[r].target = req[r].target /\ req'[r].release = req[r].release
         /\ req'[r].seen = req[r].seen /\ req'[r].known = req[r].known
         /\ lock' \in [Instances -> Requests \cup {Nobody}]
<1>1. req[r] \in ReqStates /\ req \in [Requests -> ReqStates]
  BY DEF Inv, Typed
<1>2. req' = [req EXCEPT ![r].pc = "answered", ![r].answer = answer, ![r].receipt = receipt,
                         ![r].held = {}]
  BY DEF Answer
<1>3. req' = [req EXCEPT ![r] = [req[r] EXCEPT !.pc = "answered", !.answer = answer,
                                               !.receipt = receipt, !.held = {}]]
  BY <1>1, <1>2
<1>4. [req[r] EXCEPT !.pc = "answered", !.answer = answer, !.receipt = receipt, !.held = {}] \in ReqStates
  BY <1>1 DEF ReqStates
<1>5. Moves(r)
  BY <1>1, <1>3, <1>4 DEF Moves
<1>6. /\ req'[r].pc = "answered" /\ req'[r].answer = answer /\ req'[r].receipt = receipt
      /\ req'[r].held = {} /\ req'[r].kind = req[r].kind /\ req'[r].event = req[r].event
      /\ req'[r].trigger = req[r].trigger /\ req'[r].body = req[r].body
      /\ req'[r].target = req[r].target /\ req'[r].release = req[r].release
      /\ req'[r].seen = req[r].seen /\ req'[r].known = req[r].known
  BY <1>1, <1>3 DEF ReqStates
<1>7. lock' \in [Instances -> Requests \cup {Nobody}]
  BY DEF Answer, Inv, Typed, TypeOK
<1> QED BY <1>5, <1>6, <1>7

\* The end of a transaction frees its rows and nobody else's.
LEMMA AnswerLocks ==
  ASSUME Inv, NEW r \in Requests, NEW answer \in Answers, NEW receipt \in Requests \cup {Nobody},
         Answer(r, answer, receipt), conf' = conf
  PROVE  Locks'
<1>1. \A i \in Instances : lock'[i] = IF lock[i] = r THEN Nobody ELSE lock[i]
  BY DEF Answer
<1>2. /\ \A s \in Requests \ {r} : req'[s] = req[s] /\ Wanted(s)' = Wanted(s)
      /\ req'[r].held = {} /\ req'[r].pc = "answered"
  BY Answered DEF Moves, Wanted
<1> QED BY <1>1, <1>2, RequestsAssumption DEF Inv, Locks

-----------------------------------------------------------------------------
(* The steps of a request, up to its answer.                               *)

\* A request that holds nothing moves on without touching a lock.
LEMMA LocksUntouched ==
  ASSUME Inv, NEW r \in Requests, Moves(r), req[r].held = {}, req'[r].held = {},
         req'[r].pc # "locked", UNCHANGED <<conf, lock>>
  PROVE  Locks'
<1>1. \A s \in Requests \ {r} : req'[s] = req[s] /\ Wanted(s)' = Wanted(s)
  BY DEF Moves, Wanted
<1> QED BY <1>1 DEF Inv, Locks

\* An audit of anything but a receipt tells the truth.
LEMMA PlainAudit ==
  ASSUME Inv, NEW r \in Requests, NEW news,
         news \subseteq {Audit(kind, r, Nobody) :
                           kind \in {"signature_rejected", "rate_denied", "schema_rejected", "validated"}},
         audits' = audits \cup news
  PROVE  Truthful
<1>1. req[r].event \in EventIds
  BY DEF Inv, Typed, ReqStates
<1> QED BY <1>1 DEF Inv, Typed, TypeOK, Truthful, Audit, AuditKinds

\* submit: a request arrives and is accepted, refused, or a manual command.
LEMMA Arrivals ==
  ASSUME Inv, NEW r \in Requests,
         \/ Authenticate(r) \/ SubmitManual(r)
         \/ RejectSignature(r) \/ RejectRate(r) \/ RejectEnvelope(r)
  PROVE  Inv'
<1> USE DEF Inv
<1>0. /\ req \in [Requests -> ReqStates] /\ req[r] \in ReqStates /\ req[r].pc = "idle"
      /\ req[r].held = {} /\ ~req[r].known /\ req[r].kind = "webhook" /\ WebhookBacked(r)
      /\ req[r].answer = "none" /\ release \in 1..MaxRelease
  BY DEF Typed, TypeOK, Locks, Accounted, Authenticate, SubmitManual, RejectSignature, RejectRate,
         RejectEnvelope, Refuse
<1>1. CASE Authenticate(r)
  <2>1. PICK e \in Events, t \in Triggers, b \in Bodies \ Malformed :
              req' = [req EXCEPT ![r].pc = "reading", ![r].event = e, ![r].trigger = t, ![r].body = b,
                                 ![r].release = release, ![r].known = receipts[e] # NoReceipt]
    BY <1>1 DEF Authenticate
  <2> DEFINE q == [req[r] EXCEPT !.pc = "reading", !.event = e, !.trigger = t, !.body = b,
                                 !.release = release, !.known = receipts[e] # NoReceipt]
  <2>2. req' = [req EXCEPT ![r] = q]
    BY <1>0, <2>1
  <2>3. q \in ReqStates
    BY <1>0 DEF ReqStates, EventIds
  <2>4. /\ q.pc = "reading" /\ q.event = e /\ q.known = (receipts[e] # NoReceipt) /\ q.held = {}
        /\ q.kind = "webhook" /\ q.answer = "none"
    BY <1>0 DEF ReqStates
  <2> HIDE DEF q
  <2>5. Moves(r) /\ req'[r] = q
    BY <1>0, <2>2, <2>3 DEF Moves
  <2>6. Locks'
    BY <1>0, <1>1, <2>4, <2>5, LocksUntouched DEF Authenticate
  <2>7. Accounted(r)'
    BY <1>1, <2>4, <2>5 DEF Accounted, WebhookBacked, Authenticate
  <2>8. Truthful
    BY <1>1 DEF Authenticate, Truthful, Typed, TypeOK
  <2> QED BY <1>1, <2>4, <2>5, <2>6, <2>7, <2>8, NothingAdmitted DEF Authenticate, Typed, TypeOK
<1>2. CASE SubmitManual(r)
  <2>1. PICK e \in Events \cup {r}, i \in Instances, b \in Bodies :
              req' = [req EXCEPT ![r].pc = "locking", ![r].kind = "manual", ![r].event = e,
                                 ![r].target = i, ![r].body = b, ![r].release = release,
                                 ![r].known = works[<<"manual", e, i>>] # NoWork]
    BY <1>2 DEF SubmitManual
  <2> DEFINE q == [req[r] EXCEPT !.pc = "locking", !.kind = "manual", !.event = e, !.target = i,
                                 !.body = b, !.release = release,
                                 !.known = works[<<"manual", e, i>>] # NoWork]
  <2>2. req' = [req EXCEPT ![r] = q]
    BY <1>0, <2>1
  <2>3. q \in ReqStates
    BY <1>0 DEF ReqStates, EventIds, Kinds
  <2>4. q.pc = "locking" /\ q.held = {} /\ q.kind = "manual" /\ q.answer = "none"
    BY <1>0 DEF ReqStates
  <2> HIDE DEF q
  <2>5. Moves(r) /\ req'[r] = q
    BY <1>0, <2>2, <2>3 DEF Moves
  <2>6. Locks'
    BY <1>0, <1>2, <2>4, <2>5, LocksUntouched DEF SubmitManual
  <2>7. Accounted(r)'
    BY <2>4, <2>5 DEF Accounted, CommandBacked
  <2>8. Truthful
    BY <1>2 DEF SubmitManual, Truthful, Typed, TypeOK
  <2> QED BY <1>2, <2>4, <2>5, <2>6, <2>7, <2>8, NothingAdmitted DEF SubmitManual, Typed, TypeOK
<1>3. ASSUME NEW answer \in {"unauthenticated", "limited", "malformed"},
             NEW kind \in {"signature_rejected", "rate_denied", "schema_rejected"},
             Refuse(r, answer, kind)
      PROVE  Inv'
  <2> DEFINE q == [req[r] EXCEPT !.pc = "answered", !.answer = answer]
  <2>1. req' = [req EXCEPT ![r] = q]
    BY <1>0, <1>3 DEF Refuse
  <2>2. q \in ReqStates
    BY <1>0 DEF ReqStates, Answers
  <2>3. /\ q.pc = "answered" /\ q.held = {} /\ q.kind = "webhook" /\ q.answer = answer
        /\ q.event = req[r].event /\ q.known = req[r].known
    BY <1>0 DEF ReqStates
  <2> HIDE DEF q
  <2>4. Moves(r) /\ req'[r] = q
    BY <1>0, <2>1, <2>2 DEF Moves
  <2>5. Locks'
    BY <1>0, <1>3, <2>3, <2>4, LocksUntouched DEF Refuse
  <2>6. Accounted(r)'
    BY <1>0, <1>3, <2>3, <2>4 DEF Accounted, WebhookBacked, Refuse
  <2>7. Truthful
    BY <1>3, PlainAudit DEF Refuse
  <2> QED BY <1>3, <2>3, <2>4, <2>5, <2>6, <2>7, NothingAdmitted DEF Refuse, Typed, TypeOK
<1> QED BY <1>1, <1>2, <1>3 DEF RejectSignature, RejectRate, RejectEnvelope

\* The request has found no receipt and goes on to the locks.
LEMMA FirstReadMisses ==
  ASSUME Inv, NEW r \in Requests, req[r].pc = "reading", receipts[req[r].event] = NoReceipt,
         req' = [req EXCEPT ![r].pc = "locking"],
         UNCHANGED <<conf, lock, works, runs, receipts, audits, release>>
  PROVE  Inv'
<1> USE DEF Inv
<1>0. /\ req \in [Requests -> ReqStates] /\ req[r] \in ReqStates /\ req[r].held = {}
      /\ req[r].answer = "none" /\ Accounted(r)
  BY DEF Typed, Locks, Accounted
<1> DEFINE q == [req[r] EXCEPT !.pc = "locking"]
<1>1. req' = [req EXCEPT ![r] = q]
  BY <1>0
<1>2. q \in ReqStates
  BY <1>0 DEF ReqStates
<1>3. /\ q.pc = "locking" /\ q.held = {} /\ q.kind = req[r].kind /\ q.answer = "none"
      /\ q.event = req[r].event /\ q.known = req[r].known
  BY <1>0 DEF ReqStates
<1> HIDE DEF q
<1>4. Moves(r) /\ req'[r] = q
  BY <1>0, <1>1, <1>2 DEF Moves
<1>5. Locks'
  BY <1>0, <1>3, <1>4, LocksUntouched
<1>6. Accounted(r)'
  BY <1>0, <1>3, <1>4 DEF Accounted, WebhookBacked, CommandBacked
<1>7. Truthful
  BY DEF Truthful, Typed, TypeOK
<1> QED BY <1>3, <1>4, <1>5, <1>6, <1>7, NothingAdmitted DEF Typed, TypeOK

\* A row is locked: the lowest of those that are still wanted.
LEMMA LockStep ==
  ASSUME Inv, NEW r \in Requests, NEW i \in Instances, Lock(r, i)
  PROVE  Inv'
<1> USE DEF Inv
<1>0. /\ req \in [Requests -> ReqStates] /\ req[r] \in ReqStates /\ req[r].pc = "locking"
      /\ req[r].answer = "none" /\ Accounted(r) /\ conf[i] \in Confs /\ lock[i] = Nobody
      /\ i \in Wanted(r) /\ i \notin req[r].held /\ \A j \in Wanted(r) \ req[r].held : i <= j
      /\ req[r].held \subseteq Wanted(r) /\ Wanted(r) \subseteq Instances
  <2>1. req \in [Requests -> ReqStates] /\ req[r] \in ReqStates /\ conf[i] \in Confs
    BY DEF Typed, TypeOK
  <2>2. /\ req[r].pc = "locking" /\ lock[i] = Nobody
        /\ i \in Wanted(r) /\ i \notin req[r].held /\ \A j \in Wanted(r) \ req[r].held : i <= j
    BY DEF Lock, InOrder
  <2>3. Accounted(r) /\ req[r].answer = "none"
    BY <2>2 DEF Accounted
  <2>4. req[r].held \subseteq Wanted(r) /\ Wanted(r) \subseteq Instances
    <3>1. req[r].held \subseteq Wanted(r)
      BY DEF Locks
    <3>2. req[r].target \in Instances
      BY <2>1 DEF ReqStates
    <3> QED BY <3>1, <3>2 DEF Wanted
  <2> QED BY <2>1, <2>2, <2>3, <2>4
<1> DEFINE p == IF req[r].held \cup {i} = Wanted(r) THEN "locked" ELSE "locking"
           q == [req[r] EXCEPT !.held = @ \cup {i}, !.seen[i] = conf[i], !.pc = p]
<1>1. req' = [req EXCEPT ![r] = q]
  BY <1>0 DEF Lock
<1>2. q \in ReqStates
  BY <1>0 DEF ReqStates
<1>3. /\ q.pc = p /\ q.held = req[r].held \cup {i} /\ q.kind = req[r].kind /\ q.answer = "none"
      /\ q.event = req[r].event /\ q.known = req[r].known /\ q.target = req[r].target
      /\ q.seen = [req[r].seen EXCEPT ![i] = conf[i]]
  BY <1>0 DEF ReqStates
<1> HIDE DEF q
<1>4. Moves(r) /\ req'[r] = q
  BY <1>0, <1>1, <1>2 DEF Moves
<1>5. Wanted(r)' = Wanted(r) /\ \A s \in Requests \ {r} : req'[s] = req[s] /\ Wanted(s)' = Wanted(s)
  BY <1>3, <1>4 DEF Moves, Wanted
<1>6. Locks'
  <2>1. lock' = [lock EXCEPT ![i] = r] /\ lock \in [Instances -> Requests \cup {Nobody}] /\ conf' = conf
    BY DEF Lock, Typed, TypeOK
  <2>2. \A j \in Instances, s \in Requests : lock'[j] = s <=> j \in req'[s].held
    BY <1>0, <1>3, <1>4, <1>5, <2>1, RequestsAssumption DEF Locks
  <2>3. /\ req'[r].held \subseteq Wanted(r)
        /\ req'[r].pc = "locked" => req'[r].held = Wanted(r)
        /\ req'[r].pc \in {"locking", "locked"}
    BY <1>0, <1>3, <1>4
  <2>4. \A j \in req'[r].held : req'[r].seen[j] = conf[j]
    BY <1>0, <1>2, <1>3, <1>4 DEF Locks, ReqStates
  <2>5. \A j \in req'[r].held, k \in Wanted(r) \ req'[r].held : j < k
    <3> SUFFICES ASSUME NEW j \in req'[r].held, NEW k \in Wanted(r) \ req'[r].held PROVE j < k
      OBVIOUS
    <3>1. i \in Nat /\ k \in Nat /\ i <= k /\ i # k
      BY <1>0, <1>3, <1>4, InstancesAssumption
    <3>2. CASE j = i
      BY <3>1, <3>2
    <3>3. CASE j \in req[r].held
      BY <1>3, <1>4, <3>3 DEF Locks
    <3> QED BY <1>3, <1>4, <3>2, <3>3
  <2> QED BY <1>5, <2>1, <2>2, <2>3, <2>4, <2>5 DEF Locks
<1>7. Accounted(r)'
  <2>1. req'[r].pc \in {"locking", "locked"} /\ req'[r].answer = "none" /\ UNCHANGED receipts
    BY <1>3, <1>4 DEF Lock
  <2>2. req[r].kind = "webhook" => WebhookBacked(r)'
    BY <1>0, <1>3, <1>4, <2>1 DEF Accounted, WebhookBacked
  <2>3. CommandBacked(r)'
    BY <2>1 DEF CommandBacked
  <2> QED BY <1>3, <1>4, <2>1, <2>2, <2>3 DEF Accounted
<1>8. Truthful
  BY DEF Truthful, Typed, TypeOK, Lock
<1>9. lock' \in [Instances -> Requests \cup {Nobody}]
  BY DEF Lock, Typed, TypeOK
<1> QED BY <1>3, <1>4, <1>6, <1>7, <1>8, <1>9, NothingAdmitted DEF Lock

-----------------------------------------------------------------------------
(* The answers.                                                            *)

\* Answers that promise nothing.
Plain == {"conflict", "forbidden", "schema", "unavailable", "lost"}

\* A request that was told nothing of work, while nothing was admitted.
LEMMA PlainAnswer ==
  ASSUME Inv, NEW r \in Requests, NEW answer \in Plain, Answer(r, answer, Nobody), Truthful,
         req[r].kind = "webhook" /\ req[r].known => answer \in {"conflict", "unavailable", "lost"},
         req[r].pc # "idle",
         UNCHANGED <<conf, works, runs, receipts, release>>
  PROVE  Inv'
<1>1. answer \in Answers /\ Nobody \in Requests \cup {Nobody}
  BY DEF Plain, Answers
<1>2. /\ Moves(r) /\ lock' \in [Instances -> Requests \cup {Nobody}] /\ req'[r].pc = "answered"
      /\ req'[r].answer = answer /\ req'[r].kind = req[r].kind /\ req'[r].event = req[r].event
      /\ req'[r].known = req[r].known
  BY <1>1, Answered
<1>3. Locks'
  BY <1>1, AnswerLocks
<1>4. Accounted(r)'
  BY <1>2 DEF Inv, Accounted, WebhookBacked, CommandBacked, Plain
<1> QED BY <1>2, <1>3, <1>4, NothingAdmitted DEF Plain

\* A request found the receipt of its event, before or under the locks.
LEMMA ExistingStep ==
  ASSUME Inv, NEW r \in Requests, req[r].kind = "webhook", req[r].pc \in {"reading", "locked"},
         AuditExisting(r)
  PROVE  Inv'
<1> USE DEF Inv
<1> DEFINE receipt == receipts[req[r].event]
           outcome == ClassifyExisting(receipt, r)
           told == IF outcome = "replayed" THEN receipt.id ELSE Nobody
<1>1. /\ req[r].event \in EventIds /\ receipt \in Receipts /\ outcome \in {"unavailable", "replayed", "conflict"}
      /\ receipt # NoReceipt
  BY DEF AuditExisting, Typed, TypeOK, ReqStates, ClassifyExisting
<1>2. told \in Requests \cup {Nobody} /\ outcome \in Answers /\ receipt.id \in Requests
  BY <1>1 DEF Receipts, Answers
<1>3. /\ Answer(r, outcome, told) /\ audits' = audits \cup AuditsOfExisting(r, outcome, receipt)
      /\ UNCHANGED <<conf, works, runs, receipts, release>>
  BY DEF AuditExisting
<1>4. Truthful
  <2>1. ASSUME NEW a \in AuditsOfExisting(r, outcome, receipt)
        PROVE  /\ a \in [kind : AuditKinds, request : Requests, event : EventIds,
                         receipt : Requests \cup {Nobody}]
               /\ a.kind # "received" /\ a.event = req[r].event
               /\ a.kind \in {"duplicate_suppressed", "idempotency_collision"} => a.receipt = receipt.id
    BY <1>1, <1>2, <2>1 DEF AuditsOfExisting, Audit, AuditKinds
  <2> QED BY <1>1, <1>3, <2>1 DEF Truthful, Typed, TypeOK
<1>5. CASE outcome = "replayed"
  <2>1. receipt.trigger = req[r].trigger /\ receipt.body = req[r].body
    BY <1>5 DEF ClassifyExisting
  <2>2. /\ Moves(r) /\ lock' \in [Instances -> Requests \cup {Nobody}] /\ req'[r].pc = "answered"
        /\ req'[r].answer = "replayed" /\ req'[r].kind = "webhook" /\ req'[r].event = req[r].event
        /\ req'[r].receipt = receipt.id /\ req'[r].body = req[r].body /\ req'[r].trigger = req[r].trigger
    BY <1>2, <1>3, <1>5, Answered
  <2>3. Locks'
    BY <1>2, <1>3, AnswerLocks
  <2>4. Accounted(r)'
    BY <1>1, <1>3, <2>1, <2>2 DEF Accounted, WebhookBacked
  <2> QED BY <1>3, <1>4, <2>2, <2>3, <2>4, NothingAdmitted
<1>6. CASE outcome # "replayed"
  <2>1. outcome \in Plain \ {"forbidden", "schema"} /\ told = Nobody
    BY <1>1, <1>6 DEF Plain
  <2> QED BY <1>3, <1>4, <2>1, PlainAnswer DEF Plain
<1> QED BY <1>5, <1>6

\* Refusals under the locks, crashes and storage failures.
LEMMA Refusals ==
  ASSUME Inv, NEW r \in Requests,
         \/ req[r].kind = "webhook" /\ req[r].pc = "locked" /\ (NoBinding(r) \/ RejectInput(r))
         \/ req[r].kind = "manual" /\ req[r].pc = "locked" /\ (ManualUnbound(r) \/ ManualInvalid(r))
         \/ Crash(r) \/ StorageFails(r)
  PROVE  Inv'
<1>1. req[r].pc = "locked" /\ req[r].kind = "webhook" => ~req[r].known
  BY DEF Inv, Accounted, WebhookBacked
<1>2. CASE req[r].kind = "webhook" /\ req[r].pc = "locked" /\ (NoBinding(r) \/ RejectInput(r))
  <2>1. Truthful
    BY <1>2, PlainAudit DEF NoBinding, RejectInput
  <2>2. \E answer \in {"forbidden", "schema"} : Answer(r, answer, Nobody)
    BY <1>2 DEF NoBinding, RejectInput
  <2> QED BY <1>1, <1>2, <2>1, <2>2, PlainAnswer DEF NoBinding, RejectInput, Plain
<1>3. CASE req[r].kind = "manual" /\ req[r].pc = "locked" /\ (ManualUnbound(r) \/ ManualInvalid(r))
  <2>1. Truthful
    <3>1. CASE ManualUnbound(r)
      BY <3>1 DEF ManualUnbound, Truthful, Inv, Typed, TypeOK
    <3>2. CASE ManualInvalid(r)
      BY <3>2, PlainAudit DEF ManualInvalid
    <3> QED BY <1>3, <3>1, <3>2
  <2>2. \E answer \in {"forbidden", "schema"} : Answer(r, answer, Nobody)
    BY <1>3 DEF ManualUnbound, ManualInvalid
  <2> QED BY <1>3, <2>1, <2>2, PlainAnswer DEF ManualUnbound, ManualInvalid, Plain
<1>4. CASE Crash(r) \/ StorageFails(r)
  <2>1. Truthful
    BY <1>4 DEF Crash, StorageFails, Truthful, Inv, Typed, TypeOK
  <2>2. \E answer \in {"lost", "unavailable"} : Answer(r, answer, Nobody)
    BY <1>4 DEF Crash, StorageFails
  <2> QED BY <1>4, <2>1, <2>2, PlainAnswer DEF Crash, StorageFails, Plain
<1> QED BY <1>2, <1>3, <1>4

-----------------------------------------------------------------------------
(* The admission of work.                                                  *)

\* What a request holds, it has read as it is.
LEMMA SeenIsThere ==
  ASSUME Inv, NEW r \in Requests, req[r].pc = "locked", NEW i \in Wanted(r)
  PROVE  /\ i \in Instances /\ req[r].seen[i] = conf[i] /\ conf[i] \in Confs
         /\ Candidate(r, i) \in Works /\ Candidate(r, i).rev = conf[i].rev
         /\ Candidate(r, i) # NoWork /\ Candidate(r, i).body = req[r].body
         /\ req[r].kind = "webhook" => Candidate(r, i).trigger = req[r].trigger
<1>1. req[r] \in ReqStates /\ conf \in [Instances -> Confs]
  BY DEF Inv, Typed, TypeOK
<1>2. i \in Instances
  BY <1>1 DEF Wanted, ReqStates
<1>3. req[r].seen[i] = conf[i]
  BY DEF Inv, Locks
<1>4. conf[i] \in Confs /\ conf[i].rev \in 1..MaxRevision
  BY <1>1, <1>2 DEF Confs
<1>5. Candidate(r, i) \in Works
  BY <1>1, <1>3, <1>4 DEF Candidate, Works, ReqStates
<1> QED BY <1>2, <1>3, <1>4, <1>5, WorkIsThere DEF Candidate, Kinds

\* The fan-out commits everything about an event of which nothing was there.
LEMMA FanOutStep ==
  ASSUME Inv, NEW r \in Requests, req[r].kind = "webhook", req[r].pc = "locked", FanOut(r)
  PROVE  /\ Inv' /\ Grows
         /\ \A k \in Keys : works[k] = NoWork /\ works'[k] # NoWork =>
              works'[k].rev = conf[k[3]].rev /\ k[1] \in conf[k[3]].allows
<1> USE DEF Inv
<1> DEFINE e == req[r].event
           targets == Bindings(r)
<1>0. e \in Events /\ e \in EventIds /\ ~req[r].known /\ Wanted(r) = Instances /\ req[r] \in ReqStates
  BY DEF Accounted, WebhookBacked, Wanted, EventIds, Typed
<1>1. targets \subseteq Instances /\ targets # {} /\ receipts[e] = NoReceipt
  BY DEF FanOut, Bindings, FoundOnReRead
<1>2. \A i \in Instances : works[<<"webhook", e, i>>] = NoWork
  BY <1>0, <1>1 DEF FanOutIsWhole
<1>3. InsertOutcome(r) = "created"
  BY <1>1, <1>2 DEF InsertOutcome, Orphaned
<1>4. /\ works' = ReceivedWorks("webhook", r, targets)
      /\ runs' = AddReceivedOrGet("webhook", r, targets)
      /\ receipts' = [receipts EXCEPT ![e] = NewReceipt(r, targets)]
      /\ audits' = audits \cup {Audit("validated", r, Nobody), Audit("received", r, r)}
      /\ Answer(r, "created", r) /\ UNCHANGED <<conf, release>>
  BY <1>3 DEF FanOut
<1>5. /\ Moves(r) /\ lock' \in [Instances -> Requests \cup {Nobody}] /\ req'[r].pc = "answered"
      /\ req'[r].answer = "created" /\ req'[r].kind = "webhook" /\ req'[r].event = e
      /\ req'[r].known = req[r].known /\ Locks'
  <2>1. "created" \in Answers /\ r \in Requests \cup {Nobody}
    BY DEF Answers
  <2> QED BY <1>4, <2>1, Answered, AnswerLocks
<1>6. NewReceipt(r, targets) \in Receipts /\ NewReceipt(r, targets) # NoReceipt
  <2>1. NewReceipt(r, targets) \in Receipts
    BY <1>0, <1>1 DEF NewReceipt, Receipts, ReqStates
  <2> QED BY <2>1, ReceiptIsThere
<1>7. ASSUME NEW k \in Keys
      PROVE  /\ k \in {<<"webhook", e, i>> : i \in targets} =>
                  /\ works[k] = NoWork /\ k[3] \in targets /\ k[1] = "webhook"
                  /\ works'[k] = Candidate(r, k[3]) /\ runs'[k] = Candidate(r, k[3]).rev
             /\ k \notin {<<"webhook", e, i>> : i \in targets} => works'[k] = works[k] /\ runs'[k] = runs[k]
  <2>1. CASE k \in {<<"webhook", e, i>> : i \in targets}
    <3>1. PICK i \in targets : k = <<"webhook", e, i>>
      BY <2>1
    <3>2. works[k] = NoWork /\ runs[k] = NoRun
      BY <1>1, <1>2, <3>1 DEF RunsOfWorks
    <3> QED BY <1>4, <2>1, <3>1, <3>2 DEF ReceivedWorks, AddReceivedOrGet, AddOrGetKeepsFirst
  <2>2. CASE k \notin {<<"webhook", e, i>> : i \in targets}
    <3>1. ~(k[1] = "webhook" /\ k[2] = e /\ k[3] \in targets)
      BY <2>2 DEF Keys
    <3> QED BY <1>4, <2>2, <3>1 DEF ReceivedWorks, AddReceivedOrGet
  <2> QED BY <2>1, <2>2
<1>8. ASSUME NEW i \in targets
      PROVE  /\ Candidate(r, i) \in Works /\ Candidate(r, i) # NoWork /\ Candidate(r, i).rev = conf[i].rev
             /\ Candidate(r, i).body = req[r].body /\ Candidate(r, i).trigger = req[r].trigger
             /\ "webhook" \in conf[i].allows
  <2>1. i \in Wanted(r) /\ "webhook" \in req[r].seen[i].allows
    BY <1>0, <1>1 DEF Bindings, WebhookBound
  <2> QED BY <2>1, SeenIsThere
<1>9. Grows
  <2>1. \A k \in Keys : works[k] # NoWork => works'[k] = works[k] /\ runs'[k] = runs[k]
    BY <1>7
  <2>2. \A x \in EventIds : receipts[x] # NoReceipt => receipts'[x] = receipts[x]
    BY <1>1, <1>4 DEF Typed, TypeOK
  <2> QED BY <2>1, <2>2 DEF Grows, SameDigests
<1>10. Typed'
  <2>1. /\ works' \in [Keys -> Works \cup {NoWork}] /\ runs' \in [Keys -> 0..MaxRevision]
    <3>1. DOMAIN works' = Keys /\ DOMAIN runs' = Keys
      BY <1>4 DEF ReceivedWorks, AddReceivedOrGet
    <3>2. \A k \in Keys : works'[k] \in Works \cup {NoWork} /\ runs'[k] \in 0..MaxRevision
      <4> SUFFICES ASSUME NEW k \in Keys
                   PROVE  works'[k] \in Works \cup {NoWork} /\ runs'[k] \in 0..MaxRevision
        OBVIOUS
      <4>1. CASE k \in {<<"webhook", e, i>> : i \in targets}
        <5>1. Candidate(r, k[3]) \in Works /\ Candidate(r, k[3]).rev \in 0..MaxRevision
          BY <1>7, <1>8, <4>1 DEF Works
        <5> QED BY <1>7, <4>1, <5>1
      <4>2. CASE k \notin {<<"webhook", e, i>> : i \in targets}
        BY <1>7, <4>2 DEF Typed, TypeOK
      <4> QED BY <4>1, <4>2
    <3>3. works' = [k \in Keys |-> works'[k]] /\ runs' = [k \in Keys |-> runs'[k]]
      BY <1>4 DEF ReceivedWorks, AddReceivedOrGet
    <3> QED BY <3>2, <3>3
  <2>2. receipts' \in [EventIds -> Receipts \cup {NoReceipt}]
    BY <1>4, <1>6 DEF Typed, TypeOK
  <2>3. audits' \subseteq [kind : AuditKinds, request : Requests, event : EventIds,
                           receipt : Requests \cup {Nobody}]
    BY <1>0, <1>4 DEF Typed, TypeOK, Audit, AuditKinds
  <2> QED BY <1>4, <1>5, <2>1, <2>2, <2>3 DEF Typed, TypeOK, Moves, ReqStates
<1>11. \A s \in Requests : Accounted(s)'
  <2>1. Accounted(r)'
    <3>1. receipts'[e] = NewReceipt(r, targets)
      BY <1>0, <1>4 DEF Typed, TypeOK
    <3>2. receipts'[e] # NoReceipt /\ receipts'[e].id = r
      BY <1>6, <3>1 DEF NewReceipt
    <3> QED BY <1>0, <1>5, <3>2 DEF Accounted, WebhookBacked
  <2> QED BY <1>5, <1>9, <2>1, OthersStay DEF Moves
<1>12. CreatedOnce'
  BY <1>5 DEF CreatedOnce, Moves, Of, ManualKey
<1>13. RunsOfWorks'
  <2> SUFFICES ASSUME NEW k \in Keys
               PROVE  runs'[k] = IF works'[k] = NoWork THEN NoRun ELSE works'[k].rev
    BY DEF RunsOfWorks
  <2>1. CASE k \in {<<"webhook", e, i>> : i \in targets}
    BY <1>7, <1>8, <2>1
  <2>2. CASE k \notin {<<"webhook", e, i>> : i \in targets}
    BY <1>7, <2>2 DEF RunsOfWorks
  <2> QED BY <2>1, <2>2
<1>14. FanOutIsWhole'
  <2> SUFFICES ASSUME NEW x \in EventIds
               PROVE  (LET admitted == {i \in Instances : works[<<"webhook", x, i>>] # NoWork}
                       IN /\ admitted = IF receipts[x] = NoReceipt THEN {} ELSE receipts[x].targets
                          /\ receipts[x] # NoReceipt =>
                               /\ admitted # {}
                               /\ \A i \in admitted :
                                    /\ works[<<"webhook", x, i>>].body = receipts[x].body
                                    /\ works[<<"webhook", x, i>>].trigger = receipts[x].trigger
                                    /\ runs[<<"webhook", x, i>>] = works[<<"webhook", x, i>>].rev)'
    BY DEF FanOutIsWhole
  <2>0. \A i \in Instances : <<"webhook", x, i>> \in Keys
    BY DEF Keys, Kinds
  <2>1. CASE x # e
    <3>1. \A i \in Instances : /\ works'[<<"webhook", x, i>>] = works[<<"webhook", x, i>>]
                               /\ runs'[<<"webhook", x, i>>] = runs[<<"webhook", x, i>>]
      BY <1>7, <2>0, <2>1
    <3>2. receipts'[x] = receipts[x]
      BY <1>4, <2>1 DEF Typed, TypeOK
    <3> QED BY <3>1, <3>2 DEF FanOutIsWhole
  <2>2. CASE x = e
    <3>1. /\ receipts'[e] # NoReceipt /\ receipts'[e].targets = targets
          /\ receipts'[e].body = req[r].body /\ receipts'[e].trigger = req[r].trigger
      BY <1>0, <1>4, <1>6 DEF NewReceipt, Typed, TypeOK
    <3>2. \A i \in targets : /\ works'[<<"webhook", e, i>>] = Candidate(r, i)
                             /\ runs'[<<"webhook", e, i>>] = Candidate(r, i).rev
      BY <1>1, <1>7, <2>0, <2>2
    <3>3. \A i \in Instances \ targets : works'[<<"webhook", e, i>>] = NoWork
      BY <1>2, <1>7, <2>0, <2>2
    <3>4. {i \in Instances : works'[<<"webhook", e, i>>] # NoWork} = targets
      BY <1>1, <1>8, <3>2, <3>3
    <3> QED BY <1>1, <1>8, <2>2, <3>1, <3>2, <3>4
  <2> QED BY <2>1, <2>2
<1>15. TimelineTellsTheTruth'
  <2>1. receipts'[e].id = r /\ receipts'[e] # NoReceipt /\ \A x \in EventIds \ {e} : receipts'[x] = receipts[x]
    BY <1>0, <1>4, <1>6 DEF NewReceipt, Typed, TypeOK
  <2>2. /\ Audit("received", r, r) = [kind |-> "received", request |-> r, event |-> e, receipt |-> r]
        /\ Audit("validated", r, Nobody).kind = "validated"
    BY DEF Audit
  <2>3. {a \in audits : a.kind = "received" /\ a.event = e} = {}
    BY <1>0, <1>1 DEF TimelineTellsTheTruth
  <2>4. {a \in audits' : a.kind = "received" /\ a.event = e}
          = {[kind |-> "received", request |-> r, event |-> e, receipt |-> r]}
    BY <1>4, <2>2, <2>3
  <2>5. \A x \in Events \ {e} : {a \in audits' : a.kind = "received" /\ a.event = x}
                                  = {a \in audits : a.kind = "received" /\ a.event = x}
    BY <1>4, <2>2
  <2>6. \A x \in Events :
          {a \in audits' : a.kind = "received" /\ a.event = x} =
            IF receipts'[x] = NoReceipt THEN {}
            ELSE {[kind |-> "received", request |-> receipts'[x].id, event |-> x, receipt |-> receipts'[x].id]}
    BY <2>1, <2>4, <2>5 DEF TimelineTellsTheTruth, EventIds
  <2>7. \A a \in audits' : a.kind \in {"duplicate_suppressed", "idempotency_collision"} =>
          receipts'[a.event] # NoReceipt /\ a.receipt = receipts'[a.event].id
    BY <1>1, <1>4, <2>1, <2>2 DEF TimelineTellsTheTruth, Typed, TypeOK
  <2> QED BY <2>6, <2>7 DEF TimelineTellsTheTruth
<1>16. \A k \in Keys : works[k] = NoWork /\ works'[k] # NoWork =>
         works'[k].rev = conf[k[3]].rev /\ k[1] \in conf[k[3]].allows
  BY <1>7, <1>8
<1> QED BY <1>5, <1>9, <1>10, <1>11, <1>12, <1>13, <1>14, <1>15, <1>16

\* The receipt of a manual command: its work is created, or is what is there.
LEMMA ReceiveStep ==
  ASSUME Inv, NEW r \in Requests, req[r].kind = "manual", req[r].pc = "locked", ManualReceive(r)
  PROVE  /\ Inv' /\ Grows
         /\ \A k \in Keys : works[k] = NoWork /\ works'[k] # NoWork =>
              works'[k].rev = conf[k[3]].rev /\ k[1] \in conf[k[3]].allows
<1> USE DEF Inv
<1> DEFINE key == ManualKey(r)
           target == req[r].target
           candidate == Candidate(r, target)
           outcome == ManualOutcome(r)
<1>0. /\ req[r] \in ReqStates /\ target \in Instances /\ req[r].event \in EventIds /\ key \in Keys
      /\ Wanted(r) = {target}
  BY KeyOfCommand DEF Typed, ReqStates, Wanted
<1>1. /\ candidate \in Works /\ candidate # NoWork /\ candidate.rev = conf[target].rev
      /\ "manual" \in conf[target].allows
  <2>1. target \in Wanted(r) /\ "manual" \in req[r].seen[target].allows
    BY <1>0 DEF ManualReceive, ManualBound
  <2> QED BY <2>1, SeenIsThere
<1>2. works[key] \in Works \cup {NoWork}
  BY <1>0 DEF Typed, TypeOK
<1>3. /\ outcome \in {"created", "unavailable", "conflict", "expired", "replayed"}
      /\ outcome = "created" <=> works[key] = NoWork
      /\ outcome = "replayed" => SameDigests(works[key], candidate)
      /\ outcome = "expired" => SameDigests(works[key], candidate) /\ works[key].erased
  BY DEF ManualOutcome, AdmitOutcome
<1>4. /\ works' = ReceivedWorks("manual", r, {target})
      /\ runs' = AddReceivedOrGet("manual", r, {target})
      /\ audits' = audits \cup ManualAudits(r, outcome)
      /\ Answer(r, outcome, Nobody) /\ UNCHANGED <<conf, receipts, release>>
  BY DEF ManualReceive
<1>5. /\ Moves(r) /\ lock' \in [Instances -> Requests \cup {Nobody}] /\ req'[r].pc = "answered"
      /\ req'[r].answer = outcome /\ req'[r].kind = "manual" /\ req'[r].event = req[r].event
      /\ req'[r].trigger = req[r].trigger /\ req'[r].body = req[r].body /\ req'[r].target = target
      /\ req'[r].release = req[r].release /\ req'[r].seen = req[r].seen /\ Locks'
  <2>1. outcome \in Answers /\ Nobody \in Requests \cup {Nobody}
    BY <1>3 DEF Answers
  <2> QED BY <1>4, <2>1, Answered, AnswerLocks
<1>6. \A k \in Keys \ {key} : works'[k] = works[k] /\ runs'[k] = runs[k]
  <2>1. \A k \in Keys \ {key} : ~(k[1] = "manual" /\ k[2] = req[r].event /\ k[3] \in {target})
    BY DEF Keys, ManualKey
  <2> QED BY <1>4, <2>1 DEF ReceivedWorks, AddReceivedOrGet
<1>7. key[1] = "manual" /\ key[2] = req[r].event /\ key[3] = target
  BY DEF ManualKey
<1>8. /\ works[key] = NoWork => works'[key] = candidate /\ runs'[key] = candidate.rev
      /\ works[key] # NoWork => works'[key] = works[key] /\ runs'[key] = runs[key]
  <2>1. runs[key] = NoRun <=> works[key] = NoWork
    BY <1>0, <1>2 DEF RunsOfWorks, Works, NoRun
  <2>2. /\ works'[key] = AddOrGetKeepsFirst(works[key], candidate)
        /\ runs'[key] = IF runs[key] = NoRun THEN candidate.rev ELSE runs[key]
    BY <1>0, <1>4, <1>7 DEF ReceivedWorks, AddReceivedOrGet
  <2> QED BY <2>1, <2>2 DEF AddOrGetKeepsFirst
<1> HIDE DEF key, candidate
<1>9. Grows
  <2>1. \A k \in Keys : works[k] # NoWork => works'[k] = works[k] /\ runs'[k] = runs[k]
    BY <1>6, <1>8
  <2> QED BY <1>4, <2>1 DEF Grows, SameDigests
<1>10. Typed'
  <2>1. /\ works' \in [Keys -> Works \cup {NoWork}] /\ runs' \in [Keys -> 0..MaxRevision]
    <3>1. \A k \in Keys : works'[k] \in Works \cup {NoWork} /\ runs'[k] \in 0..MaxRevision
      <4>1. candidate.rev \in 0..MaxRevision
        BY <1>1 DEF Works
      <4> QED BY <1>1, <1>6, <1>8, <4>1 DEF Typed, TypeOK
    <3>2. works' = [k \in Keys |-> works'[k]] /\ runs' = [k \in Keys |-> runs'[k]]
      BY <1>4 DEF ReceivedWorks, AddReceivedOrGet
    <3> QED BY <3>1, <3>2
  <2>2. audits' \subseteq [kind : AuditKinds, request : Requests, event : EventIds,
                           receipt : Requests \cup {Nobody}]
    BY <1>0, <1>3, <1>4 DEF Typed, TypeOK, ManualAudits, Audit, AuditKinds
  <2> QED BY <1>4, <1>5, <2>1, <2>2 DEF Typed, TypeOK, Moves, ReqStates
<1>11. \A s \in Requests : Accounted(s)'
  <2>1. ManualKey(r)' = key /\ Candidate(r, req[r].target)' = candidate
    BY <1>5 DEF ManualKey, Candidate, key, candidate
  <2>2. outcome \in {"created", "replayed", "expired"} => works'[key] # NoWork
    BY <1>1, <1>3, <1>8
  <2>3. outcome \in {"created", "replayed"} =>
          SameDigests(works'[key], candidate) /\ runs'[key] = candidate.rev
    BY <1>0, <1>3, <1>8 DEF SameDigests, RunsOfWorks
  <2>4. outcome = "expired" => works'[key].erased
    BY <1>3, <1>8
  <2>5. CommandBacked(r)'
    BY <1>5, <2>1, <2>2, <2>3, <2>4 DEF CommandBacked, SameDigests
  <2>6. Accounted(r)'
    BY <1>5, <2>5 DEF Accounted
  <2> QED BY <1>5, <1>9, <2>6, OthersStay DEF Moves
<1>12. CreatedOnce'
  <2>1. \A s \in Of("manual") \ {r} : ManualKey(s) = key /\ req[s].answer = "created" => outcome # "created"
    BY <1>3 DEF Accounted, CommandBacked, Of
  <2>2. \A s \in Requests : ManualKey(s)' = ManualKey(s) /\ req'[s].kind = req[s].kind
    BY <1>5 DEF ManualKey, Moves
  <2>3. \A s \in Requests \ {r} : req'[s].answer = req[s].answer
    BY <1>5 DEF Moves
  <2> QED BY <1>5, <2>1, <2>2, <2>3 DEF CreatedOnce, Of, key
<1>13. RunsOfWorks'
  BY <1>1, <1>6, <1>8 DEF RunsOfWorks
<1>14. FanOutIsWhole'
  <2>1. \A x \in EventIds, i \in Instances :
          /\ works'[<<"webhook", x, i>>] = works[<<"webhook", x, i>>]
          /\ runs'[<<"webhook", x, i>>] = runs[<<"webhook", x, i>>]
    <3>1. \A x \in EventIds, i \in Instances : <<"webhook", x, i>> \in Keys \ {key}
      BY <1>7 DEF Keys, Kinds
    <3> QED BY <1>6, <3>1
  <2>2. \A x \in EventIds : {i \in Instances : works'[<<"webhook", x, i>>] # NoWork}
                              = {i \in Instances : works[<<"webhook", x, i>>] # NoWork}
    BY <2>1
  <2>3. receipts' = receipts
    BY <1>4
  <2> QED BY <2>1, <2>2, <2>3 DEF FanOutIsWhole
<1>15. TimelineTellsTheTruth'
  <2>1. \A a \in ManualAudits(r, outcome) :
          a.kind \notin {"received", "duplicate_suppressed", "idempotency_collision"}
    BY <1>3 DEF ManualAudits, Audit
  <2>2. \A e \in Events : {a \in audits' : a.kind = "received" /\ a.event = e}
                            = {a \in audits : a.kind = "received" /\ a.event = e}
    BY <1>4, <2>1
  <2> QED BY <1>4, <2>1, <2>2 DEF TimelineTellsTheTruth
<1>16. \A k \in Keys : works[k] = NoWork /\ works'[k] # NoWork =>
         works'[k].rev = conf[k[3]].rev /\ k[1] \in conf[k[3]].allows
  BY <1>1, <1>6, <1>7, <1>8
<1> QED BY <1>5, <1>9, <1>10, <1>11, <1>12, <1>13, <1>14, <1>15, <1>16

-----------------------------------------------------------------------------
(* The environment, and every step.                                        *)

\* An administrator writes a row that no request holds.
LEMMA SwapStep ==
  ASSUME Inv, NEW i \in Instances, CompareAndSwap(i)
  PROVE  Inv'
<1> USE DEF Inv
<1>1. PICK allowed \in Profiles : conf' = [conf EXCEPT ![i] = [rev |-> conf[i].rev + 1, allows |-> allowed]]
  BY DEF CompareAndSwap
<1>2. conf \in [Instances -> Confs] /\ conf[i].rev \in 1..MaxRevision /\ conf[i].rev + 1 \in 1..MaxRevision
  BY BoundsAssumption DEF Typed, TypeOK, Confs, CompareAndSwap
<1>3. conf' \in [Instances -> Confs]
  BY <1>1, <1>2 DEF Confs
<1>4. Typed'
  BY <1>3 DEF CompareAndSwap, Typed, TypeOK
<1>5. \A r \in Requests : i \notin req[r].held
  BY RequestsAssumption DEF CompareAndSwap, RowIsFree, Locks
<1>6. \A j \in Instances \ {i} : conf'[j] = conf[j]
  BY <1>1, <1>2
<1>7. \A r \in Requests : Wanted(r)' = Wanted(r) /\ req[r].held \subseteq Instances
  BY DEF CompareAndSwap, Wanted, Typed, ReqStates
<1>8. Locks'
  BY <1>5, <1>6, <1>7 DEF CompareAndSwap, Locks
<1>9. \A r \in Requests : Accounted(r)'
  <2>1. Grows /\ UNCHANGED req
    BY DEF CompareAndSwap, Grows, SameDigests
  <2> QED BY <2>1, OthersStay
<1>10. CreatedOnce' /\ RunsOfWorks' /\ FanOutIsWhole' /\ TimelineTellsTheTruth'
  BY DEF CompareAndSwap, CreatedOnce, Of, ManualKey, RunsOfWorks, FanOutIsWhole, TimelineTellsTheTruth
<1> QED BY <1>4, <1>8, <1>9, <1>10

\* A retention pass takes the payload and leaves everything else.
LEMMA EraseStep ==
  ASSUME Inv, NEW key \in Keys, Erase(key)
  PROVE  Inv' /\ Grows
<1> USE DEF Inv
<1> DEFINE w == [works[key] EXCEPT !.erased = TRUE]
<1>1. works[key] \in Works /\ works \in [Keys -> Works \cup {NoWork}]
  BY DEF Erase, Typed, TypeOK
<1>2. /\ w \in Works /\ w.erased /\ w.body = works[key].body /\ w.trigger = works[key].trigger
      /\ w.rev = works[key].rev
  BY <1>1 DEF Works
<1>3. works' = [works EXCEPT ![key] = w]
  BY <1>1 DEF Erase
<1>4. w # NoWork /\ works[key] # NoWork
  BY <1>1, <1>2, WorkIsThere
<1> HIDE DEF w
<1>5. works' \in [Keys -> Works \cup {NoWork}] /\ works'[key] = w /\ \A k \in Keys \ {key} : works'[k] = works[k]
  BY <1>1, <1>2, <1>3
<1>6. Grows
  BY <1>2, <1>4, <1>5 DEF Grows, SameDigests, Erase
<1>7. Typed' /\ Locks'
  BY <1>5 DEF Erase, Typed, TypeOK, Locks, Wanted
<1>8. \A r \in Requests : Accounted(r)'
  BY <1>6, OthersStay DEF Erase
<1>9. CreatedOnce' /\ TimelineTellsTheTruth'
  BY DEF Erase, CreatedOnce, Of, ManualKey, TimelineTellsTheTruth
<1>10. RunsOfWorks'
  BY <1>2, <1>4, <1>5 DEF RunsOfWorks, Erase
<1>11. FanOutIsWhole'
  <2>1. \A e \in EventIds, i \in Instances : <<"webhook", e, i>> \in Keys
    BY DEF Keys, Kinds
  <2>2. \A k \in Keys : /\ works'[k] = NoWork <=> works[k] = NoWork
                        /\ works[k] # NoWork => /\ works'[k].body = works[k].body
                                                /\ works'[k].trigger = works[k].trigger
                                                /\ works'[k].rev = works[k].rev
    BY <1>2, <1>4, <1>5
  <2> QED BY <2>1, <2>2 DEF FanOutIsWhole, Erase
<1> QED BY <1>6, <1>7, <1>8, <1>9, <1>10, <1>11

\* Nothing is admitted where nothing new is stored.
AdmitsAsConfigured ==
  \A k \in Keys : works[k] = NoWork /\ works'[k] # NoWork =>
    works'[k].rev = conf[k[3]].rev /\ k[1] \in conf[k[3]].allows

\* Only the release of new processes may differ.
LEMMA NothingMoves ==
  ASSUME Inv, UNCHANGED <<conf, lock, works, runs, receipts, audits, req>>, release' \in 1..MaxRelease
  PROVE  Inv'
<1>1. Typed'
  BY DEF Inv, Typed, TypeOK
<1>2. Locks'
  BY DEF Inv, Locks, Wanted
<1>3. RunsOfWorks' /\ CreatedOnce'
  BY DEF Inv, RunsOfWorks, CreatedOnce, Of, ManualKey
<1>4. FanOutIsWhole' /\ TimelineTellsTheTruth'
  BY DEF Inv, FanOutIsWhole, TimelineTellsTheTruth
<1>5. Grows
  BY DEF Grows, SameDigests
<1>6. \A r \in Requests : Accounted(r)'
  BY <1>5, OthersStay
<1> QED BY <1>1, <1>2, <1>3, <1>4, <1>6 DEF Inv

\* Every step of the specification keeps the invariant, only adds to what was
\* committed, and admits what the locked rows allow.
LEMMA NextInv ==
  ASSUME Inv, [Next]_vars
  PROVE  Inv' /\ Grows /\ AdmitsAsConfigured
<1>1. ASSUME UNCHANGED <<works, runs, receipts>>
      PROVE  Grows /\ AdmitsAsConfigured
  BY <1>1 DEF Grows, AdmitsAsConfigured, SameDigests
<1>2. CASE UNCHANGED vars
  <2>1. UNCHANGED <<conf, lock, works, runs, receipts, audits, req, release>>
    BY <1>2 DEF vars
  <2>2. release' \in 1..MaxRelease
    BY <2>1 DEF Inv, Typed, TypeOK
  <2> QED BY <1>1, <2>1, <2>2, NothingMoves
<1>3. ASSUME NEW r \in Requests,
             \/ Authenticate(r) \/ RejectSignature(r) \/ RejectRate(r) \/ RejectEnvelope(r)
             \/ SubmitManual(r)
      PROVE  Inv' /\ Grows /\ AdmitsAsConfigured
  <2>1. UNCHANGED <<works, runs, receipts>>
    BY <1>3 DEF Authenticate, RejectSignature, RejectRate, RejectEnvelope, Refuse, SubmitManual
  <2> QED BY <1>1, <1>3, <2>1, Arrivals
<1>4. ASSUME NEW r \in Requests, FirstRead(r)
      PROVE  Inv' /\ Grows /\ AdmitsAsConfigured
  <2>1. req[r].pc = "reading" /\ req[r].kind = "webhook"
    BY <1>4 DEF FirstRead, Inv, Accounted
  <2>2. CASE AuditExisting(r)
    BY <1>1, <2>1, <2>2, ExistingStep DEF AuditExisting
  <2>3. CASE ~AuditExisting(r)
    BY <1>1, <1>4, <2>1, <2>3, FirstReadMisses DEF FirstRead
  <2> QED BY <2>2, <2>3
<1>5. ASSUME NEW r \in Requests, NEW i \in Instances, Lock(r, i)
      PROVE  Inv' /\ Grows /\ AdmitsAsConfigured
  BY <1>1, <1>5, LockStep DEF Lock
<1>6. ASSUME NEW r \in Requests, SettleWebhook(r)
      PROVE  Inv' /\ Grows /\ AdmitsAsConfigured
  <2>1. req[r].kind = "webhook" /\ req[r].pc = "locked"
    BY <1>6 DEF SettleWebhook
  <2>2. CASE NoBinding(r) \/ RejectInput(r)
    BY <1>1, <2>1, <2>2, Refusals DEF NoBinding, RejectInput
  <2>3. CASE ReRead(r)
    BY <1>1, <2>1, <2>3, ExistingStep DEF ReRead, AuditExisting
  <2>4. CASE FanOut(r)
    BY <2>1, <2>4, FanOutStep DEF AdmitsAsConfigured
  <2> QED BY <1>6, <2>2, <2>3, <2>4 DEF SettleWebhook
<1>7. ASSUME NEW r \in Requests, SettleManual(r)
      PROVE  Inv' /\ Grows /\ AdmitsAsConfigured
  <2>1. req[r].kind = "manual" /\ req[r].pc = "locked"
    BY <1>7 DEF SettleManual
  <2>2. CASE ManualUnbound(r) \/ ManualInvalid(r)
    BY <1>1, <2>1, <2>2, Refusals DEF ManualUnbound, ManualInvalid
  <2>3. CASE ManualReceive(r)
    BY <2>1, <2>3, ReceiveStep DEF AdmitsAsConfigured
  <2> QED BY <1>7, <2>2, <2>3 DEF SettleManual
<1>8. ASSUME NEW r \in Requests, Crash(r) \/ StorageFails(r)
      PROVE  Inv' /\ Grows /\ AdmitsAsConfigured
  BY <1>1, <1>8, Refusals DEF Crash, StorageFails
<1>9. ASSUME NEW i \in Instances, CompareAndSwap(i)
      PROVE  Inv' /\ Grows /\ AdmitsAsConfigured
  BY <1>1, <1>9, SwapStep DEF CompareAndSwap
<1>10. ASSUME NEW k \in Keys, Erase(k)
       PROVE  Inv' /\ Grows /\ AdmitsAsConfigured
  <2>1. \A x \in Keys : works[x] = NoWork => works'[x] = NoWork
    BY <1>10 DEF Erase, Inv, Typed, TypeOK
  <2> QED BY <1>10, <2>1, EraseStep DEF AdmitsAsConfigured
<1>11. CASE Redeploy
  <2>1. UNCHANGED <<conf, lock, works, runs, receipts, audits, req>> /\ release' \in 1..MaxRelease
    BY <1>11, BoundsAssumption DEF Redeploy, Inv, Typed, TypeOK
  <2> QED BY <1>1, <2>1, NothingMoves
<1> QED BY <1>2, <1>3, <1>4, <1>5, <1>6, <1>7, <1>8, <1>9, <1>10, <1>11 DEF Next, Serve

\* The invariant holds in every reachable state.
LEMMA Invariance == Spec => []Inv
<1>1. Init => Inv
  BY InitInv
<1>2. Inv /\ [Next]_vars => Inv'
  BY NextInv
<1> QED BY <1>1, <1>2, PTL DEF Spec

-----------------------------------------------------------------------------
(* The theorems.                                                           *)

\* Every variable keeps its type: rows, receipts, audits and what each request
\* holds and has read.
THEOREM TypeCorrect == Spec => []TypeOK
<1>1. Inv => TypeOK
  BY DEF Inv, Typed
<1> QED BY <1>1, Invariance, PTL

\* The fan-out of a webhook event (_submit_authenticated) is whole: the receipt
\* names exactly the instances that hold work of the event, each with the
\* receipt's body and trigger and its own run, whatever crashed or raced.
THEOREM FanOutWhole == Spec => []FanOutIsWhole
<1>1. Inv => FanOutIsWhole
  BY DEF Inv
<1> QED BY <1>1, Invariance, PTL

\* Answers and timeline tell one story of every event and every manual key: one
\* creator, replays only of the stored body, receipts announced once.
THEOREM TellsOneStory == Spec => []OneStory
<1>1. Inv => OneStory
  <2> SUFFICES ASSUME Inv PROVE OneStory
    OBVIOUS
  <2>1. WebhookAnswersAgree
    BY DEF Inv, Accounted, WebhookBacked, WebhookAnswersAgree, Of
  <2>2. CommandAnswersAgree
    BY DEF Inv, Accounted, CommandBacked, CreatedOnce, CommandAnswersAgree, Of
  <2> QED BY <2>1, <2>2 DEF Inv, OneStory
<1> QED BY <1>1, Invariance, PTL

\* The second look-up under the locks makes a losing duplicate a replay: no
\* delivery is told of orphaned or mixed state, and one whose receipt was there
\* when it arrived is answered from it.
THEOREM DuplicatesRecognised == Spec => []DuplicatesAreRecognised
<1>1. Inv => DuplicatesAreRecognised
  BY DEF Inv, Accounted, WebhookBacked, DuplicatesAreRecognised, Of
<1> QED BY <1>1, Invariance, PTL

\* Work is admitted only under the configuration that is in force at the commit
\* (the rows are locked from the look to the insert), and no later step changes
\* its body, routing, revision, run or receipt.
THEOREM AdmittedUnderItsConfiguration == Spec => AdmittedAsConfigured
<1>1. Inv /\ [Next]_vars =>
        [/\ \A k \in Keys : works[k] = NoWork /\ works'[k] # NoWork =>
               works'[k].rev = conf[k[3]].rev /\ k[1] \in conf[k[3]].allows
         /\ \A k \in Keys : works[k] # NoWork => SameDigests(works[k], works'[k]) /\ runs'[k] = runs[k]
         /\ \A e \in EventIds : receipts[e] # NoReceipt => receipts'[e] = receipts[e]]_vars
  BY NextInv DEF Grows, AdmitsAsConfigured
<1> QED BY <1>1, Invariance, PTL DEF Spec, AdmittedAsConfigured

-----------------------------------------------------------------------------
(* Locks in the order of the ids never make a circle.                      *)

\* A finite set of row numbers has a highest one.
LEMMA HighestRow ==
  ASSUME NEW rows \in SUBSET Instances, rows # {}
  PROVE  \E i \in rows : \A j \in rows : j <= i
<1> DEFINE From(i) == {j \in rows : i <= j}
           Tails == {From(i) : i \in rows}
<1>1. IsFiniteSet(rows) /\ rows \subseteq Nat
  BY InstancesAssumption, FS_Subset
<1>2. Tails \subseteq FiniteSubsetsOf(rows) /\ Tails # {}
  <2>1. FiniteSubsetsOf(rows) = SUBSET rows
    BY <1>1, FS_FiniteSubsetsOfFinite
  <2>2. \A i \in rows : From(i) \in SUBSET rows
    OBVIOUS
  <2> HIDE DEF From
  <2>3. Tails \subseteq SUBSET rows
    BY <2>2
  <2>4. Tails # {}
    OBVIOUS
  <2> QED BY <2>1, <2>3, <2>4
<1>3. IsWellFoundedOn(StrictSubsetOrdering(rows), FiniteSubsetsOf(rows))
  BY FS_StrictSubsetOrderingWellFounded
<1>4. PICK least \in Tails : \A tail \in Tails : ~(<<tail, least>> \in StrictSubsetOrdering(rows))
  <2> HIDE DEF Tails
  <2> QED BY <1>2, <1>3, WFMin
<1>5. PICK i \in rows : least = From(i)
  BY <1>4
<1>6. ASSUME NEW j \in rows, i < j
      PROVE  FALSE
  <2>1. \A k \in From(j) : k \in From(i)
    <3>1. \A k \in rows : k \in Nat /\ (j <= k => i <= k)
      BY <1>1, <1>6
    <3> QED BY <3>1
  <2>2. i \in From(i) /\ i \notin From(j)
    BY <1>1, <1>6
  <2>3. <<From(j), From(i)>> \in StrictSubsetOrdering(rows)
    BY <2>1, <2>2 DEF StrictSubsetOrdering
  <2> QED BY <1>4, <1>5, <2>3
<1> QED BY <1>1, <1>6

\* Requests never wait for each other in a circle (SELECT ... FOR UPDATE in the
\* order of the ids): the one that waits for the highest row would wait for a
\* request that itself waits for a higher one.
THEOREM NobodyWaitsInACircle == Spec => []NoCircularWait
<1>1. Inv => NoCircularWait
  <2> SUFFICES ASSUME Inv, NEW waiting \in SUBSET Requests, waiting # {},
                      \A r \in waiting : \E s \in waiting \ {r} : Blocks(s, r)
               PROVE  FALSE
    BY DEF NoCircularWait
  <2> DEFINE rows == {i \in Instances : lock[i] \in waiting}
  <2>1. \A r \in Requests : Wanted(r) \subseteq Instances
    BY DEF Inv, Typed, ReqStates, Wanted
  <2>2. ASSUME NEW r \in waiting
        PROVE  \E i \in rows : i \in Wanted(r) \ req[r].held
    BY <2>1 DEF Blocks
  <2>3. rows \in SUBSET Instances /\ rows # {}
    BY <2>2
  <2>4. PICK i \in rows : \A j \in rows : j <= i
    <3> HIDE DEF rows
    <3> QED BY <2>3, HighestRow
  <2>5. lock[i] \in Requests /\ lock[i] \in waiting /\ i \in req[lock[i]].held
    BY <2>4 DEF Inv, Locks
  <2>6. PICK j \in rows : j \in Wanted(lock[i]) \ req[lock[i]].held
    BY <2>2, <2>5
  <2>7. i < j
    BY <2>5, <2>6 DEF Inv, Locks
  <2>8. i \in Nat /\ j \in Nat /\ j <= i
    BY <2>4, <2>6, InstancesAssumption
  <2> QED BY <2>7, <2>8
<1> QED BY <1>1, Invariance, PTL

=============================================================================
