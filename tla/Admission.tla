------------------------------ MODULE Admission ------------------------------
(***************************************************************************)
(* Admission of work: signed webhooks fanned out to every bound instance,  *)
(* and manual commands for one instance.  Both converge on one idempotent  *)
(* receipt of a work item and its primary run.                             *)
(*                                                                         *)
(* Requests are handled at once by several API processes.  A request reads *)
(* the receipt of its event, then takes the row locks of the instance      *)
(* configurations, one row at a time, and decides with all of them held;   *)
(* its transaction commits or is rolled back as a whole.  Between those    *)
(* steps other requests commit, an administrator reconfigures instances,   *)
(* retention erases the detail of old work and a process may die.          *)
(***************************************************************************)
EXTENDS Integers, FiniteSets

CONSTANTS
  Instances,     \* the catalog's instances, numbered in the order of their ids
  Events,        \* source event ids, and the keys manual callers reuse
  Triggers,      \* trigger ids of the one webhook source
  Bodies,        \* authenticated bodies
  Malformed,     \* the bodies the mapper cannot parse
  SchemaRefuses, \* for each body, the instances whose input schema refuses it
  Requests,      \* HTTP requests, redeliveries included
  Profiles,      \* the kinds of work a configuration may allow
  Nobody,        \* a configuration row nobody has locked
  MaxRevision,   \* bound on configuration revisions
  MaxRelease,    \* bound on releases of the digest key and mapper version
  FaultKinds     \* which of crash, storage and erase happen

ASSUME InstancesAssumption == Instances \subseteq Nat \ {0} /\ IsFiniteSet(Instances)
ASSUME NonEmptyAssumption == Instances # {} /\ Events # {} /\ Triggers # {} /\ Bodies # {}
ASSUME BodiesAssumption == Malformed \subseteq Bodies /\ SchemaRefuses \in [Bodies -> SUBSET Instances]
ASSUME RequestsAssumption == Nobody \notin Requests /\ Events \cap Requests = {}
ASSUME ProfilesAssumption == Profiles \subseteq SUBSET {"webhook", "manual"}
ASSUME BoundsAssumption == MaxRevision \in Nat \ {0} /\ MaxRelease \in Nat \ {0}
ASSUME FaultsAssumption == FaultKinds \subseteq {"crash", "storage", "erase"}

VARIABLES
  conf,     \* agent_instance_configurations: what admission reads of each row
  lock,     \* who holds the row lock of each configuration
  works,    \* work_items, by (source, event, instance)
  runs,     \* the primary run of each work item: its configuration revision
  receipts, \* webhook_receipts of the webhook source, by event
  audits,   \* admission events on the audit timeline
  req,      \* per request: what it asked, how far it is, what it holds
  release   \* the digest key and mapper version of newly started processes

vars == <<conf, lock, works, runs, receipts, audits, req, release>>

\* The sources of work; an event without an idempotency key is its own request.
Kinds == {"webhook", "manual"}
EventIds == Events \cup Requests
Keys == Kinds \X EventIds \X Instances

NoWork == [body |-> "none"]
NoReceipt == [body |-> "none"]
NoRun == 0

Confs == [rev: 1..MaxRevision, allows: Profiles]
Unread == [rev |-> 0, allows |-> {}]  \* a row the request has not read
Works == [body: Bodies, trigger: Triggers \cup {"manual"}, rev: 1..MaxRevision,
          release: 1..MaxRelease, erased: BOOLEAN]
Receipts == [body: Bodies, trigger: Triggers, release: 1..MaxRelease,
             targets: SUBSET Instances, id: Requests]
AuditKinds == {"signature_rejected", "rate_denied", "schema_rejected", "validated", "received",
               "duplicate_suppressed", "idempotency_collision",
               "work_created", "duplicate_returned", "work_collision"}
Answers == {"none", "created", "replayed", "conflict", "forbidden", "schema", "orphaned", "mixed",
            "unavailable", "unauthenticated", "limited", "malformed", "expired", "lost"}

Idle == [pc |-> "idle", kind |-> "webhook", event |-> CHOOSE e \in Events : TRUE, trigger |-> CHOOSE t \in Triggers : TRUE,
         body |-> CHOOSE b \in Bodies : TRUE, target |-> CHOOSE i \in Instances : TRUE,
         release |-> 1, held |-> {}, seen |-> [i \in Instances |-> Unread], known |-> FALSE,
         answer |-> "none", receipt |-> Nobody]

\* What the request may still lock: a webhook locks every row, a manual command its own.
Wanted(r) == IF req[r].kind = "manual" THEN {req[r].target} ELSE Instances

-----------------------------------------------------------------------------
\* Bindings and validation

\* An enabled instance whose enabled webhook binding names the source.
WebhookBound(configuration) == "webhook" \in configuration.allows

\* An enabled instance whose manual trigger is not switched off.
ManualBound(configuration) == "manual" \in configuration.allows

\* The instances that the webhook is fanned out to, by the rows the request read.
Bindings(r) == {i \in Instances : WebhookBound(req[r].seen[i])}

\* IncomingWorkValidator: schema, size and routing of one envelope.
Validates(body, i) == i \notin SchemaRefuses[body]

\* All targets are validated before any of them is admitted.
ValidateAll(body, targets) == \A i \in targets : Validates(body, i)

-----------------------------------------------------------------------------
\* The idempotent receipt of one work item and its primary run

\* Mutant: the revision is not taken from the row that was read.
CandidateUnread(r, i) ==
  [body |-> req[r].body, trigger |-> IF req[r].kind = "manual" THEN "manual" ELSE req[r].trigger,
   rev |-> Unread.rev, release |-> req[r].release, erased |-> FALSE]

\* What the request would admit for one instance, under the revision it read.
Candidate(r, i) ==
  [body |-> req[r].body, trigger |-> IF req[r].kind = "manual" THEN "manual" ELSE req[r].trigger,
   rev |-> req[r].seen[i].rev, release |-> req[r].release, erased |-> FALSE]

\* The input digest and the admission digest, which binds the routing and the revision.
SameDigests(work, candidate) ==
  /\ work.body = candidate.body
  /\ work.trigger = candidate.trigger
  /\ work.rev = candidate.rev

\* The unique (source, event, instance) key: the first insert stays.
AddOrGetKeepsFirst(stored, candidate) == IF stored = NoWork THEN candidate ELSE stored

\* The outcome of admitting the candidate where `stored' may already be.
AdmitOutcome(stored, candidate) ==
  IF stored = NoWork THEN "created"
  ELSE IF stored.release # candidate.release THEN "unavailable"  \* another digest key
  ELSE IF ~SameDigests(stored, candidate) THEN "conflict"
  ELSE IF stored.erased THEN "expired"
  ELSE "replayed"

\* Work and run are received together, once per key.
ReceivedWorks(kind, r, targets) ==
  [k \in Keys |-> IF k[1] = kind /\ k[2] = req[r].event /\ k[3] \in targets
                  THEN AddOrGetKeepsFirst(works[k], Candidate(r, k[3])) ELSE works[k]]

AddReceivedOrGet(kind, r, targets) ==
  [k \in Keys |-> IF k[1] = kind /\ k[2] = req[r].event /\ k[3] \in targets /\ runs[k] = NoRun
                  THEN Candidate(r, k[3]).rev ELSE runs[k]]

-----------------------------------------------------------------------------
\* Webhook receipts

\* Mutant: the receipt lists the catalog, not the targets that were bound.
ReceiptForAll(r, targets) ==
  [body |-> req[r].body, trigger |-> req[r].trigger, release |-> req[r].release,
   targets |-> Instances, id |-> r]

NewReceipt(r, targets) ==
  [body |-> req[r].body, trigger |-> req[r].trigger, release |-> req[r].release,
   targets |-> targets, id |-> r]

\* Mutant: the digest of the body is not compared.
ClassifyByTrigger(receipt, r) == IF receipt.trigger = req[r].trigger THEN "replayed" ELSE "conflict"

\* hmac comparison of the bodies, under one digest key and one mapper.
ClassifyExisting(receipt, r) ==
  IF receipt.release # req[r].release THEN "unavailable"
  ELSE IF receipt.trigger = req[r].trigger /\ receipt.body = req[r].body THEN "replayed"
  ELSE "conflict"

Audit(kind, r, receipt) == [kind |-> kind, request |-> r, event |-> req[r].event, receipt |-> receipt]

\* The audits of a delivery that met a receipt.
AuditsOfExisting(r, outcome, receipt) ==
  CASE outcome = "replayed" -> {Audit("validated", r, Nobody), Audit("duplicate_suppressed", r, receipt.id)}
    [] outcome = "conflict" -> {Audit("validated", r, Nobody), Audit("idempotency_collision", r, receipt.id)}
    [] OTHER -> {}

\* The request is answered; its transaction ends and releases the row locks.
Answer(r, answer, receipt) ==
  /\ req' = [req EXCEPT ![r].pc = "answered", ![r].answer = answer, ![r].receipt = receipt, ![r].held = {}]
  /\ lock' = [i \in Instances |-> IF lock[i] = r THEN Nobody ELSE lock[i]]

\* The transaction found the receipt of its event.
AuditExisting(r) ==
  LET receipt == receipts[req[r].event]
      outcome == ClassifyExisting(receipt, r)
  IN /\ receipt # NoReceipt
     /\ audits' = audits \cup AuditsOfExisting(r, outcome, receipt)
     /\ Answer(r, outcome, IF outcome = "replayed" THEN receipt.id ELSE Nobody)
     /\ UNCHANGED <<conf, works, runs, receipts, release>>

-----------------------------------------------------------------------------
\* The steps of a webhook request

\* WebhookAdmissionService.submit up to the first transaction: the verified
\* body was within the rate of its source and could be mapped to an event.
Authenticate(r) ==
  /\ req[r].pc = "idle"
  /\ \E e \in Events, t \in Triggers, b \in Bodies \ Malformed :
       req' = [req EXCEPT ![r].pc = "reading", ![r].event = e, ![r].trigger = t, ![r].body = b,
                          ![r].release = release, ![r].known = receipts[e] # NoReceipt]
  /\ UNCHANGED <<conf, lock, works, runs, receipts, audits, release>>

\* Or it was not: the refusal is audited in a transaction of its own.
Refuse(r, answer, kind) ==
  /\ req[r].pc = "idle"
  /\ answer = "malformed" => Malformed # {}
  /\ req' = [req EXCEPT ![r].pc = "answered", ![r].answer = answer]
  /\ audits' = audits \cup {Audit(kind, r, Nobody)}
  /\ UNCHANGED <<conf, lock, works, runs, receipts, release>>

RejectSignature(r) == Refuse(r, "unauthenticated", "signature_rejected")
RejectRate(r) == Refuse(r, "limited", "rate_denied")
RejectEnvelope(r) == Refuse(r, "malformed", "schema_rejected")

\* The receipt is looked up before any lock is taken.
FirstRead(r) ==
  /\ req[r].pc = "reading"
  /\ \/ AuditExisting(r)
     \/ /\ receipts[req[r].event] = NoReceipt
        /\ req' = [req EXCEPT ![r].pc = "locking"]
        /\ UNCHANGED <<conf, lock, works, runs, receipts, audits, release>>

\* Mutant: the rows are locked in whatever order they come.
AnyOrder(r, i) == TRUE

\* SELECT ... FOR UPDATE, in the order of the instance ids.
InOrder(r, i) == \A j \in Wanted(r) \ req[r].held : i <= j

Lock(r, i) ==
  /\ req[r].pc = "locking"
  /\ i \in Wanted(r) \ req[r].held /\ InOrder(r, i)
  /\ lock[i] = Nobody
  /\ lock' = [lock EXCEPT ![i] = r]
  /\ req' = [req EXCEPT ![r].held = @ \cup {i}, ![r].seen[i] = conf[i],
                        ![r].pc = IF req[r].held \cup {i} = Wanted(r) THEN "locked" ELSE "locking"]
  /\ UNCHANGED <<conf, works, runs, receipts, audits, release>>

\* resolve_all_in_uow found no bound instance.
NoBinding(r) ==
  /\ Bindings(r) = {}
  /\ audits' = audits \cup {Audit("validated", r, Nobody)}
  /\ Answer(r, "forbidden", Nobody)
  /\ UNCHANGED <<conf, works, runs, receipts, release>>

\* Mutant: the receipt is not looked up again once the locks are held.
NeverReRead(r) == FALSE

\* Read again under the locks: somebody else may have committed the receipt.
FoundOnReRead(r) == receipts[req[r].event] # NoReceipt

ReRead(r) == Bindings(r) # {} /\ FoundOnReRead(r) /\ AuditExisting(r)

RejectInput(r) ==
  /\ Bindings(r) # {} /\ ~FoundOnReRead(r)
  /\ ~ValidateAll(req[r].body, Bindings(r))
  /\ audits' = audits \cup {Audit("validated", r, Nobody), Audit("schema_rejected", r, Nobody)}
  /\ Answer(r, "schema", Nobody)
  /\ UNCHANGED <<conf, works, runs, receipts, release>>

\* Work without a receipt: the state is incomplete and the request is refused.
Orphaned(r) == \E i \in Bindings(r) : works[<<"webhook", req[r].event, i>>] # NoWork

\* Receipt and work must have been created together, or replayed together.
InsertOutcome(r) ==
  IF Orphaned(r) THEN "orphaned"
  ELSE IF receipts[req[r].event] # NoReceipt THEN "mixed"
  ELSE "created"

\* The whole fan-out: every target's work and run, the receipt, the audits;
\* a refusal rolls all of it back.
FanOut(r) ==
  LET targets == Bindings(r)
      outcome == InsertOutcome(r)
      created == outcome = "created"
  IN /\ targets # {} /\ ~FoundOnReRead(r)
     /\ ValidateAll(req[r].body, targets)
     /\ works' = IF created THEN ReceivedWorks("webhook", r, targets) ELSE works
     /\ runs' = IF created THEN AddReceivedOrGet("webhook", r, targets) ELSE runs
     /\ receipts' = IF created THEN [receipts EXCEPT ![req[r].event] = NewReceipt(r, targets)] ELSE receipts
     /\ audits' = IF created THEN audits \cup {Audit("validated", r, Nobody), Audit("received", r, r)}
                  ELSE audits
     /\ Answer(r, outcome, IF created THEN r ELSE Nobody)
     /\ UNCHANGED <<conf, release>>

SettleWebhook(r) ==
  /\ req[r].kind = "webhook" /\ req[r].pc = "locked"
  /\ NoBinding(r) \/ ReRead(r) \/ RejectInput(r) \/ FanOut(r)

-----------------------------------------------------------------------------
\* The steps of a manual command

\* Authorized and well formed; without a key its event id is a fresh one.
SubmitManual(r) ==
  /\ req[r].pc = "idle"
  /\ \E e \in Events \cup {r}, i \in Instances, b \in Bodies :
       req' = [req EXCEPT ![r].pc = "locking", ![r].kind = "manual", ![r].event = e, ![r].target = i, ![r].body = b,
                          ![r].release = release,
                          ![r].known = works[<<"manual", e, i>>] # NoWork]
  /\ UNCHANGED <<conf, lock, works, runs, receipts, audits, release>>

ManualKey(r) == <<"manual", req[r].event, req[r].target>>

ManualOutcome(r) == AdmitOutcome(works[ManualKey(r)], Candidate(r, req[r].target))

\* manual_received goes with each of these, so it is not kept apart.
ManualAudits(r, outcome) ==
  CASE outcome = "created" -> {Audit("work_created", r, r)}
    [] outcome = "replayed" -> {Audit("duplicate_returned", r, Nobody)}
    [] outcome = "conflict" -> {Audit("work_collision", r, Nobody)}
    [] OTHER -> {}

ManualUnbound(r) ==
  /\ ~ManualBound(req[r].seen[req[r].target])
  /\ Answer(r, "forbidden", Nobody)
  /\ UNCHANGED <<conf, works, runs, receipts, audits, release>>

ManualInvalid(r) ==
  /\ ManualBound(req[r].seen[req[r].target]) /\ ~Validates(req[r].body, req[r].target)
  /\ audits' = audits \cup {Audit("schema_rejected", r, Nobody)}
  /\ Answer(r, "schema", Nobody)
  /\ UNCHANGED <<conf, works, runs, receipts, release>>

ManualReceive(r) ==
  /\ ManualBound(req[r].seen[req[r].target]) /\ Validates(req[r].body, req[r].target)
  /\ works' = ReceivedWorks("manual", r, {req[r].target})
  /\ runs' = AddReceivedOrGet("manual", r, {req[r].target})
  /\ audits' = audits \cup ManualAudits(r, ManualOutcome(r))
  /\ Answer(r, ManualOutcome(r), Nobody)
  /\ UNCHANGED <<conf, receipts, release>>

SettleManual(r) ==
  /\ req[r].kind = "manual" /\ req[r].pc = "locked"
  /\ ManualUnbound(r) \/ ManualInvalid(r) \/ ManualReceive(r)

-----------------------------------------------------------------------------
\* The environment

\* Mutant: admission reads the rows without locking them.
RowNeverBlocks(i) == TRUE

\* Another commit of the configuration: its UPDATE waits for the row lock.
RowIsFree(i) == lock[i] = Nobody

\* Every update is a new revision, also one that keeps what the instance allows.
CompareAndSwap(i) ==
  /\ RowIsFree(i)
  /\ conf[i].rev < MaxRevision
  /\ \E allowed \in Profiles :
       conf' = [conf EXCEPT ![i] = [rev |-> @.rev + 1, allows |-> allowed]]
  /\ UNCHANGED <<lock, works, runs, receipts, audits, req, release>>

\* New processes run with another digest key or mapper version.
Redeploy ==
  /\ release < MaxRelease
  /\ release' = release + 1
  /\ UNCHANGED <<conf, lock, works, runs, receipts, audits, req>>

\* Retention erases the admitted payload and keeps the witness.
Erase(k) ==
  /\ "erase" \in FaultKinds
  /\ works[k] # NoWork /\ ~works[k].erased
  /\ works' = [works EXCEPT ![k].erased = TRUE]
  /\ UNCHANGED <<conf, lock, runs, receipts, audits, req, release>>

\* The process dies: the database rolls its transaction back.
Crash(r) ==
  /\ "crash" \in FaultKinds
  /\ req[r].pc \in {"reading", "locking", "locked"}
  /\ Answer(r, "lost", Nobody)
  /\ UNCHANGED <<conf, works, runs, receipts, audits, release>>

\* A statement fails: the unit of work is rolled back and the caller told so.
StorageFails(r) ==
  /\ "storage" \in FaultKinds
  /\ req[r].pc \in {"reading", "locking", "locked"}
  /\ Answer(r, "unavailable", Nobody)
  /\ UNCHANGED <<conf, works, runs, receipts, audits, release>>

Init ==
  /\ conf \in [Instances -> {c \in Confs : c.rev = 1}]
  /\ lock = [i \in Instances |-> Nobody]
  /\ works = [k \in Keys |-> NoWork]
  /\ runs = [k \in Keys |-> NoRun]
  /\ receipts = [e \in EventIds |-> NoReceipt]
  /\ audits = {}
  /\ req = [r \in Requests |-> Idle]
  /\ release = 1

Serve(r) == FirstRead(r) \/ (\E i \in Instances : Lock(r, i)) \/ SettleWebhook(r) \/ SettleManual(r)

Next ==
  \/ \E r \in Requests :
       \/ Authenticate(r) \/ RejectSignature(r) \/ RejectRate(r) \/ RejectEnvelope(r)
       \/ SubmitManual(r)
       \/ Serve(r)
       \/ Crash(r) \/ StorageFails(r)
  \/ \E i \in Instances : CompareAndSwap(i)
  \/ \E k \in Keys : Erase(k)
  \/ Redeploy

Spec == Init /\ [][Next]_vars

-----------------------------------------------------------------------------
\* Properties

Of(kind) == {r \in Requests : req[r].kind = kind}

TypeOK ==
  /\ conf \in [Instances -> Confs]
  /\ lock \in [Instances -> Requests \cup {Nobody}]
  /\ works \in [Keys -> Works \cup {NoWork}]
  /\ runs \in [Keys -> 0..MaxRevision]
  /\ receipts \in [EventIds -> Receipts \cup {NoReceipt}]
  /\ audits \subseteq [kind: AuditKinds, request: Requests, event: EventIds, receipt: Requests \cup {Nobody}]
  /\ \A r \in Requests :
       /\ req[r].pc \in {"idle", "reading", "locking", "locked", "answered"}
       /\ req[r].answer \in Answers /\ req[r].held \subseteq Instances
       /\ req[r].seen \in [Instances -> Confs \cup {Unread}]
  /\ release \in 1..MaxRelease

\* The fan-out of an event is whole (webhook_intake.py _submit_authenticated):
\* its receipt names exactly the instances that hold its work, each work item
\* carries the receipt's body and trigger and has its primary run, and no
\* event leaves work without a receipt, whatever crashed or raced.
FanOutIsWhole ==
  \A e \in EventIds :
    LET admitted == {i \in Instances : works[<<"webhook", e, i>>] # NoWork}
    IN /\ admitted = IF receipts[e] = NoReceipt THEN {} ELSE receipts[e].targets
       /\ receipts[e] # NoReceipt =>
            /\ admitted # {}
            /\ \A i \in admitted :
                 /\ works[<<"webhook", e, i>>].body = receipts[e].body
                 /\ works[<<"webhook", e, i>>].trigger = receipts[e].trigger
                 /\ runs[<<"webhook", e, i>>] = works[<<"webhook", e, i>>].rev

\* Every answer about an event tells one story: at most one request was told it
\* created the work, whoever was told of a replay sent that very body to that
\* trigger, and all were shown the same receipt.
WebhookAnswersAgree ==
  \A r, s \in Of("webhook") :
    /\ req[r].answer = "created" /\ req[s].answer = "created" /\ req[r].event = req[s].event => r = s
    /\ req[r].answer = "replayed" =>
         /\ req[r].receipt = receipts[req[r].event].id
         /\ req[r].body = receipts[req[r].event].body
         /\ req[r].trigger = receipts[req[r].event].trigger

\* A duplicate is recognised (the comment on the second look-up in
\* _submit_authenticated): two deliveries that both saw no receipt never end
\* with the waiter calling the winner's work orphaned, and a delivery of an
\* event whose receipt was there when it arrived is answered from it.
DuplicatesAreRecognised ==
  \A r \in Of("webhook") :
    /\ req[r].answer \notin {"orphaned", "mixed"}
    /\ req[r].known /\ req[r].pc = "answered" =>
         req[r].answer \in {"replayed", "conflict", "unavailable", "lost"}

\* The timeline tells the truth: an event's receipt is announced once, by the
\* request that created it, and each suppressed duplicate or collision names
\* the receipt it met, also when the audited request itself was refused.
TimelineTellsTheTruth ==
  /\ \A e \in Events :
       {a \in audits : a.kind = "received" /\ a.event = e} =
         IF receipts[e] = NoReceipt THEN {}
         ELSE {[kind |-> "received", request |-> receipts[e].id, event |-> e, receipt |-> receipts[e].id]}
  /\ \A a \in audits : a.kind \in {"duplicate_suppressed", "idempotency_collision"} =>
       receipts[a.event] # NoReceipt /\ a.receipt = receipts[a.event].id

\* A manual key means one command (idempotent_work_receipt.py, work_admission.py):
\* whoever was told that its command was replayed had sent the stored body under
\* the stored revision, at most one caller created the work, and a caller whose
\* command met other work, or erased work, was told so.
CommandAnswersAgree ==
  \A r, s \in Of("manual") :
    /\ req[r].answer = "created" /\ req[s].answer = "created" /\ ManualKey(r) = ManualKey(s) => r = s
    /\ req[r].answer \in {"created", "replayed"} =>
         /\ SameDigests(works[ManualKey(r)], Candidate(r, req[r].target))
         /\ runs[ManualKey(r)] = Candidate(r, req[r].target).rev
    /\ req[r].answer = "expired" => works[ManualKey(r)].erased

\* One story for every event and every key, in the answers and in the audit
\* timeline.
OneStory == WebhookAnswersAgree /\ CommandAnswersAgree /\ TimelineTellsTheTruth

\* Work is admitted only for an instance that is bound at that moment, under
\* its current revision: the rows stay locked from the look at the bindings to
\* the commit (webhook_ingress.py resolve_all_in_uow, manual_work.py).  And no
\* redelivery, conflict, race or retention pass ever changes the body, routing
\* or revision of admitted work, its run or its receipt.
AdmittedAsConfigured ==
  [][/\ \A k \in Keys : works[k] = NoWork /\ works'[k] # NoWork =>
          works'[k].rev = conf[k[3]].rev /\ k[1] \in conf[k[3]].allows
     /\ \A k \in Keys : works[k] # NoWork => SameDigests(works[k], works'[k]) /\ runs'[k] = runs[k]
     /\ \A e \in EventIds : receipts[e] # NoReceipt => receipts'[e] = receipts[e]]_vars

\* Locks taken row by row never leave requests waiting for each other, so
\* every accepted request can be answered.
Blocks(s, r) ==
  \E i \in Wanted(r) \ req[r].held : req[r].pc = "locking" /\ InOrder(r, i) /\ lock[i] = s

NoCircularWait ==
  ~\E waiting \in (SUBSET Requests) \ {{}} : \A r \in waiting : \E s \in waiting \ {r} : Blocks(s, r)

=============================================================================
