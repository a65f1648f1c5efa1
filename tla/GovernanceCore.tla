--------------------------- MODULE GovernanceCore ---------------------------
(***************************************************************************)
(* The governance lifecycle of governance_core.py: findings move from open *)
(* to closed through role-gated requests.  Each request runs in its own    *)
(* HTTP or worker thread; a request that reads the finding before it opens *)
(* its write transaction (get_finding, then _mutate) is modelled as two    *)
(* steps, because every other request may commit in between.  A request    *)
(* that decides everything inside BEGIN IMMEDIATE is one step.             *)
(*                                                                         *)
(* Tables are sets of rows.  A row's primary key (a fresh uuid4) is        *)
(* modelled by `at', the sequence number of the event written in the same  *)
(* transaction.  Titles, reasons, severities, ratings, notes and           *)
(* timestamps are left out: nothing ever branches on them.                 *)
(***************************************************************************)
EXTENDS Naturals, Sequences, FiniteSets

CONSTANTS
    Finding,      \* finding identifiers
    Actor,        \* actor identifiers (ActorContext.actor_id)
    RoleOf,       \* the role each actor authenticates with
    Owner,        \* identifiers used as risk_owner and action_owner inputs
    Implementer,  \* identifiers used as implementer inputs
    Identity,     \* (control_id, asset_id) pairs
    Treatment,    \* treatments that are proposed
    Digest,       \* evidence contents, by sha256
    Request,      \* request threads
    None,         \* SQL NULL
    MaxEvents     \* bound on the number of events of one finding

ROLES == {"admin", "analyst", "risk_owner", "approver", "ciso", "risk_committee"}
TREATMENTS == {"mitigate", "accept", "transfer", "avoid"}

ASSUME RolesAssumption == RoleOf \in [Actor -> ROLES]
ASSUME InputsAssumption ==
    /\ Treatment \subseteq TREATMENTS
    /\ None \notin Actor \cup Owner \cup Implementer \cup Digest \cup TREATMENTS
    /\ None \notin Finding \cup Identity
ASSUME MaxEventsAssumption == MaxEvents \in Nat

VARIABLES
    finding,        \* findings: the row of each finding
    events,         \* governance_events: the event types, in sequence order
    outbox,         \* governance_outbox: sequence numbers with a row
    exports,        \* audit_exports: sequence numbers with a row
    risks,          \* risk_records
    treatments,     \* risk_treatments
    approvals,      \* approval_records
    actions,        \* action_items
    evidence,       \* governance_evidence
    verifications,  \* verification_records
    closures,       \* closure_records
    objects,        \* evidence object store: "absent", "partial" or "whole"
    request         \* what each request thread has read and still has to do

workflow == <<risks, treatments, approvals, actions, evidence, verifications,
              closures>>
vars == <<finding, events, outbox, exports, workflow, objects, request>>

-----------------------------------------------------------------------------
(* States *)

\* The statuses some transition writes ("absent": no row yet).
Status == {"absent", "open", "risk_assessed", "pending_approval", "approved",
           "accepted", "in_progress", "pending_verification", "verified",
           "closed"}

EventType == {"finding_created", "finding_reassessed", "risk_assessed",
              "treatment_proposed", "treatment_approved", "treatment_rejected",
              "action_started", "evidence_submitted", "verification_passed",
              "verification_failed", "finding_closed"}

Finding_Row ==
    [status: Status, identity: Identity \cup {None}, risk_owner: Owner \cup {None},
     treatment_type: Treatment \cup {None}, action_owner: Owner \cup {None},
     implementer: Implementer \cup {None}, evidence_submitter: Actor \cup {None}]

NoFinding ==
    [status |-> "absent", identity |-> None, risk_owner |-> None,
     treatment_type |-> None, action_owner |-> None, implementer |-> None,
     evidence_submitter |-> None]

\* A request in flight.  `owner' and `treatment_type' are the columns its commit
\* still uses of the row that get_finding returned before the transaction;
\* `decision' and `digest' are the caller's arguments.  The actor is kept where
\* the commit records it in a column that is modelled.
Operation == {"idle", "assess", "approve", "start", "submit", "stored", "verify"}
Decision == {"approved", "rejected", "passed", "failed"}
Request_State ==
    [op: Operation, finding: Finding \cup {None}, actor: Actor \cup {None},
     decision: Decision \cup {None}, digest: Digest \cup {None},
     owner: Owner \cup {None}, treatment_type: Treatment \cup {None}]
Idle == [op |-> "idle", finding |-> None, actor |-> None, decision |-> None,
         digest |-> None, owner |-> None, treatment_type |-> None]

Init ==
    /\ finding = [f \in Finding |-> NoFinding]
    /\ events = [f \in Finding |-> <<>>]
    /\ outbox = [f \in Finding |-> {}]
    /\ exports = [f \in Finding |-> {}]
    /\ risks = [f \in Finding |-> {}]
    /\ treatments = [f \in Finding |-> {}]
    /\ approvals = [f \in Finding |-> {}]
    /\ actions = [f \in Finding |-> {}]
    /\ evidence = [f \in Finding |-> {}]
    /\ verifications = [f \in Finding |-> {}]
    /\ closures = [f \in Finding |-> {}]
    /\ objects = [d \in Digest |-> "absent"]
    /\ request = [r \in Request |-> Idle]

-----------------------------------------------------------------------------
(* Helpers *)

\* _require
HasRole(actor, roles) == RoleOf[actor] \in roles

Exists(f) == finding[f].status # "absent"

IsIdle(r) == request[r].op = "idle"

\* COALESCE(MAX(event_sequence), 0) + 1
NextSequence(f) == Len(events[f]) + 1

\* _event: one event with its outbox row and its audit export row, all in the
\* caller's transaction.
Event(f, type) ==
    /\ Len(events[f]) < MaxEvents
    /\ events' = [events EXCEPT ![f] = Append(@, type)]
    /\ outbox' = [outbox EXCEPT ![f] = @ \cup {NextSequence(f)}]
    /\ exports' = [exports EXCEPT ![f] = @ \cup {NextSequence(f)}]

\* Mutants of Mutate: no recheck under the row lock; a recheck that only asks for
\* an active status.
Mutate_NoRecheck(f, type, allowed, row) ==
    /\ finding' = [finding EXCEPT ![f] = row]
    /\ Event(f, type)
Mutate_WhileActive(f, type, allowed, row) ==
    /\ finding[f].status \notin {"verified", "accepted", "closed"}
    /\ finding' = [finding EXCEPT ![f] = row]
    /\ Event(f, type)

\* The locking part of _mutate: the row is read again FOR UPDATE and only its
\* existence and its status are checked, then updated together with the event.
Mutate(f, type, allowed, row) ==
    /\ finding[f].status \in allowed
    /\ finding' = [finding EXCEPT ![f] = row]
    /\ Event(f, type)

Done(r) == request' = [request EXCEPT ![r] = Idle]

\* _treatment_approval_status
TreatmentApprovalStatus(decision, treatment_type) ==
    IF decision # "approved" THEN "risk_assessed"
    ELSE IF treatment_type = "accept" THEN "accepted"
    ELSE "approved"

-----------------------------------------------------------------------------
(* Requests decided inside one transaction *)

\* create_finding; also upsert_finding on a finding that does not exist yet.
CreateFinding(r, f) ==
    /\ IsIdle(r)
    /\ \E a \in Actor : HasRole(a, {"admin", "analyst"})
    /\ ~Exists(f)
    /\ \E i \in Identity, o \in Owner :
         finding' = [finding EXCEPT ![f] = [NoFinding EXCEPT !.status = "open",
                                                            !.identity = i,
                                                            !.risk_owner = o]]
    /\ Event(f, "finding_created")
    /\ UNCHANGED <<workflow, objects, request>>

\* Mutant: a reassessment reopens the finding.
ReassessFinding_Reopens(r, f) ==
    /\ IsIdle(r)
    /\ Exists(f)
    /\ finding' = [finding EXCEPT ![f].status = "open"]
    /\ Event(f, "finding_reassessed")
    /\ UNCHANGED <<workflow, objects, request>>

\* upsert_finding on an existing finding: its insert fails, and a second
\* transaction reassesses it whatever its status.  Rows are never deleted, so
\* the two transactions together are one step.
ReassessFinding(r, f) ==
    /\ IsIdle(r)
    /\ \E a \in Actor : HasRole(a, {"admin", "analyst"})
    /\ Exists(f)
    /\ \E i \in Identity, o \in Owner :
         /\ finding[f].identity = i
         /\ finding' = [finding EXCEPT ![f].risk_owner = o]
    /\ Event(f, "finding_reassessed")
    /\ UNCHANGED <<workflow, objects, request>>

\* propose_treatment
ProposeTreatment(r, f) ==
    /\ IsIdle(r)
    /\ \E a \in Actor : HasRole(a, {"risk_owner", "analyst", "admin"})
    /\ \E t \in Treatment, o \in Owner :
         /\ Mutate(f, "treatment_proposed", {"risk_assessed"},
                   [finding[f] EXCEPT !.status = "pending_approval",
                                      !.treatment_type = t,
                                      !.action_owner = o])
         /\ treatments' = [treatments EXCEPT ![f] = @ \cup
                             {[at |-> NextSequence(f), treatment_type |-> t]}]
    /\ UNCHANGED <<risks, approvals, actions, evidence, verifications, closures,
                   objects, request>>

\* Mutant: evidence is enough to close.
Close_OnEvidence(r, f) ==
    /\ IsIdle(r)
    /\ Mutate(f, "finding_closed", {"pending_verification", "verified", "accepted"},
              [finding[f] EXCEPT !.status = "closed"])
    /\ closures' = [closures EXCEPT ![f] = @ \cup {[at |-> NextSequence(f)]}]
    /\ UNCHANGED <<risks, treatments, approvals, actions, evidence,
                   verifications, objects, request>>

\* close: the status read before the transaction is checked again inside it,
\* and nothing else of that read is used, so the request is one step.
Close(r, f) ==
    /\ IsIdle(r)
    /\ \E a \in Actor : HasRole(a, {"approver", "ciso", "risk_committee"})
    /\ Mutate(f, "finding_closed", {"verified", "accepted"},
              [finding[f] EXCEPT !.status = "closed"])
    /\ closures' = [closures EXCEPT ![f] = @ \cup {[at |-> NextSequence(f)]}]
    /\ UNCHANGED <<risks, treatments, approvals, actions, evidence,
                   verifications, objects, request>>

-----------------------------------------------------------------------------
(* Requests that read the finding first and commit later *)

\* The read: get_finding outside any transaction.  `kept' holds the caller's
\* arguments and the columns of the row that the commit will use.
Read(r, op, f, a, kept) ==
    /\ IsIdle(r)
    /\ Exists(f)
    /\ request' = [request EXCEPT ![r] =
                     [kept EXCEPT !.op = op, !.finding = f, !.actor = a]]
    /\ UNCHANGED <<finding, events, outbox, exports, workflow, objects>>

\* A commit whose recheck fails, or a process that stops between its read and
\* its commit: the transaction is rolled back and nothing is written.
Abandon(r) ==
    /\ ~IsIdle(r)
    /\ Done(r)
    /\ UNCHANGED <<finding, events, outbox, exports, workflow, objects>>

\* assess_risk: the owner copied into risk_records is the one read before.
AssessRiskRead(r, f) ==
    /\ \E a \in Actor : HasRole(a, {"risk_owner", "analyst", "admin"})
    /\ Read(r, "assess", f, None, [Idle EXCEPT !.owner = finding[f].risk_owner])

AssessRiskCommit(r) ==
    LET f == request[r].finding IN
    /\ request[r].op = "assess"
    /\ Mutate(f, "risk_assessed", {"open", "rejected"},
              [finding[f] EXCEPT !.status = "risk_assessed"])
    /\ risks' = [risks EXCEPT ![f] =
                   {[at |-> NextSequence(f), owner |-> request[r].owner]}]
    /\ Done(r)
    /\ UNCHANGED <<treatments, approvals, actions, evidence, verifications,
                   closures, objects>>

\* approve_treatment: the independence check and the new status both come from
\* the row read before the transaction.
ApproveTreatmentRead(r, f, a, decision) ==
    /\ HasRole(a, {"approver", "ciso", "risk_committee"})
    /\ a # finding[f].risk_owner
    /\ Read(r, "approve", f, a,
            [Idle EXCEPT !.decision = decision,
                         !.treatment_type = finding[f].treatment_type])

ApproveTreatmentCommit(r) ==
    LET f == request[r].finding
        decision == request[r].decision
    IN
    /\ request[r].op = "approve"
    /\ Mutate(f, IF decision = "approved" THEN "treatment_approved"
                                          ELSE "treatment_rejected",
              {"pending_approval"},
              [finding[f] EXCEPT !.status = TreatmentApprovalStatus(decision,
                                              request[r].treatment_type)])
    /\ approvals' = [approvals EXCEPT ![f] = @ \cup
                       {[at |-> NextSequence(f), decision |-> decision,
                         approver |-> request[r].actor]}]
    /\ Done(r)
    /\ UNCHANGED <<risks, treatments, actions, evidence, verifications,
                   closures, objects>>

\* start_action: the owner copied into action_items is the one read before.
\* The caller's `implementer' argument travels in the commit.
StartActionRead(r, f) ==
    /\ \E a \in Actor : HasRole(a, {"risk_owner", "analyst", "admin"})
    /\ Read(r, "start", f, None, [Idle EXCEPT !.owner = finding[f].action_owner])

StartActionCommit(r) ==
    LET f == request[r].finding IN
    /\ request[r].op = "start"
    /\ \E i \in Implementer :
         /\ Mutate(f, "action_started", {"approved"},
                   [finding[f] EXCEPT !.status = "in_progress", !.implementer = i])
         /\ actions' = [actions EXCEPT ![f] = @ \cup
                          {[at |-> NextSequence(f), implementer |-> i,
                            owner |-> request[r].owner]}]
    /\ Done(r)
    /\ UNCHANGED <<risks, treatments, approvals, evidence, verifications,
                   closures, objects>>

\* submit_evidence, first part: only a finding in progress goes on to the
\* object store (a retry of a submission that is already recorded returns).
SubmitEvidenceRead(r, f, a, d) ==
    /\ HasRole(a, {"risk_owner", "analyst", "admin"})
    /\ finding[f].status = "in_progress"
    /\ Read(r, "submit", f, a, [Idle EXCEPT !.digest = d])

\* Mutant: an existing object is not read back.
StoreEvidence_NoReadBack(r) ==
    LET d == request[r].digest IN
    /\ request[r].op = "submit"
    /\ objects' = [objects EXCEPT ![d] = IF @ = "absent" THEN "whole" ELSE @]
    /\ request' = [request EXCEPT ![r].op = "stored"]
    /\ UNCHANGED <<finding, events, outbox, exports, workflow>>

\* _persist_checked_evidence: a create-only write keyed by the digest.  What an
\* interrupted write left behind fails the integrity check of every retry.
StoreEvidence(r) ==
    LET d == request[r].digest IN
    /\ request[r].op = "submit"
    /\ objects[d] # "partial"
    /\ objects' = [objects EXCEPT ![d] = "whole"]
    /\ request' = [request EXCEPT ![r].op = "stored"]
    /\ UNCHANGED <<finding, events, outbox, exports, workflow>>

\* The process stops while LocalEvidenceStore.persist is writing a new file.
StoreEvidenceTorn(r) ==
    LET d == request[r].digest IN
    /\ request[r].op = "submit"
    /\ objects[d] = "absent"
    /\ objects' = [objects EXCEPT ![d] = "partial"]
    /\ Done(r)
    /\ UNCHANGED <<finding, events, outbox, exports, workflow>>

\* _commit_evidence: rechecks the status under the row lock.  The branch that
\* recognises a duplicate writes nothing and is Abandon here.
CommitEvidence(r) ==
    LET f == request[r].finding
        a == request[r].actor
    IN
    /\ request[r].op = "stored"
    /\ Mutate(f, "evidence_submitted", {"in_progress"},
              [finding[f] EXCEPT !.status = "pending_verification",
                                 !.evidence_submitter = a])
    /\ evidence' = [evidence EXCEPT ![f] = @ \cup
                      {[at |-> NextSequence(f), sha256 |-> request[r].digest,
                        submitted_by |-> a]}]
    /\ Done(r)
    /\ UNCHANGED <<risks, treatments, approvals, actions, verifications,
                   closures, objects>>

\* verify: the independence check uses the row read before the transaction.
VerifyRead(r, f, a, decision) ==
    /\ HasRole(a, {"analyst", "approver", "ciso", "risk_committee"})
    /\ a \notin {finding[f].implementer, finding[f].evidence_submitter}
    /\ Read(r, "verify", f, a, [Idle EXCEPT !.decision = decision])

VerifyCommit(r) ==
    LET f == request[r].finding
        passed == request[r].decision = "passed"
    IN
    /\ request[r].op = "verify"
    /\ Mutate(f, IF passed THEN "verification_passed" ELSE "verification_failed",
              {"pending_verification"},
              [finding[f] EXCEPT !.status = IF passed THEN "verified"
                                                      ELSE "in_progress"])
    /\ verifications' = [verifications EXCEPT ![f] = @ \cup
                           {[at |-> NextSequence(f),
                             result |-> request[r].decision,
                             verifier |-> request[r].actor]}]
    /\ Done(r)
    /\ UNCHANGED <<risks, treatments, approvals, actions, evidence, closures,
                   objects>>

-----------------------------------------------------------------------------
BeginRequest(r, f) ==
    \/ CreateFinding(r, f) \/ ReassessFinding(r, f)
    \/ ProposeTreatment(r, f) \/ Close(r, f)
    \/ AssessRiskRead(r, f) \/ StartActionRead(r, f)
    \/ \E a \in Actor :
         \/ \E d \in Digest : SubmitEvidenceRead(r, f, a, d)
         \/ \E c \in {"approved", "rejected"} : ApproveTreatmentRead(r, f, a, c)
         \/ \E c \in {"passed", "failed"} : VerifyRead(r, f, a, c)

EndRequest(r) ==
    \/ AssessRiskCommit(r) \/ ApproveTreatmentCommit(r) \/ StartActionCommit(r)
    \/ StoreEvidence(r) \/ StoreEvidenceTorn(r) \/ CommitEvidence(r)
    \/ VerifyCommit(r) \/ Abandon(r)

Next == \E r \in Request : EndRequest(r) \/ \E f \in Finding : BeginRequest(r, f)

Spec == Init /\ [][Next]_vars

-----------------------------------------------------------------------------
(* Properties *)

Sequence == 1 .. MaxEvents

TrailType ==
    /\ events \in [Finding -> Seq(EventType)]
    /\ \A f \in Finding : Len(events[f]) <= MaxEvents
    /\ outbox \in [Finding -> SUBSET Sequence]
    /\ exports \in [Finding -> SUBSET Sequence]

RiskRow == [at: Sequence, owner: Owner \cup {None}]
TreatmentRow == [at: Sequence, treatment_type: Treatment]
ApprovalRow == [at: Sequence, approver: Actor, decision: {"approved", "rejected"}]
ActionRow == [at: Sequence, implementer: Implementer, owner: Owner \cup {None}]
EvidenceRow == [at: Sequence, sha256: Digest, submitted_by: Actor]
VerificationRow == [at: Sequence, verifier: Actor, result: {"passed", "failed"}]
ClosureRow == [at: Sequence]

WorkflowType ==
    /\ risks \in [Finding -> SUBSET RiskRow]
    /\ treatments \in [Finding -> SUBSET TreatmentRow]
    /\ approvals \in [Finding -> SUBSET ApprovalRow]
    /\ actions \in [Finding -> SUBSET ActionRow]
    /\ evidence \in [Finding -> SUBSET EvidenceRow]
    /\ verifications \in [Finding -> SUBSET VerificationRow]
    /\ closures \in [Finding -> SUBSET ClosureRow]

RequestType ==
    /\ request \in [Request -> Request_State]
    /\ \A r \in Request :
         LET q == request[r] IN
         /\ q.op # "idle" => q.finding \in Finding
         /\ q.op \in {"approve", "submit", "stored", "verify"} => q.actor \in Actor
         /\ q.op = "approve" => q.decision \in {"approved", "rejected"}
         /\ q.op = "verify" => q.decision \in {"passed", "failed"}
         /\ q.op \in {"submit", "stored"} => q.digest \in Digest

\* Every table holds rows of its type and every request carries what its
\* operation needs (the columns of governance_core.py's schema).
TypeOK ==
    /\ finding \in [Finding -> Finding_Row]
    /\ TrailType
    /\ WorkflowType
    /\ objects \in [Digest -> {"absent", "partial", "whole"}]
    /\ RequestType

Approvals(f) == {a \in approvals[f] : a.decision = "approved"}
Passes(f) == {v \in verifications[f] : v.result = "passed"}

AfterApproval == {"approved", "accepted", "in_progress", "pending_verification",
                  "verified", "closed"}

\* Exactly one approval, later than every proposal and earlier than every action.
ApprovedOnce(f) ==
    \E a \in Approvals(f) :
        /\ \A b \in Approvals(f) : b = a
        /\ \A t \in treatments[f] : t.at < a.at
        /\ \A x \in actions[f] : a.at < x.at

\* Nothing acts on a finding before its treatment is approved: from approval on,
\* approval_records holds exactly one "approved" row, written after the last
\* proposal and before the first action, so of two approvals in flight at once
\* one counts.  Which proposal its request had read is not part of this: an
\* approval read against an earlier proposal may commit against a later one, see
\* OnlyAcceptanceSkipsVerification.
ApprovalGate ==
    \A f \in Finding : finding[f].status \in AfterApproval => ApprovedOnce(f)

\* The last word of the verifiers: a pass that no later record overrides.
LastPass(f, v) == v \in Passes(f) /\ \A w \in verifications[f] : w.at <= v.at

\* A finding is closed once, and only after a passed verification that nothing
\* has reopened, unless no action was ever started on it (an accepted risk).
ClosureJustified ==
    \A f \in Finding :
        finding[f].status = "closed"
        => \E c \in closures[f] :
             /\ closures[f] = {c}
             /\ \/ actions[f] = {} /\ verifications[f] = {}
                \/ \E v \in verifications[f] : LastPass(f, v) /\ v.at < c.at

\* Evidence e was submitted after the last verification before v.
Judges(f, v, e) ==
    e.at < v.at /\ \A w \in verifications[f] : w.at < v.at => w.at < e.at

\* Every verification record judges an evidence submission that no earlier
\* record judged: two verifiers racing on one submission never both decide.
EachVerificationJudgesNewEvidence ==
    \A f \in Finding : \A v \in verifications[f] :
        \E e \in evidence[f] : Judges(f, v, e)

\* A retried or doubled submit_evidence never records the same content by the
\* same submitter twice, unless a verification failed in between.
NoDuplicateEvidence ==
    \A f \in Finding : \A d, e \in evidence[f] :
        d.sha256 = e.sha256 /\ d.submitted_by = e.submitted_by /\ d.at < e.at
        => \E v \in verifications[f] : v.result = "failed" /\ d.at < v.at /\ v.at < e.at

\* Metadata never points at evidence the object store does not hold whole,
\* wherever a process stops between the store and the database.
EvidenceIsStored ==
    \A f \in Finding : \A e \in evidence[f] : objects[e.sha256] = "whole"

StatusAfter(type) ==
    CASE type = "finding_created" -> {"open"}
      [] type = "risk_assessed" -> {"risk_assessed"}
      [] type = "treatment_proposed" -> {"pending_approval"}
      [] type = "treatment_approved" -> {"approved", "accepted"}
      [] type = "treatment_rejected" -> {"risk_assessed"}
      [] type = "action_started" -> {"in_progress"}
      [] type = "evidence_submitted" -> {"pending_verification"}
      [] type = "verification_passed" -> {"verified"}
      [] type = "verification_failed" -> {"in_progress"}
      [] type = "finding_closed" -> {"closed"}
      [] OTHER -> {}

\* Event n led to the current status and nothing but reassessments came after.
LedTo(f, n) ==
    /\ finding[f].status \in StatusAfter(events[f][n])
    /\ \A m \in (n + 1) .. Len(events[f]) : events[f][m] = "finding_reassessed"

\* The audit trail accounts for the state: the last event that is not a
\* reassessment is the one that led to the current status, and every event is
\* queued once for delivery and once for archiving.
TrailExplainsStatus ==
    \A f \in Finding : Exists(f) =>
        /\ \E n \in 1 .. Len(events[f]) : LedTo(f, n)
        /\ outbox[f] = 1 .. Len(events[f])
        /\ exports[f] = 1 .. Len(events[f])

\* A closed finding stays closed: requests that read it earlier can no longer
\* add a decision, an action, evidence or a verification.
ClosedIsFinal ==
    [][\A f \in Finding : finding[f].status = "closed" =>
         /\ finding'[f].status = "closed"
         /\ treatments'[f] = treatments[f] /\ approvals'[f] = approvals[f]
         /\ actions'[f] = actions[f] /\ evidence'[f] = evidence[f]
         /\ verifications'[f] = verifications[f] /\ closures'[f] = closures[f]]_vars

\* The documented rule read as written: nobody who submitted any evidence of a
\* finding verifies that finding.
NoSubmitterVerifies ==
    [][\A f \in Finding : \A v \in verifications'[f] \ verifications[f] :
         \A e \in evidence[f] : v.verifier # e.submitted_by]_vars

\* The approved status follows the treatment that is on record: a finding is
\* closed without verification only when its treatment is risk acceptance.
OnlyAcceptanceSkipsVerification ==
    \A f \in Finding :
        finding[f].status = "closed" /\ finding[f].treatment_type # "accept"
        => Passes(f) # {}

=============================================================================
