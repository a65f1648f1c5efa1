----------------------- MODULE GovernanceCore_proofs -----------------------
(***************************************************************************)
(* Proofs about GovernanceCore, for any sets of findings, actors, owners,  *)
(* treatments, evidence and concurrent requests and any assignment of      *)
(* roles.                                                                  *)
(***************************************************************************)
EXTENDS GovernanceCore, TLAPS

\* Facts about the constants in the form the leaves need.
LEMMA Constants ==
    /\ MaxEvents \in Nat
    /\ None \notin Finding /\ None \notin Identity /\ None \notin Actor
    /\ None \notin Owner /\ None \notin Implementer /\ None \notin Digest
  BY InputsAssumption, MaxEventsAssumption

LEMMA IdleState == Idle \in Request_State
  BY DEF Idle, Request_State, Operation, Decision

-----------------------------------------------------------------------------
(* Types *)

LEMMA InitType == Init => TypeOK
  <1> SUFFICES ASSUME Init PROVE TypeOK
    OBVIOUS
  <1>1. finding \in [Finding -> Finding_Row]
    BY DEF Init, NoFinding, Finding_Row, Status
  <1>2. TrailType
    <2>1. <<>> \in Seq(EventType) /\ Len(<<>>) = 0
      OBVIOUS
    <2> QED BY <2>1, Constants DEF Init, TrailType
  <1>3. WorkflowType
    BY DEF Init, WorkflowType
  <1>4. objects \in [Digest -> {"absent", "partial", "whole"}]
    BY DEF Init
  <1>5. RequestType
    BY IdleState DEF Init, RequestType, Idle
  <1> QED BY <1>1, <1>2, <1>3, <1>4, <1>5 DEF TypeOK

\* _event keeps the trail well typed and numbers it with a valid sequence.
LEMMA EventTyped ==
    ASSUME TrailType, NEW f \in Finding, NEW type \in EventType, Event(f, type)
    PROVE  TrailType' /\ NextSequence(f) \in Sequence
  <1>1. events[f] \in Seq(EventType) /\ Len(events[f]) \in Nat
    BY DEF TrailType
  <1>2. NextSequence(f) \in Sequence
    BY <1>1, Constants DEF Event, NextSequence, Sequence
  <1>3. Append(events[f], type) \in Seq(EventType)
        /\ Len(Append(events[f], type)) = Len(events[f]) + 1
    BY <1>1
  <1>4. events' \in [Finding -> Seq(EventType)]
        /\ \A g \in Finding : Len(events'[g]) <= MaxEvents
    BY <1>1, <1>3, Constants DEF TrailType, Event
  <1>5. outbox' \in [Finding -> SUBSET Sequence] /\ exports' \in [Finding -> SUBSET Sequence]
    BY <1>2 DEF TrailType, Event
  <1> QED BY <1>2, <1>4, <1>5 DEF TrailType

LEMMA DoneType ==
    ASSUME RequestType, NEW r \in Request, Done(r)
    PROVE  RequestType'
  BY IdleState DEF RequestType, Done, Idle

LEMMA ReadType ==
    ASSUME RequestType, NEW r \in Request, NEW f \in Finding,
           NEW q \in Request_State, q.finding = f,
           q.op \in {"approve", "submit", "stored", "verify"} => q.actor \in Actor,
           q.op = "approve" => q.decision \in {"approved", "rejected"},
           q.op = "verify" => q.decision \in {"passed", "failed"},
           q.op \in {"submit", "stored"} => q.digest \in Digest,
           request' = [request EXCEPT ![r] = q]
    PROVE  RequestType'
  BY DEF RequestType

\* _mutate keeps the finding rows and the trail well typed.
LEMMA MutateTyped ==
    ASSUME TypeOK, NEW f \in Finding, NEW type \in EventType, NEW allowed,
           NEW row \in Finding_Row, Mutate(f, type, allowed, row)
    PROVE  /\ finding' \in [Finding -> Finding_Row]
           /\ TrailType'
           /\ NextSequence(f) \in Sequence
  BY EventTyped DEF TypeOK, Mutate

LEMMA BeginType ==
    ASSUME TypeOK, NEW r \in Request, NEW f \in Finding, BeginRequest(r, f)
    PROVE  TypeOK'
  <1> USE DEF TypeOK
  <1>1. finding[f] \in Finding_Row
    OBVIOUS
  <1>2. CASE CreateFinding(r, f)
    <2> DEFINE new(i, o) == [NoFinding EXCEPT !.status = "open", !.identity = i,
                                              !.risk_owner = o]
    <2>1. PICK i \in Identity, o \in Owner : finding' = [finding EXCEPT ![f] = new(i, o)]
      BY <1>2 DEF CreateFinding
    <2>2. new(i, o) \in Finding_Row
      BY DEF NoFinding, Finding_Row, Status
    <2>3. finding' \in [Finding -> Finding_Row]
      BY <2>1, <2>2
    <2>4. TrailType'
      BY <1>2, EventTyped DEF CreateFinding, EventType
    <2> QED BY <1>2, <2>3, <2>4 DEF CreateFinding, workflow, WorkflowType, RequestType
  <1>3. CASE ReassessFinding(r, f)
    <2>1. finding' \in [Finding -> Finding_Row]
      BY <1>1, <1>3 DEF ReassessFinding, Finding_Row
    <2>2. TrailType'
      BY <1>3, EventTyped DEF ReassessFinding, EventType
    <2> QED BY <1>3, <2>1, <2>2 DEF ReassessFinding, workflow, WorkflowType, RequestType
  <1>4. CASE ProposeTreatment(r, f)
    <2>1. PICK t \in Treatment, o \in Owner :
            /\ Mutate(f, "treatment_proposed", {"risk_assessed"},
                      [finding[f] EXCEPT !.status = "pending_approval",
                                         !.treatment_type = t,
                                         !.action_owner = o])
            /\ treatments' = [treatments EXCEPT ![f] = @ \cup
                                {[at |-> NextSequence(f), treatment_type |-> t]}]
      BY <1>4 DEF ProposeTreatment
    <2>2. [finding[f] EXCEPT !.status = "pending_approval", !.treatment_type = t,
                             !.action_owner = o] \in Finding_Row
      BY <1>1 DEF Finding_Row, Status
    <2>3. finding' \in [Finding -> Finding_Row] /\ TrailType'
          /\ NextSequence(f) \in Sequence
      BY <2>1, <2>2, MutateTyped DEF EventType
    <2>4. treatments' \in [Finding -> SUBSET TreatmentRow]
      BY <2>1, <2>3 DEF WorkflowType, TreatmentRow
    <2> QED BY <1>4, <2>3, <2>4 DEF ProposeTreatment, WorkflowType, RequestType
  <1>5. CASE Close(r, f)
    <2>1. [finding[f] EXCEPT !.status = "closed"] \in Finding_Row
      BY <1>1 DEF Finding_Row, Status
    <2>2. finding' \in [Finding -> Finding_Row] /\ TrailType'
          /\ NextSequence(f) \in Sequence
      BY <1>5, <2>1, MutateTyped DEF Close, EventType
    <2>3. closures' \in [Finding -> SUBSET ClosureRow]
      BY <1>5, <2>2 DEF Close, WorkflowType, ClosureRow
    <2> QED BY <1>5, <2>2, <2>3 DEF Close, WorkflowType, RequestType
  <1>6. ASSUME NEW q \in Request_State, q.finding = f,
               q.op \in {"approve", "submit", "stored", "verify"} => q.actor \in Actor,
               q.op = "approve" => q.decision \in {"approved", "rejected"},
               q.op = "verify" => q.decision \in {"passed", "failed"},
               q.op \in {"submit", "stored"} => q.digest \in Digest,
               request' = [request EXCEPT ![r] = q],
               UNCHANGED <<finding, events, outbox, exports, workflow, objects>>
        PROVE  TypeOK'
    <2>1. RequestType'
      BY <1>6, ReadType
    <2> QED BY <1>6, <2>1 DEF workflow, WorkflowType, TrailType
  <1> DEFINE Kept(op, a, kept) == [kept EXCEPT !.op = op, !.finding = f, !.actor = a]
  <1>7. CASE AssessRiskRead(r, f)
    <2> DEFINE q == Kept("assess", None, [Idle EXCEPT !.owner = finding[f].risk_owner])
    <2>1. q \in Request_State /\ q.finding = f /\ q.op = "assess"
      BY <1>1 DEF Idle, Request_State, Operation, Decision, Finding_Row
    <2> QED BY <1>6, <1>7, <2>1 DEF AssessRiskRead, Read
  <1>8. CASE StartActionRead(r, f)
    <2> DEFINE q == Kept("start", None, [Idle EXCEPT !.owner = finding[f].action_owner])
    <2>1. q \in Request_State /\ q.finding = f /\ q.op = "start"
      BY <1>1 DEF Idle, Request_State, Operation, Decision, Finding_Row
    <2> QED BY <1>6, <1>8, <2>1 DEF StartActionRead, Read
  <1>9. ASSUME NEW a \in Actor, NEW d \in Digest, SubmitEvidenceRead(r, f, a, d)
        PROVE  TypeOK'
    <2> DEFINE q == Kept("submit", a, [Idle EXCEPT !.digest = d])
    <2>1. q \in Request_State /\ q.finding = f /\ q.op = "submit" /\ q.actor = a
          /\ q.digest = d
      BY DEF Idle, Request_State, Operation, Decision
    <2> QED BY <1>6, <1>9, <2>1 DEF SubmitEvidenceRead, Read
  <1>10. ASSUME NEW a \in Actor, NEW c \in {"approved", "rejected"},
                ApproveTreatmentRead(r, f, a, c)
         PROVE  TypeOK'
    <2> DEFINE q == Kept("approve", a, [Idle EXCEPT !.decision = c,
                           !.treatment_type = finding[f].treatment_type])
    <2>1. q \in Request_State /\ q.finding = f /\ q.op = "approve" /\ q.actor = a
          /\ q.decision = c
      BY <1>1 DEF Idle, Request_State, Operation, Decision, Finding_Row
    <2> QED BY <1>6, <1>10, <2>1 DEF ApproveTreatmentRead, Read
  <1>11. ASSUME NEW a \in Actor, NEW c \in {"passed", "failed"}, VerifyRead(r, f, a, c)
         PROVE  TypeOK'
    <2> DEFINE q == Kept("verify", a, [Idle EXCEPT !.decision = c])
    <2>1. q \in Request_State /\ q.finding = f /\ q.op = "verify" /\ q.actor = a
          /\ q.decision = c
      BY DEF Idle, Request_State, Operation, Decision
    <2> QED BY <1>6, <1>11, <2>1 DEF VerifyRead, Read
  <1> QED BY <1>2, <1>3, <1>4, <1>5, <1>7, <1>8, <1>9, <1>10, <1>11 DEF BeginRequest

LEMMA EndType ==
    ASSUME TypeOK, NEW r \in Request, EndRequest(r)
    PROVE  TypeOK'
  <1> USE DEF TypeOK
  <1> DEFINE f == request[r].finding
  <1>1. request[r] \in Request_State
    BY DEF RequestType
  <1>2. ASSUME request[r].op # "idle" PROVE f \in Finding /\ finding[f] \in Finding_Row
    BY <1>2 DEF RequestType
  <1>3. ASSUME NEW row \in Finding_Row, NEW type \in EventType, NEW allowed,
               request[r].op # "idle", Mutate(f, type, allowed, row), Done(r),
               WorkflowType', objects' = objects
        PROVE  TypeOK'
    BY <1>2, <1>3, MutateTyped, DoneType
  <1>4. CASE AssessRiskCommit(r)
    <2>1. request[r].op # "idle" /\ f \in Finding /\ finding[f] \in Finding_Row
      BY <1>2, <1>4 DEF AssessRiskCommit
    <2>2. [finding[f] EXCEPT !.status = "risk_assessed"] \in Finding_Row
      BY <2>1 DEF Finding_Row, Status
    <2>3. NextSequence(f) \in Sequence
      BY <1>4, <2>1, <2>2, MutateTyped DEF AssessRiskCommit, EventType
    <2>4. [at |-> NextSequence(f), owner |-> request[r].owner] \in RiskRow
      BY <1>1, <2>3 DEF RiskRow, Request_State
    <2>5. WorkflowType'
      BY <1>4, <2>1, <2>4 DEF AssessRiskCommit, WorkflowType
    <2> QED BY <1>3, <1>4, <2>1, <2>2, <2>5 DEF AssessRiskCommit, EventType
  <1>5. CASE ApproveTreatmentCommit(r)
    <2> DEFINE decision == request[r].decision
               status == TreatmentApprovalStatus(decision, request[r].treatment_type)
               type == IF decision = "approved" THEN "treatment_approved"
                                                ELSE "treatment_rejected"
    <2>1. request[r].op # "idle" /\ f \in Finding /\ finding[f] \in Finding_Row
      BY <1>2, <1>5 DEF ApproveTreatmentCommit
    <2>2. status \in Status
      BY DEF TreatmentApprovalStatus, Status
    <2>3. [finding[f] EXCEPT !.status = status] \in Finding_Row
      BY <2>1, <2>2 DEF Finding_Row
    <2>4. type \in EventType
      BY DEF EventType
    <2>5. Mutate(f, type, {"pending_approval"}, [finding[f] EXCEPT !.status = status])
      BY <1>5 DEF ApproveTreatmentCommit
    <2>6. NextSequence(f) \in Sequence
      BY <2>1, <2>3, <2>4, <2>5, MutateTyped
    <2>7. request[r].actor \in Actor /\ decision \in {"approved", "rejected"}
      BY <1>5 DEF ApproveTreatmentCommit, RequestType
    <2>8. [at |-> NextSequence(f), decision |-> decision,
           approver |-> request[r].actor] \in ApprovalRow
      BY <2>6, <2>7 DEF ApprovalRow
    <2>9. WorkflowType'
      BY <1>5, <2>1, <2>8 DEF ApproveTreatmentCommit, WorkflowType
    <2> QED BY <1>3, <1>5, <2>1, <2>3, <2>4, <2>5, <2>9 DEF ApproveTreatmentCommit
  <1>6. CASE StartActionCommit(r)
    <2>1. request[r].op # "idle" /\ f \in Finding /\ finding[f] \in Finding_Row
      BY <1>2, <1>6 DEF StartActionCommit
    <2>2. PICK i \in Implementer :
            /\ Mutate(f, "action_started", {"approved"},
                      [finding[f] EXCEPT !.status = "in_progress", !.implementer = i])
            /\ actions' = [actions EXCEPT ![f] = @ \cup
                             {[at |-> NextSequence(f), implementer |-> i,
                               owner |-> request[r].owner]}]
      BY <1>6 DEF StartActionCommit
    <2>3. [finding[f] EXCEPT !.status = "in_progress", !.implementer = i] \in Finding_Row
      BY <2>1 DEF Finding_Row, Status
    <2>4. NextSequence(f) \in Sequence
      BY <2>1, <2>2, <2>3, MutateTyped DEF EventType
    <2>5. [at |-> NextSequence(f), implementer |-> i, owner |-> request[r].owner]
            \in ActionRow
      BY <1>1, <2>4 DEF ActionRow, Request_State
    <2>6. WorkflowType'
      BY <1>6, <2>1, <2>2, <2>5 DEF StartActionCommit, WorkflowType
    <2> QED BY <1>3, <1>6, <2>1, <2>2, <2>3, <2>6 DEF StartActionCommit, EventType
  <1>7. CASE StoreEvidence(r)
    <2>1. request[r].digest \in Digest
      BY <1>7 DEF StoreEvidence, RequestType
    <2>2. RequestType'
      BY <1>1, <1>7 DEF StoreEvidence, RequestType, Request_State, Operation
    <2> QED BY <1>7, <2>1, <2>2 DEF StoreEvidence, workflow, WorkflowType, TrailType
  <1>8. CASE StoreEvidenceTorn(r)
    <2>1. request[r].digest \in Digest
      BY <1>8 DEF StoreEvidenceTorn, RequestType
    <2>2. RequestType'
      BY <1>8, DoneType DEF StoreEvidenceTorn
    <2> QED BY <1>8, <2>1, <2>2 DEF StoreEvidenceTorn, workflow, WorkflowType, TrailType
  <1>9. CASE CommitEvidence(r)
    <2>1. request[r].op # "idle" /\ f \in Finding /\ finding[f] \in Finding_Row
      BY <1>2, <1>9 DEF CommitEvidence
    <2>2. request[r].actor \in Actor /\ request[r].digest \in Digest
      BY <1>9 DEF CommitEvidence, RequestType
    <2>3. [finding[f] EXCEPT !.status = "pending_verification",
                             !.evidence_submitter = request[r].actor] \in Finding_Row
      BY <2>1, <2>2 DEF Finding_Row, Status
    <2>4. NextSequence(f) \in Sequence
      BY <1>9, <2>1, <2>3, MutateTyped DEF CommitEvidence, EventType
    <2>5. [at |-> NextSequence(f), sha256 |-> request[r].digest,
           submitted_by |-> request[r].actor] \in EvidenceRow
      BY <2>2, <2>4 DEF EvidenceRow
    <2>6. WorkflowType'
      BY <1>9, <2>1, <2>5 DEF CommitEvidence, WorkflowType
    <2> QED BY <1>3, <1>9, <2>1, <2>3, <2>6 DEF CommitEvidence, EventType
  <1>10. CASE VerifyCommit(r)
    <2> DEFINE passed == request[r].decision = "passed"
               type == IF passed THEN "verification_passed" ELSE "verification_failed"
               row == [finding[f] EXCEPT !.status = IF passed THEN "verified"
                                                             ELSE "in_progress"]
    <2>1. request[r].op # "idle" /\ f \in Finding /\ finding[f] \in Finding_Row
      BY <1>2, <1>10 DEF VerifyCommit
    <2>2. row \in Finding_Row
      BY <2>1 DEF Finding_Row, Status
    <2>3. type \in EventType
      BY DEF EventType
    <2>4. Mutate(f, type, {"pending_verification"}, row)
      BY <1>10 DEF VerifyCommit
    <2>5. NextSequence(f) \in Sequence
      BY <2>1, <2>2, <2>3, <2>4, MutateTyped
    <2>6. request[r].actor \in Actor /\ request[r].decision \in {"passed", "failed"}
      BY <1>10 DEF VerifyCommit, RequestType
    <2>7. [at |-> NextSequence(f), result |-> request[r].decision,
           verifier |-> request[r].actor] \in VerificationRow
      BY <2>5, <2>6 DEF VerificationRow
    <2>8. WorkflowType'
      BY <1>10, <2>1, <2>7 DEF VerifyCommit, WorkflowType
    <2> QED BY <1>3, <1>10, <2>1, <2>2, <2>3, <2>4, <2>8 DEF VerifyCommit
  <1>11. CASE Abandon(r)
    BY <1>11, DoneType DEF Abandon, workflow, WorkflowType, TrailType
  <1> QED BY <1>4, <1>5, <1>6, <1>7, <1>8, <1>9, <1>10, <1>11 DEF EndRequest

LEMMA StutterType == TypeOK /\ UNCHANGED vars => TypeOK'
  BY DEF TypeOK, vars, workflow, TrailType, WorkflowType, RequestType

\* Every reachable state of the governance store is well typed.
THEOREM TypeCorrect == Spec => []TypeOK
  <1>1. TypeOK /\ [Next]_vars => TypeOK'
    BY BeginType, EndType, StutterType DEF Next
  <1> QED BY <1>1, InitType, PTL DEF Spec

-----------------------------------------------------------------------------
(* Safety.  None of the invariants is inductive alone.  What is missing is   *)
(* what a status implies about the tables (nothing is approved, started,     *)
(* submitted or verified ahead of its status), that a row written in a       *)
(* transaction is numbered after every row that was there, and what a        *)
(* request has already done to the object store.                             *)

\* Rows carry the number of an event that has been written.
Numbered(f) ==
    /\ \A x \in treatments[f] : x.at <= Len(events[f])
    /\ \A x \in approvals[f] : x.at <= Len(events[f])
    /\ \A x \in actions[f] : x.at <= Len(events[f])
    /\ \A x \in evidence[f] : x.at <= Len(events[f])
    /\ \A x \in verifications[f] : x.at <= Len(events[f])

\* Nothing is recorded ahead of the status.
NotAhead(f) ==
    /\ finding[f].status \notin AfterApproval => Approvals(f) = {}
    /\ finding[f].status \notin AfterApproval \ {"approved", "accepted"} =>
          actions[f] = {} /\ evidence[f] = {} /\ verifications[f] = {}
    /\ finding[f].status # "closed" => closures[f] = {}

\* From approval on there is one approval in force.
Gate(f) == finding[f].status \in AfterApproval => ApprovedOnce(f)

\* Evidence that awaits its verification is newer than every verification; work
\* that is in progress follows a failed verification of all evidence so far.
Pending(f) ==
    /\ finding[f].status = "pending_verification" =>
          \E e \in evidence[f] : \A v \in verifications[f] : v.at < e.at
    /\ finding[f].status = "in_progress" =>
          \A e \in evidence[f] : \E v \in verifications[f] :
              v.result = "failed" /\ e.at < v.at
    /\ finding[f].status = "verified" => \E v \in verifications[f] : LastPass(f, v)

Judged(f) == \A v \in verifications[f] : \E e \in evidence[f] : Judges(f, v, e)

Resubmitted(f) ==
    \A d, e \in evidence[f] :
        d.at < e.at => \E v \in verifications[f] :
                          v.result = "failed" /\ d.at < v.at /\ v.at < e.at

Closed(f) ==
    finding[f].status = "closed"
    => \E c \in closures[f] :
         /\ closures[f] = {c}
         /\ \/ actions[f] = {} /\ verifications[f] = {}
            \/ \E v \in verifications[f] : LastPass(f, v) /\ v.at < c.at

Trail(f) ==
    /\ Exists(f) => \E n \in 1 .. Len(events[f]) : LedTo(f, n)
    /\ outbox[f] = 1 .. Len(events[f])
    /\ exports[f] = 1 .. Len(events[f])

FindingInv(f) ==
    /\ Numbered(f) /\ NotAhead(f) /\ Gate(f) /\ Pending(f) /\ Judged(f)
    /\ Resubmitted(f) /\ Closed(f) /\ Trail(f)

FindingsInv == \A f \in Finding : FindingInv(f)

\* What is stored stays stored, and a request about to commit has stored it.
StoredInv ==
    /\ EvidenceIsStored
    /\ \A r \in Request :
         request[r].op = "stored" => objects[request[r].digest] = "whole"

\* The inductive invariant.
IInv == TypeOK /\ StoredInv /\ FindingsInv

-----------------------------------------------------------------------------
(* What a step leaves alone *)

\* The part of the state FindingInv(g) speaks of.
Same(g) ==
    /\ finding'[g].status = finding[g].status /\ events'[g] = events[g]
    /\ outbox'[g] = outbox[g] /\ exports'[g] = exports[g]
    /\ treatments'[g] = treatments[g] /\ approvals'[g] = approvals[g]
    /\ actions'[g] = actions[g] /\ evidence'[g] = evidence[g]
    /\ verifications'[g] = verifications[g] /\ closures'[g] = closures[g]

LEMMA Frame ==
    ASSUME NEW g \in Finding, FindingInv(g), Same(g)
    PROVE  FindingInv(g)'
  BY DEF FindingInv, Same, Numbered, NotAhead, Gate, Pending, Judged, Resubmitted,
     Closed, Trail, ApprovedOnce, Approvals, LastPass, Passes, Judges, LedTo, Exists

\* _event appends one event to one finding, numbers it, and queues it twice.
LEMMA EventFacts ==
    ASSUME TrailType, NEW f \in Finding, NEW type, Event(f, type)
    PROVE  /\ Len(events[f]) \in Nat
           /\ NextSequence(f) = Len(events[f]) + 1
           /\ Len(events'[f]) = NextSequence(f)
           /\ events'[f][NextSequence(f)] = type
           /\ \A n \in 1 .. Len(events[f]) : events'[f][n] = events[f][n]
           /\ outbox[f] = 1 .. Len(events[f]) => outbox'[f] = 1 .. Len(events'[f])
           /\ exports[f] = 1 .. Len(events[f]) => exports'[f] = 1 .. Len(events'[f])
           /\ \A g \in Finding \ {f} : events'[g] = events[g] /\ outbox'[g] = outbox[g]
                                       /\ exports'[g] = exports[g]
  <1>1. events[f] \in Seq(EventType) /\ Len(events[f]) \in Nat
    BY DEF TrailType
  <1>2. events'[f] = Append(events[f], type)
        /\ outbox'[f] = outbox[f] \cup {NextSequence(f)}
        /\ exports'[f] = exports[f] \cup {NextSequence(f)}
    BY DEF TrailType, Event
  <1>3. Len(events'[f]) = Len(events[f]) + 1
        /\ events'[f][Len(events[f]) + 1] = type
        /\ \A n \in 1 .. Len(events[f]) : events'[f][n] = events[f][n]
    BY <1>1, <1>2
  <1>4. (1 .. Len(events[f])) \cup {Len(events[f]) + 1} = 1 .. (Len(events[f]) + 1)
    BY <1>1
  <1>5. \A g \in Finding \ {f} : events'[g] = events[g] /\ outbox'[g] = outbox[g]
                                 /\ exports'[g] = exports[g]
    BY DEF TrailType, Event
  <1> QED BY <1>1, <1>2, <1>3, <1>4, <1>5 DEF NextSequence

\* A step that writes an event other than a reassessment explains the new status.
LEMMA TrailKept ==
    ASSUME TypeOK, NEW f \in Finding, FindingInv(f), NEW type, Event(f, type),
           finding'[f].status \in StatusAfter(type)
    PROVE  Trail(f)'
  <1>1. PICK n \in Nat : /\ n \in 1 .. Len(events'[f]) /\ Len(events'[f]) = n
                         /\ events'[f][n] = type
    BY EventFacts DEF TypeOK
  <1>2. LedTo(f, n)'
    BY <1>1 DEF LedTo
  <1>3. outbox'[f] = 1 .. Len(events'[f]) /\ exports'[f] = 1 .. Len(events'[f])
    BY EventFacts DEF TypeOK, FindingInv, Trail
  <1> QED BY <1>1, <1>2, <1>3 DEF Trail, Exists

-----------------------------------------------------------------------------
(* One lemma per action that writes an event *)

\* The tables of f that FindingInv(f) speaks of.
SameTables(f) ==
    /\ treatments'[f] = treatments[f] /\ approvals'[f] = approvals[f]
    /\ actions'[f] = actions[f] /\ evidence'[f] = evidence[f]
    /\ verifications'[f] = verifications[f] /\ closures'[f] = closures[f]

LEMMA CreateKeeps ==
    ASSUME IInv, NEW r \in Request, NEW f \in Finding, CreateFinding(r, f)
    PROVE  FindingsInv'
  <1>1. finding'[f].status = "open" /\ \A g \in Finding \ {f} : finding'[g] = finding[g]
    BY DEF CreateFinding, NoFinding, IInv, TypeOK
  <1>2. finding[f].status = "absent" /\ SameTables(f)
    BY DEF CreateFinding, Exists, workflow, SameTables
  <1>3. Event(f, "finding_created")
    BY DEF CreateFinding
  <1>4. FindingInv(f) /\ TypeOK
    BY DEF IInv, FindingsInv
  <1>5. Len(events[f]) \in Nat /\ Len(events'[f]) = Len(events[f]) + 1
    BY <1>3, <1>4, EventFacts DEF TypeOK
  <1>6. Numbered(f)'
    BY <1>2, <1>4, <1>5 DEF FindingInv, Numbered, SameTables, TypeOK, WorkflowType,
       TreatmentRow, ApprovalRow, ActionRow, EvidenceRow, VerificationRow, Sequence
  <1>7. /\ NotAhead(f)' /\ Gate(f)' /\ Pending(f)' /\ Judged(f)' /\ Resubmitted(f)'
        /\ Closed(f)'
    BY <1>1, <1>2, <1>4 DEF FindingInv, NotAhead, Gate, Pending, Judged, Resubmitted,
       Closed, SameTables, AfterApproval, Approvals
  <1>8. Trail(f)'
    BY <1>1, <1>3, <1>4, TrailKept DEF StatusAfter
  <1>9. \A g \in Finding \ {f} : Same(g)
    BY <1>1, <1>3, <1>4, EventFacts DEF CreateFinding, workflow, Same, TypeOK
  <1> QED BY <1>6, <1>7, <1>8, <1>9, Frame
      DEF FindingInv, FindingsInv, IInv

LEMMA ReassessKeeps ==
    ASSUME IInv, NEW r \in Request, NEW f \in Finding, ReassessFinding(r, f)
    PROVE  FindingsInv'
  <1>1. finding'[f].status = finding[f].status
        /\ \A g \in Finding \ {f} : finding'[g] = finding[g]
    BY DEF ReassessFinding, IInv, TypeOK, Finding_Row
  <1>2. SameTables(f)
    BY DEF ReassessFinding, workflow, SameTables
  <1>3. Event(f, "finding_reassessed")
    BY DEF ReassessFinding
  <1>4. FindingInv(f) /\ TypeOK /\ Exists(f)
    BY DEF IInv, FindingsInv, ReassessFinding
  <1>5. Len(events[f]) \in Nat /\ Len(events'[f]) = Len(events[f]) + 1
    BY <1>3, <1>4, EventFacts DEF TypeOK
  <1>6. Numbered(f)'
    BY <1>2, <1>4, <1>5 DEF FindingInv, Numbered, SameTables, TypeOK, WorkflowType,
       TreatmentRow, ApprovalRow, ActionRow, EvidenceRow, VerificationRow, Sequence
  <1>7. /\ NotAhead(f)' /\ Gate(f)' /\ Pending(f)' /\ Judged(f)' /\ Resubmitted(f)'
        /\ Closed(f)'
    BY <1>1, <1>2, <1>4 DEF FindingInv, NotAhead, Gate, Pending, Judged, Resubmitted,
       Closed, SameTables, Approvals, ApprovedOnce, LastPass, Passes, Judges
  <1>8. Trail(f)'
    <2>1. PICK n \in 1 .. Len(events[f]) : LedTo(f, n)
      BY <1>4 DEF FindingInv, Trail
    <2>2. /\ events'[f][Len(events'[f])] = "finding_reassessed"
          /\ \A m \in 1 .. Len(events[f]) : events'[f][m] = events[f][m]
      BY <1>3, <1>4, EventFacts DEF TypeOK
    <2>3. n \in 1 .. Len(events'[f]) /\ LedTo(f, n)'
      <3>1. ASSUME NEW m \in (n + 1) .. Len(events'[f])
            PROVE  events'[f][m] = "finding_reassessed"
        <4>1. m = Len(events'[f]) \/ m \in (n + 1) .. Len(events[f])
          BY <1>5
        <4> QED BY <1>5, <2>1, <2>2, <4>1 DEF LedTo
      <3> QED BY <1>1, <1>5, <2>1, <2>2, <3>1 DEF LedTo
    <2>4. outbox'[f] = 1 .. Len(events'[f]) /\ exports'[f] = 1 .. Len(events'[f])
      BY <1>3, <1>4, EventFacts DEF TypeOK, FindingInv, Trail
    <2> QED BY <2>3, <2>4 DEF Trail
  <1>9. \A g \in Finding \ {f} : Same(g)
    BY <1>1, <1>3, <1>4, EventFacts DEF ReassessFinding, workflow, Same, TypeOK
  <1> QED BY <1>6, <1>7, <1>8, <1>9, Frame
      DEF FindingInv, FindingsInv, IInv

LEMMA AssessKeeps ==
    ASSUME IInv, NEW r \in Request, AssessRiskCommit(r)
    PROVE  FindingsInv'
  <1>1. PICK f \in Finding : f = request[r].finding
    BY DEF AssessRiskCommit, IInv, TypeOK, RequestType
  <1>2. /\ finding[f].status = "open" /\ finding'[f].status = "risk_assessed"
        /\ \A g \in Finding \ {f} : finding'[g] = finding[g]
        /\ Event(f, "risk_assessed")
    BY <1>1 DEF AssessRiskCommit, Mutate, IInv, TypeOK, Finding_Row, Status
  <1>3. SameTables(f)
    BY DEF AssessRiskCommit, SameTables
  <1>4. FindingInv(f) /\ TypeOK
    BY DEF IInv, FindingsInv
  <1>5. Len(events[f]) \in Nat /\ Len(events'[f]) = Len(events[f]) + 1
    BY <1>2, <1>4, EventFacts DEF TypeOK
  <1>6. Numbered(f)'
    BY <1>3, <1>4, <1>5 DEF FindingInv, Numbered, SameTables, TypeOK, WorkflowType,
       TreatmentRow, ApprovalRow, ActionRow, EvidenceRow, VerificationRow, Sequence
  <1>7. /\ NotAhead(f)' /\ Gate(f)' /\ Pending(f)' /\ Judged(f)' /\ Resubmitted(f)'
        /\ Closed(f)'
    BY <1>2, <1>3, <1>4 DEF FindingInv, NotAhead, Gate, Pending, Judged, Resubmitted,
       Closed, SameTables, AfterApproval, Approvals
  <1>8. Trail(f)'
    BY <1>2, <1>4, TrailKept DEF StatusAfter
  <1>9. \A g \in Finding \ {f} : Same(g)
    BY <1>1, <1>2, <1>4, EventFacts DEF AssessRiskCommit, Same, TypeOK
  <1> QED BY <1>6, <1>7, <1>8, <1>9, Frame
      DEF FindingInv, FindingsInv, IInv

LEMMA ProposeKeeps ==
    ASSUME IInv, NEW r \in Request, NEW f \in Finding, ProposeTreatment(r, f)
    PROVE  FindingsInv'
  <1>1. PICK type \in Treatment :
          treatments' = [treatments EXCEPT ![f] = @ \cup
                           {[at |-> NextSequence(f), treatment_type |-> type]}]
    BY DEF ProposeTreatment
  <1>2. PICK t : t = [at |-> NextSequence(f), treatment_type |-> type]
    OBVIOUS
  <1>3. /\ finding[f].status = "risk_assessed" /\ finding'[f].status = "pending_approval"
        /\ \A g \in Finding \ {f} : finding'[g] = finding[g]
        /\ Event(f, "treatment_proposed")
    BY DEF ProposeTreatment, Mutate, IInv, TypeOK, Finding_Row
  <1>4. /\ treatments'[f] = treatments[f] \cup {t}
        /\ approvals'[f] = approvals[f] /\ actions'[f] = actions[f]
        /\ evidence'[f] = evidence[f] /\ verifications'[f] = verifications[f]
        /\ closures'[f] = closures[f]
        /\ \A g \in Finding \ {f} : treatments'[g] = treatments[g]
    BY <1>1, <1>2 DEF ProposeTreatment, IInv, TypeOK, WorkflowType
  <1>5. FindingInv(f) /\ TypeOK
    BY DEF IInv, FindingsInv
  <1>6. /\ Len(events[f]) \in Nat /\ Len(events'[f]) = Len(events[f]) + 1
        /\ t.at = Len(events[f]) + 1
    BY <1>2, <1>3, <1>5, EventFacts DEF TypeOK
  <1>7. Numbered(f)'
    BY <1>4, <1>5, <1>6 DEF FindingInv, Numbered, TypeOK, WorkflowType,
       TreatmentRow, ApprovalRow, ActionRow, EvidenceRow, VerificationRow, Sequence
  <1>8. /\ NotAhead(f)' /\ Gate(f)' /\ Pending(f)' /\ Judged(f)' /\ Resubmitted(f)'
        /\ Closed(f)'
    BY <1>3, <1>4, <1>5 DEF FindingInv, NotAhead, Gate, Pending, Judged, Resubmitted,
       Closed, AfterApproval, Approvals
  <1>9. Trail(f)'
    BY <1>3, <1>5, TrailKept DEF StatusAfter
  <1>10. \A g \in Finding \ {f} : Same(g)
    BY <1>3, <1>4, <1>5, EventFacts DEF ProposeTreatment, Same, TypeOK
  <1> QED BY <1>7, <1>8, <1>9, <1>10, Frame
      DEF FindingInv, FindingsInv, IInv

LEMMA ApproveKeeps ==
    ASSUME IInv, NEW r \in Request, ApproveTreatmentCommit(r)
    PROVE  FindingsInv'
  <1>1. PICK f \in Finding : f = request[r].finding
    BY DEF ApproveTreatmentCommit, IInv, TypeOK, RequestType
  <1>2. PICK a : a = [at |-> NextSequence(f), decision |-> request[r].decision,
                      approver |-> request[r].actor]
    OBVIOUS
  <1>3. /\ finding[f].status = "pending_approval"
        /\ finding'[f].status = TreatmentApprovalStatus(request[r].decision,
                                                        request[r].treatment_type)
        /\ \A g \in Finding \ {f} : finding'[g] = finding[g]
        /\ Event(f, IF request[r].decision = "approved" THEN "treatment_approved"
                                                       ELSE "treatment_rejected")
    BY <1>1 DEF ApproveTreatmentCommit, Mutate, IInv, TypeOK, Finding_Row
  <1>4. /\ approvals'[f] = approvals[f] \cup {a}
        /\ treatments'[f] = treatments[f] /\ actions'[f] = actions[f]
        /\ evidence'[f] = evidence[f] /\ verifications'[f] = verifications[f]
        /\ closures'[f] = closures[f]
        /\ \A g \in Finding \ {f} : approvals'[g] = approvals[g]
    BY <1>1, <1>2 DEF ApproveTreatmentCommit, IInv, TypeOK, WorkflowType
  <1>5. FindingInv(f) /\ TypeOK
    BY DEF IInv, FindingsInv
  <1>6. /\ Len(events[f]) \in Nat /\ Len(events'[f]) = Len(events[f]) + 1
        /\ a.at = Len(events[f]) + 1
    BY <1>2, <1>3, <1>5, EventFacts DEF TypeOK
  <1>7. /\ a.decision \in {"approved", "rejected"}
        /\ a.decision = "approved" <=> finding'[f].status \in {"approved", "accepted"}
        /\ finding'[f].status \in {"approved", "accepted", "risk_assessed"}
    BY <1>2, <1>3, <1>5 DEF TreatmentApprovalStatus, TypeOK, RequestType,
       ApproveTreatmentCommit
  <1>8. actions[f] = {} /\ evidence[f] = {} /\ verifications[f] = {}
        /\ closures[f] = {} /\ Approvals(f) = {}
    BY <1>3, <1>5 DEF FindingInv, NotAhead, AfterApproval
  <1>9. Numbered(f)'
    BY <1>4, <1>5, <1>6 DEF FindingInv, Numbered, TypeOK, WorkflowType,
       TreatmentRow, ApprovalRow, ActionRow, EvidenceRow, VerificationRow, Sequence
  <1>10. Approvals(f)' = IF a.decision = "approved" THEN {a} ELSE {}
    BY <1>4, <1>8 DEF Approvals
  <1>11. NotAhead(f)'
    BY <1>4, <1>7, <1>8, <1>10 DEF NotAhead, AfterApproval
  <1>12. Gate(f)'
    <2> SUFFICES ASSUME finding'[f].status \in AfterApproval PROVE ApprovedOnce(f)'
      BY DEF Gate
    <2>1. Approvals(f)' = {a}
      BY <1>7, <1>10 DEF AfterApproval
    <2>2. \A t \in treatments'[f] : t.at < a.at
      BY <1>4, <1>5, <1>6 DEF FindingInv, Numbered, TypeOK, WorkflowType,
       TreatmentRow, ApprovalRow, ActionRow, EvidenceRow, VerificationRow, Sequence
    <2> QED BY <1>4, <1>8, <2>1, <2>2 DEF ApprovedOnce
  <1>13. Pending(f)' /\ Judged(f)' /\ Resubmitted(f)' /\ Closed(f)'
    BY <1>4, <1>7, <1>8 DEF Pending, Judged, Resubmitted, Closed
  <1>14. Trail(f)'
    <2>1. CASE request[r].decision = "approved"
      BY <1>2, <1>3, <1>5, <1>7, <2>1, TrailKept DEF StatusAfter
    <2>2. CASE request[r].decision # "approved"
      <3>1. finding'[f].status = "risk_assessed" /\ Event(f, "treatment_rejected")
        BY <1>2, <1>3, <1>7, <2>2
      <3> QED BY <1>5, <3>1, TrailKept DEF StatusAfter
    <2> QED BY <2>1, <2>2
  <1>15. \A g \in Finding \ {f} : Same(g)
    BY <1>3, <1>4, <1>5, EventFacts DEF ApproveTreatmentCommit, Same, TypeOK
  <1> QED BY <1>9, <1>11, <1>12, <1>13, <1>14, <1>15, Frame
      DEF FindingInv, FindingsInv, IInv

LEMMA StartKeeps ==
    ASSUME IInv, NEW r \in Request, StartActionCommit(r)
    PROVE  FindingsInv'
  <1>1. PICK f \in Finding : f = request[r].finding
    BY DEF StartActionCommit, IInv, TypeOK, RequestType
  <1>2. PICK i \in Implementer :
          actions' = [actions EXCEPT ![f] = @ \cup
                        {[at |-> NextSequence(f), implementer |-> i,
                          owner |-> request[r].owner]}]
    BY <1>1 DEF StartActionCommit
  <1>3. PICK x : x = [at |-> NextSequence(f), implementer |-> i,
                      owner |-> request[r].owner]
    OBVIOUS
  <1>4. /\ finding[f].status = "approved" /\ finding'[f].status = "in_progress"
        /\ \A g \in Finding \ {f} : finding'[g] = finding[g]
        /\ Event(f, "action_started")
    BY <1>1 DEF StartActionCommit, Mutate, IInv, TypeOK, Finding_Row
  <1>5. /\ actions'[f] = actions[f] \cup {x}
        /\ treatments'[f] = treatments[f] /\ approvals'[f] = approvals[f]
        /\ evidence'[f] = evidence[f] /\ verifications'[f] = verifications[f]
        /\ closures'[f] = closures[f]
        /\ \A g \in Finding \ {f} : actions'[g] = actions[g]
    BY <1>2, <1>3 DEF StartActionCommit, IInv, TypeOK, WorkflowType
  <1>6. FindingInv(f) /\ TypeOK
    BY DEF IInv, FindingsInv
  <1>7. /\ Len(events[f]) \in Nat /\ Len(events'[f]) = Len(events[f]) + 1
        /\ x.at = Len(events[f]) + 1
    BY <1>3, <1>4, <1>6, EventFacts DEF TypeOK
  <1>8. evidence[f] = {} /\ verifications[f] = {} /\ closures[f] = {} /\ actions[f] = {}
    BY <1>4, <1>6 DEF FindingInv, NotAhead, AfterApproval
  <1>9. Numbered(f)'
    BY <1>5, <1>6, <1>7 DEF FindingInv, Numbered, TypeOK, WorkflowType,
       TreatmentRow, ApprovalRow, ActionRow, EvidenceRow, VerificationRow, Sequence
  <1>10. NotAhead(f)'
    BY <1>4, <1>5, <1>8 DEF NotAhead, AfterApproval
  <1>11. Gate(f)'
    <2>1. PICK a \in Approvals(f) : /\ \A b \in Approvals(f) : b = a
                                    /\ \A t \in treatments[f] : t.at < a.at
      BY <1>4, <1>6 DEF FindingInv, Gate, ApprovedOnce, AfterApproval
    <2>2. a.at < x.at
      BY <1>6, <1>7, <2>1 DEF Approvals, FindingInv, Numbered, TypeOK, WorkflowType,
       TreatmentRow, ApprovalRow, ActionRow, EvidenceRow, VerificationRow, Sequence
    <2>3. Approvals(f)' = Approvals(f) /\ actions'[f] = {x}
      BY <1>5, <1>8 DEF Approvals
    <2> QED BY <1>5, <2>1, <2>2, <2>3 DEF Gate, ApprovedOnce
  <1>12. Pending(f)' /\ Judged(f)' /\ Resubmitted(f)' /\ Closed(f)'
    BY <1>4, <1>5, <1>8 DEF Pending, Judged, Resubmitted, Closed
  <1>13. Trail(f)'
    BY <1>4, <1>6, TrailKept DEF StatusAfter
  <1>14. \A g \in Finding \ {f} : Same(g)
    BY <1>4, <1>5, <1>6, EventFacts DEF StartActionCommit, Same, TypeOK
  <1> QED BY <1>9, <1>10, <1>11, <1>12, <1>13, <1>14, Frame
      DEF FindingInv, FindingsInv, IInv

LEMMA SubmitKeeps ==
    ASSUME IInv, NEW r \in Request, CommitEvidence(r)
    PROVE  FindingsInv'
  <1>1. PICK f \in Finding : f = request[r].finding
    BY DEF CommitEvidence, IInv, TypeOK, RequestType
  <1>2. PICK x : x = [at |-> NextSequence(f), sha256 |-> request[r].digest,
                      submitted_by |-> request[r].actor]
    OBVIOUS
  <1>3. /\ finding[f].status = "in_progress"
        /\ finding'[f].status = "pending_verification"
        /\ \A g \in Finding \ {f} : finding'[g] = finding[g]
        /\ Event(f, "evidence_submitted")
    BY <1>1 DEF CommitEvidence, Mutate, IInv, TypeOK, Finding_Row
  <1>4. /\ evidence'[f] = evidence[f] \cup {x}
        /\ treatments'[f] = treatments[f] /\ approvals'[f] = approvals[f]
        /\ actions'[f] = actions[f] /\ verifications'[f] = verifications[f]
        /\ closures'[f] = closures[f]
        /\ \A g \in Finding \ {f} : evidence'[g] = evidence[g]
    BY <1>1, <1>2 DEF CommitEvidence, IInv, TypeOK, WorkflowType
  <1>5. FindingInv(f) /\ TypeOK
    BY DEF IInv, FindingsInv
  <1>6. /\ Len(events[f]) \in Nat /\ Len(events'[f]) = Len(events[f]) + 1
        /\ x.at = Len(events[f]) + 1
    BY <1>2, <1>3, <1>5, EventFacts DEF TypeOK
  <1>7. /\ \A v \in verifications[f] : v.at \in Nat /\ v.at < x.at
        /\ \A e \in evidence[f] : e.at \in Nat /\ e.at < x.at
    BY <1>5, <1>6 DEF FindingInv, Numbered, TypeOK, WorkflowType,
       TreatmentRow, ApprovalRow, ActionRow, EvidenceRow, VerificationRow, Sequence
  <1>8. Numbered(f)'
    BY <1>4, <1>5, <1>6 DEF FindingInv, Numbered, TypeOK, WorkflowType,
       TreatmentRow, ApprovalRow, ActionRow, EvidenceRow, VerificationRow, Sequence
  <1>9. NotAhead(f)' /\ Gate(f)' /\ Closed(f)'
    BY <1>3, <1>4, <1>5 DEF FindingInv, NotAhead, Gate, Closed, AfterApproval,
       ApprovedOnce, Approvals
  <1>10. Pending(f)'
    BY <1>3, <1>4, <1>7 DEF Pending
  <1>11. Judged(f)'
    BY <1>4, <1>5 DEF FindingInv, Judged, Judges
  <1>12. Resubmitted(f)'
    <2> SUFFICES ASSUME NEW d \in evidence'[f], NEW e \in evidence'[f], d.at < e.at
                 PROVE  \E v \in verifications'[f] :
                           v.result = "failed" /\ d.at < v.at /\ v.at < e.at
      BY DEF Resubmitted
    <2>1. CASE e = x
      <3>1. d \in evidence[f]
        BY <1>4, <1>6, <2>1
      <3>2. PICK v \in verifications[f] : v.result = "failed" /\ d.at < v.at
        BY <1>3, <1>5, <3>1 DEF FindingInv, Pending
      <3> QED BY <1>4, <1>7, <2>1, <3>2
    <2>2. CASE e # x
      <3>1. e \in evidence[f] /\ d \in evidence[f]
        BY <1>4, <1>6, <1>7, <2>2
      <3> QED BY <1>4, <1>5, <3>1 DEF FindingInv, Resubmitted
    <2> QED BY <2>1, <2>2
  <1>13. Trail(f)'
    BY <1>3, <1>5, TrailKept DEF StatusAfter
  <1>14. \A g \in Finding \ {f} : Same(g)
    BY <1>3, <1>4, <1>5, EventFacts DEF CommitEvidence, Same, TypeOK
  <1> QED BY <1>8, <1>9, <1>10, <1>11, <1>12, <1>13, <1>14, Frame
      DEF FindingInv, FindingsInv, IInv

LEMMA VerifyKeeps ==
    ASSUME IInv, NEW r \in Request, VerifyCommit(r)
    PROVE  FindingsInv'
  <1>1. PICK f \in Finding : f = request[r].finding
    BY DEF VerifyCommit, IInv, TypeOK, RequestType
  <1>2. PICK x : x = [at |-> NextSequence(f), result |-> request[r].decision,
                      verifier |-> request[r].actor]
    OBVIOUS
  <1>3. /\ finding[f].status = "pending_verification"
        /\ finding'[f].status = IF x.result = "passed" THEN "verified" ELSE "in_progress"
        /\ \A g \in Finding \ {f} : finding'[g] = finding[g]
        /\ Event(f, IF x.result = "passed" THEN "verification_passed"
                                           ELSE "verification_failed")
    BY <1>1, <1>2 DEF VerifyCommit, Mutate, IInv, TypeOK, Finding_Row
  <1>4. /\ verifications'[f] = verifications[f] \cup {x}
        /\ treatments'[f] = treatments[f] /\ approvals'[f] = approvals[f]
        /\ actions'[f] = actions[f] /\ evidence'[f] = evidence[f]
        /\ closures'[f] = closures[f]
        /\ \A g \in Finding \ {f} : verifications'[g] = verifications[g]
    BY <1>1, <1>2 DEF VerifyCommit, IInv, TypeOK, WorkflowType
  <1>5. FindingInv(f) /\ TypeOK
    BY DEF IInv, FindingsInv
  <1>6. /\ Len(events[f]) \in Nat /\ Len(events'[f]) = Len(events[f]) + 1
        /\ x.at = Len(events[f]) + 1
    BY <1>2, <1>3, <1>5, EventFacts DEF TypeOK
  <1>7. /\ \A v \in verifications[f] : v.at \in Nat /\ v.at < x.at
        /\ \A e \in evidence[f] : e.at \in Nat /\ e.at < x.at
    BY <1>5, <1>6 DEF FindingInv, Numbered, TypeOK, WorkflowType,
       TreatmentRow, ApprovalRow, ActionRow, EvidenceRow, VerificationRow, Sequence
  <1>8. x.result \in {"passed", "failed"}
    BY <1>2, <1>5 DEF VerifyCommit, TypeOK, RequestType
  <1>9. Numbered(f)'
    BY <1>4, <1>5, <1>6 DEF FindingInv, Numbered, TypeOK, WorkflowType,
       TreatmentRow, ApprovalRow, ActionRow, EvidenceRow, VerificationRow, Sequence
  <1>10. NotAhead(f)' /\ Gate(f)' /\ Closed(f)'
    BY <1>3, <1>4, <1>5 DEF FindingInv, NotAhead, Gate, Closed, AfterApproval,
       ApprovedOnce, Approvals
  <1>11. Pending(f)'
    <2>1. ASSUME finding'[f].status = "in_progress", NEW e \in evidence'[f]
          PROVE  x.result = "failed" /\ e.at < x.at /\ x \in verifications'[f]
      BY <1>3, <1>4, <1>7, <1>8, <2>1
    <2>2. ASSUME finding'[f].status = "verified" PROVE LastPass(f, x)'
      BY <1>3, <1>4, <1>6, <1>7, <2>2 DEF LastPass, Passes
    <2>3. finding'[f].status # "pending_verification"
      BY <1>3
    <2> QED BY <1>4, <2>1, <2>2, <2>3 DEF Pending
  <1>12. Judged(f)'
    <2> SUFFICES ASSUME NEW v \in verifications'[f]
                 PROVE  \E e \in evidence'[f] : Judges(f, v, e)'
      BY DEF Judged
    <2>1. CASE v = x
      <3>1. PICK e \in evidence[f] : \A w \in verifications[f] : w.at < e.at
        BY <1>3, <1>5 DEF FindingInv, Pending
      <3> QED BY <1>4, <1>6, <1>7, <2>1, <3>1 DEF Judges
    <2>2. CASE v \in verifications[f]
      <3>1. PICK e \in evidence[f] : Judges(f, v, e)
        BY <1>5, <2>2 DEF FindingInv, Judged
      <3> QED BY <1>4, <1>6, <1>7, <2>2, <3>1 DEF Judges
    <2> QED BY <1>4, <2>1, <2>2
  <1>13. Resubmitted(f)'
    BY <1>4, <1>5 DEF FindingInv, Resubmitted
  <1>14. Trail(f)'
    <2>1. CASE x.result = "passed"
      BY <1>3, <1>5, <2>1, TrailKept DEF StatusAfter
    <2>2. CASE x.result # "passed"
      <3>1. finding'[f].status = "in_progress" /\ Event(f, "verification_failed")
        BY <1>3, <2>2
      <3> QED BY <1>5, <3>1, TrailKept DEF StatusAfter
    <2> QED BY <2>1, <2>2
  <1>15. \A g \in Finding \ {f} : Same(g)
    BY <1>3, <1>4, <1>5, EventFacts DEF VerifyCommit, Same, TypeOK
  <1> QED BY <1>9, <1>10, <1>11, <1>12, <1>13, <1>14, <1>15, Frame
      DEF FindingInv, FindingsInv, IInv

LEMMA CloseKeeps ==
    ASSUME IInv, NEW r \in Request, NEW f \in Finding, Close(r, f)
    PROVE  FindingsInv'
  <1>1. PICK c : c = [at |-> NextSequence(f)]
    OBVIOUS
  <1>2. /\ finding[f].status \in {"verified", "accepted"} /\ finding'[f].status = "closed"
        /\ \A g \in Finding \ {f} : finding'[g] = finding[g]
        /\ Event(f, "finding_closed")
    BY DEF Close, Mutate, IInv, TypeOK, Finding_Row
  <1>3. /\ closures'[f] = closures[f] \cup {c}
        /\ treatments'[f] = treatments[f] /\ approvals'[f] = approvals[f]
        /\ actions'[f] = actions[f] /\ evidence'[f] = evidence[f]
        /\ verifications'[f] = verifications[f]
        /\ \A g \in Finding \ {f} : closures'[g] = closures[g]
    BY <1>1 DEF Close, IInv, TypeOK, WorkflowType
  <1>4. FindingInv(f) /\ TypeOK
    BY DEF IInv, FindingsInv
  <1>5. /\ Len(events[f]) \in Nat /\ Len(events'[f]) = Len(events[f]) + 1
        /\ c.at = Len(events[f]) + 1
    BY <1>1, <1>2, <1>4, EventFacts DEF TypeOK
  <1>6. Numbered(f)'
    BY <1>3, <1>4, <1>5 DEF FindingInv, Numbered, TypeOK, WorkflowType,
       TreatmentRow, ApprovalRow, ActionRow, EvidenceRow, VerificationRow, Sequence
  <1>7. NotAhead(f)' /\ Gate(f)' /\ Pending(f)' /\ Judged(f)' /\ Resubmitted(f)'
    BY <1>2, <1>3, <1>4 DEF FindingInv, NotAhead, Gate, Pending, Judged, Resubmitted,
       AfterApproval, ApprovedOnce, Approvals, Judges
  <1>8. Closed(f)'
    <2>1. closures'[f] = {c}
      BY <1>2, <1>3, <1>4 DEF FindingInv, NotAhead
    <2>2. CASE finding[f].status = "accepted"
      <3>1. actions'[f] = {} /\ verifications'[f] = {}
        BY <1>3, <1>4, <2>2 DEF FindingInv, NotAhead
      <3> QED BY <2>1, <3>1 DEF Closed
    <2>3. CASE finding[f].status = "verified"
      <3>1. PICK v \in verifications[f] : LastPass(f, v)
        BY <1>4, <2>3 DEF FindingInv, Pending
      <3>2. v \in verifications'[f] /\ LastPass(f, v)' /\ v.at < c.at
        BY <1>3, <1>4, <1>5, <3>1 DEF LastPass, Passes, FindingInv, Numbered, TypeOK, WorkflowType,
       TreatmentRow, ApprovalRow, ActionRow, EvidenceRow, VerificationRow, Sequence
      <3> QED BY <2>1, <3>2 DEF Closed
    <2> QED BY <1>2, <2>2, <2>3
  <1>9. Trail(f)'
    BY <1>2, <1>4, TrailKept DEF StatusAfter
  <1>10. \A g \in Finding \ {f} : Same(g)
    BY <1>2, <1>3, <1>4, EventFacts DEF Close, Same, TypeOK
  <1> QED BY <1>6, <1>7, <1>8, <1>9, <1>10, Frame
      DEF FindingInv, FindingsInv, IInv

-----------------------------------------------------------------------------
(* The object store *)

LEMMA StoredKept ==
    ASSUME IInv, [Next]_vars
    PROVE  StoredInv'
  <1> USE DEF IInv, TypeOK, StoredInv, EvidenceIsStored
  <1>1. ASSUME NEW r \in Request, StoreEvidence(r) PROVE StoredInv'
    <2>1. request[r].digest \in Digest /\ request[r] \in Request_State
      BY <1>1 DEF StoreEvidence, RequestType
    <2>2. /\ \A d \in Digest : objects[d] = "whole" => objects'[d] = "whole"
          /\ objects'[request[r].digest] = "whole"
      BY <1>1, <2>1 DEF StoreEvidence
    <2>3. \A q \in Request : request'[q].digest = request[q].digest
          /\ (q # r => request'[q].op = request[q].op)
      BY <1>1, <2>1 DEF StoreEvidence, RequestType, Request_State
    <2>4. \A q \in Request : request[q].op = "stored" => request[q].digest \in Digest
      BY DEF RequestType
    <2>5. evidence' = evidence
      BY <1>1 DEF StoreEvidence, workflow
    <2>6. EvidenceIsStored'
      BY <2>2, <2>5 DEF WorkflowType, EvidenceRow
    <2> QED BY <2>2, <2>3, <2>4, <2>6
  <1>2. ASSUME NEW r \in Request, StoreEvidenceTorn(r) PROVE StoredInv'
    <2>1. request[r].digest \in Digest
      BY <1>2 DEF StoreEvidenceTorn, RequestType
    <2>2. \A d \in Digest : objects[d] = "whole" => objects'[d] = "whole"
      BY <1>2, <2>1 DEF StoreEvidenceTorn
    <2>3. EvidenceIsStored'
      BY <1>2, <2>2 DEF StoreEvidenceTorn, workflow, WorkflowType, EvidenceRow
    <2>4. \A q \in Request : request[q].op = "stored" => request[q].digest \in Digest
      BY DEF RequestType
    <2> QED BY <1>2, <2>2, <2>3, <2>4 DEF StoreEvidenceTorn, Done, Idle, RequestType
  <1>3. ASSUME NEW r \in Request, CommitEvidence(r) PROVE StoredInv'
    <2>1. PICK f \in Finding : f = request[r].finding
      BY <1>3 DEF CommitEvidence, RequestType
    <2>2. objects[request[r].digest] = "whole" /\ objects' = objects
      BY <1>3 DEF CommitEvidence
    <2>3. EvidenceIsStored'
      BY <1>3, <2>1, <2>2 DEF CommitEvidence, WorkflowType
    <2> QED BY <1>3, <2>2, <2>3 DEF CommitEvidence, Done, Idle, RequestType
  <1>4. ASSUME NEW r \in Request,
               \/ AssessRiskCommit(r) \/ ApproveTreatmentCommit(r)
               \/ StartActionCommit(r) \/ VerifyCommit(r) \/ Abandon(r)
        PROVE  StoredInv'
    <2>1. evidence' = evidence /\ objects' = objects /\ Done(r)
      BY <1>4 DEF AssessRiskCommit, ApproveTreatmentCommit, StartActionCommit,
         VerifyCommit, Abandon, workflow
    <2> QED BY <2>1 DEF Done, Idle, RequestType
  <1>5. ASSUME NEW r \in Request, NEW f \in Finding, BeginRequest(r, f)
        PROVE  StoredInv'
    <2>1. evidence' = evidence /\ objects' = objects
      BY <1>5 DEF BeginRequest, CreateFinding, ReassessFinding, ProposeTreatment, Close,
         AssessRiskRead, StartActionRead, SubmitEvidenceRead, ApproveTreatmentRead,
         VerifyRead, Read, workflow
    <2>2. \A q \in Request : request'[q] = request[q] \/ request'[q].op # "stored"
      <3>1. CASE \/ CreateFinding(r, f) \/ ReassessFinding(r, f)
                 \/ ProposeTreatment(r, f) \/ Close(r, f)
        BY <3>1 DEF CreateFinding, ReassessFinding, ProposeTreatment, Close
      <3>2. ASSUME NEW new, new.op # "stored", request' = [request EXCEPT ![r] = new]
            PROVE  \A q \in Request : request'[q] = request[q] \/ request'[q].op # "stored"
        BY <3>2 DEF RequestType
      <3>3. CASE AssessRiskRead(r, f)
        BY <3>2, <3>3 DEF AssessRiskRead, Read, Idle
      <3>4. CASE StartActionRead(r, f)
        BY <3>2, <3>4 DEF StartActionRead, Read, Idle
      <3>5. CASE \E a \in Actor, d \in Digest : SubmitEvidenceRead(r, f, a, d)
        BY <3>2, <3>5 DEF SubmitEvidenceRead, Read, Idle
      <3>6. CASE \E a \in Actor, c \in {"approved", "rejected"} :
                    ApproveTreatmentRead(r, f, a, c)
        BY <3>2, <3>6 DEF ApproveTreatmentRead, Read, Idle
      <3>7. CASE \E a \in Actor, c \in {"passed", "failed"} : VerifyRead(r, f, a, c)
        BY <3>2, <3>7 DEF VerifyRead, Read, Idle
      <3> QED BY <1>5, <3>1, <3>3, <3>4, <3>5, <3>6, <3>7 DEF BeginRequest
    <2> QED BY <2>1, <2>2
  <1>6. CASE UNCHANGED vars
    BY <1>6 DEF vars, workflow
  <1> QED BY <1>1, <1>2, <1>3, <1>4, <1>5, <1>6 DEF Next, EndRequest

-----------------------------------------------------------------------------
(* The invariant and its consequences *)

LEMMA InitInv == Init => IInv
  <1> SUFFICES ASSUME Init PROVE IInv
    OBVIOUS
  <1>1. TypeOK
    BY InitType
  <1>2. StoredInv
    BY DEF Init, StoredInv, EvidenceIsStored, Idle
  <1>3. ASSUME NEW f \in Finding PROVE FindingInv(f)
    <2>1. Numbered(f) /\ NotAhead(f) /\ Gate(f) /\ Pending(f) /\ Judged(f)
          /\ Resubmitted(f) /\ Closed(f)
      BY DEF Init, NoFinding, Numbered, NotAhead, Gate, Pending, Judged, Resubmitted,
         Closed, AfterApproval, Approvals
    <2>2. Trail(f)
      BY DEF Init, NoFinding, Trail, Exists
    <2> QED BY <2>1, <2>2 DEF FindingInv
  <1> QED BY <1>1, <1>2, <1>3 DEF IInv, FindingsInv

LEMMA NextInv == IInv /\ [Next]_vars => IInv'
  <1> SUFFICES ASSUME IInv, [Next]_vars PROVE IInv'
    OBVIOUS
  <1>1. TypeOK'
    BY BeginType, EndType, StutterType DEF IInv, Next
  <1>2. StoredInv'
    BY StoredKept
  <1>3. ASSUME \A g \in Finding : Same(g) PROVE FindingsInv'
    BY <1>3, Frame DEF IInv, FindingsInv
  <1>4. ASSUME NEW r \in Request, NEW f \in Finding, BeginRequest(r, f)
        PROVE  FindingsInv'
    <2>1. ASSUME UNCHANGED <<finding, events, outbox, exports, workflow, objects>>
          PROVE  \A g \in Finding : Same(g)
      BY <2>1 DEF Same, workflow
    <2>2. CASE \/ AssessRiskRead(r, f) \/ StartActionRead(r, f)
               \/ \E a \in Actor :
                    \/ \E d \in Digest : SubmitEvidenceRead(r, f, a, d)
                    \/ \E c \in {"approved", "rejected"} : ApproveTreatmentRead(r, f, a, c)
                    \/ \E c \in {"passed", "failed"} : VerifyRead(r, f, a, c)
      BY <1>3, <2>1, <2>2 DEF AssessRiskRead, StartActionRead, SubmitEvidenceRead,
         ApproveTreatmentRead, VerifyRead, Read
    <2> QED BY <1>4, <2>2, CreateKeeps, ReassessKeeps, ProposeKeeps, CloseKeeps
            DEF BeginRequest
  <1>5. ASSUME NEW r \in Request, EndRequest(r)
        PROVE  FindingsInv'
    <2>1. CASE StoreEvidence(r) \/ StoreEvidenceTorn(r) \/ Abandon(r)
      BY <1>3, <2>1 DEF StoreEvidence, StoreEvidenceTorn, Abandon, workflow, Same
    <2> QED BY <1>5, <2>1, AssessKeeps, ApproveKeeps, StartKeeps, SubmitKeeps, VerifyKeeps
            DEF EndRequest
  <1>6. ASSUME UNCHANGED vars PROVE FindingsInv'
    BY <1>3, <1>6 DEF vars, workflow, Same
  <1>7. FindingsInv'
    BY <1>4, <1>5, <1>6 DEF Next
  <1> QED BY <1>1, <1>2, <1>7 DEF IInv

LEMMA InvariantHolds == Spec => []IInv
  BY InitInv, NextInv, PTL DEF Spec

\* From approval on, every finding has exactly one approval on record, written
\* after every proposal and before every action, however requests interleave; the
\* proposal its request had read may be an earlier one.
THEOREM ApprovalIsGated == Spec => []ApprovalGate
  <1>1. IInv => ApprovalGate
    BY DEF IInv, FindingsInv, FindingInv, Gate, ApprovalGate
  <1> QED BY <1>1, InvariantHolds, PTL

\* Every closure follows a pass that nothing has overridden, or a decision under
\* which no action was ever started.
THEOREM ClosureIsJustified == Spec => []ClosureJustified
  <1>1. IInv => ClosureJustified
    BY DEF IInv, FindingsInv, FindingInv, Closed, ClosureJustified
  <1> QED BY <1>1, InvariantHolds, PTL

\* No two verification records judge the same submission.
THEOREM VerificationsAreDistinct == Spec => []EachVerificationJudgesNewEvidence
  <1>1. IInv => EachVerificationJudgesNewEvidence
    BY DEF IInv, FindingsInv, FindingInv, Judged, EachVerificationJudgesNewEvidence
  <1> QED BY <1>1, InvariantHolds, PTL

\* Retried and doubled submissions are recorded once per failed verification.
THEOREM EvidenceIsNotDoubled == Spec => []NoDuplicateEvidence
  <1>1. IInv => NoDuplicateEvidence
    BY DEF IInv, FindingsInv, FindingInv, Resubmitted, NoDuplicateEvidence
  <1> QED BY <1>1, InvariantHolds, PTL

\* Evidence metadata never outlives or precedes its content in the object store.
THEOREM EvidenceIsKept == Spec => []EvidenceIsStored
  <1>1. IInv => EvidenceIsStored
    BY DEF IInv, StoredInv
  <1> QED BY <1>1, InvariantHolds, PTL

\* The audit trail, the outbox and the export queue always account for the status.
THEOREM TrailIsFaithful == Spec => []TrailExplainsStatus
  <1>1. IInv => TrailExplainsStatus
    BY DEF IInv, FindingsInv, FindingInv, Trail, TrailExplainsStatus
  <1> QED BY <1>1, InvariantHolds, PTL

\* Nothing is written to a closed finding but reassessments: requests that read
\* it earlier fail their recheck under the row lock.
THEOREM ClosedStaysClosed == Spec => ClosedIsFinal
  <1> DEFINE Final(f) ==
        /\ finding'[f].status = "closed"
        /\ treatments'[f] = treatments[f] /\ approvals'[f] = approvals[f]
        /\ actions'[f] = actions[f] /\ evidence'[f] = evidence[f]
        /\ verifications'[f] = verifications[f] /\ closures'[f] = closures[f]
  <1>1. ASSUME TypeOK, [Next]_vars, NEW f \in Finding, finding[f].status = "closed"
        PROVE  Final(f)
    <2> USE <1>1 DEF TypeOK, WorkflowType, workflow
    <2>1. ASSUME NEW r \in Request, NEW g \in Finding, BeginRequest(r, g)
          PROVE  Final(f)
      <3>1. CASE CreateFinding(r, g)
        BY <3>1 DEF CreateFinding, Exists
      <3>2. CASE ReassessFinding(r, g)
        BY <3>2 DEF ReassessFinding, Finding_Row
      <3>3. CASE ProposeTreatment(r, g)
        BY <3>3 DEF ProposeTreatment, Mutate
      <3>4. CASE Close(r, g)
        BY <3>4 DEF Close, Mutate
      <3>5. ASSUME UNCHANGED <<finding, events, outbox, exports, workflow, objects>>
            PROVE  Final(f)
        BY <3>5
      <3> QED BY <2>1, <3>1, <3>2, <3>3, <3>4, <3>5 DEF BeginRequest, AssessRiskRead,
            StartActionRead, SubmitEvidenceRead, ApproveTreatmentRead, VerifyRead, Read
    <2>2. ASSUME NEW r \in Request, EndRequest(r) PROVE Final(f)
      <3>1. CASE AssessRiskCommit(r)
        BY <3>1 DEF AssessRiskCommit, Mutate, RequestType
      <3>2. CASE ApproveTreatmentCommit(r)
        BY <3>2 DEF ApproveTreatmentCommit, Mutate, RequestType
      <3>3. CASE StartActionCommit(r)
        BY <3>3 DEF StartActionCommit, Mutate, RequestType
      <3>4. CASE CommitEvidence(r)
        BY <3>4 DEF CommitEvidence, Mutate, RequestType
      <3>5. CASE VerifyCommit(r)
        BY <3>5 DEF VerifyCommit, Mutate, RequestType
      <3>6. CASE StoreEvidence(r) \/ StoreEvidenceTorn(r) \/ Abandon(r)
        BY <3>6 DEF StoreEvidence, StoreEvidenceTorn, Abandon
      <3> QED BY <2>2, <3>1, <3>2, <3>3, <3>4, <3>5, <3>6 DEF EndRequest
    <2>3. CASE UNCHANGED vars
      BY <2>3 DEF vars
    <2> QED BY <2>1, <2>2, <2>3 DEF Next
  <1>2. TypeOK /\ [Next]_vars =>
          [\A f \in Finding : finding[f].status = "closed" => Final(f)]_vars
    BY <1>1
  <1> QED BY <1>2, TypeCorrect, PTL DEF Spec, ClosedIsFinal
=============================================================================
