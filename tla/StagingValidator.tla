-------------------------- MODULE StagingValidator --------------------------
(***************************************************************************)
(* The staging rehearsal of scripts/azure_staging_validator.py against the *)
(* governance HTTP API (governance_http.py, governance_api.py).  A human   *)
(* operator starts executions of two Container Apps jobs, one holding the  *)
(* analyst identity and one the approver identity; each runs one phase: a  *)
(* list of gates, each one HTTP request with the answer it must get.  The  *)
(* findings in the database are the only hand-over between phases, so a    *)
(* phase that died is started again and resumes from what it reads there.  *)
(*                                                                         *)
(* A request outlives the execution that sent it: when the job is killed   *)
(* or its 15 s timeout fires, the server may still serve it, at any later  *)
(* time or never.  A started execution may be believed dead while it runs, *)
(* so two executions may run at once, of the same phase or of two.         *)
(*                                                                         *)
(* A gate's outcome is the finding's status for HTTP 200 and one label per *)
(* error text otherwise ("absent" for `was not found').  Tokens, report    *)
(* layout, fingerprints and the free texts of the requests are left out.   *)
(***************************************************************************)
EXTENDS Naturals, Sequences, FiniteSets

CONSTANTS
    Execution,     \* job executions that may run at the same time
    Analyst,       \* subject of the analyst identity
    Approver,      \* subject of the approver identity
    Outsider,      \* other users of the staging API
    RoleOf,        \* the API role each subject authenticates with
    Null,          \* SQL NULL, no phase, no request
    MaxUpsets      \* bound on upsets: executions that die with a request
                   \* pending, requests of outsiders, phases started out of turn

Subject == {Analyst, Approver} \cup Outsider

ASSUME SubjectsAssumption ==
    /\ RoleOf \in [Subject -> {"analyst", "approver"}]
    /\ RoleOf[Analyst] = "analyst" /\ RoleOf[Approver] = "approver"
    /\ Execution \cap Nat = {}
ASSUME BoundsAssumption == MaxUpsets \in Nat

VARIABLES
    finding,   \* the rows of the two findings of this run
    execution, \* the phase, the gate and the last state seen of each execution
    wire,      \* the request of each execution, and those of dead executions
    upsets,    \* how many upsets there were
    bythebook, \* nobody but the rehearsal, in its order, has used the findings
    passed     \* phases whose execution printed a "passed" report

stagingVars == <<finding, execution, wire, upsets, bythebook, passed>>

-----------------------------------------------------------------------------
(* States *)

Finding == {"E2E", "SOD"}
Status == {"absent", "open", "risk_assessed", "pending_approval", "approved",
           "in_progress", "pending_verification", "verified", "closed"}
Error == {"missing_bearer_token", "actor_in_body", "role", "exists", "transition",
          "self_approval", "not_independent", "not_closable"}
Outcome == Status \cup Error
Call == {"list", "create_as", "get", "create", "assess", "propose", "approve",
         "reject", "start", "evidence", "verify", "fail", "close"}

\* findings, with the decisive rows of approval_records, governance_evidence and
\* verification_records.  Every treatment of the rehearsal is "mitigate".
Row == [status: Status, risk_owner: Subject \cup {Null},
        action_owner: Subject \cup {Null}, implementer: Subject \cup {Null},
        evidence_submitter: Subject \cup {Null}, submitted: SUBSET Subject,
        approved_by: Subject \cup {Null}, verified_by: Subject \cup {Null}]

NoRow == [status |-> "absent", risk_owner |-> Null, action_owner |-> Null,
          implementer |-> Null, evidence_submitter |-> Null, submitted |-> {},
          approved_by |-> Null, verified_by |-> Null]

\* `stage' is how far the server is with the request.
Request == [call: Call, finding: Finding, actor: Subject,
            stage: {"sent", "read", "committed", "answered"},
            outcome: Outcome \cup {Null}, row: Row]

ROLE_PHASES == [analyst |-> {"analyst_prepare", "analyst_remediate"},
                approver |-> {"approver_approve", "approver_close"}]
NEXT_PHASE == [analyst_prepare |-> "approver_approve",
               approver_approve |-> "analyst_remediate",
               analyst_remediate |-> "approver_close",
               approver_close |-> Null]
Phase == DOMAIN NEXT_PHASE

\* The subject an execution of a phase must hold a token for (expected_subject).
SubjectOf(phase) ==
    IF phase \in ROLE_PHASES["analyst"] THEN Analyst ELSE Approver

\* NULL is not a value.
ASSUME NullAssumption ==
    Null \notin Subject \cup Outcome \cup Phase \cup Request

NotRunning == [phase |-> Null, gate |-> 0, seen |-> "absent"]

\* The slots of `wire': executions, then one for every request left behind.
Orphan == 1 .. MaxUpsets
Slot == Execution \cup Orphan

StagingInit ==
    /\ finding = [f \in Finding |-> NoRow]
    /\ execution = [e \in Execution |-> NotRunning]
    /\ wire = [s \in Slot |-> Null]
    /\ upsets = 0 /\ bythebook = TRUE
    /\ passed = {}

-----------------------------------------------------------------------------
(* The gates of each phase *)

\* `when': the states seen last in which the gate is tried at all; `want': the
\* outcomes that pass; `fields': the columns a read compares with the identity
\* the phase expects there, by the status it reads.
NoFields == [s \in Status |-> {}]
Gate(call, f, when, want) ==
    [call |-> call, finding |-> f, when |-> when, want |-> want, fields |-> NoFields]

\* _finding_state
Resume(f, allowed, fields) ==
    [call |-> "get", finding |-> f, when |-> Status, want |-> allowed,
     fields |-> fields]

\* A gate that must be refused.
Probe(call, f, when, error) == Gate(call, f, when, {error})
\* _post of a transition
Step(call, f, from, to) == Gate(call, f, {from}, {to})

Owned == [s \in Status |-> {"risk_owner"}]
Assigned == [s \in Status |-> {"risk_owner", "action_owner"}]

\* Mutant: the state_fields are not compared.
Worked_NoStateFields == Assigned

\* expected_fields with state_fields
Worked ==
    [s \in Status |->
       Assigned[s] \cup
       (CASE s = "in_progress" -> {"implementer"}
          [] s \in {"pending_verification", "verified", "closed"} ->
               {"implementer", "evidence_submitter"}
          [] OTHER -> {})]

\* Create, assess and propose what the first read did not find done.
Prepare(f) ==
    <<Resume(f, {"absent", "open", "risk_assessed", "pending_approval"}, Owned),
      Step("create", f, "absent", "open")>>
Propose(f) ==
    <<Step("assess", f, "open", "risk_assessed"),
      Step("propose", f, "risk_assessed", "pending_approval")>>

_analyst_prepare ==
    <<Probe("list", "E2E", Status, "missing_bearer_token"),
      Probe("create_as", "E2E", Status, "actor_in_body")>>
    \o Prepare("E2E") \o <<Probe("create", "E2E", Status, "exists")>>
    \o Propose("E2E")
    \o Prepare("SOD") \o Propose("SOD")

_approver_approve ==
    <<Resume("SOD", {"pending_approval"}, Assigned),
      Probe("approve", "SOD", Status, "self_approval"),
      Resume("E2E", {"pending_approval", "approved"}, Assigned),
      Probe("close", "E2E", {"pending_approval"}, "not_closable"),
      Step("approve", "E2E", "pending_approval", "approved")>>

_analyst_remediate ==
    <<Resume("E2E", {"approved", "in_progress", "pending_verification"}, Worked),
      Step("start", "E2E", "approved", "in_progress"),
      Step("evidence", "E2E", "in_progress", "pending_verification"),
      Probe("verify", "E2E", Status, "not_independent")>>

\* Mutant: a phase that found its finding verified insists on verifying it.
_approver_close_NotResumable ==
    <<Resume("E2E", {"pending_verification", "closed"}, Worked),
      Step("verify", "E2E", "pending_verification", "verified"),
      Step("close", "E2E", "verified", "closed"),
      Gate("get", "E2E", Status, {"closed"})>>

_approver_close ==
    <<Resume("E2E", {"pending_verification", "verified", "closed"}, Worked),
      Step("verify", "E2E", "pending_verification", "verified"),
      Step("close", "E2E", "verified", "closed"),
      Gate("get", "E2E", Status, {"closed"})>>

Gates(phase) ==
    CASE phase = "analyst_prepare" -> _analyst_prepare
      [] phase = "approver_approve" -> _approver_approve
      [] phase = "analyst_remediate" -> _analyst_remediate
      [] phase = "approver_close" -> _approver_close

\* The next gate the phase tries after gate i, given what it has seen; one past
\* the last gate when none is left.
NextGate(phase, i, seen) ==
    LET gates == Gates(phase)
        left == {j \in (i + 1) .. Len(gates) : seen \in gates[j].when}
    IN IF left = {} THEN Len(gates) + 1
       ELSE CHOOSE j \in left : \A k \in left : j <= k

\* The identity a phase expects in a column.
Expected(f, field) ==
    IF field = "risk_owner" /\ f = "SOD" THEN Approver ELSE Analyst

FieldsMatch(g, row) ==
    \A field \in g.fields[row.status] : row[field] = Expected(g.finding, field)

\* _expect and _finding_state: does the answer pass the gate?
Passes(g, m) ==
    /\ m.outcome \in g.want
    /\ m.outcome # "absent" => FieldsMatch(g, m.row)

-----------------------------------------------------------------------------
(* The API: what one request does to a row *)

\* _require of each operation (evidence and state changes; reads need no role)
Roles(call) ==
    CASE call \in {"create", "assess", "propose", "start", "evidence"} -> {"analyst"}
      [] call \in {"approve", "reject", "close"} -> {"approver"}
      [] OTHER -> {"analyst", "approver"}

\* allowed_statuses
From(call) ==
    CASE call = "create" -> {"absent"}
      [] call = "assess" -> {"open"}
      [] call = "propose" -> {"risk_assessed"}
      [] call \in {"approve", "reject"} -> {"pending_approval"}
      [] call = "start" -> {"approved"}
      [] call = "evidence" -> {"in_progress"}
      [] call \in {"verify", "fail"} -> {"pending_verification"}
      [] call = "close" -> {"verified"}
      [] OTHER -> {}

\* submit_evidence of what this subject has already submitted
IsRetry(call, a, row) ==
    /\ call = "evidence" /\ row.status = "pending_verification"
    /\ a \in row.submitted

\* Mutant: only verifications are checked for independence.
IsSelfDealing_Verify(call, a, row) ==
    call \in {"verify", "fail"} /\ a \in {row.implementer, row.evidence_submitter}

\* The risk owner decides, or an implementer or submitter verifies.
IsSelfDealing(call, a, row) ==
    \/ call \in {"approve", "reject"} /\ a = row.risk_owner
    \/ call \in {"verify", "fail"} /\ a \in {row.implementer, row.evidence_submitter}

\* What the handlers check before they open a transaction, in their order: the
\* bearer token, the forbidden actor fields, the role, then the row they read.
Refusal(call, a, row) ==
    IF call = "list" THEN "missing_bearer_token"
    ELSE IF call = "create_as" THEN "actor_in_body"
    ELSE IF RoleOf[a] \notin Roles(call) THEN "role"
    ELSE IF call # "create" /\ row.status = "absent" THEN "absent"
    ELSE IF IsSelfDealing(call, a, row)
         THEN IF call \in {"approve", "reject"} THEN "self_approval"
                                                ELSE "not_independent"
    ELSE IF call = "close" /\ row.status \notin From(call) THEN "not_closable"
    ELSE IF /\ call = "evidence" /\ ~IsRetry(call, a, row)
            /\ row.status \notin From(call)
         THEN "transition"
    ELSE Null

\* _treatment_approval_status of a treatment that is not "accept"
DecidedStatus(call) == IF call = "approve" THEN "approved" ELSE "risk_assessed"

\* The committed row.  The body's risk_owner is the approver for the SOD finding
\* and the analyst otherwise; an action owner and an implementer name themselves.
Effect(f, call, a, row) ==
    CASE call = "create" -> [NoRow EXCEPT !.status = "open",
                                          !.risk_owner = Expected(f, "risk_owner")]
      [] call = "assess" -> [row EXCEPT !.status = "risk_assessed"]
      [] call = "propose" -> [row EXCEPT !.status = "pending_approval",
                                         !.action_owner = a]
      [] call = "approve" -> [row EXCEPT !.status = DecidedStatus(call),
                                         !.approved_by = a]
      [] call = "reject" -> [row EXCEPT !.status = DecidedStatus(call)]
      [] call = "start" -> [row EXCEPT !.status = "in_progress", !.implementer = a]
      [] call = "evidence" -> [row EXCEPT !.status = "pending_verification",
                                          !.evidence_submitter = a,
                                          !.submitted = @ \cup {a}]
      [] call = "verify" -> [row EXCEPT !.status = "verified", !.verified_by = a]
      [] call = "fail" -> [row EXCEPT !.status = "in_progress"]
      [] call = "close" -> [row EXCEPT !.status = "closed"]

-----------------------------------------------------------------------------
(* The server's steps *)

\* Only a read's answer is looked into, and nobody waits for an orphan's.
Reply(s, outcome) ==
    LET row == IF wire[s].call = "get" THEN finding[wire[s].finding] ELSE NoRow IN
    wire' = [wire EXCEPT ![s] = IF s \in Orphan THEN Null
               ELSE [@ EXCEPT !.stage = "answered", !.outcome = outcome,
                              !.row = row]]

InStage(s, stage) == wire[s] # Null /\ wire[s].stage = stage

\* The handler up to its transaction: refuse, answer a read (or a retry of a
\* submission), or go on.
Admit(s) ==
    LET m == wire[s]
        row == finding[m.finding]
        refusal == Refusal(m.call, m.actor, row)
    IN
    /\ InStage(s, "sent")
    /\ IF refusal # Null THEN Reply(s, refusal)
       ELSE IF m.call = "get" \/ IsRetry(m.call, m.actor, row)
            THEN Reply(s, row.status)
       ELSE wire' = [wire EXCEPT ![s].stage = "read"]
    /\ UNCHANGED <<finding, execution, upsets, bythebook, passed>>

\* The transaction: the status is checked again, the row is written.
Commit(s) ==
    LET m == wire[s]
        row == finding[m.finding]
    IN
    /\ InStage(s, "read")
    /\ IF row.status \in From(m.call)
       THEN /\ finding' = [finding EXCEPT ![m.finding] =
                             Effect(m.finding, m.call, m.actor, row)]
            /\ wire' = [wire EXCEPT ![s].stage = "committed"]
       ELSE /\ Reply(s, IF m.call = "create" THEN "exists"
                        ELSE IF IsRetry(m.call, m.actor, row) THEN row.status
                        ELSE "transition")
            /\ UNCHANGED finding
    /\ UNCHANGED <<execution, upsets, bythebook, passed>>

\* After the commit the handler reads the finding once more for its answer.
Answer(s) ==
    /\ InStage(s, "committed")
    /\ Reply(s, finding[wire[s].finding].status)
    /\ UNCHANGED <<finding, execution, upsets, bythebook, passed>>

Serve(s) == Admit(s) \/ Commit(s) \/ Answer(s)

\* Another user of the staging environment works on the main finding, naming
\* themselves and proposing to mitigate.  The request is one step: what it read
\* is not yet old when it commits.
Meddle(a, call) ==
    LET row == finding["E2E"] IN
    /\ upsets < MaxUpsets
    /\ row.status # "absent"
    /\ Refusal(call, a, row) = Null /\ row.status \in From(call)
    /\ finding' = [finding EXCEPT !["E2E"] = Effect("E2E", call, a, row)]
    /\ upsets' = upsets + 1 /\ bythebook' = FALSE
    /\ UNCHANGED <<execution, wire, passed>>

-----------------------------------------------------------------------------
(* Executions *)

Sent(phase, i) ==
    LET g == Gates(phase)[i] IN
    [call |-> g.call, finding |-> g.finding, actor |-> SubjectOf(phase),
     stage |-> "sent", outcome |-> Null, row |-> NoRow]

\* The phase the operator's guide says to start now.
Before(phase) == {p \in Phase : NEXT_PHASE[p] = phase}
Due(phase) == Before(phase) \subseteq passed /\ phase \notin passed

\* run: health checks, the token's subject and the role of the phase hold, else
\* the execution exits without a request that changes anything.  An operator
\* who starts another phase than the one that is due is an upset; one who starts
\* the due phase again, while an execution of it may still run, is not.
Start(e, phase) ==
    LET first == NextGate(phase, 0, "absent") IN
    /\ execution[e].phase = Null
    /\ execution' = [execution EXCEPT ![e] =
                       [phase |-> phase, gate |-> first, seen |-> "absent"]]
    /\ wire' = [wire EXCEPT ![e] = Sent(phase, first)]
    /\ \/ Due(phase) /\ UNCHANGED <<upsets, bythebook>>
       \/ /\ ~Due(phase) /\ upsets < MaxUpsets
          /\ upsets' = upsets + 1 /\ bythebook' = FALSE
    /\ UNCHANGED <<finding, passed>>

\* _expect, and what the phase does next: fail, go on, or report.
Receive(e) ==
    LET x == execution[e]
        m == wire[e]
        g == Gates(x.phase)[x.gate]
        seen == IF m.outcome \in Status THEN m.outcome ELSE x.seen
        next == NextGate(x.phase, x.gate, seen)
        done == next > Len(Gates(x.phase))
    IN
    /\ x.phase # Null /\ InStage(e, "answered")
    /\ IF Passes(g, m) /\ ~done
       THEN /\ execution' = [execution EXCEPT ![e] =
                               [phase |-> x.phase, gate |-> next, seen |-> seen]]
            /\ wire' = [wire EXCEPT ![e] = Sent(x.phase, next)]
       ELSE /\ execution' = [execution EXCEPT ![e] = NotRunning]
            /\ wire' = [wire EXCEPT ![e] = Null]
    /\ passed' = IF Passes(g, m) /\ done THEN passed \cup {x.phase} ELSE passed
    /\ UNCHANGED <<finding, upsets, bythebook>>

\* The execution is killed, or gives up waiting for its answer; its request
\* stays with the server.
Lose(e) ==
    /\ execution[e].phase # Null
    /\ upsets < MaxUpsets
    /\ upsets' = upsets + 1
    /\ execution' = [execution EXCEPT ![e] = NotRunning]
    /\ wire' = [wire EXCEPT ![e] = Null,
                            ![upsets + 1] = IF InStage(e, "answered") THEN Null
                                            ELSE wire[e]]
    /\ UNCHANGED <<finding, bythebook, passed>>

Run(e) == Serve(e) \/ Receive(e)

StagingNext ==
    \/ \E e \in Execution : Receive(e) \/ Lose(e) \/ \E p \in Phase : Start(e, p)
    \/ \E s \in Slot : Serve(s)
    \/ \E a \in Outsider, c \in Call : Meddle(a, c)

StagingSpec == StagingInit /\ [][StagingNext]_stagingVars

\* The server serves the requests of running executions, and the operator keeps
\* starting the phase that is due.  Orphaned requests get no fairness.
Fairness ==
    /\ \A e \in Execution : WF_stagingVars(Run(e))
    /\ \A p \in Phase : WF_stagingVars(\E e \in Execution : Due(p) /\ Start(e, p))

FairSpec == StagingSpec /\ Fairness

-----------------------------------------------------------------------------
(* Properties *)

\* Findings, executions and requests have the shape of the code's values, and an
\* execution runs exactly while it has a request with the server.
StagingTypeOK ==
    /\ finding \in [Finding -> Row]
    /\ wire \in [Slot -> Request \cup {Null}]
    /\ execution \in [Execution -> [phase: Phase \cup {Null}, gate: Nat, seen: Status]]
    /\ upsets \in 0 .. MaxUpsets /\ bythebook \in BOOLEAN /\ passed \subseteq Phase
    /\ \A e \in Execution :
         LET x == execution[e] IN
         IF x.phase = Null THEN x = NotRunning /\ wire[e] = Null
         ELSE /\ x.gate \in 1 .. Len(Gates(x.phase))
              /\ wire[e] # Null /\ wire[e].call = Gates(x.phase)[x.gate].call
              /\ wire[e].finding = Gates(x.phase)[x.gate].finding
              /\ wire[e].actor = SubjectOf(x.phase)

\* What a "passed" report of each phase says about the database.
Earned(phase) ==
    LET row == finding["E2E"] IN
    CASE phase = "analyst_prepare" ->
           \A f \in Finding : finding[f].status \notin {"absent", "open"}
      [] phase = "approver_approve" ->
           row.approved_by \notin {Null, row.risk_owner}
      [] phase = "analyst_remediate" -> Analyst \in row.submitted
      [] phase = "approver_close" ->
           /\ row.status = "closed" /\ row.approved_by \notin {Null, row.risk_owner}
           /\ row.implementer = Analyst /\ Analyst \in row.submitted
           /\ row.verified_by \notin {Null, row.implementer, row.evidence_submitter}
           /\ bythebook => row.evidence_submitter = Analyst

\* A report that says "passed" is true, whatever died, was started twice or out
\* of order, and whoever else worked on the finding: in particular the finding a
\* close report names was implemented by the analyst identity, which submitted
\* evidence for it, and verified by an identity that did neither.  The evidence
\* it was verified on need not be the analyst's when an outsider took part: the
\* phase compares the submitter once, before it verifies, and the finding may
\* fail verification and be submitted anew in between.
ReportsAreEarned == \A p \in passed : Earned(p)

\* The two requests that break separation of duties whenever they are served.
IsProbe(m) ==
    \/ m.call = "approve" /\ m.finding = "SOD"
    \/ m.call = "verify" /\ m.actor = Analyst

\* A finding that went through an approval and a verification, each by somebody
\* who may give it.
MayBeClosed(row) ==
    /\ row.status = "verified"
    /\ row.approved_by \notin {Null, row.risk_owner}
    /\ row.verified_by \notin {Null, row.implementer, row.evidence_submitter}

\* The negative tests of the rehearsal do no harm, however late they are served
\* and although their execution may be dead.  The self-approval and the analyst's
\* verification change no finding.  The premature close is refused as long as it
\* is premature; delayed until the finding is verified it takes effect, but then
\* on a finding that has earned it.
ProbesAreHarmless ==
    [][\A s \in Slot : wire[s] # Null /\ wire'[s] # wire[s] /\ finding' # finding
         => /\ ~IsProbe(wire[s])
            /\ wire[s].call = "close" => MayBeClosed(finding[wire[s].finding])]_stagingVars

\* Every phase can resume after a response that was lost: when the operator
\* keeps the order of the guide and nobody else touches the finding, the
\* rehearsal ends with a closed finding and its last report, whatever died.
Resumes ==
    []bythebook => <>("approver_close" \in passed)

=============================================================================
