--------------------------- MODULE ExternalImport ---------------------------
(***************************************************************************)
(* The bridges that import closed work of other systems as findings:       *)
(* scripts/bridge_minisoar.py, which records an import and the audit event *)
(* it owes in one transaction and delivers the event afterwards, and       *)
(* scripts/bridge_jml.py, which updates a finding and then appends to the  *)
(* same audit log (audit_log.py) without such a record.  Both are commands *)
(* that an operator starts, again and again and perhaps twice at a time.   *)
(*                                                                         *)
(* A bundle stands for its bytes, so for its evidence_hash; two bundles of *)
(* one incident have the same finding.  An event is known by the three     *)
(* things its event_id hashes.  A section under the log's file lock is one *)
(* step, and so is a database transaction.  Finding identities of the two  *)
(* sources never meet ("SEC-IR-", "SEC-IAM-"), and each JML request here   *)
(* has its own.  A write to the log may fail half-way; the part of a line  *)
(* is then in the file for good.                                           *)
(***************************************************************************)
EXTENDS Naturals, Sequences, FiniteSets

CONSTANTS
    Incident,     \* external findings of Mini-SOAR incidents
    Person,       \* who executes, requests and verifies
    Bundle,       \* exported evidence bundles
    JmlRequest,   \* rows of jml_requests, each with its own finding
    Bridge,       \* Mini-SOAR bridge processes
    JmlBridge,    \* JML bridge processes
    None,
    MaxChanges,   \* bound: imports of one JML request
    MaxFaults     \* bound: failed writes to the audit log

Bundle_Type ==
    [id : Nat, finding : Incident, closed : BOOLEAN, valid : BOOLEAN, passed : BOOLEAN,
     verifier : Person, executor : Person]
Jml_Type ==
    [id : Nat, closed : BOOLEAN, valid : BOOLEAN, passed : BOOLEAN,
     verifier : Person, requester : Person, executor : Person \cup {None}]

ASSUME ImportAssumption ==
    /\ Bundle \subseteq Bundle_Type
    /\ JmlRequest \subseteq Jml_Type
    /\ Bundle \cap JmlRequest = {}
    /\ None \notin Bundle \cup JmlRequest \cup Person
    /\ MaxChanges \in Nat /\ MaxFaults \in Nat

VARIABLES
    current,    \* external_findings of incidents: the bundle behind the row
    outbox,     \* external_finding_audit_outbox: events owed
    delivered,  \* rows of it with delivered_at
    changes,    \* external_findings of JML requests: 1 + reassessment_count
    log,        \* the audit log's whole records
    torn,       \* whether the log ends in part of a record
    bridge, jml,
    faults

vars == <<current, outbox, delivered, changes, log, torn, bridge, jml, faults>>

Event == [bundle : Bundle, type : {"created", "reassessed"}]
JmlRecord == [request : JmlRequest, type : {"created", "reassessed"}]

\* run_minisoar_bridge: the event in hand.  run_jml_bridge: the rows left and the
\* record owed for the last one.
Bridge_State == [pc : {"idle", "append", "mark"}, event : Event \cup {None}]
Jml_State == [pc : {"idle", "next", "append"}, todo : SUBSET JmlRequest,
              record : JmlRecord \cup {None}]
Idle == [pc |-> "idle", event |-> None]
JmlIdle == [pc |-> "idle", todo |-> {}, record |-> None]

Init ==
    /\ current = [f \in Incident |-> None]
    /\ outbox = {} /\ delivered = {}
    /\ changes = [q \in JmlRequest |-> 0]
    /\ log = <<>> /\ torn = FALSE
    /\ bridge = [b \in Bridge |-> Idle]
    /\ jml = [j \in JmlBridge |-> JmlIdle]
    /\ faults = 0

Logged == {log[i] : i \in DOMAIN log}

-----------------------------------------------------------------------------
(* audit_log.py *)

\* Mutant: append_idempotent does not look for its event.
AppendIdempotent_Always(e) == ~torn /\ log' = Append(log, e)

\* append_idempotent: find and append under one lock; a log that does not verify
\* is refused.
AppendIdempotent(e) ==
    /\ ~torn
    /\ log' = IF e \in Logged THEN log ELSE Append(log, e)

\* A write or fsync that fails or is cut short: nothing, the whole record, or a part of it is there.
AppendFails(r) ==
    /\ faults < MaxFaults /\ faults' = faults + 1
    /\ ~torn
    /\ \/ UNCHANGED <<log, torn>>
       \/ log' = Append(log, r) /\ UNCHANGED torn
       \/ torn' = TRUE /\ UNCHANGED log

-----------------------------------------------------------------------------
(* scripts/bridge_minisoar.py *)

\* normalize_minisoar_incident returns a finding: closed in the lab, verified by
\* somebody else (unless the operator allows unverified bundles), well formed.
Eligible(x, require_verification_pass) ==
    /\ x.closed /\ x.valid
    /\ require_verification_pass => x.passed
    /\ x.passed => x.verifier # x.executor

Imported(x) == \E e \in outbox : e.bundle = x

\* Mutant: only a repetition of the last bundle counts as a replay.
Replayed_Last(x) == current[x.finding] = x

Replayed(x) == Imported(x)

\* Mutant: an unknown bundle creates a finding, whether or not there is one.
ImportAction_ByBundle(x) == IF Imported(x) THEN "reassessed" ELSE "created"

ImportAction(x) == IF current[x.finding] = None THEN "created" ELSE "reassessed"

\* record_external_finding_import: the row and the event it owes, or a replay that
\* returns an event still owed.
Import(b, x) ==
    LET new == [bundle |-> x, type |-> ImportAction(x)]
        owed == {e \in outbox' \ delivered : e.bundle = x}
    IN
    /\ bridge[b].pc = "idle"
    /\ \E require_verification_pass \in BOOLEAN : Eligible(x, require_verification_pass)
    /\ IF Replayed(x)
       THEN UNCHANGED <<current, outbox>>
       ELSE /\ current' = [current EXCEPT ![x.finding] = x]
            /\ outbox' = outbox \cup {new}
    /\ bridge' = IF owed = {} THEN bridge
                 ELSE [bridge EXCEPT ![b] =
                         [pc |-> "append", event |-> CHOOSE e \in owed : TRUE]]
    /\ UNCHANGED <<delivered, changes, log, torn, jml, faults>>

Deliver(b) ==
    /\ bridge[b].pc = "append"
    /\ AppendIdempotent(bridge[b].event)
    /\ bridge' = [bridge EXCEPT ![b].pc = "mark"]
    /\ UNCHANGED <<current, outbox, delivered, changes, torn, jml, faults>>

\* Mutant: a failed append is taken for a delivery.
DeliverError_Ignored(b) ==
    /\ bridge[b].pc = "append"
    /\ bridge[b].event \notin Logged
    /\ AppendFails(bridge[b].event)
    /\ bridge' = [bridge EXCEPT ![b].pc = "mark"]
    /\ UNCHANGED <<current, outbox, delivered, changes, jml>>

\* "finding state was persisted but audit delivery failed"
DeliverError(b) ==
    /\ bridge[b].pc = "append"
    /\ bridge[b].event \notin Logged
    /\ AppendFails(bridge[b].event)
    /\ bridge' = [bridge EXCEPT ![b] = Idle]
    /\ UNCHANGED <<current, outbox, delivered, changes, jml>>

\* mark_external_finding_audit_delivered
Mark(b) ==
    /\ bridge[b].pc = "mark"
    /\ delivered' = delivered \cup {bridge[b].event}
    /\ bridge' = [bridge EXCEPT ![b] = Idle]
    /\ UNCHANGED <<current, outbox, changes, log, torn, jml, faults>>

\* The command is killed, or a store or a log that does not verify stops it.
Stop(b) ==
    /\ bridge[b].pc # "idle"
    /\ bridge' = [bridge EXCEPT ![b] = Idle]
    /\ UNCHANGED <<current, outbox, delivered, changes, log, torn, jml, faults>>

-----------------------------------------------------------------------------
(* scripts/bridge_jml.py *)

\* normalize_jml_request returns a finding: closed, and passed by somebody who
\* neither requested nor executed it.
JmlEligible(q) ==
    /\ q.closed /\ q.valid /\ q.passed
    /\ q.executor # None
    /\ q.verifier \notin {q.requester, q.executor}

\* Rows are read once, all or the one asked for; the bridge then walks over the
\* eligible ones.
JmlStart(j) ==
    /\ jml[j].pc = "idle"
    /\ \E S \in {{q} : q \in JmlRequest} \cup {JmlRequest} :
         jml' = [jml EXCEPT ![j] = [pc |-> "next", todo |-> {q \in S : JmlEligible(q)},
                                    record |-> None]]
    /\ UNCHANGED <<current, outbox, delivered, changes, log, torn, bridge, faults>>

\* upsert_external_finding
JmlUpsert(j, q) ==
    /\ jml[j].pc = "next" /\ q \in jml[j].todo
    /\ changes[q] < MaxChanges
    /\ changes' = [changes EXCEPT ![q] = @ + 1]
    /\ jml' = [jml EXCEPT
                 ![j].pc = "append",
                 ![j].todo = @ \ {q},
                 ![j].record = [request |-> q, type |-> IF changes[q] = 0 THEN "created"
                                                                         ELSE "reassessed"]]
    /\ UNCHANGED <<current, outbox, delivered, log, torn, bridge, faults>>

\* AuditLog.append: a fresh event_id, so every call adds a record.
JmlAppend(j) ==
    /\ jml[j].pc = "append"
    /\ ~torn
    /\ log' = Append(log, jml[j].record)
    /\ jml' = [jml EXCEPT ![j] = [pc |-> "next", todo |-> @.todo, record |-> None]]
    /\ UNCHANGED <<current, outbox, delivered, changes, torn, bridge, faults>>

\* Mutant: the append is tried again after an error.
JmlAppendError_Retries(j) ==
    /\ jml[j].pc = "append"
    /\ AppendFails(jml[j].record)
    /\ UNCHANGED <<current, outbox, delivered, changes, bridge, jml>>

\* An error of the log is not caught: the command ends.
JmlAppendError(j) ==
    /\ jml[j].pc = "append"
    /\ AppendFails(jml[j].record)
    /\ jml' = [jml EXCEPT ![j] = JmlIdle]
    /\ UNCHANGED <<current, outbox, delivered, changes, bridge>>

\* The command ends after the last row, is killed, or meets a storage error.
JmlStop(j) ==
    /\ jml[j].pc # "idle"
    /\ jml' = [jml EXCEPT ![j] = JmlIdle]
    /\ UNCHANGED <<current, outbox, delivered, changes, log, torn, bridge, faults>>

-----------------------------------------------------------------------------
Next ==
    \/ \E b \in Bridge :
         \/ \E x \in Bundle : Import(b, x)
         \/ Deliver(b) \/ DeliverError(b) \/ Mark(b) \/ Stop(b)
    \/ \E j \in JmlBridge :
         \/ \E q \in JmlRequest : JmlUpsert(j, q)
         \/ JmlStart(j) \/ JmlAppend(j) \/ JmlAppendError(j) \/ JmlStop(j)

Spec == Init /\ [][Next]_vars

-----------------------------------------------------------------------------
(* Properties *)

\* Tables, log and processes hold values of their types; a process that is
\* delivering has an event the outbox knows.
TypeOK ==
    /\ current \in [Incident -> Bundle \cup {None}]
    /\ outbox \subseteq Event /\ delivered \subseteq outbox
    /\ changes \in [JmlRequest -> 0 .. MaxChanges]
    /\ log \in Seq(Event \cup JmlRecord)
    /\ torn \in BOOLEAN
    /\ bridge \in [Bridge -> Bridge_State]
    /\ \A b \in Bridge : bridge[b].pc # "idle" => bridge[b].event \in outbox
    /\ jml \in [JmlBridge -> Jml_State]
    /\ \A j \in JmlBridge : jml[j].pc = "append" => jml[j].record \in JmlRecord
    /\ faults \in 0 .. MaxFaults

\* An import is audited at most once: two bridges on one bundle, a bridge killed
\* between the append and the mark, or an append that failed after the write, add no
\* second record of the same event.
AuditedOnce ==
    \A m, n \in DOMAIN log : log[m] \in Event /\ log[m] = log[n] => m = n

\* The outbox counts an event as delivered only when its whole record is in the log.
DeliveredIsLogged == delivered \subseteq Logged

\* The findings agree with the events: a finding exists exactly when one event says
\* it was created, and every import, the current one included, owes one event.
EventsExplainFindings ==
    \A f \in Incident :
        LET of == {e \in outbox : e.bundle.finding = f} IN
        /\ (current[f] # None) = (of # {})
        /\ of # {} => \E c \in of : {e \in of : e.type = "created"} = {c}
        /\ current[f] # None => current[f] \in {e.bundle : e \in of}
        /\ \A d, e \in of : d.bundle = e.bundle => d = e

\* The log never says more of a JML request than happened to it: each record stands
\* for a change of its own, and one at most says "created".
RecordsAreChanges ==
    \A q \in JmlRequest :
        LET of == {n \in DOMAIN log : log[n] \in JmlRecord /\ log[n].request = q} IN
        /\ Cardinality(of) <= changes[q]
        /\ Cardinality({n \in of : log[n].type = "created"}) <= 1

\* Importing an old bundle again never takes a finding back to it: a finding only
\* moves on to a bundle that was never imported before.
ReplayNeverReverts ==
    [][\A f \in Incident : current'[f] # current[f] => ~Imported(current'[f])]_vars

=============================================================================
