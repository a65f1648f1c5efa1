--------------------------- MODULE ServiceBusGate ---------------------------
(***************************************************************************)
(* The Service Bus gate of live_gate_harness.py: an execution of the       *)
(* validation job names one message, takes the head of that message's      *)
(* session or of the dead-letter queue, verifies it, settles it and        *)
(* reports.  Executions overlap and stop anywhere; the publisher of the    *)
(* outbox sends what it got no answer for again.                           *)
(*                                                                         *)
(* The broker is external and follows the queue main.bicep declares:       *)
(* sessions in order, one holder per session, a lock that runs out, a      *)
(* bound on deliveries, dead-lettering of expired messages and duplicate   *)
(* detection over a window of time.  The dead-letter queue has no          *)
(* sessions.                                                               *)
(*                                                                         *)
(* A message is the outbox row <<finding, sequence>>: its message_id, its  *)
(* correlation_id and its checksum follow from the row, its session is the *)
(* finding.  What the broker holds are numbered copies of messages.        *)
(***************************************************************************)
EXTENDS Naturals, Sequences, FiniteSets, SequencesExt

CONSTANTS
    Finding,      \* findings, the session ids of the queue
    Gate,         \* executions of the gate that may overlap
    Expected,     \* what operators name: ExpectedServiceBusMessage values
    None,
    MaxSequence,  \* bound on the events of one finding
    MaxCopies,    \* bound on the copies the broker ever holds
    MaxDelivery,  \* maxDeliveryCount of the queue
    MaxFaults     \* bound on stops, lost answers and locks outlived

Message == Finding \X (1 .. MaxSequence)

Copy == 1 .. MaxCopies
Action == {"complete", "dead-letter", "abandon"}

\* Why a copy is in the dead-letter queue: by DLQ_REASON and DLQ_DESCRIPTION, or
\* by the broker's own rules.
Contract == "contract"
Broker == "broker"

ASSUME GateAssumption ==
    /\ Expected \subseteq [message_id: Message, session_id: Finding, payload: Message]
    /\ {MaxSequence, MaxCopies, MaxDelivery} \subseteq Nat \ {0}
    /\ MaxFaults \in Nat
    /\ None \notin {Contract, Broker}

VARIABLES
    sent,      \* events of each finding whose publish was answered
    recent,    \* message ids in the duplicate-detection history
    copies,    \* per copy: message, delivery_count, dead-letter reason
    active,    \* the copies of each session, oldest first
    dlq,       \* the dead-letter queue, oldest first
    locked,    \* copies some receiver holds
    gate,      \* the executions
    settled,   \* per copy: the settlements that took it out of a queue
    reported,  \* how often each completion and dead-lettering was reported
    faults

brokerVars == <<copies, active, dlq, locked>>
vars == <<sent, recent, brokerVars, gate, settled, reported, faults>>

\* An execution that waits to be started, and one that received a copy; `held'
\* while its lock on the copy is valid.
Idle == [expected |-> None, action |-> None, source |-> None, copy |-> None,
         held |-> FALSE]
Execution == {Idle} \cup
    [expected: Expected, action: Action, source: {"active", "dead-letter"},
     copy: Copy, held: BOOLEAN]

Settlement == [expected: Expected, action: Action, source: {"active", "dead-letter"}]
Report == [copy: Copy, action: Action \ {"abandon"}, source: {"active", "dead-letter"}]

Init ==
    /\ sent = [f \in Finding |-> 0]
    /\ recent = {}
    /\ copies = <<>>
    /\ active = [f \in Finding |-> <<>>]
    /\ dlq = <<>>
    /\ locked = {}
    /\ gate = [g \in Gate |-> Idle]
    /\ settled = [c \in Copy |-> {}]
    /\ reported = [r \in Report |-> 0]
    /\ faults = 0

Fault == faults < MaxFaults /\ faults' = faults + 1

-----------------------------------------------------------------------------
(* The publisher and the broker *)

\* AzureServiceBusPublisher.publish sends the finding's next event; the broker
\* drops a message_id it remembers.  Without an answer the worker sends it again.
Send(f) ==
    LET m == <<f, sent[f] + 1>> IN
    /\ sent[f] < MaxSequence
    /\ IF m \in recent THEN UNCHANGED <<copies, active>>
       ELSE /\ Len(copies) < MaxCopies
            /\ copies' = Append(copies, [message |-> m, count |-> 0, reason |-> None])
            /\ active' = [active EXCEPT ![f] = Append(@, Len(copies) + 1)]
    /\ recent' = recent \cup {m}
    /\ UNCHANGED <<dlq, locked, gate, settled, reported>>

Publish(f) ==
    /\ Send(f)
    /\ sent' = [sent EXCEPT ![f] = @ + 1]
    /\ UNCHANGED faults

PublishUnanswered(f) ==
    /\ Send(f)
    /\ Fault
    /\ UNCHANGED sent

\* The duplicate-detection window of a message passes.
Forget(m) ==
    /\ m \in recent
    /\ recent' = recent \ {m}
    /\ UNCHANGED <<sent, brokerVars, gate, settled, reported, faults>>

Session(c) == copies[c].message[1]

\* The copy moves to the dead-letter queue.
DeadLetter(c, reason, count) ==
    /\ copies' = [copies EXCEPT ![c].reason = reason, ![c].count = count]
    /\ active' = [active EXCEPT ![Session(c)] = RemoveFirst(@, c)]
    /\ dlq' = Append(dlq, c)

\* A delivery that was not settled: the copy keeps its place, until the active
\* queue has delivered it MaxDelivery times.
Redeliver(c) ==
    LET n == IF copies[c].count < MaxDelivery THEN copies[c].count + 1
                                              ELSE copies[c].count
    IN IF copies[c].reason = None /\ n = MaxDelivery
       THEN DeadLetter(c, Broker, n)
       ELSE /\ copies' = [copies EXCEPT ![c].count = n]
            /\ UNCHANGED <<active, dlq>>

\* Time to live passes for a copy nobody holds.
Expire(f) == \E c \in ToSet(active[f]) \ locked :
    /\ DeadLetter(c, Broker, copies[c].count)
    /\ UNCHANGED <<sent, recent, locked, gate, settled, reported, faults>>

Holder(c) == {g \in Gate : gate[g].copy = c /\ gate[g].held}

\* A lock runs out, after its execution stopped or while it is still at work.
LockLapses(c) ==
    /\ c \in locked
    /\ IF Holder(c) = {} THEN UNCHANGED faults ELSE Fault
    /\ locked' = locked \ {c}
    /\ gate' = [g \in Gate |-> IF g \in Holder(c) THEN [gate[g] EXCEPT !.held = FALSE]
                                                 ELSE gate[g]]
    /\ Redeliver(c)
    /\ UNCHANGED <<sent, recent, settled, reported>>

-----------------------------------------------------------------------------
(* AzureServiceBusGateReceiver.receive_one *)

\* _receiver_kwargs: the session of the expected message, whose head is free only
\* while nobody holds the session; or the first free copy of the dead-letter queue.
Receivable(e, source) ==
    IF source = "active"
    THEN {c \in ToSet(active[e.session_id]) :
            c = Head(active[e.session_id]) /\ ToSet(active[e.session_id]) \cap locked = {}}
    ELSE {dlq[i] : i \in {i \in DOMAIN dlq : /\ dlq[i] \notin locked
                                             /\ \A j \in 1 .. i - 1 : dlq[j] \in locked}}

\* receive_messages returns one message.  A session that is held or empty, an
\* error of the client and a dead-letter of the dead-letter queue stop the
\* execution with nothing changed.
Receive(g, e, action, source) == \E c \in Receivable(e, source) :
    /\ gate[g] = Idle
    /\ ~(source = "dead-letter" /\ action = "dead-letter")
    /\ locked' = locked \cup {c}
    /\ gate' = [gate EXCEPT ![g] = [expected |-> e, action |-> action,
                                    source |-> source, copy |-> c, held |-> TRUE]]
    /\ UNCHANGED <<sent, recent, copies, active, dlq, settled, reported, faults>>

\* Mutant: the reason is not compared.
ContractHolds_AnyReason(reason, source) ==
    (reason # None) = (source = "dead-letter")

\* Mutant: a copy of the dead-letter queue must carry the two properties only.
ContractHolds_ActiveOnly(reason, source) == reason = None

\* _dead_letter_observation, and the application properties of
\* _verify_service_bus_properties: the broker adds the reason and the description
\* to a dead-lettered copy, and both must be the contract's.
ContractHolds(reason, source) ==
    reason = IF source = "dead-letter" THEN Contract ELSE None

\* Mutant: the session is left to the receiver's filter.
VerifyMessage_NoSession(m, e) == m = e.message_id /\ m = e.payload

\* verify_service_bus_message: identity, session and payload are the expected
\* ones.  Topic, content type, canonical JSON, event_sequence and correlation are
\* what AzureServiceBusPublisher makes of the row.
VerifyMessage(m, e) == m = e.message_id /\ m[1] = e.session_id /\ m = e.payload

Verified(x) ==
    /\ VerifyMessage(copies[x.copy].message, x.expected)
    /\ ContractHolds(copies[x.copy].reason, x.source)

\* The settlement: _settle for a verified copy, abandon_message for any other.
Settles(x) == IF Verified(x) THEN x.action ELSE "abandon"

\* What the broker does with it.
Settle(x) ==
    /\ locked' = locked \ {x.copy}
    /\ settled' = [settled EXCEPT ![x.copy] =
                     IF Settles(x) = "abandon" THEN @
                     ELSE @ \cup {[expected |-> x.expected, action |-> x.action,
                                   source |-> x.source]}]
    /\ CASE Settles(x) = "complete" ->
              /\ active' = [active EXCEPT ![Session(x.copy)] = RemoveFirst(@, x.copy)]
              /\ dlq' = RemoveFirst(dlq, x.copy)
              /\ UNCHANGED copies
         [] Settles(x) = "dead-letter" ->
              DeadLetter(x.copy, Contract, copies[x.copy].count)
         [] Settles(x) = "abandon" -> Redeliver(x.copy)

Finish(g) == gate' = [gate EXCEPT ![g] = Idle]

\* The JSON of receive_one, printed by main for a verified copy.  That of an abandon,
\* which moves nothing, is not counted.
Observe(x) ==
    LET r == [copy |-> x.copy, action |-> x.action, source |-> x.source] IN
    reported' = IF Settles(x) = "abandon" THEN reported
                                          ELSE [reported EXCEPT ![r] = @ + 1]

\* The copy is verified and settled in time, and a verified one is reported; a
\* mismatch ends BLOCKED.
SettleAndReport(g) ==
    /\ gate[g].held
    /\ Settle(gate[g])
    /\ Observe(gate[g])
    /\ Finish(g)
    /\ UNCHANGED <<sent, recent, faults>>

\* The broker settles, and the answer or the report is lost: the client's error
\* is BLOCKED, as is a job that stopped.
SettleUnanswered(g) ==
    /\ gate[g].held
    /\ Settle(gate[g])
    /\ Fault
    /\ Finish(g)
    /\ UNCHANGED <<sent, recent, reported>>

\* Mutant: an error of the settlement is logged and the observation returned.
SettleTooLate_Reported(g) ==
    /\ gate[g] # Idle /\ ~gate[g].held
    /\ Observe(gate[g])
    /\ Finish(g)
    /\ UNCHANGED <<sent, recent, brokerVars, settled, faults>>

\* The lock is lost: complete_message, dead_letter_message or abandon_message
\* raises, and nothing is reported.
SettleTooLate(g) ==
    /\ gate[g] # Idle /\ ~gate[g].held
    /\ Finish(g)
    /\ UNCHANGED <<sent, recent, brokerVars, settled, reported, faults>>

\* The execution stops before it settles; its lock stays until it runs out.
Stop(g) ==
    /\ gate[g] # Idle
    /\ Fault
    /\ Finish(g)
    /\ UNCHANGED <<sent, recent, brokerVars, settled, reported>>

-----------------------------------------------------------------------------
Next ==
    \/ \E f \in Finding : Publish(f) \/ PublishUnanswered(f) \/ Expire(f)
    \/ \E m \in Message : Forget(m)
    \/ \E c \in Copy : LockLapses(c)
    \/ \E g \in Gate :
         \/ \E e \in Expected, a \in Action, s \in {"active", "dead-letter"} :
              Receive(g, e, a, s)
         \/ SettleAndReport(g) \/ SettleUnanswered(g) \/ SettleTooLate(g) \/ Stop(g)

Spec == Init /\ [][Next]_vars

Exact(m) == [message_id |-> m, session_id |-> m[1], payload |-> m]
Named == {m \in Message : Exact(m) \in Expected}

\* An operator starts the job for a message to be completed, and gets copy c.
Attempt(m, c) == \E g \in Gate, s \in {"active", "dead-letter"} :
    Receive(g, Exact(m), "complete", s) /\ gate'[g].copy = c

\* The locks of stopped executions run out, executions go on, and operators keep
\* starting the job for the messages they want completed.  Another execution may
\* hold the message just then, again and again, so that one is strong.
FairSpec ==
    /\ Spec
    /\ \A c \in Copy : WF_vars(Holder(c) = {} /\ LockLapses(c))
    /\ \A g \in Gate : WF_vars(SettleAndReport(g) \/ SettleTooLate(g))
    /\ \A m \in Named, c \in Copy : SF_vars(Attempt(m, c))

-----------------------------------------------------------------------------
(* Properties *)

TypeOK ==
    /\ sent \in [Finding -> 0 .. MaxSequence]
    /\ recent \subseteq Message
    /\ copies \in Seq([message: Message, count: 0 .. MaxDelivery,
                       reason: {None, Contract, Broker}])
    /\ active \in [Finding -> Seq(Copy)]
    /\ dlq \in Seq(Copy)
    /\ locked \subseteq Copy
    /\ gate \in [Gate -> Execution]
    /\ settled \in [Copy -> SUBSET Settlement]
    /\ reported \in [Report -> Nat]

Queued(c) == \E f \in Finding : c \in ToSet(active[f])
DeadLettered(c) == c \in ToSet(dlq)

\* Nothing the publisher sent disappears: every copy is in its session, in the
\* dead-letter queue or was completed, in one place only, and a settlement that
\* took it out of a queue was asked for by an execution that named exactly this
\* message and this session, however executions overlap and whatever they were
\* mistakenly aimed at.
OnlyTheNamedIsSettled == \A c \in 1 .. Len(copies) :
    LET done == \E s \in settled[c] : s.action = "complete" IN
    /\ Cardinality({p \in {<<1, Queued(c)>>, <<2, DeadLettered(c)>>, <<3, done>>} : p[2]}) = 1
    /\ \A s \in settled[c] : s.expected = Exact(copies[c].message)

\* A report is evidence: a copy is reported as completed, and as dead-lettered, at
\* most once, by no two executions that held it one after the other, and only when
\* the broker did it.
ReportsAreReal == \A r \in Report :
    reported[r] > 0 =>
        /\ reported[r] = 1
        /\ \E s \in settled[r.copy] : s.action = r.action /\ s.source = r.source

\* Recovery from the dead-letter queue is credited only for a copy that a gate
\* execution put there, never for one the broker gave up on or let expire.
RecoveryIsOfOurOwn == \A r \in Report :
    r.source = "dead-letter" /\ reported[r] > 0 =>
        \E s \in settled[r.copy] : s.action = "dead-letter"

\* A named message at the front of its session does not stay there: it is
\* eventually completed or dead-lettered, by an execution or by the broker, whose
\* delivery limit misdirected executions may use up.  One that a gate
\* dead-lettered, at the front of the dead-letter queue, is eventually completed:
\* overlapping, stopped, late and misdirected executions only delay that.
NamedIsSettled == \A c \in Copy :
    LET named == copies[c].message \in Named IN
    /\ (Queued(c) /\ named /\ Head(active[Session(c)]) = c) ~> ~Queued(c)
    /\ (DeadLettered(c) /\ named /\ Head(dlq) = c /\ copies[c].reason = Contract)
         ~> ~DeadLettered(c)
=============================================================================
