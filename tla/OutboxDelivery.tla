--------------------------- MODULE OutboxDelivery ---------------------------
(***************************************************************************)
(* The broker outbox of outbox_delivery.py: rows of governance_outbox are  *)
(* claimed under a lease, published, and acknowledged or failed by workers *)
(* (OutboxWorker.run_once) that may be slow, stop at any step, or find the *)
(* broker unavailable.                                                     *)
(*                                                                         *)
(* Time appears only through the comparisons the code makes with it: a     *)
(* claimed row's locked_until has passed (`lapsed') or not, a failed row's *)
(* available_at is still ahead (`waiting') or not.  Either may pass at any *)
(* moment.  time.time() is sampled before the statement that uses it gets  *)
(* the database lock, so the sample is a step of its own (`inLease').      *)
(*                                                                         *)
(* A lock token is a fresh uuid4 per claim and lives in one run_once call, *)
(* so it is modelled by the worker that is executing that call.            *)
(* The claim's ORDER BY created_at is left open: created_at is sampled     *)
(* before the writing transaction, so across findings its order is         *)
(* arbitrary, and within a finding only one row is ever eligible.          *)
(***************************************************************************)
EXTENDS Naturals, FiniteSets

CONSTANTS
    Finding, Worker, None,
    MaxSequence,   \* bound on the events of one finding
    MaxAttempts    \* max_attempts of the retry policy

ASSUME OutboxAssumption ==
    /\ MaxSequence \in Nat
    /\ MaxAttempts \in Nat \ {0}
    /\ None \notin Worker

VARIABLES
    emitted,    \* governance_outbox rows of each finding: sequences 1..emitted[f]
    delivered,  \* rows with delivered_at
    dead,       \* rows with dead_at
    attempts,   \* attempts, counted up to MaxAttempts
    holder,     \* worker_id and lock_token: who claimed the row last
    lapsed,     \* claimed rows whose locked_until has passed
    waiting,    \* rows whose available_at is still ahead
    failed,     \* rows with last_error
    broker,     \* messages the broker has accepted
    torn,       \* messages of which an interrupted write left a part
    worker,     \* run_once of each worker
    health      \* status of the newest heartbeat row

rows == <<delivered, dead, attempts, holder, lapsed, waiting, failed>>
vars == <<emitted, rows, broker, torn, worker, health>>

Sequence == 1 .. MaxSequence
Item == Finding \X Sequence

Row(i) == i[2] <= emitted[i[1]]

\* run_once: the item in hand, the tries the claim returned, and whether the
\* lease had not run out when the clock was last sampled.
Idle == [pc |-> "idle", item |-> None, attempts |-> 0, inLease |-> FALSE]
Worker_State ==
    [pc: {"idle", "claimed", "published", "transient", "permanent",
          "acknowledge", "fail", "fail_permanent"},
     item: Item \cup {None}, attempts: 0 .. MaxAttempts, inLease: BOOLEAN]

Init ==
    /\ emitted = [f \in Finding |-> 0]
    /\ delivered = {} /\ dead = {} /\ lapsed = {} /\ waiting = {} /\ failed = {}
    /\ attempts = [i \in Item |-> 0]
    /\ holder = [i \in Item |-> None]
    /\ broker = {} /\ torn = {}
    /\ worker = [w \in Worker |-> Idle]
    /\ health = "none"

-----------------------------------------------------------------------------
(* The writers and the clock *)

\* GovernanceCore._event inserts one row, in the transaction of the event.
Emit(f) ==
    /\ emitted[f] < MaxSequence
    /\ emitted' = [emitted EXCEPT ![f] = @ + 1]
    /\ UNCHANGED <<rows, broker, torn, worker, health>>

Lapse(i) ==
    /\ holder[i] # None /\ i \notin lapsed
    /\ lapsed' = lapsed \cup {i}
    /\ UNCHANGED <<emitted, delivered, dead, attempts, holder, waiting, failed,
                   broker, torn, worker, health>>

BecomeAvailable(i) ==
    /\ i \in waiting
    /\ waiting' = waiting \ {i}
    /\ UNCHANGED <<emitted, delivered, dead, attempts, holder, lapsed, failed,
                   broker, torn, worker, health>>

-----------------------------------------------------------------------------
(* OutboxWorker.run_once *)

\* The WHERE clause of claim.
Claimable(i) ==
    /\ Row(i) /\ i \notin delivered /\ i \notin dead /\ i \notin waiting
    /\ holder[i] = None \/ i \in lapsed
    /\ \A n \in 1 .. (i[2] - 1) : <<i[1], n>> \in delivered

\* heartbeat, then claim.
Claim(w, i) ==
    /\ worker[w].pc = "idle"
    /\ Claimable(i)
    /\ LET tries == IF attempts[i] < MaxAttempts THEN attempts[i] + 1
                                                 ELSE MaxAttempts
       IN /\ attempts' = [attempts EXCEPT ![i] = tries]
          /\ worker' = [worker EXCEPT ![w] =
                          [pc |-> "claimed", item |-> i, attempts |-> tries,
                           inLease |-> FALSE]]
    /\ holder' = [holder EXCEPT ![i] = w]
    /\ lapsed' = lapsed \ {i}
    /\ health' = "running"
    /\ UNCHANGED <<emitted, delivered, dead, waiting, failed, broker, torn>>

\* heartbeat; claim returns None; heartbeat.
ClaimNothing(w) ==
    /\ worker[w].pc = "idle"
    /\ \A i \in Item : ~Claimable(i)
    /\ health' = "running"
    /\ UNCHANGED <<emitted, rows, broker, torn, worker>>

Goto(w, pc) == worker' = [worker EXCEPT ![w].pc = pc]

\* Mutant: a send that timed out is taken for a receipt.
Publish_Unconfirmed(w) ==
    /\ worker[w].pc = "claimed"
    /\ \/ broker' = broker \cup {worker[w].item}
       \/ UNCHANGED broker
    /\ Goto(w, "published")
    /\ UNCHANGED <<emitted, rows, torn, health>>

\* publisher.publish succeeds; the message identity is the row's, so a reader of
\* the broker sees one message however often it is sent (ServiceBusGate has the
\* copies a broker keeps once it no longer remembers the identity).
Publish(w) ==
    /\ worker[w].pc = "claimed"
    /\ worker[w].item \notin torn
    /\ broker' = broker \cup {worker[w].item}
    /\ Goto(w, "published")
    /\ UNCHANGED <<emitted, rows, torn, health>>

\* publish raises a transient error: before or after the broker took the
\* message, or in the middle of writing a new message file.
PublishTransient(w) ==
    LET i == worker[w].item IN
    /\ worker[w].pc = "claimed"
    /\ \/ UNCHANGED <<broker, torn>>
       \/ i \notin torn /\ broker' = broker \cup {i} /\ UNCHANGED torn
       \/ i \notin broker /\ torn' = torn \cup {i} /\ UNCHANGED broker
    /\ Goto(w, "transient")
    /\ UNCHANGED <<emitted, rows, health>>

\* OutboxMessage.from_item or publish raises PermanentOutboxError; it always
\* does over what an interrupted LocalOutboxPublisher write left.
PublishPermanent(w) ==
    /\ worker[w].pc = "claimed"
    /\ Goto(w, "permanent")
    /\ UNCHANGED <<emitted, rows, broker, torn, health>>

\* acknowledge and fail sample the clock, then wait for the database lock.
Sample(w) ==
    /\ worker[w].pc \in {"published", "transient", "permanent"}
    /\ worker' = [worker EXCEPT
                    ![w].inLease = worker[w].item \notin lapsed,
                    ![w].pc = CASE worker[w].pc = "published" -> "acknowledge"
                                [] worker[w].pc = "transient" -> "fail"
                                [] worker[w].pc = "permanent" -> "fail_permanent"]
    /\ UNCHANGED <<emitted, rows, broker, torn, health>>

\* Mutant: the update is not fenced by the token and the lease.
MayUpdate_Unfenced(w) == worker[w].item \notin delivered \cup dead

\* The WHERE clause shared by the updates of acknowledge and fail.
MayUpdate(w) ==
    LET i == worker[w].item IN
    /\ i \notin delivered /\ i \notin dead
    /\ holder[i] = w
    /\ worker[w].inLease

Release(i) ==
    /\ holder' = [holder EXCEPT ![i] = None]
    /\ lapsed' = lapsed \ {i}

Finish(w, status) ==
    /\ worker' = [worker EXCEPT ![w] = Idle]
    /\ health' = status

\* acknowledge, recording the delivery.
Acknowledge(w) ==
    LET i == worker[w].item IN
    /\ worker[w].pc = "acknowledge"
    /\ MayUpdate(w)
    /\ delivered' = delivered \cup {i}
    /\ failed' = failed \ {i}
    /\ Release(i)
    /\ Finish(w, "running")
    /\ UNCHANGED <<emitted, dead, attempts, waiting, broker, torn>>

\* acknowledge of a row that is already delivered, or one that lost the row.  SQLite
\* reads and updates the row in two statements, so a delivery in between looks stale.
AcknowledgeNothing(w) ==
    LET i == worker[w].item IN
    /\ worker[w].pc = "acknowledge"
    /\ ~MayUpdate(w)
    /\ \/ i \in delivered /\ Finish(w, "running")
       \/ Finish(w, "degraded")
    /\ UNCHANGED <<emitted, rows, broker, torn>>

\* The database refuses acknowledge: run_once falls through to fail.
AcknowledgeError(w) ==
    /\ worker[w].pc = "acknowledge"
    /\ Goto(w, "transient")
    /\ UNCHANGED <<emitted, rows, broker, torn, health>>

\* Mutant: the number of attempts is never compared with the limit.
Fail_NoLimit(w) ==
    LET i == worker[w].item
        die == worker[w].pc = "fail_permanent"
    IN
    /\ worker[w].pc \in {"fail", "fail_permanent"}
    /\ MayUpdate(w)
    /\ dead' = IF die THEN dead \cup {i} ELSE dead
    /\ waiting' = IF die THEN waiting ELSE waiting \cup {i}
    /\ failed' = failed \cup {i}
    /\ Release(i)
    /\ Finish(w, "degraded")
    /\ UNCHANGED <<emitted, delivered, attempts, broker, torn>>

\* fail, when the row is still this worker's.
Fail(w) ==
    LET i == worker[w].item
        die == worker[w].pc = "fail_permanent" \/ worker[w].attempts >= MaxAttempts
    IN
    /\ worker[w].pc \in {"fail", "fail_permanent"}
    /\ MayUpdate(w)
    /\ dead' = IF die THEN dead \cup {i} ELSE dead
    /\ waiting' = IF die THEN waiting ELSE waiting \cup {i}
    /\ failed' = failed \cup {i}
    /\ Release(i)
    /\ Finish(w, "degraded")
    /\ UNCHANGED <<emitted, delivered, attempts, broker, torn>>

\* fail returns "stale".
FailStale(w) ==
    /\ worker[w].pc \in {"fail", "fail_permanent"}
    /\ ~MayUpdate(w)
    /\ Finish(w, "degraded")
    /\ UNCHANGED <<emitted, rows, broker, torn>>

\* The worker process stops; its claim stays until the lease runs out.
Crash(w) ==
    /\ worker[w].pc # "idle"
    /\ worker' = [worker EXCEPT ![w] = Idle]
    /\ UNCHANGED <<emitted, rows, broker, torn, health>>

\* It stops while LocalOutboxPublisher is writing the message file.
CrashWhilePublishing(w) ==
    /\ worker[w].pc = "claimed"
    /\ worker[w].item \notin broker
    /\ torn' = torn \cup {worker[w].item}
    /\ worker' = [worker EXCEPT ![w] = Idle]
    /\ UNCHANGED <<emitted, rows, broker, health>>

-----------------------------------------------------------------------------
\* requeue_dead, after the operator's confirmation.
RequeueDead(i) ==
    /\ i \in dead /\ i \notin delivered
    /\ dead' = dead \ {i}
    /\ attempts' = [attempts EXCEPT ![i] = 0]
    /\ waiting' = waiting \ {i}
    /\ failed' = failed \ {i}
    /\ Release(i)
    /\ UNCHANGED <<emitted, delivered, broker, torn, worker, health>>

RunOnce(w) ==
    \/ \E i \in Item : Claim(w, i)
    \/ ClaimNothing(w)
    \/ Publish(w) \/ PublishTransient(w) \/ PublishPermanent(w)
    \/ Sample(w)
    \/ Acknowledge(w) \/ AcknowledgeNothing(w) \/ AcknowledgeError(w)
    \/ Fail(w) \/ FailStale(w)

Next ==
    \/ \E f \in Finding : Emit(f)
    \/ \E i \in Item : Lapse(i) \/ BecomeAvailable(i) \/ RequeueDead(i)
    \/ \E w \in Worker : RunOnce(w) \/ Crash(w) \/ CrashWhilePublishing(w)

Spec == Init /\ [][Next]_vars

\* A worker that keeps running finishes its steps, and clocks advance.  The
\* lease of a worker that is still in run_once may run out (it is slow) and
\* workers may stop, but neither happens for ever: a lease of 60 seconds is
\* longer than a healthy publication, and stopped workers are restarted.
SlowLapse == \E i \in Item : holder[i] # None /\ worker[holder[i]].item = i /\ Lapse(i)
Stop == \E w \in Worker : Crash(w) \/ CrashWhilePublishing(w)
Fairness ==
    /\ \A w \in Worker : WF_vars(RunOnce(w))
    /\ \A i \in Item : WF_vars(Lapse(i)) /\ WF_vars(BecomeAvailable(i))
    /\ <>[][~SlowLapse /\ ~Stop]_vars

FairSpec == Spec /\ Fairness

-----------------------------------------------------------------------------
(* Properties *)

\* Every row, every worker and the heartbeat hold values of their columns; a
\* worker that is not idle has an item in hand.
TypeOK ==
    /\ emitted \in [Finding -> 0 .. MaxSequence]
    /\ delivered \subseteq Item /\ dead \subseteq Item
    /\ lapsed \subseteq Item /\ waiting \subseteq Item /\ failed \subseteq Item
    /\ attempts \in [Item -> 0 .. MaxAttempts]
    /\ holder \in [Item -> Worker \cup {None}]
    /\ broker \subseteq Item /\ torn \subseteq Item
    /\ worker \in [Worker -> Worker_State]
    /\ \A w \in Worker : worker[w].pc # "idle" => worker[w].item \in Item
    /\ health \in {"none", "running", "degraded"}

\* Per-finding order at the broker: whatever leases run out, workers stop or
\* stale workers publish late, no event is ever published before every earlier
\* event of its finding is recorded as delivered.
PublishedInOrder ==
    \A f \in Finding, n \in Sequence :
        <<f, n>> \in broker =>
            \A m \in 1 .. (n - 1) : <<f, m>> \in delivered

\* A dead-lettered row is never counted as delivered as well: a late receipt
\* does not revive it, and a delivered row is not dead-lettered by a slow worker.
NeverDeadAndDelivered == dead \cap delivered = {}

\* A lease that has not run out is given up only by the worker that holds it,
\* at the end of its own run_once.
LeaseIsExclusive ==
    [][\A i \in Item :
         holder[i] # None /\ i \notin lapsed /\ holder'[i] # holder[i]
         => worker[holder[i]].item = i /\ worker'[holder[i]].pc = "idle"]_vars

\* Every event ends up delivered, dead-lettered, or held back by a dead-lettered
\* event of the same finding: the retry limit turns endless failure into a
\* dead letter.
Settles ==
    \A f \in Finding, n \in Sequence :
        n <= emitted[f] ~> \/ <<f, n>> \in delivered
                          \/ \E m \in 1 .. n : <<f, m>> \in dead

\* The outbox implements ordered delivery: an event is accepted in order and
\* recorded as delivered only once the broker holds it.
Ordered == INSTANCE OrderedDelivery WITH accepted <- broker, recorded <- delivered
OrderedSpec == Ordered!Spec

=============================================================================
