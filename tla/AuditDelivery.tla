---------------------------- MODULE AuditDelivery ----------------------------
(***************************************************************************)
(* The audit export queue of audit_delivery.py and the create-only archive *)
(* of audit_archive.py: rows of audit_exports are claimed under a lease,   *)
(* written to the archive and acknowledged or failed by                    *)
(* AuditExportWorker.run_once.  Time and tokens are modelled as in         *)
(* OutboxDelivery.  Three things differ from the outbox: fail does not ask *)
(* whether the lease still runs, every exception is retried alike, and an  *)
(* archive object is created and then written, so another process can see  *)
(* it half written.                                                        *)
(***************************************************************************)
EXTENDS Naturals, FiniteSets

CONSTANTS
    Finding, Worker, None,
    MaxSequence,   \* bound on the events of one finding
    MaxAttempts    \* max_attempts of the retry policy

ASSUME AuditAssumption ==
    /\ MaxSequence \in Nat
    /\ MaxAttempts \in Nat \ {0}
    /\ None \notin Worker

VARIABLES
    emitted,   \* audit_exports rows of each finding: sequences 1..emitted[f]
    archived,  \* rows with archived_at
    dead,      \* rows with dead_at
    attempts,  \* attempts, counted up to MaxAttempts
    holder,    \* worker_id and lock_token: who claimed the row last
    lapsed,    \* claimed rows whose locked_until has passed
    waiting,   \* rows whose available_at is still ahead
    object,    \* the archive: "absent", "partial" or "whole"
    worker     \* run_once of each worker

rows == <<archived, dead, attempts, holder, lapsed, waiting>>
vars == <<emitted, rows, object, worker>>

Sequence == 1 .. MaxSequence
Item == Finding \X Sequence
Row(i) == i[2] <= emitted[i[1]]

Idle == [pc |-> "idle", item |-> None, attempts |-> 0, inLease |-> FALSE]
Worker_State ==
    [pc: {"idle", "claimed", "writing", "stored", "acknowledge", "error"},
     item: Item \cup {None}, attempts: 0 .. MaxAttempts, inLease: BOOLEAN]

Init ==
    /\ emitted = [f \in Finding |-> 0]
    /\ archived = {} /\ dead = {} /\ lapsed = {} /\ waiting = {}
    /\ attempts = [i \in Item |-> 0]
    /\ holder = [i \in Item |-> None]
    /\ object = [i \in Item |-> "absent"]
    /\ worker = [w \in Worker |-> Idle]

-----------------------------------------------------------------------------
\* GovernanceCore._event inserts one row, in the transaction of the event.
Emit(f) ==
    /\ emitted[f] < MaxSequence
    /\ emitted' = [emitted EXCEPT ![f] = @ + 1]
    /\ UNCHANGED <<rows, object, worker>>

Lapse(i) ==
    /\ holder[i] # None /\ i \notin lapsed
    /\ lapsed' = lapsed \cup {i}
    /\ UNCHANGED <<emitted, archived, dead, attempts, holder, waiting, object, worker>>

BecomeAvailable(i) ==
    /\ i \in waiting
    /\ waiting' = waiting \ {i}
    /\ UNCHANGED <<emitted, archived, dead, attempts, holder, lapsed, object, worker>>

-----------------------------------------------------------------------------
(* AuditExportWorker.run_once *)

\* Mutant: a running lease is not respected.
Claimable_Leased(i) ==
    /\ Row(i) /\ i \notin archived /\ i \notin dead /\ i \notin waiting
    /\ \A n \in 1 .. (i[2] - 1) : <<i[1], n>> \in archived

\* The WHERE clause of claim.
Claimable(i) ==
    /\ Row(i) /\ i \notin archived /\ i \notin dead /\ i \notin waiting
    /\ holder[i] = None \/ i \in lapsed
    /\ \A n \in 1 .. (i[2] - 1) : <<i[1], n>> \in archived

Claim(w, i) ==
    /\ worker[w].pc = "idle"
    /\ Claimable(i)
    /\ LET tries == IF attempts[i] < MaxAttempts THEN attempts[i] + 1
                                                 ELSE MaxAttempts
       IN /\ attempts' = [attempts EXCEPT ![i] = tries]
          /\ worker' = [worker EXCEPT ![w] =
                          [pc |-> "claimed", item |-> i, attempts |-> tries,
                           inLease |-> FALSE]]
    /\ holder' = [holder EXCEPT ![i] = w]
    /\ lapsed' = lapsed \ {i}
    /\ UNCHANGED <<emitted, archived, dead, waiting, object>>

Goto(w, pc) == worker' = [worker EXCEPT ![w].pc = pc]

\* The payload does not parse or validate, or the archive is unreachable.
PersistError(w) ==
    /\ worker[w].pc \in {"claimed", "writing"}
    /\ Goto(w, "error")
    /\ UNCHANGED <<emitted, rows, object>>

\* persist_event creates the object ...
CreateObject(w) ==
    /\ worker[w].pc = "claimed"
    /\ object[worker[w].item] = "absent"
    /\ object' = [object EXCEPT ![worker[w].item] = "partial"]
    /\ Goto(w, "writing")
    /\ UNCHANGED <<emitted, rows>>

\* ... and writes, syncs and reads it back.
WriteObject(w) ==
    /\ worker[w].pc = "writing"
    /\ object' = [object EXCEPT ![worker[w].item] = "whole"]
    /\ Goto(w, "stored")
    /\ UNCHANGED <<emitted, rows>>

\* Mutant: an object that exists is taken to be this event.
ReadBack_Trusting(w) ==
    /\ worker[w].pc = "claimed"
    /\ object[worker[w].item] # "absent"
    /\ Goto(w, "stored")
    /\ UNCHANGED <<emitted, rows, object>>

\* The object exists already: only its content decides.
ReadBack(w) ==
    /\ worker[w].pc = "claimed"
    /\ object[worker[w].item] # "absent"
    /\ Goto(w, IF object[worker[w].item] = "whole" THEN "stored" ELSE "error")
    /\ UNCHANGED <<emitted, rows, object>>

\* acknowledge samples the clock, then waits for the database lock.
Sample(w) ==
    /\ worker[w].pc = "stored"
    /\ worker' = [worker EXCEPT ![w].pc = "acknowledge",
                                ![w].inLease = worker[w].item \notin lapsed]
    /\ UNCHANGED <<emitted, rows, object>>

\* The row is undecided and still carries this worker's token.
Mine(w) ==
    LET i == worker[w].item IN
    i \notin archived /\ i \notin dead /\ holder[i] = w

Release(i) ==
    /\ holder' = [holder EXCEPT ![i] = None]
    /\ lapsed' = lapsed \ {i}

Finish(w) == worker' = [worker EXCEPT ![w] = Idle]

Acknowledge(w) ==
    /\ worker[w].pc = "acknowledge"
    /\ Mine(w) /\ worker[w].inLease
    /\ archived' = archived \cup {worker[w].item}
    /\ Release(worker[w].item)
    /\ Finish(w)
    /\ UNCHANGED <<emitted, dead, attempts, waiting, object>>

AcknowledgeStale(w) ==
    /\ worker[w].pc = "acknowledge"
    /\ ~(Mine(w) /\ worker[w].inLease)
    /\ Finish(w)
    /\ UNCHANGED <<emitted, rows, object>>

\* The database refuses acknowledge: run_once falls through to fail.
AcknowledgeError(w) ==
    /\ worker[w].pc = "acknowledge"
    /\ Goto(w, "error")
    /\ UNCHANGED <<emitted, rows, object>>

\* Mutant: a failure starts the count of attempts again.
Fail_ResetsAttempts(w) ==
    LET i == worker[w].item IN
    /\ worker[w].pc = "error"
    /\ Mine(w)
    /\ attempts' = [attempts EXCEPT ![i] = 0]
    /\ waiting' = waiting \cup {i}
    /\ Release(i)
    /\ Finish(w)
    /\ UNCHANGED <<emitted, archived, dead, object>>

\* fail: the token decides, a lease that has run out does not.  available_at
\* moves ahead even when the row dies.
Fail(w) ==
    LET i == worker[w].item IN
    /\ worker[w].pc = "error"
    /\ Mine(w)
    /\ dead' = IF worker[w].attempts >= MaxAttempts THEN dead \cup {i} ELSE dead
    /\ waiting' = waiting \cup {i}
    /\ Release(i)
    /\ Finish(w)
    /\ UNCHANGED <<emitted, archived, attempts, object>>

FailStale(w) ==
    /\ worker[w].pc = "error"
    /\ ~Mine(w)
    /\ Finish(w)
    /\ UNCHANGED <<emitted, rows, object>>

\* The worker process stops, possibly in the middle of a write.
Crash(w) ==
    /\ worker[w].pc # "idle"
    /\ Finish(w)
    /\ UNCHANGED <<emitted, rows, object>>

\* requeue_dead, after the operator's confirmation.
RequeueDead(i) ==
    /\ i \in dead /\ i \notin archived
    /\ dead' = dead \ {i}
    /\ attempts' = [attempts EXCEPT ![i] = 0]
    /\ waiting' = waiting \ {i}
    /\ Release(i)
    /\ UNCHANGED <<emitted, archived, object, worker>>

RunOnce(w) ==
    \/ \E i \in Item : Claim(w, i)
    \/ PersistError(w) \/ CreateObject(w) \/ WriteObject(w) \/ ReadBack(w)
    \/ Sample(w)
    \/ Acknowledge(w) \/ AcknowledgeStale(w) \/ AcknowledgeError(w)
    \/ Fail(w) \/ FailStale(w)

Next ==
    \/ \E f \in Finding : Emit(f)
    \/ \E i \in Item : Lapse(i) \/ BecomeAvailable(i) \/ RequeueDead(i)
    \/ \E w \in Worker : RunOnce(w) \/ Crash(w)

Spec == Init /\ [][Next]_vars

\* As for the outbox: runs that are started finish, clocks advance, and from
\* some point on workers neither stop nor outlive their 60 second lease.
SlowLapse == \E i \in Item : holder[i] # None /\ worker[holder[i]].item = i /\ Lapse(i)
Stop == \E w \in Worker : Crash(w)
Fairness ==
    /\ \A w \in Worker : WF_vars(RunOnce(w))
    /\ \A i \in Item : WF_vars(Lapse(i)) /\ WF_vars(BecomeAvailable(i))
    /\ <>[][~SlowLapse /\ ~Stop]_vars

FairSpec == Spec /\ Fairness

-----------------------------------------------------------------------------
(* Properties *)

\* Every row, object and worker holds values of its columns; a worker that is
\* not idle has an item in hand.
TypeOK ==
    /\ emitted \in [Finding -> 0 .. MaxSequence]
    /\ archived \subseteq Item /\ dead \subseteq Item
    /\ lapsed \subseteq Item /\ waiting \subseteq Item
    /\ attempts \in [Item -> 0 .. MaxAttempts]
    /\ holder \in [Item -> Worker \cup {None}]
    /\ object \in [Item -> {"absent", "partial", "whole"}]
    /\ worker \in [Worker -> Worker_State]
    /\ \A w \in Worker : worker[w].pc # "idle" => worker[w].item \in Item

\* A lease that has not run out is given up only by the worker that holds it.
LeaseIsExclusive ==
    [][\A i \in Item :
         holder[i] # None /\ i \notin lapsed /\ holder'[i] # holder[i]
         => worker[holder[i]].item = i /\ worker'[holder[i]].pc = "idle"]_vars

\* Every event ends up archived, dead-lettered, or held back by a dead-lettered
\* event of the same finding.
Settles ==
    \A f \in Finding, n \in Sequence :
        n <= emitted[f] ~> \/ <<f, n>> \in archived
                          \/ \E m \in 1 .. n : <<f, m>> \in dead

\* The archive queue implements ordered delivery: events become whole objects
\* in sequence order, and are recorded as archived only when they are whole.
WholeObjects == {i \in Item : object[i] = "whole"}
Ordered == INSTANCE OrderedDelivery WITH accepted <- WholeObjects, recorded <- archived
OrderedSpec == Ordered!Spec

=============================================================================
