------------------------ MODULE AuditDelivery_proofs ------------------------
(***************************************************************************)
(* Proofs about AuditDelivery, for any set of findings and workers and any *)
(* retry limit: the archive queue implements ordered delivery, and a       *)
(* running lease is exclusive although fail never looks at it.             *)
(*                                                                         *)
(* As for the outbox, the refinement rests on what a worker holds between  *)
(* its claim and the end of its write.  In addition the archive is filled  *)
(* in two steps, so the invariant says who may be writing an object and    *)
(* that an object once whole stays whole.                                  *)
(***************************************************************************)
EXTENDS AuditDelivery, TLAPS

\* A worker in run_once holds a row that exists and whose predecessors are
\* archived (claim's WHERE clause, which stays true after the lease is lost).
HeldInOrder ==
    \A w \in Worker : worker[w].pc # "idle" =>
        /\ Row(worker[w].item)
        /\ \A m \in 1 .. (worker[w].item[2] - 1) :
              <<worker[w].item[1], m>> \in archived

\* A worker that is about to acknowledge has written or read back the whole
\* object.
ReceiptIsReal ==
    \A w \in Worker :
        worker[w].pc \in {"stored", "acknowledge"} => object[worker[w].item] = "whole"

\* A row is recorded as archived only when its object is whole.
ArchivedIsWhole == archived \subseteq WholeObjects

\* A row is never archived and dead at once: a stale failure leaves an archived
\* row alone.
NeverDeadAndArchived == archived \cap dead = {}

\* The objects of a finding, whole or partly written, are in sequence order: all
\* that precede one that exists are archived.
ObjectsInOrder ==
    \A f \in Finding, n \in Sequence :
        object[<<f, n>>] # "absent" => \A m \in 1 .. (n - 1) : <<f, m>> \in archived

\* An object is written by one worker only, the one that created it: nobody
\* writes over an object that is whole.
OneWriter ==
    /\ \A w \in Worker : worker[w].pc = "writing" => object[worker[w].item] = "partial"
    /\ \A v, w \in Worker :
         worker[v].pc = "writing" /\ worker[w].pc = "writing"
         /\ worker[v].item = worker[w].item => v = w

\* The inductive invariant.
IInv ==
    /\ TypeOK
    /\ HeldInOrder
    /\ ReceiptIsReal
    /\ ArchivedIsWhole
    /\ NeverDeadAndArchived
    /\ ObjectsInOrder
    /\ OneWriter

-----------------------------------------------------------------------------
LEMMA ItemParts ==
    ASSUME NEW i \in Item
    PROVE  i[1] \in Finding /\ i[2] \in Sequence /\ i = <<i[1], i[2]>>
  BY DEF Item

LEMMA ItemPair ==
    ASSUME NEW f \in Finding, NEW n \in Sequence
    PROVE  <<f, n>> \in Item /\ <<f, n>>[1] = f /\ <<f, n>>[2] = n
  BY DEF Item

LEMMA InitType == Init => TypeOK
  BY AuditAssumption DEF Init, TypeOK, Worker_State, Idle

LEMMA NextType == TypeOK /\ [Next]_vars => TypeOK'
  <1> SUFFICES ASSUME TypeOK, [Next]_vars PROVE TypeOK'
    OBVIOUS
  <1> USE AuditAssumption DEF TypeOK
  <1>1. ASSUME NEW f \in Finding, Emit(f) PROVE TypeOK'
    BY <1>1 DEF Emit, rows
  <1>2. ASSUME NEW i \in Item, Lapse(i) \/ BecomeAvailable(i) PROVE TypeOK'
    BY <1>2 DEF Lapse, BecomeAvailable
  <1>3. ASSUME NEW i \in Item, RequeueDead(i) PROVE TypeOK'
    BY <1>3 DEF RequeueDead, Release
  <1>4. ASSUME NEW w \in Worker, NEW i \in Item, Claim(w, i) PROVE TypeOK'
    <2> DEFINE tries == IF attempts[i] < MaxAttempts THEN attempts[i] + 1
                                                     ELSE MaxAttempts
    <2>1. tries \in 0 .. MaxAttempts
      OBVIOUS
    <2>2. worker' = [worker EXCEPT ![w] =
                        [pc |-> "claimed", item |-> i, attempts |-> tries,
                         inLease |-> FALSE]]
      BY <1>4 DEF Claim
    <2>3. [pc |-> "claimed", item |-> i, attempts |-> tries, inLease |-> FALSE]
            \in Worker_State
      BY <2>1 DEF Worker_State
    <2>4. worker' \in [Worker -> Worker_State]
          /\ \A v \in Worker : worker'[v].pc # "idle" => worker'[v].item \in Item
      BY <2>2, <2>3
    <2>5. attempts' \in [Item -> 0 .. MaxAttempts]
      BY <1>4, <2>1 DEF Claim
    <2> QED BY <1>4, <2>4, <2>5 DEF Claim
  <1>5. ASSUME NEW w \in Worker,
               \/ PersistError(w) \/ CreateObject(w) \/ WriteObject(w)
               \/ ReadBack(w) \/ AcknowledgeError(w)
        PROVE  TypeOK'
    <2>1. PICK pc \in {"writing", "stored", "error"} :
            worker[w].pc # "idle" /\ Goto(w, pc)
      BY <1>5 DEF PersistError, CreateObject, WriteObject, ReadBack,
           AcknowledgeError, Goto
    <2>2. worker' \in [Worker -> Worker_State]
          /\ \A v \in Worker : worker'[v].pc # "idle" => worker'[v].item \in Item
      BY <2>1 DEF Goto, Worker_State
    <2>3. object' \in [Item -> {"absent", "partial", "whole"}]
      BY <1>5 DEF PersistError, CreateObject, WriteObject, ReadBack, AcknowledgeError
    <2>4. UNCHANGED <<emitted, rows>>
      BY <1>5 DEF PersistError, CreateObject, WriteObject, ReadBack, AcknowledgeError
    <2> QED BY <2>2, <2>3, <2>4 DEF rows
  <1>6. ASSUME NEW w \in Worker, Sample(w) PROVE TypeOK'
    <2> DEFINE x == [worker[w] EXCEPT !.pc = "acknowledge",
                                      !.inLease = worker[w].item \notin lapsed]
    <2>1. x \in Worker_State /\ x.item = worker[w].item
      BY DEF Worker_State
    <2>2. worker' = [worker EXCEPT ![w] = x] /\ worker[w].pc = "stored"
      BY <1>6 DEF Sample
    <2>3. worker' \in [Worker -> Worker_State]
          /\ \A v \in Worker : worker'[v].pc # "idle" => worker'[v].item \in Item
      BY <2>1, <2>2
    <2> QED BY <1>6, <2>3 DEF Sample, rows
  <1>7. ASSUME NEW w \in Worker, Acknowledge(w) PROVE TypeOK'
    BY <1>7 DEF Acknowledge, Release, Finish, Idle, Worker_State
  <1>8. ASSUME NEW w \in Worker, Fail(w) PROVE TypeOK'
    BY <1>8 DEF Fail, Release, Finish, Idle, Worker_State
  <1>9. ASSUME NEW w \in Worker, AcknowledgeStale(w) \/ FailStale(w) \/ Crash(w)
        PROVE  TypeOK'
    <2>1. Finish(w) /\ UNCHANGED <<emitted, rows, object>>
      BY <1>9 DEF AcknowledgeStale, FailStale, Crash
    <2> QED BY <2>1 DEF Finish, Idle, Worker_State, rows
  <1>10. CASE UNCHANGED vars
    BY <1>10 DEF vars, rows
  <1> QED BY <1>1, <1>2, <1>3, <1>4, <1>5, <1>6, <1>7, <1>8, <1>9, <1>10
          DEF Next, RunOnce

\* Every reachable state of the archive queue is well typed.
THEOREM TypeCorrect == Spec => []TypeOK
  BY InitType, NextType, PTL DEF Spec

-----------------------------------------------------------------------------
\* What every step leaves in place: rows are never removed, nothing archived is
\* taken back, an object that exists stays, and a whole object stays whole.
LEMMA Monotone ==
    ASSUME TypeOK, [Next]_vars
    PROVE  /\ archived \subseteq archived'
           /\ \A i \in Item : Row(i) => Row(i)'
           /\ \A i \in Item : object[i] = "whole" => object'[i] = "whole"
  <1> USE DEF TypeOK, rows
  <1>1. ASSUME NEW f \in Finding, Emit(f)
        PROVE  \A i \in Item : Row(i) => Row(i)'
    BY <1>1, ItemParts DEF Emit, Row, Sequence
  <1>2. CASE \E f \in Finding : Emit(f)
    BY <1>1, <1>2 DEF Emit
  <1>3. CASE \E i \in Item : Lapse(i) \/ BecomeAvailable(i) \/ RequeueDead(i)
    BY <1>3 DEF Lapse, BecomeAvailable, RequeueDead, Row
  <1>4. ASSUME NEW w \in Worker, CreateObject(w) \/ WriteObject(w)
        PROVE  /\ UNCHANGED <<emitted, archived>>
               /\ \A i \in Item : object[i] = "whole" => object'[i] = "whole"
    <2>1. worker[w].item \in Item
      BY <1>4 DEF CreateObject, WriteObject
    <2> QED BY <1>4, <2>1 DEF CreateObject, WriteObject
  <1>5. ASSUME NEW w \in Worker,
               \/ \E i \in Item : Claim(w, i)
               \/ PersistError(w) \/ ReadBack(w) \/ Sample(w) \/ Acknowledge(w)
               \/ AcknowledgeStale(w) \/ AcknowledgeError(w) \/ Fail(w)
               \/ FailStale(w) \/ Crash(w)
        PROVE  UNCHANGED <<emitted, object>> /\ archived \subseteq archived'
    BY <1>5 DEF Claim, PersistError, ReadBack, Sample, Acknowledge,
         AcknowledgeStale, AcknowledgeError, Fail, FailStale, Crash
  <1>6. CASE UNCHANGED vars
    BY <1>6 DEF vars, Row
  <1> QED BY <1>2, <1>3, <1>4, <1>5, <1>6 DEF Next, RunOnce, Row

\* How a step may change what a worker holds: it claims a claimable row, it goes
\* on with the same row, or it is done.
LEMMA WorkerSteps ==
    ASSUME TypeOK, [Next]_vars, NEW w \in Worker
    PROVE  \/ worker'[w] = worker[w]
           \/ worker'[w].pc = "idle"
           \/ worker'[w].pc = "claimed" /\ worker'[w].item \in Item
              /\ Claimable(worker'[w].item)
           \/ /\ worker[w].pc # "idle" /\ worker'[w].item = worker[w].item
              /\ worker'[w].pc = "stored" => object'[worker[w].item] = "whole"
              /\ worker'[w].pc = "acknowledge" => worker[w].pc = "stored"
              /\ worker'[w].pc = "writing" => CreateObject(w)
  <1> USE DEF TypeOK
  <1>1. CASE \E f \in Finding : Emit(f)
    BY <1>1 DEF Emit
  <1>2. CASE \E i \in Item : Lapse(i) \/ BecomeAvailable(i) \/ RequeueDead(i)
    BY <1>2 DEF Lapse, BecomeAvailable, RequeueDead
  <1>3. ASSUME NEW v \in Worker, RunOnce(v) \/ Crash(v), v # w
        PROVE  worker'[w] = worker[w]
    BY <1>3 DEF RunOnce, Claim, PersistError, CreateObject, WriteObject, ReadBack,
         Sample, Acknowledge, AcknowledgeStale, AcknowledgeError, Fail, FailStale,
         Crash, Goto, Finish
  <1>4. CASE \E i \in Item : Claim(w, i)
    BY <1>4 DEF Claim
  <1>5. CASE PersistError(w) \/ AcknowledgeError(w)
    BY <1>5 DEF PersistError, AcknowledgeError, Goto, Worker_State
  <1>6. CASE CreateObject(w)
    BY <1>6 DEF CreateObject, Goto, Worker_State
  <1>7. CASE WriteObject(w)
    BY <1>7 DEF WriteObject, Goto, Worker_State
  <1>8. CASE ReadBack(w)
    BY <1>8 DEF ReadBack, Goto, Worker_State
  <1>9. CASE Sample(w)
    BY <1>9 DEF Sample, Worker_State
  <1>10. CASE \/ Acknowledge(w) \/ AcknowledgeStale(w) \/ Fail(w) \/ FailStale(w)
              \/ Crash(w)
    BY <1>10 DEF Acknowledge, AcknowledgeStale, Fail, FailStale, Crash, Finish, Idle
  <1>11. CASE UNCHANGED vars
    BY <1>11 DEF vars
  <1> QED BY <1>1, <1>2, <1>3, <1>4, <1>5, <1>6, <1>7, <1>8, <1>9, <1>10, <1>11
          DEF Next, RunOnce

\* Only a worker that holds the row changes its object, and only a worker with a
\* receipt records it as archived.
LEMMA ArchiveSteps ==
    ASSUME TypeOK, [Next]_vars
    PROVE  /\ \/ object' = object
              \/ \E w \in Worker : /\ CreateObject(w) \/ WriteObject(w)
                                   /\ UNCHANGED <<emitted, archived>>
           /\ \/ archived' = archived
              \/ \E w \in Worker : /\ worker[w].pc = "acknowledge"
                                   /\ worker[w].item \notin dead
                                   /\ archived' = archived \cup {worker[w].item}
                                   /\ UNCHANGED <<emitted, object, dead>>
           /\ \/ emitted' = emitted
              \/ /\ \E f \in Finding : /\ emitted[f] < MaxSequence
                                       /\ emitted' = [emitted EXCEPT ![f] = @ + 1]
                 /\ UNCHANGED <<object, archived>>
           /\ \A i \in dead' : i \in dead \/ (i \notin archived /\ archived' = archived)
  <1> USE DEF rows
  <1>1. CASE \E f \in Finding : Emit(f)
    BY <1>1 DEF Emit
  <1>2. CASE \E i \in Item : Lapse(i) \/ BecomeAvailable(i) \/ RequeueDead(i)
    BY <1>2 DEF Lapse, BecomeAvailable, RequeueDead
  <1>3. ASSUME NEW w \in Worker, CreateObject(w) \/ WriteObject(w)
        PROVE  UNCHANGED <<emitted, archived, dead>>
    BY <1>3 DEF CreateObject, WriteObject
  <1>4. ASSUME NEW w \in Worker, Acknowledge(w)
        PROVE  /\ UNCHANGED <<emitted, object, dead>>
               /\ worker[w].pc = "acknowledge"
               /\ worker[w].item \notin dead
               /\ archived' = archived \cup {worker[w].item}
    BY <1>4 DEF Acknowledge, Mine
  <1>5. ASSUME NEW w \in Worker, Fail(w)
        PROVE  /\ UNCHANGED <<emitted, object, archived>>
               /\ dead' \subseteq dead \cup {worker[w].item}
               /\ worker[w].item \notin archived
    BY <1>5 DEF Fail, Mine
  <1>6. ASSUME NEW w \in Worker,
               \/ \E i \in Item : Claim(w, i)
               \/ PersistError(w) \/ ReadBack(w) \/ Sample(w) \/ AcknowledgeStale(w)
               \/ AcknowledgeError(w) \/ FailStale(w) \/ Crash(w)
        PROVE  UNCHANGED <<emitted, object, archived, dead>>
    BY <1>6 DEF Claim, PersistError, ReadBack, Sample, AcknowledgeStale,
         AcknowledgeError, FailStale, Crash
  <1>7. CASE UNCHANGED vars
    BY <1>7 DEF vars
  <1> QED BY <1>1, <1>2, <1>3, <1>4, <1>5, <1>6, <1>7 DEF Next, RunOnce

-----------------------------------------------------------------------------
LEMMA InitInv == Init => IInv
  <1> SUFFICES ASSUME Init PROVE IInv
    OBVIOUS
  <1>1. TypeOK
    BY InitType
  <1>2. HeldInOrder /\ ReceiptIsReal /\ OneWriter
    BY DEF Init, Idle, HeldInOrder, ReceiptIsReal, OneWriter
  <1>3. ArchivedIsWhole /\ NeverDeadAndArchived
    BY DEF Init, ArchivedIsWhole, NeverDeadAndArchived
  <1>4. ObjectsInOrder
    BY ItemPair DEF Init, ObjectsInOrder
  <1> QED BY <1>1, <1>2, <1>3, <1>4 DEF IInv

\* Creation needs an absent object and only its creator writes it.
LEMMA NextOneWriter == TypeOK /\ OneWriter /\ [Next]_vars => OneWriter'
  <1> SUFFICES ASSUME TypeOK, OneWriter, [Next]_vars PROVE OneWriter'
    OBVIOUS
  <1> USE DEF TypeOK, OneWriter
  <1>1. ASSUME NEW w \in Worker, worker'[w].pc = "writing"
        PROVE  \/ worker[w].pc = "writing" /\ worker'[w] = worker[w]
               \/ CreateObject(w) /\ worker'[w].item = worker[w].item
    BY <1>1, WorkerSteps
  <1>2. ASSUME NEW w \in Worker, CreateObject(w) PROVE OneWriter'
    <2>1. /\ worker[w].item \in Item /\ object[worker[w].item] = "absent"
          /\ object' = [object EXCEPT ![worker[w].item] = "partial"]
          /\ worker' = [worker EXCEPT ![w].pc = "writing"]
      BY <1>2 DEF CreateObject, Goto
    <2>2. ASSUME NEW v \in Worker, v # w, worker'[v].pc = "writing"
          PROVE  /\ worker'[v] = worker[v]
                 /\ worker'[v].item # worker'[w].item
                 /\ object'[worker'[v].item] = "partial"
      <3>1. worker'[v] = worker[v] /\ worker'[w].item = worker[w].item
        BY <2>1, <2>2 DEF Worker_State
      <3> QED BY <2>1, <2>2, <3>1
    <2>3. object'[worker'[w].item] = "partial"
      BY <2>1 DEF Worker_State
    <2> QED BY <2>2, <2>3
  <1>3. ASSUME NEW w \in Worker, WriteObject(w) PROVE OneWriter'
    <2>1. /\ worker[w].item \in Item /\ worker[w].pc = "writing"
          /\ object' = [object EXCEPT ![worker[w].item] = "whole"]
          /\ worker' = [worker EXCEPT ![w].pc = "stored"]
      BY <1>3 DEF WriteObject, Goto
    <2>2. ASSUME NEW v \in Worker, worker'[v].pc = "writing"
          PROVE  /\ worker'[v] = worker[v]
                 /\ object'[worker'[v].item] = "partial"
      <3>1. v # w
        BY <2>1, <2>2 DEF Worker_State
      <3>2. worker'[v] = worker[v] /\ worker[v].item # worker[w].item
        BY <2>1, <2>2, <3>1
      <3> QED BY <2>1, <2>2, <3>1, <3>2
    <2> QED BY <2>2
  <1>4. CASE \A w \in Worker : ~CreateObject(w) /\ ~WriteObject(w)
    <2>1. object' = object
      BY <1>4, ArchiveSteps
    <2>2. \A w \in Worker : worker'[w].pc = "writing" =>
              worker[w].pc = "writing" /\ worker'[w] = worker[w]
      BY <1>1, <1>4
    <2> QED BY <2>1, <2>2
  <1> QED BY <1>2, <1>3, <1>4

LEMMA NextInv == IInv /\ [Next]_vars => IInv'
  <1> SUFFICES ASSUME IInv, [Next]_vars PROVE IInv'
    OBVIOUS
  <1>1. TypeOK /\ TypeOK'
    BY NextType DEF IInv
  <1>2. HeldInOrder'
    <2> SUFFICES ASSUME NEW w \in Worker, worker'[w].pc # "idle"
                 PROVE  /\ Row(worker[w].item)'
                        /\ \A m \in 1 .. (worker'[w].item[2] - 1) :
                              <<worker'[w].item[1], m>> \in archived'
      BY DEF HeldInOrder
    <2>1. CASE worker'[w].pc = "claimed" /\ worker'[w].item \in Item
               /\ Claimable(worker'[w].item)
      BY <1>1, <2>1, Monotone DEF Claimable, Row
    <2>2. CASE worker'[w].item = worker[w].item /\ worker[w].pc # "idle"
      BY <1>1, <2>2, Monotone DEF IInv, HeldInOrder, Row, TypeOK
    <2> QED BY <1>1, <2>1, <2>2, WorkerSteps
  <1>3. ReceiptIsReal'
    <2> SUFFICES ASSUME NEW w \in Worker,
                        worker'[w].pc \in {"stored", "acknowledge"}
                 PROVE  object'[worker'[w].item] = "whole"
      BY DEF ReceiptIsReal
    <2>1. CASE worker'[w].pc = "stored" /\ worker[w].pc # "idle"
               /\ worker'[w].item = worker[w].item /\ object'[worker[w].item] = "whole"
      BY <2>1
    <2>2. CASE worker[w].pc \in {"stored", "acknowledge"}
               /\ worker'[w].item = worker[w].item
      <3>1. worker[w].item \in Item /\ object[worker[w].item] = "whole"
        BY <1>1, <2>2 DEF TypeOK, IInv, ReceiptIsReal
      <3> QED BY <1>1, <2>2, <3>1, Monotone
    <2> QED BY <1>1, <2>1, <2>2, WorkerSteps
  <1>4. ArchivedIsWhole'
    <2> SUFFICES ASSUME NEW i \in archived' PROVE i \in Item /\ object'[i] = "whole"
      BY DEF ArchivedIsWhole, WholeObjects
    <2>1. CASE i \in archived
      BY <1>1, <2>1, Monotone DEF IInv, ArchivedIsWhole, WholeObjects, TypeOK
    <2>2. CASE i \notin archived
      BY <1>1, <2>2, ArchiveSteps DEF IInv, ReceiptIsReal, TypeOK
    <2> QED BY <2>1, <2>2
  <1>5. NeverDeadAndArchived'
    BY <1>1, ArchiveSteps DEF IInv, NeverDeadAndArchived
  <1>6. ObjectsInOrder'
    <2> SUFFICES ASSUME NEW f \in Finding, NEW n \in Sequence,
                        object'[<<f, n>>] # "absent", NEW m \in 1 .. (n - 1)
                 PROVE  <<f, m>> \in archived'
      BY DEF ObjectsInOrder
    <2>1. CASE object[<<f, n>>] # "absent"
      BY <1>1, <2>1, Monotone DEF IInv, ObjectsInOrder
    <2>2. CASE object[<<f, n>>] = "absent"
      <3>1. PICK w \in Worker : CreateObject(w) \/ WriteObject(w)
        BY <1>1, <2>2, ArchiveSteps
      <3>2. worker[w].pc # "idle" /\ worker[w].item = <<f, n>>
        BY <1>1, <2>2, <3>1, ItemPair DEF CreateObject, WriteObject, TypeOK
      <3>3. <<f, m>> \in archived
        BY <3>2, ItemPair DEF IInv, HeldInOrder
      <3> QED BY <1>1, <3>3, Monotone
    <2> QED BY <2>1, <2>2
  <1>7. OneWriter'
    BY <1>1, NextOneWriter DEF IInv
  <1> QED BY <1>1, <1>2, <1>3, <1>4, <1>5, <1>6, <1>7 DEF IInv

LEMMA InvariantHolds == Spec => []IInv
  BY InitInv, NextInv, PTL DEF Spec

-----------------------------------------------------------------------------
(* Refinement *)

LEMMA InitRefines == Init => Ordered!Init
  BY DEF Init, Ordered!Init, WholeObjects

LEMMA StepRefines == IInv /\ [Next]_vars => [Ordered!Next]_(Ordered!vars)
  <1> SUFFICES ASSUME IInv, [Next]_vars PROVE [Ordered!Next]_(Ordered!vars)
    OBVIOUS
  <1> USE DEF IInv
  <1>0. object' = object => WholeObjects' = WholeObjects
    BY DEF WholeObjects
  <1>1. CASE UNCHANGED <<emitted, object, archived>>
    BY <1>0, <1>1 DEF Ordered!vars
  <1>2. ASSUME NEW f \in Finding, emitted[f] < MaxSequence,
               emitted' = [emitted EXCEPT ![f] = @ + 1],
               UNCHANGED <<object, archived>>
        PROVE  Ordered!Next
    BY <1>0, <1>2 DEF Ordered!Next, Ordered!Emit
  <1>3. ASSUME NEW w \in Worker, CreateObject(w), UNCHANGED <<emitted, archived>>
        PROVE  UNCHANGED Ordered!vars
    <2>1. WholeObjects' = WholeObjects
      BY <1>3 DEF CreateObject, WholeObjects, TypeOK
    <2> QED BY <1>3, <2>1 DEF Ordered!vars
  <1>4. ASSUME NEW w \in Worker, WriteObject(w), UNCHANGED <<emitted, archived>>
        PROVE  Ordered!Next
    <2>1. worker[w].item \in Item
      BY <1>4 DEF TypeOK, WriteObject
    <2>2. PICK f \in Finding, n \in Sequence : worker[w].item = <<f, n>>
      BY <2>1 DEF Item
    <2>3. n <= emitted[f] /\ \A m \in 1 .. (n - 1) : <<f, m>> \in archived
      BY <1>4, <2>2 DEF HeldInOrder, Row, WriteObject
    <2>4. WholeObjects' = WholeObjects \cup {<<f, n>>}
      BY <1>4, <2>1, <2>2 DEF WriteObject, WholeObjects, TypeOK
    <2>5. Ordered!Accept(f, n)
      BY <1>4, <2>3, <2>4 DEF Ordered!Accept
    <2> QED BY <2>5 DEF Ordered!Next, Ordered!Sequence, Sequence
  <1>5. ASSUME NEW w \in Worker, worker[w].pc = "acknowledge",
               archived' = archived \cup {worker[w].item},
               UNCHANGED <<emitted, object>>
        PROVE  Ordered!Next
    <2>1. worker[w].item \in Item
      BY <1>5 DEF TypeOK
    <2>2. PICK f \in Finding, n \in Sequence : worker[w].item = <<f, n>>
      BY <2>1 DEF Item
    <2>3. <<f, n>> \in WholeObjects
      BY <1>5, <2>1, <2>2 DEF ReceiptIsReal, WholeObjects
    <2>4. Ordered!Record(f, n)
      BY <1>0, <1>5, <2>2, <2>3 DEF Ordered!Record
    <2> QED BY <2>4 DEF Ordered!Next, Ordered!Sequence, Sequence
  <1> QED BY <1>1, <1>2, <1>3, <1>4, <1>5, ArchiveSteps

\* The archive queue with its leases, half-written objects, crashes and dead
\* letters implements ordered delivery: each finding's events become whole
\* objects in order, and only whole objects are ever recorded as archived.
THEOREM AuditImplementsOrderedDelivery == Spec => OrderedSpec
  BY InitRefines, StepRefines, InvariantHolds, PTL DEF Spec, OrderedSpec, Ordered!Spec

-----------------------------------------------------------------------------
(* Leases *)

\* A dead-lettered row is nobody's: fail releases it and claim skips it.  Without
\* this requeue_dead could take a row from a worker whose lease still runs.
DeadIsReleased == \A i \in dead : holder[i] = None

LEMMA NextReleased == TypeOK /\ DeadIsReleased /\ [Next]_vars => DeadIsReleased'
  <1> SUFFICES ASSUME TypeOK, DeadIsReleased, [Next]_vars PROVE DeadIsReleased'
    OBVIOUS
  <1> USE DEF TypeOK, DeadIsReleased, rows
  <1>1. ASSUME NEW i \in Item, RequeueDead(i) PROVE DeadIsReleased'
    BY <1>1 DEF RequeueDead, Release
  <1>2. ASSUME NEW w \in Worker, NEW i \in Item, Claim(w, i) PROVE DeadIsReleased'
    BY <1>2 DEF Claim, Claimable
  <1>3. ASSUME NEW w \in Worker, Acknowledge(w) \/ Fail(w) PROVE DeadIsReleased'
    <2>1. worker[w].item \in Item
      BY <1>3 DEF Acknowledge, Fail
    <2> QED BY <1>3, <2>1 DEF Acknowledge, Fail, Release
  <1>4. CASE UNCHANGED <<dead, holder>>
    BY <1>4
  <1>5. ASSUME NEW w \in Worker,
               \/ PersistError(w) \/ CreateObject(w) \/ WriteObject(w) \/ ReadBack(w)
               \/ Sample(w) \/ AcknowledgeStale(w) \/ AcknowledgeError(w)
               \/ FailStale(w) \/ Crash(w)
        PROVE  UNCHANGED <<dead, holder>>
    BY <1>5 DEF PersistError, CreateObject, WriteObject, ReadBack, Sample,
         AcknowledgeStale, AcknowledgeError, FailStale, Crash
  <1>6. ASSUME \/ \E f \in Finding : Emit(f)
               \/ \E i \in Item : Lapse(i) \/ BecomeAvailable(i)
               \/ UNCHANGED vars
        PROVE  UNCHANGED <<dead, holder>>
    BY <1>6 DEF Emit, Lapse, BecomeAvailable, vars
  <1> QED BY <1>1, <1>2, <1>3, <1>4, <1>5, <1>6 DEF Next, RunOnce

LEMMA StepExclusive ==
    ASSUME TypeOK, DeadIsReleased, [Next]_vars, NEW i \in Item,
           holder[i] # None, i \notin lapsed, holder'[i] # holder[i]
    PROVE  worker[holder[i]].item = i /\ worker'[holder[i]].pc = "idle"
  <1> USE DEF TypeOK, rows
  <1>1. ASSUME NEW j \in Item, RequeueDead(j) PROVE FALSE
    BY <1>1 DEF RequeueDead, Release, DeadIsReleased
  <1>2. ASSUME NEW w \in Worker, NEW j \in Item, Claim(w, j) PROVE FALSE
    BY <1>2 DEF Claim, Claimable
  <1>3. ASSUME NEW w \in Worker, Acknowledge(w) \/ Fail(w)
        PROVE  worker[holder[i]].item = i /\ worker'[holder[i]].pc = "idle"
    <2>1. worker[w].item \in Item /\ holder[worker[w].item] = w
      BY <1>3 DEF Acknowledge, Fail, Mine
    <2>2. worker'[w].pc = "idle"
      BY <1>3 DEF Acknowledge, Fail, Finish, Idle
    <2>3. i = worker[w].item
      BY <1>3, <2>1 DEF Acknowledge, Fail, Release
    <2> QED BY <2>1, <2>2, <2>3
  <1>4. ASSUME NEW w \in Worker,
               \/ PersistError(w) \/ CreateObject(w) \/ WriteObject(w) \/ ReadBack(w)
               \/ Sample(w) \/ AcknowledgeStale(w) \/ AcknowledgeError(w)
               \/ FailStale(w) \/ Crash(w)
        PROVE  FALSE
    BY <1>4 DEF PersistError, CreateObject, WriteObject, ReadBack, Sample,
         AcknowledgeStale, AcknowledgeError, FailStale, Crash
  <1>5. ASSUME \/ \E f \in Finding : Emit(f)
               \/ \E j \in Item : Lapse(j) \/ BecomeAvailable(j)
               \/ UNCHANGED vars
        PROVE  FALSE
    BY <1>5 DEF Emit, Lapse, BecomeAvailable, vars
  <1> QED BY <1>1, <1>2, <1>3, <1>4, <1>5 DEF Next, RunOnce

\* A lease that still runs is respected by every claim, late acknowledgement and
\* operator requeue, and by fail, which checks the token and not the lease.
THEOREM Exclusive == Spec => LeaseIsExclusive
  <1>1. Init => DeadIsReleased
    BY DEF Init, DeadIsReleased
  <1>2. TypeOK /\ DeadIsReleased /\ [Next]_vars
        => [\A i \in Item :
              holder[i] # None /\ i \notin lapsed /\ holder'[i] # holder[i]
              => worker[holder[i]].item = i /\ worker'[holder[i]].pc = "idle"]_vars
    BY StepExclusive
  <1> QED BY <1>1, <1>2, NextReleased, TypeCorrect, PTL DEF Spec, LeaseIsExclusive

-----------------------------------------------------------------------------
(* The archive is append only *)

\* An archive object is created once and completed once: it is never removed and
\* a whole object is never written again, whichever workers meet at it (the
\* O_EXCL creation of persist_event, and the read back when it exists).
CreateOnly ==
    [][\A i \in Item : object'[i] # object[i] =>
         \/ object[i] = "absent" /\ object'[i] = "partial"
         \/ object[i] = "partial" /\ object'[i] = "whole"]_vars

LEMMA StepCreateOnly ==
    ASSUME IInv, [Next]_vars, NEW i \in Item, object'[i] # object[i]
    PROVE  \/ object[i] = "absent" /\ object'[i] = "partial"
           \/ object[i] = "partial" /\ object'[i] = "whole"
  <1> USE DEF IInv, TypeOK
  <1>1. PICK w \in Worker : CreateObject(w) \/ WriteObject(w)
    BY ArchiveSteps
  <1>2. worker[w].item \in Item
    BY <1>1 DEF CreateObject, WriteObject
  <1>3. CASE CreateObject(w)
    BY <1>2, <1>3 DEF CreateObject
  <1>4. CASE WriteObject(w)
    BY <1>2, <1>4 DEF WriteObject, OneWriter
  <1> QED BY <1>1, <1>3, <1>4

\* The archive is create only, whatever leases run out and workers stop: two
\* workers that hold the same row never write the same object.
THEOREM ArchiveIsCreateOnly == Spec => CreateOnly
  <1>1. IInv /\ [Next]_vars
        => [\A i \in Item : object'[i] # object[i] =>
             \/ object[i] = "absent" /\ object'[i] = "partial"
             \/ object[i] = "partial" /\ object'[i] = "whole"]_vars
    BY StepCreateOnly
  <1> QED BY <1>1, InvariantHolds, PTL DEF Spec, CreateOnly
=============================================================================
