----------------------- MODULE OutboxDelivery_proofs -----------------------
(***************************************************************************)
(* Proofs about OutboxDelivery, for any set of findings and workers and    *)
(* any retry limit.                                                        *)
(*                                                                         *)
(* PublishedInOrder is not inductive: it depends on what a worker holds    *)
(* between its claim and its publication, a time in which its lease may    *)
(* run out and another worker may finish the row.  The invariant says that *)
(* what made the row eligible stays true (delivered never shrinks) and     *)
(* that a worker past its publication has put the message in the broker.   *)
(***************************************************************************)
EXTENDS OutboxDelivery, TLAPS

\* A worker in run_once holds a row that exists and whose predecessors are
\* delivered (claim's WHERE clause, which stays true after the lease is lost).
HeldInOrder ==
    \A w \in Worker : worker[w].pc # "idle" =>
        /\ Row(worker[w].item)
        /\ \A m \in 1 .. (worker[w].item[2] - 1) :
              <<worker[w].item[1], m>> \in delivered

\* A worker that is about to acknowledge has a receipt.
ReceiptIsReal ==
    \A w \in Worker :
        worker[w].pc \in {"published", "acknowledge"} => worker[w].item \in broker

\* A row is recorded as delivered only when the broker holds its message.
DeliveredIsPublished == delivered \subseteq broker

\* The inductive invariant.
IInv ==
    /\ TypeOK
    /\ HeldInOrder
    /\ ReceiptIsReal
    /\ DeliveredIsPublished
    /\ PublishedInOrder
    /\ NeverDeadAndDelivered

-----------------------------------------------------------------------------
LEMMA ItemParts ==
    ASSUME NEW i \in Item
    PROVE  i[1] \in Finding /\ i[2] \in Sequence /\ i = <<i[1], i[2]>>
  BY DEF Item

LEMMA ItemPair ==
    ASSUME NEW f \in Finding, NEW n \in Sequence
    PROVE  <<f, n>> \in Item /\ <<f, n>>[1] = f /\ <<f, n>>[2] = n
  BY DEF Item

LEMMA InitType == Init => TypeOK
  BY OutboxAssumption DEF Init, TypeOK, Worker_State, Idle

LEMMA NextType == TypeOK /\ [Next]_vars => TypeOK'
  <1> SUFFICES ASSUME TypeOK, [Next]_vars PROVE TypeOK'
    OBVIOUS
  <1> USE OutboxAssumption DEF TypeOK
  <1>1. ASSUME NEW f \in Finding, Emit(f) PROVE TypeOK'
    BY <1>1 DEF Emit, rows
  <1>2. ASSUME NEW i \in Item, Lapse(i) PROVE TypeOK'
    BY <1>2 DEF Lapse
  <1>3. ASSUME NEW i \in Item, BecomeAvailable(i) PROVE TypeOK'
    BY <1>3 DEF BecomeAvailable
  <1>4. ASSUME NEW i \in Item, RequeueDead(i) PROVE TypeOK'
    BY <1>4 DEF RequeueDead, Release
  <1>5. ASSUME NEW w \in Worker, RunOnce(w) PROVE TypeOK'
    <2>1. ASSUME NEW i \in Item, Claim(w, i) PROVE TypeOK'
      <3> DEFINE tries == IF attempts[i] < MaxAttempts THEN attempts[i] + 1
                                                       ELSE MaxAttempts
      <3>1. tries \in 0 .. MaxAttempts
        OBVIOUS
      <3>2. worker' = [worker EXCEPT ![w] =
                          [pc |-> "claimed", item |-> i, attempts |-> tries,
                           inLease |-> FALSE]]
        BY <2>1 DEF Claim
      <3>3. [pc |-> "claimed", item |-> i, attempts |-> tries, inLease |-> FALSE]
              \in Worker_State
        BY <3>1 DEF Worker_State
      <3>4. worker' \in [Worker -> Worker_State]
            /\ \A v \in Worker : worker'[v].pc # "idle" => worker'[v].item \in Item
        BY <3>2, <3>3
      <3>5. attempts' \in [Item -> 0 .. MaxAttempts]
        BY <2>1, <3>1 DEF Claim
      <3> QED BY <2>1, <3>4, <3>5 DEF Claim
    <2>2. CASE ClaimNothing(w)
      BY <2>2 DEF ClaimNothing, rows
    <2>3. CASE Publish(w)
      BY <2>3 DEF Publish, Goto, rows, Worker_State
    <2>4. CASE PublishTransient(w)
      BY <2>4 DEF PublishTransient, Goto, rows, Worker_State
    <2>5. CASE PublishPermanent(w)
      BY <2>5 DEF PublishPermanent, Goto, rows, Worker_State
    <2>6. CASE Sample(w)
      BY <2>6 DEF Sample, rows, Worker_State
    <2>7. CASE Acknowledge(w)
      BY <2>7 DEF Acknowledge, Release, Finish, Idle, Worker_State
    <2>8. CASE AcknowledgeNothing(w)
      <3>1. worker' = [worker EXCEPT ![w] = Idle] /\ health' \in {"running", "degraded"}
        BY <2>8 DEF AcknowledgeNothing, Finish
      <3> QED BY <2>8, <3>1 DEF AcknowledgeNothing, Idle, Worker_State, rows
    <2>9. CASE AcknowledgeError(w)
      BY <2>9 DEF AcknowledgeError, Goto, rows, Worker_State
    <2>10. CASE Fail(w)
      BY <2>10 DEF Fail, Release, Finish, Idle, Worker_State
    <2>11. CASE FailStale(w)
      BY <2>11 DEF FailStale, Finish, Idle, Worker_State, rows
    <2> QED BY <1>5, <2>1, <2>2, <2>3, <2>4, <2>5, <2>6, <2>7, <2>8, <2>9,
               <2>10, <2>11 DEF RunOnce
  <1>6. ASSUME NEW w \in Worker, Crash(w) PROVE TypeOK'
    BY <1>6 DEF Crash, Idle, Worker_State, rows
  <1>7. ASSUME NEW w \in Worker, CrashWhilePublishing(w) PROVE TypeOK'
    BY <1>7 DEF CrashWhilePublishing, Idle, Worker_State, rows
  <1>8. CASE UNCHANGED vars
    BY <1>8 DEF vars, rows
  <1> QED BY <1>1, <1>2, <1>3, <1>4, <1>5, <1>6, <1>7, <1>8 DEF Next

\* Every reachable state of the outbox is well typed.
THEOREM TypeCorrect == Spec => []TypeOK
  BY InitType, NextType, PTL DEF Spec

-----------------------------------------------------------------------------
\* What every step leaves in place: rows are never removed and nothing delivered
\* or published is taken back.
LEMMA Monotone ==
    ASSUME TypeOK, [Next]_vars
    PROVE  /\ delivered \subseteq delivered' /\ broker \subseteq broker'
           /\ \A i \in Item : Row(i) => Row(i)'
  <1> USE DEF TypeOK, rows
  <1>1. ASSUME NEW f \in Finding, Emit(f)
        PROVE  \A i \in Item : Row(i) => Row(i)'
    BY <1>1, ItemParts DEF Emit, Row, Sequence
  <1>2. CASE \E f \in Finding : Emit(f)
    BY <1>1, <1>2 DEF Emit
  <1>3. CASE \E i \in Item : Lapse(i) \/ BecomeAvailable(i) \/ RequeueDead(i)
    BY <1>3 DEF Lapse, BecomeAvailable, RequeueDead, Row
  <1>4. CASE \E w \in Worker : RunOnce(w) \/ Crash(w) \/ CrashWhilePublishing(w)
    BY <1>4 DEF RunOnce, Claim, ClaimNothing, Publish, PublishTransient,
         PublishPermanent, Sample, Acknowledge, AcknowledgeNothing,
         AcknowledgeError, Fail, FailStale, Crash, CrashWhilePublishing, Row
  <1>5. CASE UNCHANGED vars
    BY <1>5 DEF vars, Row
  <1> QED BY <1>2, <1>3, <1>4, <1>5 DEF Next

\* How a step may change what a worker holds: it claims a claimable row, it goes
\* on with the same row, or it is done.
LEMMA WorkerSteps ==
    ASSUME TypeOK, [Next]_vars, NEW w \in Worker
    PROVE  \/ worker'[w] = worker[w]
           \/ worker'[w].pc = "idle"
           \/ worker'[w].pc = "claimed" /\ worker'[w].item \in Item
              /\ Claimable(worker'[w].item)
           \/ /\ worker[w].pc # "idle" /\ worker'[w].item = worker[w].item
              /\ worker'[w].pc = "published" => worker[w].item \in broker'
              /\ worker'[w].pc = "acknowledge" => worker[w].pc = "published"
  <1> USE DEF TypeOK
  <1>1. CASE \E f \in Finding : Emit(f)
    BY <1>1 DEF Emit
  <1>2. CASE \E i \in Item : Lapse(i) \/ BecomeAvailable(i) \/ RequeueDead(i)
    BY <1>2 DEF Lapse, BecomeAvailable, RequeueDead
  <1>3. ASSUME NEW v \in Worker, RunOnce(v) \/ Crash(v) \/ CrashWhilePublishing(v),
               v # w
        PROVE  worker'[w] = worker[w]
    BY <1>3 DEF RunOnce, Claim, ClaimNothing, Publish, PublishTransient,
         PublishPermanent, Sample, Acknowledge, AcknowledgeNothing,
         AcknowledgeError, Fail, FailStale, Crash, CrashWhilePublishing, Goto, Finish
  <1>4. CASE \E i \in Item : Claim(w, i)
    BY <1>4 DEF Claim
  <1>5. CASE ClaimNothing(w)
    BY <1>5 DEF ClaimNothing
  <1>6. CASE Publish(w) \/ PublishTransient(w) \/ PublishPermanent(w)
    BY <1>6 DEF Publish, PublishTransient, PublishPermanent, Goto, Worker_State
  <1>7. CASE Sample(w)
    BY <1>7 DEF Sample, Worker_State
  <1>8. CASE AcknowledgeError(w)
    BY <1>8 DEF AcknowledgeError, Goto, Worker_State
  <1>9. CASE \/ Acknowledge(w) \/ AcknowledgeNothing(w) \/ Fail(w) \/ FailStale(w)
             \/ Crash(w) \/ CrashWhilePublishing(w)
    BY <1>9 DEF Acknowledge, AcknowledgeNothing, Fail, FailStale, Crash,
         CrashWhilePublishing, Finish, Idle
  <1>10. CASE UNCHANGED vars
    BY <1>10 DEF vars
  <1> QED BY <1>1, <1>2, <1>3, <1>4, <1>5, <1>6, <1>7, <1>8, <1>9, <1>10
          DEF Next, RunOnce

\* Only a worker that holds the message adds it to the broker, and only a worker
\* with a receipt records a delivery.
LEMMA SinkSteps ==
    ASSUME TypeOK, [Next]_vars
    PROVE  /\ \/ broker' = broker
              \/ \E w \in Worker : /\ worker[w].pc = "claimed"
                                   /\ broker' = broker \cup {worker[w].item}
                                   /\ UNCHANGED <<emitted, delivered>>
           /\ \/ delivered' = delivered
              \/ \E w \in Worker : /\ worker[w].pc = "acknowledge"
                                   /\ worker[w].item \notin dead
                                   /\ delivered' = delivered \cup {worker[w].item}
                                   /\ UNCHANGED <<emitted, broker, dead>>
           /\ \/ emitted' = emitted
              \/ /\ \E f \in Finding : /\ emitted[f] < MaxSequence
                                       /\ emitted' = [emitted EXCEPT ![f] = @ + 1]
                 /\ UNCHANGED <<broker, delivered>>
           /\ \A i \in dead' : i \in dead \/ (i \notin delivered /\ delivered' = delivered)
  <1> USE DEF rows
  <1>1. CASE \E f \in Finding : Emit(f)
    BY <1>1 DEF Emit
  <1>2. CASE \E i \in Item : Lapse(i) \/ BecomeAvailable(i) \/ RequeueDead(i)
    BY <1>2 DEF Lapse, BecomeAvailable, RequeueDead
  <1>3. ASSUME NEW w \in Worker, Publish(w) \/ PublishTransient(w)
        PROVE  /\ UNCHANGED <<emitted, delivered, dead>>
               /\ broker' = broker \/ ( /\ worker[w].pc = "claimed"
                                        /\ broker' = broker \cup {worker[w].item})
    BY <1>3 DEF Publish, PublishTransient
  <1>4. ASSUME NEW w \in Worker, Acknowledge(w)
        PROVE  /\ UNCHANGED <<emitted, broker, dead>>
               /\ worker[w].pc = "acknowledge"
               /\ worker[w].item \notin dead
               /\ delivered' = delivered \cup {worker[w].item}
    BY <1>4 DEF Acknowledge, MayUpdate
  <1>5. ASSUME NEW w \in Worker, Fail(w)
        PROVE  /\ UNCHANGED <<emitted, broker, delivered>>
               /\ dead' \subseteq dead \cup {worker[w].item}
               /\ worker[w].item \notin delivered
    BY <1>5 DEF Fail, MayUpdate
  <1>6. ASSUME NEW w \in Worker,
               \/ \E i \in Item : Claim(w, i)
               \/ ClaimNothing(w) \/ PublishPermanent(w) \/ Sample(w)
               \/ AcknowledgeNothing(w) \/ AcknowledgeError(w) \/ FailStale(w)
               \/ Crash(w) \/ CrashWhilePublishing(w)
        PROVE  UNCHANGED <<emitted, broker, delivered, dead>>
    BY <1>6 DEF Claim, ClaimNothing, PublishPermanent, Sample, AcknowledgeNothing,
         AcknowledgeError, FailStale, Crash, CrashWhilePublishing
  <1>7. CASE UNCHANGED vars
    BY <1>7 DEF vars
  <1> QED BY <1>1, <1>2, <1>3, <1>4, <1>5, <1>6, <1>7 DEF Next, RunOnce

-----------------------------------------------------------------------------
LEMMA InitInv == Init => IInv
  <1> SUFFICES ASSUME Init PROVE IInv
    OBVIOUS
  <1>1. TypeOK
    BY InitType
  <1>2. HeldInOrder /\ ReceiptIsReal
    BY DEF Init, Idle, HeldInOrder, ReceiptIsReal
  <1>3. DeliveredIsPublished /\ PublishedInOrder /\ NeverDeadAndDelivered
    BY DEF Init, DeliveredIsPublished, PublishedInOrder, NeverDeadAndDelivered
  <1> QED BY <1>1, <1>2, <1>3 DEF IInv

LEMMA NextInv == IInv /\ [Next]_vars => IInv'
  <1> SUFFICES ASSUME IInv, [Next]_vars PROVE IInv'
    OBVIOUS
  <1>1. TypeOK /\ TypeOK'
    BY NextType DEF IInv
  <1>2. HeldInOrder'
    <2> SUFFICES ASSUME NEW w \in Worker, worker'[w].pc # "idle"
                 PROVE  /\ Row(worker[w].item)'
                        /\ \A m \in 1 .. (worker'[w].item[2] - 1) :
                              <<worker'[w].item[1], m>> \in delivered'
      BY DEF HeldInOrder
    <2>1. CASE worker'[w].pc = "claimed" /\ worker'[w].item \in Item
               /\ Claimable(worker'[w].item)
      BY <1>1, <2>1, Monotone DEF Claimable, Row
    <2>2. CASE worker'[w].item = worker[w].item /\ worker[w].pc # "idle"
      BY <1>1, <2>2, Monotone DEF IInv, HeldInOrder, Row, TypeOK
    <2> QED BY <1>1, <2>1, <2>2, WorkerSteps
  <1>3. ReceiptIsReal'
    <2> SUFFICES ASSUME NEW w \in Worker,
                        worker'[w].pc \in {"published", "acknowledge"}
                 PROVE  worker'[w].item \in broker'
      BY DEF ReceiptIsReal
    <2> QED BY <1>1, WorkerSteps, Monotone DEF IInv, ReceiptIsReal
  <1>4. DeliveredIsPublished'
    BY <1>1, SinkSteps DEF IInv, ReceiptIsReal, DeliveredIsPublished
  <1>5. PublishedInOrder'
    <2> SUFFICES ASSUME NEW f \in Finding, NEW n \in Sequence, <<f, n>> \in broker',
                        NEW m \in 1 .. (n - 1)
                 PROVE  <<f, m>> \in delivered'
      BY DEF PublishedInOrder
    <2>1. CASE <<f, n>> \in broker
      BY <1>1, <2>1, Monotone DEF IInv, PublishedInOrder
    <2>2. CASE <<f, n>> \notin broker
      <3>1. PICK w \in Worker : worker[w].pc = "claimed" /\ worker[w].item = <<f, n>>
        BY <1>1, <2>2, SinkSteps
      <3>2. <<f, m>> \in delivered
        BY <3>1 DEF IInv, HeldInOrder
      <3> QED BY <1>1, <3>2, Monotone
    <2> QED BY <2>1, <2>2
  <1>6. NeverDeadAndDelivered'
    BY <1>1, SinkSteps DEF IInv, NeverDeadAndDelivered
  <1> QED BY <1>1, <1>2, <1>3, <1>4, <1>5, <1>6 DEF IInv

LEMMA InvariantHolds == Spec => []IInv
  BY InitInv, NextInv, PTL DEF Spec

\* Per-finding publication order holds for any number of findings, workers and
\* events, whatever leases run out and whichever workers stop.
THEOREM InOrder == Spec => []PublishedInOrder
  <1>1. IInv => PublishedInOrder
    BY DEF IInv
  <1> QED BY <1>1, InvariantHolds, PTL

\* No row is ever both dead-lettered and delivered.
THEOREM DeadOrDelivered == Spec => []NeverDeadAndDelivered
  <1>1. IInv => NeverDeadAndDelivered
    BY DEF IInv
  <1> QED BY <1>1, InvariantHolds, PTL

-----------------------------------------------------------------------------
(* Refinement *)

LEMMA InitRefines == Init => Ordered!Init
  BY DEF Init, Ordered!Init

LEMMA StepRefines == IInv /\ [Next]_vars => [Ordered!Next]_(Ordered!vars)
  <1> SUFFICES ASSUME IInv, [Next]_vars PROVE [Ordered!Next]_(Ordered!vars)
    OBVIOUS
  <1> USE DEF IInv
  <1>1. CASE UNCHANGED <<emitted, broker, delivered>>
    BY <1>1 DEF Ordered!vars
  <1>2. ASSUME NEW f \in Finding, emitted[f] < MaxSequence,
               emitted' = [emitted EXCEPT ![f] = @ + 1],
               UNCHANGED <<broker, delivered>>
        PROVE  Ordered!Next
    BY <1>2 DEF Ordered!Next, Ordered!Emit
  <1>3. ASSUME NEW w \in Worker, worker[w].pc = "claimed",
               broker' = broker \cup {worker[w].item},
               UNCHANGED <<emitted, delivered>>
        PROVE  Ordered!Next
    <2>1. worker[w].item \in Item
      BY <1>3 DEF TypeOK
    <2>2. PICK f \in Finding, n \in Sequence : worker[w].item = <<f, n>>
      BY <2>1 DEF Item
    <2>3. n <= emitted[f] /\ \A m \in 1 .. (n - 1) : <<f, m>> \in delivered
      BY <1>3, <2>2 DEF HeldInOrder, Row
    <2>4. Ordered!Accept(f, n)
      BY <1>3, <2>2, <2>3 DEF Ordered!Accept
    <2> QED BY <2>4 DEF Ordered!Next, Ordered!Sequence, Sequence
  <1>4. ASSUME NEW w \in Worker, worker[w].pc = "acknowledge",
               delivered' = delivered \cup {worker[w].item},
               UNCHANGED <<emitted, broker>>
        PROVE  Ordered!Next
    <2>1. worker[w].item \in Item
      BY <1>4 DEF TypeOK
    <2>2. PICK f \in Finding, n \in Sequence : worker[w].item = <<f, n>>
      BY <2>1 DEF Item
    <2>3. Ordered!Record(f, n)
      BY <1>4, <2>2 DEF ReceiptIsReal, Ordered!Record
    <2> QED BY <2>3 DEF Ordered!Next, Ordered!Sequence, Sequence
  <1> QED BY <1>1, <1>2, <1>3, <1>4, SinkSteps

\* The outbox with its leases, retries, crashes and dead letters implements
\* ordered delivery: the broker sees each finding's events in order, and only
\* what it holds is ever recorded as delivered.
THEOREM OutboxImplementsOrderedDelivery == Spec => OrderedSpec
  BY InitRefines, StepRefines, InvariantHolds, PTL DEF Spec, OrderedSpec, Ordered!Spec

-----------------------------------------------------------------------------
(* Leases *)

\* A dead-lettered row is nobody's: fail releases it and claim skips it.  Without
\* this requeue_dead could take a row from a worker whose lease still runs.
DeadIsReleased == \A i \in dead : holder[i] = None

LEMMA NextReleased == TypeOK /\ DeadIsReleased /\ [Next]_vars => DeadIsReleased'
  <1> SUFFICES ASSUME TypeOK, DeadIsReleased, [Next]_vars PROVE DeadIsReleased'
    OBVIOUS
  <1> USE DEF TypeOK, DeadIsReleased, rows
  <1>1. ASSUME NEW i \in Item, RequeueDead(i) PROVE DeadIsReleased'
    BY <1>1 DEF RequeueDead, Release
  <1>2. ASSUME NEW w \in Worker, NEW i \in Item, Claim(w, i) PROVE DeadIsReleased'
    BY <1>2 DEF Claim, Claimable
  <1>3. ASSUME NEW w \in Worker, Acknowledge(w) \/ Fail(w) PROVE DeadIsReleased'
    <2>1. worker[w].item \in Item
      BY <1>3 DEF Acknowledge, Fail
    <2> QED BY <1>3, <2>1 DEF Acknowledge, Fail, Release
  <1>4. CASE UNCHANGED <<dead, holder>>
    BY <1>4
  <1>5. ASSUME NEW w \in Worker,
               \/ ClaimNothing(w) \/ Publish(w) \/ PublishTransient(w)
               \/ PublishPermanent(w) \/ Sample(w) \/ AcknowledgeNothing(w)
               \/ AcknowledgeError(w) \/ FailStale(w) \/ Crash(w)
               \/ CrashWhilePublishing(w)
        PROVE  UNCHANGED <<dead, holder>>
    BY <1>5 DEF ClaimNothing, Publish, PublishTransient, PublishPermanent, Sample,
         AcknowledgeNothing, AcknowledgeError, FailStale, Crash, CrashWhilePublishing
  <1>6. ASSUME \/ \E f \in Finding : Emit(f)
               \/ \E i \in Item : Lapse(i) \/ BecomeAvailable(i)
               \/ UNCHANGED vars
        PROVE  UNCHANGED <<dead, holder>>
    BY <1>6 DEF Emit, Lapse, BecomeAvailable, vars
  <1> QED BY <1>1, <1>2, <1>3, <1>4, <1>5, <1>6 DEF Next, RunOnce

LEMMA StepExclusive ==
    ASSUME TypeOK, DeadIsReleased, [Next]_vars, NEW i \in Item,
           holder[i] # None, i \notin lapsed, holder'[i] # holder[i]
    PROVE  worker[holder[i]].item = i /\ worker'[holder[i]].pc = "idle"
  <1> USE DEF TypeOK, rows
  <1>1. ASSUME NEW j \in Item, RequeueDead(j) PROVE FALSE
    BY <1>1 DEF RequeueDead, Release, DeadIsReleased
  <1>2. ASSUME NEW w \in Worker, NEW j \in Item, Claim(w, j) PROVE FALSE
    BY <1>2 DEF Claim, Claimable
  <1>3. ASSUME NEW w \in Worker, Acknowledge(w) \/ Fail(w)
        PROVE  worker[holder[i]].item = i /\ worker'[holder[i]].pc = "idle"
    <2>1. worker[w].item \in Item /\ holder[worker[w].item] = w
      BY <1>3 DEF Acknowledge, Fail, MayUpdate
    <2>2. worker'[w].pc = "idle"
      BY <1>3 DEF Acknowledge, Fail, Finish, Idle
    <2>3. i = worker[w].item
      BY <1>3, <2>1 DEF Acknowledge, Fail, Release
    <2> QED BY <2>1, <2>2, <2>3
  <1>4. ASSUME NEW w \in Worker,
               \/ ClaimNothing(w) \/ Publish(w) \/ PublishTransient(w)
               \/ PublishPermanent(w) \/ Sample(w) \/ AcknowledgeNothing(w)
               \/ AcknowledgeError(w) \/ FailStale(w) \/ Crash(w)
               \/ CrashWhilePublishing(w)
        PROVE  FALSE
    BY <1>4 DEF ClaimNothing, Publish, PublishTransient, PublishPermanent, Sample,
         AcknowledgeNothing, AcknowledgeError, FailStale, Crash, CrashWhilePublishing
  <1>5. ASSUME \/ \E f \in Finding : Emit(f)
               \/ \E j \in Item : Lapse(j) \/ BecomeAvailable(j)
               \/ UNCHANGED vars
        PROVE  FALSE
    BY <1>5 DEF Emit, Lapse, BecomeAvailable, vars
  <1> QED BY <1>1, <1>2, <1>3, <1>4, <1>5 DEF Next, RunOnce

\* A lease that still runs is respected by every claim, stale acknowledgement,
\* stale failure and operator requeue, for any number of workers.
THEOREM Exclusive == Spec => LeaseIsExclusive
  <1>1. Init => DeadIsReleased
    BY DEF Init, DeadIsReleased
  <1>2. TypeOK /\ DeadIsReleased /\ [Next]_vars
        => [\A i \in Item :
              holder[i] # None /\ i \notin lapsed /\ holder'[i] # holder[i]
              => worker[holder[i]].item = i /\ worker'[holder[i]].pc = "idle"]_vars
    BY StepExclusive
  <1> QED BY <1>1, <1>2, NextReleased, TypeCorrect, PTL DEF Spec, LeaseIsExclusive
=============================================================================
