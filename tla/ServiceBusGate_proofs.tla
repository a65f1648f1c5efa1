------------------------ MODULE ServiceBusGate_proofs ------------------------
(***************************************************************************)
(* Proofs about ServiceBusGate, for any findings, executions and expected  *)
(* messages, and any bounds.                                               *)
(***************************************************************************)
EXTENDS ServiceBusGate, SequenceTheorems, FiniteSetTheorems, TLAPS

-----------------------------------------------------------------------------
(* Queues without repetitions *)

NoRepeats(q) == \A i, j \in DOMAIN q : q[i] = q[j] => i = j

LEMMA EnqueueFacts ==
    ASSUME NEW S, NEW q \in Seq(S), NEW c \in S, NoRepeats(q), c \notin ToSet(q)
    PROVE  /\ Append(q, c) \in Seq(S)
           /\ NoRepeats(Append(q, c))
           /\ ToSet(Append(q, c)) = ToSet(q) \cup {c}
  <1>1. /\ Append(q, c) \in Seq(S)
        /\ DOMAIN Append(q, c) = 1 .. (Len(q) + 1)
        /\ DOMAIN q = 1 .. Len(q) /\ Len(q) \in Nat
        /\ \A i \in 1 .. Len(q) : Append(q, c)[i] = q[i]
        /\ Append(q, c)[Len(q) + 1] = c
    OBVIOUS
  <1>2. \A i \in 1 .. (Len(q) + 1) : i \in 1 .. Len(q) \/ i = Len(q) + 1
    BY <1>1
  <1>3. \A i \in 1 .. Len(q) : q[i] # c
    BY <1>1 DEF ToSet
  <1>4. NoRepeats(Append(q, c))
    BY <1>1, <1>2, <1>3 DEF NoRepeats
  <1>5. Len(q) + 1 \in 1 .. (Len(q) + 1) /\ 1 .. Len(q) \subseteq 1 .. (Len(q) + 1)
    BY <1>1
  <1>6. ToSet(Append(q, c)) = ToSet(q) \cup {c}
    BY <1>1, <1>2, <1>5 DEF ToSet
  <1> QED BY <1>1, <1>4, <1>6

\* What RemoveFirst(q, c) is when c occurs at i only.
LEMMA RemoveIsRemoveAt ==
    ASSUME NEW S, NEW q \in Seq(S), NoRepeats(q), NEW i \in 1 .. Len(q)
    PROVE  RemoveFirst(q, q[i]) = RemoveAt(q, i)
  <1> DEFINE c == q[i]
             I == {j \in 1 .. Len(q) : q[j] = c}
  <1>1. I = {i}
    BY DEF NoRepeats
  <1>2. Min(I) = i
    <2>1. i \in I /\ (\A y \in I : i =< y) /\ \A x \in I : x = i
      BY <1>1
    <2> HIDE DEF I
    <2> QED BY <2>1 DEF Min
  <1>3. SelectInSeq(q, LAMBDA v : v = c) = i
    BY <1>1, <1>2 DEF SelectInSeq
  <1> QED BY <1>3 DEF RemoveFirst

LEMMA DequeueFacts ==
    ASSUME NEW S, NEW q \in Seq(S), NoRepeats(q), NEW c
    PROVE  /\ RemoveFirst(q, c) \in Seq(S)
           /\ NoRepeats(RemoveFirst(q, c))
           /\ ToSet(RemoveFirst(q, c)) = ToSet(q) \ {c}
  <1>0. DOMAIN q = 1 .. Len(q) /\ Len(q) \in Nat /\ \A k \in 1 .. Len(q) : q[k] \in S
    OBVIOUS
  <1>1. CASE c \notin ToSet(q)
    <2>1. RemoveFirst(q, c) = q
      BY <1>0, <1>1 DEF RemoveFirst, ToSet
    <2> QED BY <1>1, <2>1
  <1>2. CASE c \in ToSet(q)
    <2>1. PICK i \in 1 .. Len(q) : q[i] = c
      BY <1>0, <1>2 DEF ToSet
    <2> DEFINE n == Len(q)
               a == SubSeq(q, 1, i - 1)
               b == SubSeq(q, i + 1, n)
               r == RemoveFirst(q, c)
    <2>2. r = a \o b
      BY <2>1, RemoveIsRemoveAt DEF RemoveAt
    <2>3. a \in Seq(S) /\ Len(a) = i - 1 /\ \A k \in 1 .. i - 1 : a[k] = q[k]
      <3>1. \A k \in 1 .. i - 1 : q[k] \in S
        BY <1>0
      <3>2. /\ a \in Seq(S) /\ Len(a) = (IF 1 <= i - 1 THEN i - 1 - 1 + 1 ELSE 0)
            /\ \A k \in 1 .. i - 1 - 1 + 1 : a[k] = q[1 + k - 1]
        BY <3>1, SubSeqProperties
      <3> QED BY <1>0, <3>2
    <2>4. b \in Seq(S) /\ Len(b) = n - i /\ \A k \in 1 .. n - i : b[k] = q[k + i]
      <3>1. \A k \in i + 1 .. n : q[k] \in S
        BY <1>0
      <3>2. /\ b \in Seq(S) /\ Len(b) = (IF i + 1 <= n THEN n - (i + 1) + 1 ELSE 0)
            /\ \A k \in 1 .. n - (i + 1) + 1 : b[k] = q[i + 1 + k - 1]
        BY <1>0, <3>1, SubSeqProperties
      <3>3. /\ (IF i + 1 <= n THEN n - (i + 1) + 1 ELSE 0) = n - i
            /\ n - (i + 1) + 1 = n - i /\ \A k \in 1 .. n - i : i + 1 + k - 1 = k + i
        <4>1. n \in Int /\ i \in Int /\ i <= n
          BY <1>0
        <4> HIDE DEF n
        <4> QED BY <4>1
      <3> HIDE DEF b, n
      <3> QED BY <3>2, <3>3
    <2> HIDE DEF a, b, r
    <2>5. /\ r \in Seq(S) /\ Len(r) = n - 1 /\ DOMAIN r = 1 .. n - 1
          /\ \A k \in 1 .. n - 1 : r[k] = IF k < i THEN q[k] ELSE q[k + 1]
      <3>0. /\ r \in Seq(S) /\ Len(r) = Len(a) + Len(b)
            /\ \A k \in 1 .. Len(a) + Len(b) :
                 r[k] = IF k <= Len(a) THEN a[k] ELSE b[k - Len(a)]
        BY <2>2, <2>3, <2>4, ConcatProperties
      <3>1. /\ r \in Seq(S) /\ Len(r) = n - 1
            /\ \A k \in 1 .. n - 1 : r[k] = IF k <= i - 1 THEN a[k] ELSE b[k - (i - 1)]
        <4>1. Len(a) + Len(b) = n - 1
          BY <1>0, <2>3, <2>4
        <4> QED BY <2>3, <3>0, <4>1
      <3>2. ASSUME NEW k \in 1 .. n - 1
            PROVE  r[k] = IF k < i THEN q[k] ELSE q[k + 1]
        <4>1. CASE k < i
          <5>1. k \in 1 .. i - 1 /\ k <= i - 1
            BY <1>0, <4>1
          <5> QED BY <2>3, <3>1, <4>1, <5>1
        <4>2. CASE ~(k < i)
          <5>1. k - (i - 1) \in 1 .. n - i /\ k - (i - 1) + i = k + 1
            BY <1>0, <4>2
          <5>2. b[k - (i - 1)] = q[k + 1]
            BY <2>4, <5>1
          <5> QED BY <1>0, <3>1, <4>2, <5>2
        <4> QED BY <4>1, <4>2
      <3> QED BY <1>0, <3>1, <3>2
    <2>6. NoRepeats(r)
      <3> SUFFICES ASSUME NEW j \in 1 .. n - 1, NEW k \in 1 .. n - 1, r[j] = r[k] PROVE j = k
        BY <2>5 DEF NoRepeats
      <3> DEFINE at(m) == IF m < i THEN m ELSE m + 1
      <3>1. /\ at(j) \in 1 .. n /\ at(k) \in 1 .. n
            /\ r[j] = q[at(j)] /\ r[k] = q[at(k)]
        BY <1>0, <2>5
      <3>2. at(j) = at(k)
        BY <1>0, <3>1 DEF NoRepeats
      <3> QED BY <3>2
    <2>7. ToSet(r) = ToSet(q) \ {c}
      <3>1. ASSUME NEW x \in ToSet(r) PROVE x \in ToSet(q) /\ x # c
        <4>1. PICK k \in 1 .. n - 1 : x = r[k]
          BY <2>5 DEF ToSet
        <4>2. PICK m \in 1 .. n : m # i /\ x = q[m]
          BY <1>0, <2>5, <4>1
        <4> QED BY <1>0, <2>1, <4>2 DEF ToSet, NoRepeats
      <3>2. ASSUME NEW x \in ToSet(q), x # c PROVE x \in ToSet(r)
        <4>1. PICK m \in 1 .. n : x = q[m] /\ m # i
          BY <1>0, <2>1, <3>2 DEF ToSet
        <4>2. PICK k \in 1 .. n - 1 : x = r[k]
          <5>1. CASE m < i
            BY <1>0, <2>5, <4>1, <5>1
          <5>2. CASE m > i
            <6>1. m - 1 \in 1 .. n - 1 /\ ~(m - 1 < i) /\ m - 1 + 1 = m
              BY <1>0, <5>2
            <6> QED BY <2>5, <4>1, <6>1
          <5> QED BY <1>0, <4>1, <5>1, <5>2
        <4> QED BY <2>5, <4>2 DEF ToSet
      <3> QED BY <3>1, <3>2
    <2> QED BY <2>5, <2>6, <2>7 DEF r
  <1> QED BY <1>1, <1>2

-----------------------------------------------------------------------------
(* The inductive invariant.  The three properties speak of settlements and   *)
(* reports; what decides them is where a copy is, which reason it carries    *)
(* there, and that the copy of a valid lock is still in a queue.             *)

Known == 1 .. Len(copies)
Completed(c) == \E s \in settled[c] : s.action = "complete"
InSession(c) == c \in ToSet(active[Session(c)])

QueuesAreOrderly ==
    /\ Len(copies) <= MaxCopies
    /\ \A f \in Finding :
         NoRepeats(active[f]) /\ \A c \in ToSet(active[f]) : c \in Known /\ Session(c) = f
    /\ NoRepeats(dlq) /\ ToSet(dlq) \subseteq Known

\* A copy is in one place, and its reason tells which.
Placed(c) ==
    /\ InSession(c) => ~DeadLettered(c) /\ copies[c].reason = None
    /\ DeadLettered(c) => copies[c].reason # None
    /\ Completed(c) <=> ~InSession(c) /\ ~DeadLettered(c)

\* What the settlements of a copy say, and what its reason says of them.
SettledByName(c) ==
    /\ \A s \in settled[c] :
         /\ s.expected = Exact(copies[c].message)
         /\ s.action = "dead-letter" => copies[c].reason # None
         /\ s.source = "dead-letter" => copies[c].reason = Contract
    /\ copies[c].reason = Contract => \E s \in settled[c] : s.action = "dead-letter"

CopiesAreSound ==
    /\ \A c \in Known : Placed(c) /\ SettledByName(c)
    /\ \A c \in Copy \ Known : settled[c] = {}

LocksAreReal ==
    /\ locked \subseteq Known /\ \A c \in locked : ~Completed(c)
    /\ \A g \in Gate : gate[g] # Idle =>
         /\ gate[g].copy \in Known
         /\ ~(gate[g].source = "dead-letter" /\ gate[g].action = "dead-letter")
    /\ \A g \in Gate : gate[g].held => gate[g].copy \in locked
    /\ \A g, h \in Gate :
         gate[g].held /\ gate[h].held /\ gate[g].copy = gate[h].copy => g = h

BrokerInv == QueuesAreOrderly /\ CopiesAreSound /\ LocksAreReal
IInv == TypeOK /\ BrokerInv /\ ReportsAreReal

\* TypeOK in two parts.
CopyState == [message: Message, count: 0 .. MaxDelivery, reason: {None, Contract, Broker}]
QueueType ==
    /\ copies \in Seq(CopyState)
    /\ active \in [Finding -> Seq(Copy)]
    /\ dlq \in Seq(Copy)
OtherType ==
    /\ sent \in [Finding -> 0 .. MaxSequence]
    /\ recent \subseteq Message
    /\ locked \subseteq Copy
    /\ gate \in [Gate -> Execution]
    /\ settled \in [Copy -> SUBSET Settlement]
    /\ reported \in [Report -> Nat]

LEMMA TypeParts == TypeOK <=> QueueType /\ OtherType
  BY DEF TypeOK, QueueType, OtherType, CopyState

LEMMA TypePartsNext == TypeOK' <=> QueueType' /\ OtherType'
  BY DEF TypeOK, QueueType, OtherType, CopyState

LEMMA Bounds ==
    /\ MaxSequence \in Nat \ {0} /\ MaxCopies \in Nat \ {0} /\ MaxDelivery \in Nat \ {0}
    /\ None # Contract /\ None # Broker /\ Contract # Broker
  BY GateAssumption DEF Contract, Broker

LEMMA KnownFacts ==
    ASSUME QueueType, QueuesAreOrderly, NEW c \in Known
    PROVE  /\ c \in Copy /\ c \in DOMAIN copies /\ copies[c] \in CopyState
           /\ copies[c].message \in Message /\ Session(c) \in Finding
           /\ active[Session(c)] \in Seq(Copy)
  <1>1. c \in DOMAIN copies /\ copies[c] \in CopyState
    BY DEF QueueType, Known
  <1>2. copies[c].message \in Message
    BY <1>1 DEF CopyState
  <1>3. Session(c) \in Finding
    BY <1>2 DEF Session, Message
  <1>4. c \in Copy
    BY Bounds DEF QueueType, QueuesAreOrderly, Known, Copy
  <1> QED BY <1>1, <1>2, <1>3, <1>4 DEF QueueType

LEMMA QueuedIsInSession ==
    ASSUME QueueType, QueuesAreOrderly, NEW c \in Known
    PROVE  Queued(c) <=> InSession(c)
  <1>1. Session(c) \in Finding
    BY KnownFacts
  <1> QED BY <1>1 DEF Queued, InSession, QueuesAreOrderly

\* A step that moves no copy but c.
OthersStay(c) ==
    /\ Len(copies') = Len(copies)
    /\ \A d \in Known : copies'[d].message = copies[d].message
    /\ \A d \in Known \ {c} :
         /\ copies'[d].reason = copies[d].reason
         /\ InSession(d)' <=> InSession(d)
         /\ DeadLettered(d)' <=> DeadLettered(d)

\* The copies once one of them has got a reason and a count.
LEMMA UpdateFacts ==
    ASSUME QueueType, NEW c \in Known, NEW r \in {None, Contract, Broker},
           NEW n \in 0 .. MaxDelivery,
           copies' = [copies EXCEPT ![c].reason = r, ![c].count = n]
    PROVE  /\ copies' \in Seq(CopyState) /\ Len(copies') = Len(copies)
           /\ \A d \in Known : copies'[d].message = copies[d].message /\ Session(d)' = Session(d)
           /\ \A d \in Known \ {c} : copies'[d] = copies[d]
           /\ copies'[c].reason = r
  <1>1. copies \in Seq(CopyState) /\ DOMAIN copies = Known /\ c \in DOMAIN copies
        /\ copies[c] \in CopyState
    BY DEF QueueType, Known
  <1> DEFINE new == [copies[c] EXCEPT !.reason = r, !.count = n]
  <1>2. new \in CopyState /\ new.reason = r /\ new.message = copies[c].message
    BY <1>1 DEF CopyState
  <1>3. copies' = [copies EXCEPT ![c] = new]
    BY <1>1 DEF CopyState
  <1> HIDE DEF new
  <1>4. copies' \in Seq(CopyState) /\ Len(copies') = Len(copies)
    <2>1. c \in 1 .. Len(copies)
      BY DEF Known
    <2>2. /\ [copies EXCEPT ![c] = new] \in Seq(CopyState)
          /\ Len([copies EXCEPT ![c] = new]) = Len(copies)
      BY <1>1, <1>2, <2>1, ExceptSeq
    <2> QED BY <1>3, <2>2
  <1>5. /\ \A d \in Known \ {c} : copies'[d] = copies[d]
        /\ copies'[c] = new
    BY <1>1, <1>3
  <1>6. \A d \in Known : copies'[d].message = copies[d].message
    BY <1>2, <1>5
  <1> QED BY <1>2, <1>4, <1>5, <1>6 DEF Session

\* A copy leaves its session.
LEMMA LeaveFacts ==
    ASSUME QueueType, QueuesAreOrderly, NEW c \in Known,
           Len(copies') = Len(copies), \A d \in Known : Session(d)' = Session(d),
           active' = [active EXCEPT ![Session(c)] = RemoveFirst(@, c)]
    PROVE  /\ active' \in [Finding -> Seq(Copy)]
           /\ \A f \in Finding : /\ NoRepeats(active'[f])
                                 /\ \A d \in ToSet(active'[f]) : d \in Known' /\ Session(d)' = f
           /\ \A d \in Known \ {c} : InSession(d)' <=> InSession(d)
           /\ ~InSession(c)'
  <1> DEFINE f0 == Session(c)
             q == RemoveFirst(active[f0], c)
  <1>1. f0 \in Finding /\ active[f0] \in Seq(Copy) /\ NoRepeats(active[f0])
    BY KnownFacts DEF QueuesAreOrderly
  <1>2. q \in Seq(Copy) /\ NoRepeats(q) /\ ToSet(q) = ToSet(active[f0]) \ {c}
    BY <1>1, DequeueFacts
  <1>3. /\ active' \in [Finding -> Seq(Copy)] /\ active'[f0] = q
        /\ \A f \in Finding \ {f0} : active'[f] = active[f]
    BY <1>1, <1>2 DEF QueueType
  <1>4. Known' = Known
    BY DEF Known
  <1> HIDE DEF q
  <1>5. \A f \in Finding : NoRepeats(active'[f])
    BY <1>2, <1>3 DEF QueuesAreOrderly
  <1>6. \A f \in Finding : ToSet(active'[f]) \subseteq ToSet(active[f])
    BY <1>2, <1>3
  <1>7. \A f \in Finding : \A d \in ToSet(active'[f]) : d \in Known' /\ Session(d)' = f
    BY <1>4, <1>6 DEF QueuesAreOrderly
  <1>8. ASSUME NEW d \in Known \ {c} PROVE InSession(d)' <=> InSession(d)
    <2>1. Session(d) \in Finding /\ Session(d)' = Session(d)
      BY KnownFacts
    <2>2. InSession(d)' <=> d \in ToSet(active'[Session(d)])
      BY <2>1 DEF InSession
    <2>3. CASE Session(d) = f0
      BY <1>2, <1>3, <2>2, <2>3 DEF InSession
    <2>4. CASE Session(d) # f0
      BY <1>3, <2>1, <2>2, <2>4 DEF InSession
    <2> QED BY <2>3, <2>4
  <1>9. ~InSession(c)'
    <2>1. InSession(c)' <=> c \in ToSet(active'[f0])
      BY DEF InSession
    <2> QED BY <1>2, <1>3, <2>1
  <1> QED BY <1>3, <1>5, <1>7, <1>8, <1>9

LEMMA DeadLetterFacts ==
    ASSUME QueueType, QueuesAreOrderly, NEW c \in Known, c \notin ToSet(dlq),
           NEW r \in {Contract, Broker}, NEW n \in 0 .. MaxDelivery, DeadLetter(c, r, n)
    PROVE  /\ QueueType' /\ QueuesAreOrderly' /\ OthersStay(c)
           /\ copies'[c].reason = r /\ ~InSession(c)' /\ DeadLettered(c)'
  <1>1. /\ copies' \in Seq(CopyState) /\ Len(copies') = Len(copies)
        /\ \A d \in Known : copies'[d].message = copies[d].message /\ Session(d)' = Session(d)
        /\ \A d \in Known \ {c} : copies'[d] = copies[d]
        /\ copies'[c].reason = r
    BY UpdateFacts DEF DeadLetter
  <1>2. /\ active' \in [Finding -> Seq(Copy)]
        /\ \A f \in Finding : /\ NoRepeats(active'[f])
                              /\ \A d \in ToSet(active'[f]) : d \in Known' /\ Session(d)' = f
        /\ \A d \in Known \ {c} : InSession(d)' <=> InSession(d)
        /\ ~InSession(c)'
    BY <1>1, LeaveFacts DEF DeadLetter
  <1>3. dlq' \in Seq(Copy) /\ NoRepeats(dlq') /\ ToSet(dlq') = ToSet(dlq) \cup {c}
    BY KnownFacts, EnqueueFacts DEF DeadLetter, QueueType, QueuesAreOrderly
  <1>4. Known' = Known
    BY <1>1 DEF Known
  <1>5. QueuesAreOrderly'
    BY <1>1, <1>2, <1>3, <1>4 DEF QueuesAreOrderly
  <1>6. \A d \in Known \ {c} : DeadLettered(d)' <=> DeadLettered(d)
    BY <1>3 DEF DeadLettered
  <1>7. DeadLettered(c)'
    BY <1>3 DEF DeadLettered
  <1> QED BY <1>1, <1>2, <1>3, <1>5, <1>6, <1>7 DEF QueueType, OthersStay

\* What a step may do to the copy it is about.
Stays(c) ==
    /\ copies'[c].reason = copies[c].reason
    /\ InSession(c)' <=> InSession(c)
    /\ DeadLettered(c)' <=> DeadLettered(c)
Buried(c, r) ==
    /\ copies[c].reason = None /\ InSession(c)
    /\ copies'[c].reason = r /\ ~InSession(c)' /\ DeadLettered(c)'
Taken(c) ==
    /\ copies'[c].reason = copies[c].reason
    /\ ~InSession(c)' /\ ~DeadLettered(c)'

LEMMA RedeliverFacts ==
    ASSUME QueueType, QueuesAreOrderly, NEW c \in Known, Placed(c), ~Completed(c),
           Redeliver(c)
    PROVE  QueueType' /\ QueuesAreOrderly' /\ OthersStay(c) /\ (Stays(c) \/ Buried(c, Broker))
  <1>1. PICK n : n = IF copies[c].count < MaxDelivery THEN copies[c].count + 1
                                                      ELSE copies[c].count
    OBVIOUS
  <1>2. copies[c].count \in 0 .. MaxDelivery /\ copies[c].reason \in {None, Contract, Broker}
    BY KnownFacts DEF CopyState
  <1>3. n \in 0 .. MaxDelivery
    BY <1>1, <1>2, Bounds
  <1>4. CASE copies[c].reason = None /\ n = MaxDelivery
    <2>1. DeadLetter(c, Broker, n)
      BY <1>1, <1>4 DEF Redeliver
    <2>2. InSession(c) /\ c \notin ToSet(dlq)
      BY <1>4 DEF Placed, DeadLettered
    <2>3. /\ QueueType' /\ QueuesAreOrderly' /\ OthersStay(c)
          /\ copies'[c].reason = Broker /\ ~InSession(c)' /\ DeadLettered(c)'
      BY <1>3, <2>1, <2>2, DeadLetterFacts
    <2> QED BY <1>4, <2>2, <2>3 DEF Buried
  <1>5. CASE ~(copies[c].reason = None /\ n = MaxDelivery)
    <2>1. copies' = [copies EXCEPT ![c].count = n] /\ active' = active /\ dlq' = dlq
      BY <1>1, <1>5 DEF Redeliver
    <2>2. copies' = [copies EXCEPT ![c].reason = copies[c].reason, ![c].count = n]
      <3>1. copies \in Seq(CopyState) /\ c \in DOMAIN copies /\ copies[c] \in CopyState
        BY KnownFacts DEF QueueType
      <3> QED BY <2>1, <3>1 DEF CopyState
    <2>3. /\ copies' \in Seq(CopyState) /\ Len(copies') = Len(copies)
          /\ \A d \in Known : copies'[d].message = copies[d].message /\ Session(d)' = Session(d)
          /\ \A d \in Known \ {c} : copies'[d] = copies[d]
          /\ copies'[c].reason = copies[c].reason
      BY <1>2, <1>3, <2>2, UpdateFacts
    <2>4. Known' = Known
      BY <2>3 DEF Known
    <2>5. \A d \in Known : (InSession(d)' <=> InSession(d)) /\ (DeadLettered(d)' <=> DeadLettered(d))
      BY <2>1, <2>3 DEF InSession, DeadLettered
    <2>6. QueuesAreOrderly'
      BY <2>1, <2>3, <2>4 DEF QueuesAreOrderly
    <2>7. QueueType'
      BY <2>1, <2>3 DEF QueueType
    <2> QED BY <2>3, <2>5, <2>6, <2>7 DEF OthersStay, Stays
  <1> QED BY <1>4, <1>5

LEMMA TakeFacts ==
    ASSUME QueueType, QueuesAreOrderly, NEW c \in Known,
           active' = [active EXCEPT ![Session(c)] = RemoveFirst(@, c)],
           dlq' = RemoveFirst(dlq, c), copies' = copies
    PROVE  QueueType' /\ QueuesAreOrderly' /\ OthersStay(c) /\ Taken(c)
  <1>1. Known' = Known /\ \A d \in Known : Session(d)' = Session(d)
    BY DEF Known, Session
  <1>2. /\ active' \in [Finding -> Seq(Copy)]
        /\ \A f \in Finding : /\ NoRepeats(active'[f])
                              /\ \A d \in ToSet(active'[f]) : d \in Known' /\ Session(d)' = f
        /\ \A d \in Known \ {c} : InSession(d)' <=> InSession(d)
        /\ ~InSession(c)'
    BY <1>1, LeaveFacts
  <1>3. dlq' \in Seq(Copy) /\ NoRepeats(dlq') /\ ToSet(dlq') = ToSet(dlq) \ {c}
    BY DequeueFacts DEF QueueType, QueuesAreOrderly
  <1>4. QueuesAreOrderly'
    BY <1>1, <1>2, <1>3 DEF QueuesAreOrderly
  <1>5. /\ \A d \in Known \ {c} : DeadLettered(d)' <=> DeadLettered(d)
        /\ ~DeadLettered(c)'
    BY <1>3 DEF DeadLettered
  <1> QED BY <1>2, <1>3, <1>4, <1>5 DEF QueueType, OthersStay, Taken

\* The settlement a step adds to c, if any, fits what it does to the copy.
Fits(c, x) ==
    /\ x.expected = Exact(copies[c].message)
    /\ \/ x.action = "dead-letter" /\ x.source = "active" /\ Buried(c, Contract)
       \/ /\ x.action = "complete" /\ Taken(c)
          /\ x.source = "dead-letter" => copies[c].reason = Contract

LEMMA SoundnessKept ==
    ASSUME CopiesAreSound, QueueType, QueuesAreOrderly, NEW c \in Known, OthersStay(c),
           \A d \in Copy \ {c} : settled'[d] = settled[d],
           \/ settled'[c] = settled[c] /\ (Stays(c) \/ Buried(c, Broker))
           \/ \E x : settled'[c] = settled[c] \cup {x} /\ Fits(c, x)
    PROVE  CopiesAreSound'
  <1>1. Known' = Known /\ \A d \in Known : d \in Copy
    BY KnownFacts DEF OthersStay, Known
  <1>2. \A d \in Copy \ Known' : settled'[d] = {}
    BY <1>1 DEF CopiesAreSound
  <1>3. ASSUME NEW d \in Known, d # c PROVE Placed(d)' /\ SettledByName(d)'
    <2>1. /\ settled'[d] = settled[d] /\ copies'[d].message = copies[d].message
          /\ copies'[d].reason = copies[d].reason
          /\ InSession(d)' <=> InSession(d)
          /\ DeadLettered(d)' <=> DeadLettered(d)
      BY <1>1, <1>3 DEF OthersStay
    <2>2. Placed(d) /\ SettledByName(d)
      BY DEF CopiesAreSound
    <2>3. Placed(d)'
      BY <2>1, <2>2 DEF Placed, Completed
    <2>4. SettledByName(d)'
      BY <2>1, <2>2 DEF SettledByName
    <2> QED BY <2>3, <2>4
  <1>4. Placed(c) /\ SettledByName(c) /\ copies'[c].message = copies[c].message
    BY DEF CopiesAreSound, OthersStay
  <1>5. CASE settled'[c] = settled[c] /\ Stays(c)
    <2>1. Placed(c)'
      BY <1>4, <1>5 DEF Placed, Completed, Stays
    <2>2. SettledByName(c)'
      BY <1>4, <1>5 DEF SettledByName, Stays
    <2> QED BY <1>1, <1>2, <1>3, <2>1, <2>2 DEF CopiesAreSound
  <1>6. CASE settled'[c] = settled[c] /\ Buried(c, Broker)
    <2>1. Placed(c)'
      BY <1>4, <1>6, Bounds DEF Placed, Completed, Buried
    <2>2. SettledByName(c)'
      BY <1>4, <1>6, Bounds DEF SettledByName, Buried
    <2> QED BY <1>1, <1>2, <1>3, <2>1, <2>2 DEF CopiesAreSound
  <1>7. ASSUME NEW x, settled'[c] = settled[c] \cup {x}, Fits(c, x) PROVE CopiesAreSound'
    <2>1. Placed(c)'
      <3>1. CASE x.action = "dead-letter" /\ Buried(c, Contract)
        BY <1>4, <1>7, <3>1, Bounds DEF Placed, Completed, Buried
      <3>2. CASE x.action = "complete" /\ Taken(c)
        BY <1>7, <3>2 DEF Placed, Completed, Taken
      <3> QED BY <1>7, <3>1, <3>2 DEF Fits
    <2>2. SettledByName(c)'
      <3>1. CASE x.action = "dead-letter" /\ x.source = "active" /\ Buried(c, Contract)
        <4>1. \A s \in settled[c] : s.action # "dead-letter" /\ s.source # "dead-letter"
          BY <1>4, <3>1, Bounds DEF SettledByName, Buried
        <4> QED BY <1>4, <1>7, <3>1, <4>1, Bounds DEF SettledByName, Buried, Fits
      <3>2. CASE /\ x.action = "complete" /\ Taken(c)
                 /\ x.source = "dead-letter" => copies[c].reason = Contract
        BY <1>4, <1>7, <3>2 DEF SettledByName, Taken, Fits
      <3> QED BY <1>7, <3>1, <3>2 DEF Fits
    <2> QED BY <1>1, <1>2, <1>3, <2>1, <2>2 DEF CopiesAreSound
  <1> QED BY <1>5, <1>6, <1>7

-----------------------------------------------------------------------------
(* Locks and reports *)

\* An execution that is not idle works on a copy.
LEMMA GateFacts ==
    ASSUME OtherType, NEW g \in Gate, gate[g] # Idle \/ gate[g].held
    PROVE  /\ gate[g] # Idle
           /\ gate[g] \in [expected: Expected, action: Action,
                           source: {"active", "dead-letter"}, copy: Copy, held: BOOLEAN]
  BY DEF OtherType, Execution, Idle

\* A step that takes no new lock.
LEMMA LocksKept ==
    ASSUME LocksAreReal, locked' \subseteq locked, Len(copies') >= Len(copies),
           Len(copies) \in Nat, Len(copies') \in Nat,
           \A c \in locked' : settled'[c] = settled[c],
           \A g \in Gate : gate'[g] # Idle =>
               /\ gate[g] # Idle /\ gate'[g].copy = gate[g].copy
               /\ gate'[g].source = gate[g].source /\ gate'[g].action = gate[g].action,
           \A g \in Gate : gate'[g].held =>
               gate[g].held /\ gate'[g].copy = gate[g].copy /\ gate[g].copy \in locked'
    PROVE  LocksAreReal'
  <1>1. Known \subseteq Known'
    BY DEF Known
  <1>2. locked' \subseteq Known' /\ \A c \in locked' : ~Completed(c)'
    BY <1>1 DEF LocksAreReal, Completed
  <1>3. \A g \in Gate : gate'[g] # Idle =>
          /\ gate'[g].copy \in Known'
          /\ ~(gate'[g].source = "dead-letter" /\ gate'[g].action = "dead-letter")
    BY <1>1 DEF LocksAreReal
  <1>4. \A g \in Gate : gate'[g].held => gate'[g].copy \in locked'
    OBVIOUS
  <1>5. \A g, h \in Gate :
          gate'[g].held /\ gate'[h].held /\ gate'[g].copy = gate'[h].copy => g = h
    BY DEF LocksAreReal
  <1> QED BY <1>2, <1>3, <1>4, <1>5 DEF LocksAreReal

\* The lock of c goes and the execution that held it, if any, is done with it.
LEMMA LockReturned ==
    ASSUME OtherType, QueueType, QueuesAreOrderly, QueueType', LocksAreReal,
           NEW c \in Known, locked' = locked \ {c}, Len(copies') = Len(copies),
           \A d \in Copy \ {c} : settled'[d] = settled[d],
           \A g \in Gate : \/ gate'[g] = Idle \/ gate'[g] = gate[g]
                           \/ gate[g].held /\ gate'[g] = [gate[g] EXCEPT !.held = FALSE],
           \A g \in Gate : gate[g].held /\ gate[g].copy = c => ~gate'[g].held
    PROVE  LocksAreReal'
  <1>1. \A d \in locked' : settled'[d] = settled[d]
    BY KnownFacts DEF LocksAreReal
  <1>2. Len(copies) \in Nat /\ Len(copies') \in Nat /\ Len(copies') >= Len(copies)
    BY DEF QueueType
  <1>3. ASSUME NEW g \in Gate
        PROVE  /\ gate'[g] # Idle =>
                    /\ gate[g] # Idle /\ gate'[g].copy = gate[g].copy
                    /\ gate'[g].source = gate[g].source /\ gate'[g].action = gate[g].action
               /\ gate'[g].held =>
                    gate[g].held /\ gate'[g].copy = gate[g].copy /\ gate[g].copy \in locked'
    <2>1. CASE gate'[g] = Idle
      BY <2>1 DEF Idle
    <2>2. CASE gate'[g] = gate[g]
      BY <2>2 DEF LocksAreReal
    <2>3. CASE gate[g].held /\ gate'[g] = [gate[g] EXCEPT !.held = FALSE]
      <3>1. gate[g] # Idle
        BY <2>3, GateFacts
      <3>2. /\ gate'[g].copy = gate[g].copy /\ ~gate'[g].held
            /\ gate'[g].source = gate[g].source /\ gate'[g].action = gate[g].action
        BY <2>3, GateFacts
      <3> QED BY <3>1, <3>2
    <2> QED BY <2>1, <2>2, <2>3
  <1> QED BY <1>1, <1>2, <1>3, LocksKept

LEMMA ReportsKept ==
    ASSUME ReportsAreReal, OtherType, reported' = reported,
           \A c \in Copy : settled[c] \subseteq settled'[c]
    PROVE  ReportsAreReal'
  <1> SUFFICES ASSUME NEW r \in Report, reported'[r] > 0
               PROVE  /\ reported'[r] = 1
                      /\ \E s \in settled'[r.copy] : s.action = r.action /\ s.source = r.source
    BY DEF ReportsAreReal
  <1>1. r.copy \in Copy
    BY DEF Report
  <1> QED BY <1>1 DEF ReportsAreReal

-----------------------------------------------------------------------------
(* The publisher and the broker *)

\* A step that leaves every copy, lock and report alone.
LEMMA NothingMoves ==
    ASSUME IInv, copies' = copies, active' = active, dlq' = dlq, locked' = locked,
           settled' = settled, reported' = reported,
           \A g \in Gate : gate'[g] = gate[g] \/ gate'[g] = Idle
    PROVE  BrokerInv' /\ ReportsAreReal'
  <1>1. Known' = Known
    BY DEF Known
  <1>2. QueuesAreOrderly'
    BY <1>1 DEF IInv, BrokerInv, QueuesAreOrderly, Session
  <1>3. CopiesAreSound'
    BY <1>1 DEF IInv, BrokerInv, CopiesAreSound, Placed, SettledByName, InSession, Session,
                DeadLettered, Completed
  <1>4. LocksAreReal'
    <2>1. LocksAreReal /\ copies \in Seq(CopyState)
      BY TypeParts DEF IInv, BrokerInv, QueueType
    <2>2. Len(copies) \in Nat /\ Len(copies') \in Nat /\ Len(copies') >= Len(copies)
      BY <2>1
    <2>3. ASSUME NEW g \in Gate
          PROVE  /\ gate'[g] # Idle => gate'[g] = gate[g]
                 /\ gate'[g].held => gate'[g] = gate[g] /\ gate[g].copy \in locked'
      <3>1. ~Idle.held
        BY DEF Idle
      <3> QED BY <2>1, <3>1 DEF LocksAreReal
    <2> QED BY <2>1, <2>2, <2>3, LocksKept
  <1>5. ReportsAreReal'
    BY ReportsKept, TypeParts DEF IInv
  <1> QED BY <1>2, <1>3, <1>4, <1>5 DEF BrokerInv

\* A copy is sent: it is new, and last in its session.
LEMMA SendKeeps ==
    ASSUME IInv, NEW f \in Finding, Send(f)
    PROVE  QueueType' /\ recent' \subseteq Message /\ BrokerInv' /\ ReportsAreReal'
  <1>m. PICK m : m = <<f, sent[f] + 1>>
    OBVIOUS
  <1>n. PICK new : new = [message |-> m, count |-> 0, reason |-> None]
    OBVIOUS
  <1>l. PICK last : last = Len(copies) + 1
    OBVIOUS
  <1>0. /\ QueueType /\ OtherType /\ QueuesAreOrderly /\ CopiesAreSound /\ LocksAreReal
        /\ ReportsAreReal
    BY TypeParts DEF IInv, BrokerInv
  <1>1. m \in Message
    <2>1. sent[f] + 1 \in 1 .. MaxSequence
      BY <1>0, Bounds DEF Send, OtherType
    <2> QED BY <1>m, <2>1 DEF Message
  <1>2. recent' \subseteq Message
    BY <1>0, <1>m, <1>1 DEF Send, OtherType
  <1>3. dlq' = dlq /\ locked' = locked /\ gate' = gate /\ settled' = settled /\ reported' = reported
    BY DEF Send
  <1>4. CASE m \in recent
    <2>1. copies' = copies /\ active' = active
      BY <1>m, <1>4 DEF Send
    <2>2. QueueType'
      BY <1>0, <1>3, <2>1 DEF QueueType
    <2> QED BY <1>2, <1>3, <2>1, <2>2, NothingMoves
  <1>5. CASE m \notin recent
    <2>1. /\ Len(copies) < MaxCopies
          /\ copies' = Append(copies, new)
          /\ active' = [active EXCEPT ![f] = Append(@, last)]
      BY <1>m, <1>n, <1>l, <1>5 DEF Send
    <2>2. new \in CopyState /\ new.message = m /\ new.reason = None
      BY <1>n, <1>1, Bounds DEF CopyState
    <2>3. copies \in Seq(CopyState) /\ Len(copies) \in Nat
      BY <1>0 DEF QueueType
    <2>4. /\ copies' \in Seq(CopyState) /\ Len(copies') = last
          /\ \A d \in Known : copies'[d] = copies[d]
          /\ copies'[last] = new
      BY <1>l, <2>1, <2>2, <2>3 DEF Known
    <2>5. Known' = Known \cup {last} /\ last \notin Known /\ last \in Copy
      BY <1>l, <2>1, <2>3, <2>4, Bounds DEF Known, Copy
    <2>6. (\A d \in Known : Session(d)' = Session(d)) /\ Session(last)' = f
      BY <1>m, <2>2, <2>4 DEF Session
    <2>7. last \notin ToSet(active[f]) /\ active[f] \in Seq(Copy) /\ NoRepeats(active[f])
      BY <1>0, <2>5 DEF QueuesAreOrderly, QueueType
    <2>8. /\ Append(active[f], last) \in Seq(Copy) /\ NoRepeats(Append(active[f], last))
          /\ ToSet(Append(active[f], last)) = ToSet(active[f]) \cup {last}
      BY <2>5, <2>7, EnqueueFacts
    <2>9. /\ active' \in [Finding -> Seq(Copy)]
          /\ NoRepeats(active'[f]) /\ ToSet(active'[f]) = ToSet(active[f]) \cup {last}
          /\ \A h \in Finding \ {f} : active'[h] = active[h]
      BY <1>0, <2>1, <2>8 DEF QueueType
    <2>10. QueueType'
      BY <1>0, <1>3, <2>4, <2>9 DEF QueueType
    <2>11. QueuesAreOrderly'
      <3>1. Len(copies') <= MaxCopies
        BY <1>l, <2>1, <2>3, <2>4, Bounds
      <3>2. ASSUME NEW h \in Finding
            PROVE  /\ NoRepeats(active'[h])
                   /\ \A c \in ToSet(active'[h]) : c \in Known' /\ Session(c)' = h
        <4>1. CASE h = f
          BY <1>0, <2>5, <2>6, <2>9, <4>1 DEF QueuesAreOrderly
        <4>2. CASE h # f
          BY <1>0, <2>5, <2>6, <2>9, <4>2 DEF QueuesAreOrderly
        <4> QED BY <4>1, <4>2
      <3>3. NoRepeats(dlq') /\ ToSet(dlq') \subseteq Known'
        BY <1>0, <1>3, <2>5 DEF QueuesAreOrderly
      <3> QED BY <3>1, <3>2, <3>3 DEF QueuesAreOrderly
    <2>12. CopiesAreSound'
      <3>1. ASSUME NEW d \in Known PROVE Placed(d)' /\ SettledByName(d)'
        <4>1. Session(d) \in Finding /\ Session(d)' = Session(d) /\ d # last
          BY <1>0, <2>5, <2>6, KnownFacts
        <4>2. InSession(d)' <=> d \in ToSet(active'[Session(d)])
          BY <4>1 DEF InSession
        <4>3. InSession(d)' <=> InSession(d)
          <5>1. CASE Session(d) = f
            BY <2>9, <4>1, <4>2, <5>1 DEF InSession
          <5>2. CASE Session(d) # f
            BY <2>9, <4>1, <4>2, <5>2 DEF InSession
          <5> QED BY <5>1, <5>2
        <4>4. /\ DeadLettered(d)' <=> DeadLettered(d)
              /\ copies'[d] = copies[d] /\ settled'[d] = settled[d]
          BY <1>3, <2>4 DEF DeadLettered
        <4>5. Placed(d) /\ SettledByName(d)
          BY <1>0 DEF CopiesAreSound
        <4>6. Placed(d)'
          BY <4>3, <4>4, <4>5 DEF Placed, Completed
        <4>7. SettledByName(d)'
          BY <4>4, <4>5 DEF SettledByName
        <4> QED BY <4>6, <4>7
      <3>2. Placed(last)' /\ SettledByName(last)'
        <4>1. settled'[last] = {} /\ copies'[last].reason = None
          BY <1>0, <1>3, <2>2, <2>4, <2>5 DEF CopiesAreSound
        <4>2. InSession(last)'
          BY <2>6, <2>9 DEF InSession
        <4>3. ~DeadLettered(last)'
          BY <1>0, <1>3, <2>5 DEF DeadLettered, QueuesAreOrderly
        <4>4. Placed(last)'
          BY <4>1, <4>2, <4>3 DEF Placed, Completed
        <4>5. SettledByName(last)'
          BY <4>1, Bounds DEF SettledByName
        <4> QED BY <4>4, <4>5
      <3>3. \A c \in Copy \ Known' : settled'[c] = {}
        BY <1>0, <1>3, <2>5 DEF CopiesAreSound
      <3> QED BY <2>5, <3>1, <3>2, <3>3 DEF CopiesAreSound
    <2>13. LocksAreReal'
      BY <1>0, <1>3, <2>5 DEF LocksAreReal, Completed
    <2>14. ReportsAreReal'
      BY <1>0, <1>3, ReportsKept
    <2> QED BY <1>2, <2>10, <2>11, <2>12, <2>13, <2>14 DEF BrokerInv
  <1> QED BY <1>4, <1>5

LEMMA ExpireKeeps ==
    ASSUME IInv, NEW f \in Finding, Expire(f)
    PROVE  IInv'
  <1>0. /\ QueueType /\ OtherType /\ QueuesAreOrderly /\ CopiesAreSound /\ LocksAreReal
        /\ ReportsAreReal
    BY TypeParts DEF IInv, BrokerInv
  <1>1. PICK c \in ToSet(active[f]) \ locked : DeadLetter(c, Broker, copies[c].count)
    BY DEF Expire
  <1>2. /\ sent' = sent /\ recent' = recent /\ locked' = locked /\ gate' = gate
        /\ settled' = settled /\ reported' = reported
    BY DEF Expire
  <1>3. c \in Known /\ InSession(c)
    BY <1>0 DEF QueuesAreOrderly, InSession
  <1>4. copies[c].reason = None /\ c \notin ToSet(dlq)
    BY <1>0, <1>3 DEF CopiesAreSound, Placed, DeadLettered
  <1>5. copies[c].count \in 0 .. MaxDelivery
    BY <1>0, <1>3, KnownFacts DEF CopyState
  <1>6. /\ QueueType' /\ QueuesAreOrderly' /\ OthersStay(c)
        /\ copies'[c].reason = Broker /\ ~InSession(c)' /\ DeadLettered(c)'
    BY <1>0, <1>1, <1>3, <1>4, <1>5, DeadLetterFacts
  <1>7. Buried(c, Broker)
    BY <1>3, <1>4, <1>6 DEF Buried
  <1>8. CopiesAreSound'
    BY <1>0, <1>2, <1>3, <1>6, <1>7, SoundnessKept
  <1>9. LocksAreReal'
    <2>1. Len(copies') = Len(copies) /\ Len(copies) \in Nat
      BY <1>0, <1>6 DEF OthersStay, QueueType
    <2>2. Known' = Known
      BY <2>1 DEF Known
    <2> QED BY <1>0, <1>2, <2>2 DEF LocksAreReal, Completed
  <1>10. ReportsAreReal'
    BY <1>0, <1>2, ReportsKept
  <1>11. OtherType'
    BY <1>0, <1>2 DEF OtherType
  <1> QED BY <1>6, <1>8, <1>9, <1>10, <1>11, TypePartsNext DEF IInv, BrokerInv

LEMMA LockLapsesKeeps ==
    ASSUME IInv, NEW c \in Copy, LockLapses(c)
    PROVE  IInv'
  <1>0. /\ QueueType /\ OtherType /\ QueuesAreOrderly /\ CopiesAreSound /\ LocksAreReal
        /\ ReportsAreReal
    BY TypeParts DEF IInv, BrokerInv
  <1>1. /\ sent' = sent /\ recent' = recent /\ locked' = locked \ {c}
        /\ settled' = settled /\ reported' = reported
    BY DEF LockLapses
  <1>2. c \in Known /\ ~Completed(c) /\ Placed(c) /\ Redeliver(c)
    BY <1>0 DEF LockLapses, LocksAreReal, CopiesAreSound
  <1>3. QueueType' /\ QueuesAreOrderly' /\ OthersStay(c) /\ (Stays(c) \/ Buried(c, Broker))
    BY <1>0, <1>2, RedeliverFacts
  <1>4. CopiesAreSound'
    BY <1>0, <1>1, <1>2, <1>3, SoundnessKept
  <1>5. gate' = [g \in Gate |-> IF g \in Holder(c) THEN [gate[g] EXCEPT !.held = FALSE]
                                                    ELSE gate[g]]
    BY DEF LockLapses
  <1>6. \A g \in Gate : gate'[g] = IF gate[g].copy = c /\ gate[g].held
                                   THEN [gate[g] EXCEPT !.held = FALSE] ELSE gate[g]
    BY <1>5 DEF Holder
  <1>7. \A g \in Gate : gate[g].held => [gate[g] EXCEPT !.held = FALSE] \in Execution
    <2> SUFFICES ASSUME NEW g \in Gate, gate[g].held
                 PROVE  [gate[g] EXCEPT !.held = FALSE] \in Execution
      OBVIOUS
    <2>1. gate[g] \in [expected: Expected, action: Action,
                       source: {"active", "dead-letter"}, copy: Copy, held: BOOLEAN]
      BY <1>0, GateFacts
    <2> QED BY <2>1 DEF Execution
  <1>8. gate' \in [Gate -> Execution]
    BY <1>0, <1>5, <1>6, <1>7 DEF OtherType
  <1>9. \A g \in Gate : gate[g].held /\ gate[g].copy = c => ~gate'[g].held
    <2> SUFFICES ASSUME NEW g \in Gate, gate[g].held, gate[g].copy = c PROVE ~gate'[g].held
      OBVIOUS
    <2>1. gate[g] \in [expected: Expected, action: Action,
                       source: {"active", "dead-letter"}, copy: Copy, held: BOOLEAN]
      BY <1>0, GateFacts
    <2> QED BY <1>6, <2>1
  <1>10. LocksAreReal'
    <2>1. \A g \in Gate : \/ gate'[g] = Idle \/ gate'[g] = gate[g]
                          \/ gate[g].held /\ gate'[g] = [gate[g] EXCEPT !.held = FALSE]
      BY <1>6
    <2>2. Len(copies') = Len(copies)
      BY <1>3 DEF OthersStay
    <2> QED BY <1>0, <1>1, <1>2, <1>3, <1>9, <2>1, <2>2, LockReturned
  <1>11. ReportsAreReal'
    BY <1>0, <1>1, ReportsKept
  <1>12. OtherType'
    BY <1>0, <1>1, <1>8 DEF OtherType
  <1> QED BY <1>3, <1>4, <1>10, <1>11, <1>12, TypePartsNext DEF IInv, BrokerInv

-----------------------------------------------------------------------------
(* Executions *)

\* A copy that is received is in a queue, and nobody holds it.
LEMMA ReceivableFacts ==
    ASSUME QueueType, QueuesAreOrderly, CopiesAreSound, NEW e \in Expected,
           NEW source \in {"active", "dead-letter"}, NEW c \in Receivable(e, source)
    PROVE  c \in Known /\ ~Completed(c) /\ c \notin locked
  <1>1. CASE source = "active"
    <2>1. e.session_id \in Finding
      BY GateAssumption
    <2>2. c \in ToSet(active[e.session_id]) /\ c \notin locked
      BY <1>1 DEF Receivable
    <2>3. c \in Known /\ InSession(c)
      BY <2>1, <2>2 DEF QueuesAreOrderly, InSession
    <2> QED BY <2>2, <2>3 DEF CopiesAreSound, Placed
  <1>2. CASE source = "dead-letter"
    <2>1. c \in ToSet(dlq) /\ c \notin locked
      BY <1>2 DEF Receivable, ToSet
    <2>2. c \in Known /\ DeadLettered(c)
      BY <2>1 DEF QueuesAreOrderly, DeadLettered
    <2> QED BY <2>1, <2>2 DEF CopiesAreSound, Placed
  <1> QED BY <1>1, <1>2

LEMMA ReceiveKeeps ==
    ASSUME IInv, NEW g \in Gate, NEW e \in Expected, NEW a \in Action,
           NEW source \in {"active", "dead-letter"}, Receive(g, e, a, source)
    PROVE  IInv'
  <1>0. /\ QueueType /\ OtherType /\ QueuesAreOrderly /\ CopiesAreSound /\ LocksAreReal
        /\ ReportsAreReal
    BY TypeParts DEF IInv, BrokerInv
  <1>1. PICK c \in Receivable(e, source) :
          /\ gate[g] = Idle
          /\ ~(source = "dead-letter" /\ a = "dead-letter")
          /\ locked' = locked \cup {c}
          /\ gate' = [gate EXCEPT ![g] = [expected |-> e, action |-> a,
                                          source |-> source, copy |-> c, held |-> TRUE]]
    BY DEF Receive
  <1>2. /\ sent' = sent /\ recent' = recent /\ copies' = copies /\ active' = active
        /\ dlq' = dlq /\ settled' = settled /\ reported' = reported
    BY DEF Receive
  <1>3. c \in Known /\ ~Completed(c) /\ c \notin locked
    BY <1>0, ReceivableFacts
  <1>4. c \in Copy
    BY <1>0, <1>3, KnownFacts
  <1>5. PICK new : new = [expected |-> e, action |-> a, source |-> source, copy |-> c,
                          held |-> TRUE]
    OBVIOUS
  <1>6. new \in Execution /\ new.copy = c /\ new.source = source /\ new.action = a
    BY <1>4, <1>5 DEF Execution
  <1>7. /\ gate' \in [Gate -> Execution] /\ gate'[g] = new
        /\ \A h \in Gate \ {g} : gate'[h] = gate[h]
    BY <1>0, <1>1, <1>5, <1>6 DEF OtherType
  <1>8. Known' = Known /\ \A d \in Known : Completed(d)' <=> Completed(d)
    BY <1>2 DEF Known, Completed
  <1>9. LocksAreReal'
    <2>1. locked' \subseteq Known' /\ \A d \in locked' : ~Completed(d)'
      BY <1>0, <1>1, <1>3, <1>8 DEF LocksAreReal
    <2>2. \A h \in Gate : gate'[h] # Idle =>
            /\ gate'[h].copy \in Known'
            /\ ~(gate'[h].source = "dead-letter" /\ gate'[h].action = "dead-letter")
      BY <1>0, <1>1, <1>3, <1>6, <1>7, <1>8 DEF LocksAreReal
    <2>3. \A h \in Gate : gate'[h].held => gate'[h].copy \in locked'
      BY <1>0, <1>1, <1>6, <1>7 DEF LocksAreReal
    <2>4. \A h \in Gate \ {g} : gate'[h].held => gate'[h].copy # c
      BY <1>0, <1>3, <1>7 DEF LocksAreReal
    <2>5. \A h, k \in Gate :
            gate'[h].held /\ gate'[k].held /\ gate'[h].copy = gate'[k].copy => h = k
      BY <1>0, <1>6, <1>7, <2>4 DEF LocksAreReal
    <2> QED BY <2>1, <2>2, <2>3, <2>5 DEF LocksAreReal
  <1>10. QueuesAreOrderly'
    BY <1>0, <1>2, <1>8 DEF QueuesAreOrderly, Session
  <1>11. CopiesAreSound'
    BY <1>0, <1>2, <1>8 DEF CopiesAreSound, Placed, SettledByName, InSession, Session,
                            DeadLettered, Completed
  <1>12. ReportsAreReal'
    BY <1>0, <1>2, ReportsKept
  <1>13. QueueType'
    BY <1>0, <1>2 DEF QueueType
  <1>14. OtherType'
    BY <1>0, <1>1, <1>2, <1>4, <1>7 DEF OtherType
  <1> QED BY <1>9, <1>10, <1>11, <1>12, <1>13, <1>14, TypePartsNext DEF IInv, BrokerInv

\* The settlement of copy c that execution state x asks for.
SettlementOf(x) == [expected |-> x.expected, action |-> x.action, source |-> x.source]

\* What Settle does to the queues and to the settlements of the copy.
LEMMA SettleFacts ==
    ASSUME IInv, NEW g \in Gate, gate[g].held, Settle(gate[g]),
           NEW x, x = gate[g], NEW c, c = x.copy
    PROVE  /\ c \in Known /\ locked' = locked \ {c}
           /\ QueueType' /\ QueuesAreOrderly' /\ OthersStay(c)
           /\ settled' \in [Copy -> SUBSET Settlement]
           /\ \A d \in Copy \ {c} : settled'[d] = settled[d]
           /\ \/ /\ Settles(x) = "abandon" /\ settled'[c] = settled[c]
                 /\ Stays(c) \/ Buried(c, Broker)
              \/ /\ Settles(x) = x.action /\ x.action \in {"complete", "dead-letter"}
                 /\ settled'[c] = settled[c] \cup {SettlementOf(x)}
                 /\ Fits(c, SettlementOf(x))
                 /\ \A s \in settled[c] : s.action # x.action
  <1>0. QueueType /\ OtherType /\ QueuesAreOrderly /\ CopiesAreSound /\ LocksAreReal
    BY TypeParts DEF IInv, BrokerInv
  <1>1. x \in [expected: Expected, action: Action, source: {"active", "dead-letter"},
               copy: Copy, held: BOOLEAN]
    BY <1>0, GateFacts
  <1>2. /\ c \in Known /\ c \in Copy /\ ~Completed(c) /\ Placed(c) /\ SettledByName(c)
        /\ ~(x.source = "dead-letter" /\ x.action = "dead-letter")
    <2>1. c \in locked /\ x # Idle
      BY <1>0, GateFacts DEF LocksAreReal
    <2> QED BY <1>0, <1>1, <2>1 DEF LocksAreReal, CopiesAreSound
  <1>3. SettlementOf(x) \in Settlement
    BY <1>1 DEF SettlementOf, Settlement
  <1>4. /\ locked' = locked \ {c}
        /\ settled' = [settled EXCEPT ![c] =
                         IF Settles(x) = "abandon" THEN @ ELSE @ \cup {SettlementOf(x)}]
    BY DEF Settle, SettlementOf
  <1>5. /\ settled' \in [Copy -> SUBSET Settlement]
        /\ \A d \in Copy \ {c} : settled'[d] = settled[d]
        /\ settled'[c] = IF Settles(x) = "abandon" THEN settled[c]
                         ELSE settled[c] \cup {SettlementOf(x)}
    BY <1>0, <1>2, <1>3, <1>4 DEF OtherType
  <1>6. Settles(x) \in {"complete", "dead-letter", "abandon"}
    BY <1>1 DEF Settles, Action
  <1>7. Settles(x) # "abandon" => Verified(x) /\ Settles(x) = x.action
    BY DEF Settles
  <1>8. Verified(x) =>
          /\ x.expected = Exact(copies[c].message)
          /\ copies[c].reason = IF x.source = "dead-letter" THEN Contract ELSE None
    <2> SUFFICES ASSUME Verified(x)
                 PROVE  /\ x.expected = Exact(copies[c].message)
                        /\ copies[c].reason = IF x.source = "dead-letter" THEN Contract ELSE None
      OBVIOUS
    <2>1. x.expected \in [message_id: Message, session_id: Finding, payload: Message]
      BY <1>1, GateAssumption
    <2>2. /\ copies[c].message = x.expected.message_id
          /\ copies[c].message[1] = x.expected.session_id
          /\ copies[c].message = x.expected.payload
      BY DEF Verified, VerifyMessage
    <2>3. x.expected = Exact(copies[c].message)
      BY <2>1, <2>2 DEF Exact
    <2> QED BY <2>3 DEF Verified, ContractHolds
  <1>9. /\ SettlementOf(x).expected = x.expected /\ SettlementOf(x).action = x.action
        /\ SettlementOf(x).source = x.source
    BY DEF SettlementOf
  <1>10. CASE Settles(x) = "complete"
    <2>1. /\ active' = [active EXCEPT ![Session(c)] = RemoveFirst(@, c)]
          /\ dlq' = RemoveFirst(dlq, c) /\ copies' = copies
      BY <1>10 DEF Settle
    <2>2. QueueType' /\ QueuesAreOrderly' /\ OthersStay(c) /\ Taken(c)
      BY <1>0, <1>2, <2>1, TakeFacts
    <2>3. Fits(c, SettlementOf(x))
      BY <1>7, <1>8, <1>9, <1>10, <2>2 DEF Fits
    <2>4. \A s \in settled[c] : s.action # x.action
      BY <1>2, <1>7, <1>10 DEF Completed
    <2> QED BY <1>2, <1>4, <1>5, <1>7, <1>10, <2>2, <2>3, <2>4
  <1>11. CASE Settles(x) = "dead-letter"
    <2>1. DeadLetter(c, Contract, copies[c].count)
      BY <1>11 DEF Settle
    <2>2. x.source = "active" /\ copies[c].reason = None
      BY <1>1, <1>2, <1>7, <1>8, <1>11
    <2>3. InSession(c) /\ c \notin ToSet(dlq)
      BY <1>2, <2>2 DEF Placed, DeadLettered
    <2>4. copies[c].count \in 0 .. MaxDelivery
      BY <1>0, <1>2, KnownFacts DEF CopyState
    <2>5. /\ QueueType' /\ QueuesAreOrderly' /\ OthersStay(c)
          /\ copies'[c].reason = Contract /\ ~InSession(c)' /\ DeadLettered(c)'
      BY <1>0, <1>2, <2>1, <2>3, <2>4, DeadLetterFacts
    <2>6. Fits(c, SettlementOf(x))
      BY <1>7, <1>8, <1>9, <1>11, <2>2, <2>3, <2>5 DEF Fits, Buried
    <2>7. \A s \in settled[c] : s.action # x.action
      BY <1>2, <1>7, <1>11, <2>2 DEF SettledByName
    <2> QED BY <1>2, <1>4, <1>5, <1>7, <1>11, <2>5, <2>6, <2>7
  <1>12. CASE Settles(x) = "abandon"
    <2>1. Redeliver(c)
      BY <1>12 DEF Settle
    <2>2. QueueType' /\ QueuesAreOrderly' /\ OthersStay(c) /\ (Stays(c) \/ Buried(c, Broker))
      BY <1>0, <1>2, <2>1, RedeliverFacts
    <2> QED BY <1>2, <1>4, <1>5, <1>12, <2>2
  <1> QED BY <1>6, <1>10, <1>11, <1>12

\* Everything but the report.
LEMMA SettleKeeps ==
    ASSUME IInv, NEW g \in Gate, gate[g].held, Settle(gate[g]), Finish(g),
           sent' = sent, recent' = recent, reported' \in [Report -> Nat]
    PROVE  TypeOK' /\ BrokerInv' /\ \A c \in Copy : settled[c] \subseteq settled'[c]
  <1>0. QueueType /\ OtherType /\ QueuesAreOrderly /\ CopiesAreSound /\ LocksAreReal
    BY TypeParts DEF IInv, BrokerInv
  <1>1. PICK x : x = gate[g]
    OBVIOUS
  <1>2. PICK c : c = x.copy
    OBVIOUS
  <1>3. /\ c \in Known /\ locked' = locked \ {c}
        /\ QueueType' /\ QueuesAreOrderly' /\ OthersStay(c)
        /\ settled' \in [Copy -> SUBSET Settlement]
        /\ \A d \in Copy \ {c} : settled'[d] = settled[d]
        /\ \/ settled'[c] = settled[c] /\ (Stays(c) \/ Buried(c, Broker))
           \/ settled'[c] = settled[c] \cup {SettlementOf(x)} /\ Fits(c, SettlementOf(x))
    BY <1>1, <1>2, SettleFacts
  <1>4. CopiesAreSound'
    BY <1>0, <1>3, SoundnessKept
  <1>5. /\ gate' \in [Gate -> Execution] /\ gate'[g] = Idle
        /\ \A h \in Gate \ {g} : gate'[h] = gate[h]
    BY <1>0 DEF Finish, OtherType, Execution
  <1>6. LocksAreReal'
    <2>1. \A h \in Gate : gate[h].held /\ gate[h].copy = c => ~gate'[h].held
      <3>1. ~Idle.held
        BY DEF Idle
      <3> QED BY <1>0, <1>1, <1>2, <1>5, <3>1 DEF LocksAreReal
    <2>2. \A h \in Gate : gate'[h] = Idle \/ gate'[h] = gate[h]
      BY <1>5
    <2>3. Len(copies') = Len(copies)
      BY <1>3 DEF OthersStay
    <2> QED BY <1>0, <1>3, <2>1, <2>2, <2>3, LockReturned
  <1>7. OtherType'
    BY <1>0, <1>3, <1>5 DEF OtherType
  <1>8. \A d \in Copy : settled[d] \subseteq settled'[d]
    BY <1>3
  <1> QED BY <1>3, <1>4, <1>6, <1>7, <1>8, TypePartsNext DEF BrokerInv

LEMMA SettleAndReportKeeps ==
    ASSUME IInv, NEW g \in Gate, SettleAndReport(g)
    PROVE  IInv'
  <1>0. OtherType /\ ReportsAreReal
    BY TypeParts DEF IInv
  <1>1. gate[g].held /\ Settle(gate[g]) /\ Finish(g) /\ sent' = sent /\ recent' = recent
    BY DEF SettleAndReport
  <1>2. PICK x : x = gate[g]
    OBVIOUS
  <1>3. PICK r : r = [copy |-> x.copy, action |-> x.action, source |-> x.source]
    OBVIOUS
  <1>4. reported' = IF Settles(x) = "abandon" THEN reported
                                              ELSE [reported EXCEPT ![r] = @ + 1]
    BY <1>2, <1>3 DEF SettleAndReport, Observe
  <1>5. reported' \in [Report -> Nat]
    <2>1. CASE Settles(x) = "abandon"
      BY <1>0, <1>4, <2>1 DEF OtherType
    <2>2. CASE Settles(x) # "abandon"
      <3>1. reported' = [reported EXCEPT ![r] = @ + 1]
        BY <1>4, <2>2
      <3>2. reported \in [Report -> Nat]
        BY <1>0 DEF OtherType
      <3>3. r \in Report => reported[r] + 1 \in Nat
        BY <3>2
      <3> QED BY <3>1, <3>2, <3>3
    <2> QED BY <2>1, <2>2
  <1>6. TypeOK' /\ BrokerInv' /\ \A c \in Copy : settled[c] \subseteq settled'[c]
    BY <1>1, <1>5, SettleKeeps
  <1>7. CASE Settles(x) = "abandon"
    BY <1>0, <1>4, <1>6, <1>7, ReportsKept DEF IInv
  <1>8. CASE Settles(x) # "abandon"
    <2>1. x \in [expected: Expected, action: Action, source: {"active", "dead-letter"},
                 copy: Copy, held: BOOLEAN]
      BY <1>0, <1>1, <1>2, GateFacts
    <2>2. /\ x.action \in {"complete", "dead-letter"}
          /\ SettlementOf(x) \in settled'[x.copy]
          /\ \A s \in settled[x.copy] : s.action # x.action
      BY <1>1, <1>2, <1>8, SettleFacts
    <2>3. r \in Report /\ r.copy = x.copy /\ r.action = x.action /\ r.source = x.source
      BY <1>3, <2>1, <2>2 DEF Report, Action
    <2>4. reported[r] = 0
      BY <1>0, <2>2, <2>3 DEF ReportsAreReal, OtherType
    <2>5. reported'[r] = 1 /\ \A p \in Report \ {r} : reported'[p] = reported[p]
      BY <1>0, <1>4, <1>8, <2>3, <2>4 DEF OtherType
    <2>6. SettlementOf(x).action = r.action /\ SettlementOf(x).source = r.source
      BY <2>3 DEF SettlementOf
    <2>7. ASSUME NEW p \in Report, reported'[p] > 0
          PROVE  /\ reported'[p] = 1
                 /\ \E s \in settled'[p.copy] : s.action = p.action /\ s.source = p.source
      <3>1. CASE p = r
        BY <2>2, <2>3, <2>5, <2>6, <3>1
      <3>2. CASE p # r
        <4>1. p.copy \in Copy
          BY DEF Report
        <4> QED BY <1>0, <1>6, <2>5, <2>7, <3>2, <4>1 DEF ReportsAreReal
      <3> QED BY <3>1, <3>2
    <2>8. ReportsAreReal'
      BY <2>7 DEF ReportsAreReal
    <2> QED BY <1>6, <2>8 DEF IInv
  <1> QED BY <1>7, <1>8

LEMMA SettleUnansweredKeeps ==
    ASSUME IInv, NEW g \in Gate, SettleUnanswered(g)
    PROVE  IInv'
  <1>0. OtherType /\ ReportsAreReal
    BY TypeParts DEF IInv
  <1>1. /\ gate[g].held /\ Settle(gate[g]) /\ Finish(g) /\ sent' = sent /\ recent' = recent
        /\ reported' = reported
    BY DEF SettleUnanswered
  <1>2. reported' \in [Report -> Nat]
    BY <1>0, <1>1 DEF OtherType
  <1>3. TypeOK' /\ BrokerInv' /\ \A c \in Copy : settled[c] \subseteq settled'[c]
    BY <1>1, <1>2, SettleKeeps
  <1> QED BY <1>0, <1>1, <1>3, ReportsKept DEF IInv

-----------------------------------------------------------------------------
(* The specification *)

LEMMA InitHolds == Init => IInv
  <1> SUFFICES ASSUME Init PROVE IInv
    OBVIOUS
  <1>1. Len(copies) = 0 /\ Known = {} /\ ToSet(dlq) = {} /\ DOMAIN dlq = {}
    BY DEF Init, Known, ToSet
  <1>2. \A f \in Finding : ToSet(active[f]) = {} /\ DOMAIN active[f] = {}
    BY DEF Init, ToSet
  <1>3. QueueType
    BY EmptySeq DEF Init, QueueType
  <1>4. OtherType
    <2>1. 0 \in 0 .. MaxSequence
      BY Bounds
    <2> QED BY <2>1 DEF Init, OtherType, Execution
  <1>5. QueuesAreOrderly
    BY <1>1, <1>2, Bounds DEF QueuesAreOrderly, NoRepeats
  <1>6. CopiesAreSound
    BY <1>1 DEF CopiesAreSound, Init
  <1>7. LocksAreReal
    BY DEF LocksAreReal, Init, Idle
  <1>8. ReportsAreReal
    BY DEF ReportsAreReal, Init
  <1> QED BY <1>3, <1>4, <1>5, <1>6, <1>7, <1>8, TypeParts DEF IInv, BrokerInv

LEMMA NextHolds == IInv /\ [Next]_vars => IInv'
  <1> SUFFICES ASSUME IInv, [Next]_vars PROVE IInv'
    OBVIOUS
  <1>0. QueueType /\ OtherType
    BY TypeParts DEF IInv
  <1>1. ASSUME NEW f \in Finding, Publish(f) \/ PublishUnanswered(f) PROVE IInv'
    <2>1. Send(f)
      BY <1>1 DEF Publish, PublishUnanswered
    <2>2. QueueType' /\ recent' \subseteq Message /\ BrokerInv' /\ ReportsAreReal'
      BY <2>1, SendKeeps
    <2>3. sent' \in [Finding -> 0 .. MaxSequence]
      <3>1. sent[f] + 1 \in 0 .. MaxSequence
        BY <1>0, <2>1, Bounds DEF Send, OtherType
      <3> QED BY <1>0, <1>1, <3>1 DEF Publish, PublishUnanswered, OtherType
    <2>4. OtherType'
      BY <1>0, <2>1, <2>2, <2>3 DEF Send, OtherType
    <2> QED BY <2>2, <2>4, TypePartsNext DEF IInv
  <1>2. ASSUME NEW m \in Message, Forget(m) PROVE IInv'
    <2>1. /\ recent' \subseteq recent /\ sent' = sent /\ copies' = copies /\ active' = active
          /\ dlq' = dlq /\ locked' = locked /\ gate' = gate /\ settled' = settled
          /\ reported' = reported
      BY <1>2 DEF Forget, brokerVars
    <2>2. BrokerInv' /\ ReportsAreReal'
      BY <2>1, NothingMoves
    <2>3. QueueType' /\ OtherType'
      BY <1>0, <2>1 DEF QueueType, OtherType
    <2> QED BY <2>2, <2>3, TypePartsNext DEF IInv
  <1>3. ASSUME NEW g \in Gate, SettleTooLate(g) \/ Stop(g) PROVE IInv'
    <2>1. /\ recent' = recent /\ sent' = sent /\ copies' = copies /\ active' = active
          /\ dlq' = dlq /\ locked' = locked /\ settled' = settled
          /\ reported' = reported /\ Finish(g)
      BY <1>3 DEF SettleTooLate, Stop, brokerVars
    <2>2. /\ gate' \in [Gate -> Execution]
          /\ \A h \in Gate : gate'[h] = gate[h] \/ gate'[h] = Idle
      BY <1>0, <2>1 DEF Finish, OtherType, Execution
    <2>3. BrokerInv' /\ ReportsAreReal'
      BY <2>1, <2>2, NothingMoves
    <2>4. QueueType' /\ OtherType'
      BY <1>0, <2>1, <2>2 DEF QueueType, OtherType
    <2> QED BY <2>3, <2>4, TypePartsNext DEF IInv
  <1>4. CASE UNCHANGED vars
    <2>1. /\ recent' = recent /\ sent' = sent /\ copies' = copies /\ active' = active
          /\ dlq' = dlq /\ locked' = locked /\ settled' = settled
          /\ reported' = reported /\ gate' = gate
      BY <1>4 DEF vars, brokerVars
    <2>2. BrokerInv' /\ ReportsAreReal'
      BY <2>1, NothingMoves
    <2>3. QueueType' /\ OtherType'
      BY <1>0, <2>1 DEF QueueType, OtherType
    <2> QED BY <2>2, <2>3, TypePartsNext DEF IInv
  <1> QED BY <1>1, <1>2, <1>3, <1>4, ExpireKeeps, LockLapsesKeeps, ReceiveKeeps,
             SettleAndReportKeeps, SettleUnansweredKeeps DEF Next

LEMMA InvariantHolds == Spec => []IInv
  BY InitHolds, NextHolds, PTL DEF Spec

\* The queues, the executions and their reports stay well typed.
THEOREM TypeCorrect == Spec => []TypeOK
  BY InvariantHolds, PTL DEF IInv

\* No copy is lost or in two places, and only an execution that named exactly this
\* message and session ever took one out of a queue.
THEOREM NothingElseIsSettled == Spec => []OnlyTheNamedIsSettled
  <1>1. ASSUME IInv, NEW c \in 1 .. Len(copies)
        PROVE  LET done == \E s \in settled[c] : s.action = "complete" IN
               /\ Cardinality({p \in {<<1, Queued(c)>>, <<2, DeadLettered(c)>>, <<3, done>>} :
                                 p[2]}) = 1
               /\ \A s \in settled[c] : s.expected = Exact(copies[c].message)
    <2> DEFINE done == \E s \in settled[c] : s.action = "complete"
               places == {p \in {<<1, Queued(c)>>, <<2, DeadLettered(c)>>, <<3, done>>} : p[2]}
    <2>1. c \in Known /\ Placed(c) /\ SettledByName(c) /\ (Queued(c) <=> InSession(c))
      BY <1>1, TypeParts, QueuedIsInSession DEF IInv, BrokerInv, CopiesAreSound, Known
    <2>2. done <=> Completed(c)
      BY DEF Completed
    <2>3. \/ Queued(c) /\ ~DeadLettered(c) /\ ~done
          \/ ~Queued(c) /\ DeadLettered(c) /\ ~done
          \/ ~Queued(c) /\ ~DeadLettered(c) /\ done
      BY <2>1, <2>2 DEF Placed
    <2> HIDE DEF done
    <2>4. \E p : places = {p}
      <3>1. PICK p1, p2, p3 :
              p1 = <<1, Queued(c)>> /\ p2 = <<2, DeadLettered(c)>> /\ p3 = <<3, done>>
        OBVIOUS
      <3>2. (p1[2] <=> Queued(c)) /\ (p2[2] <=> DeadLettered(c)) /\ (p3[2] <=> done)
        BY <3>1
      <3>3. places = {p \in {p1, p2, p3} : p[2]}
        BY <3>1
      <3>4. places = {p1} \/ places = {p2} \/ places = {p3}
        BY <2>3, <3>2, <3>3
      <3> QED BY <3>4
    <2>5. Cardinality(places) = 1
      BY <2>4, FS_Singleton
    <2>6. \A s \in settled[c] : s.expected = Exact(copies[c].message)
      BY <2>1 DEF SettledByName
    <2> QED BY <2>5, <2>6 DEF done
  <1>2. IInv => OnlyTheNamedIsSettled
    BY <1>1 DEF OnlyTheNamedIsSettled
  <1> QED BY <1>2, InvariantHolds, PTL

\* Whatever is reported happened, and is reported once.
THEOREM ReportsAreEvidence == Spec => []ReportsAreReal
  BY InvariantHolds, PTL DEF IInv

\* A recovery is reported only for a copy that a gate execution dead-lettered.
THEOREM RecoveryIsEarned == Spec => []RecoveryIsOfOurOwn
  <1>1. ASSUME IInv, NEW r \in Report, r.source = "dead-letter", reported[r] > 0
        PROVE  \E s \in settled[r.copy] : s.action = "dead-letter"
    <2>1. PICK s \in settled[r.copy] : s.source = "dead-letter"
      BY <1>1 DEF IInv, ReportsAreReal
    <2>2. r.copy \in Known
      <3>1. r.copy \in Copy
        BY DEF Report
      <3> QED BY <1>1, <2>1, <3>1 DEF IInv, BrokerInv, CopiesAreSound
    <2>3. SettledByName(r.copy)
      BY <1>1, <2>2 DEF IInv, BrokerInv, CopiesAreSound
    <2> QED BY <2>1, <2>3 DEF SettledByName
  <1>2. IInv => RecoveryIsOfOurOwn
    BY <1>1 DEF RecoveryIsOfOurOwn
  <1> QED BY <1>2, InvariantHolds, PTL
=============================================================================
