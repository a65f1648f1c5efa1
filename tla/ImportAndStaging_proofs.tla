----------------------- MODULE ImportAndStaging_proofs -----------------------
(***************************************************************************)
(* Proofs about the two components that outside programs drive, each for   *)
(* itself: ExternalImport, for any bundles, requests and number of bridge  *)
(* processes, and StagingValidator, for any executions, outsiders and      *)
(* number of upsets.                                                       *)
(*                                                                         *)
(* The staging rehearsal: a phase decides from reads it made long before,  *)
(* while requests of dead executions and of outsiders still change the     *)
(* findings.  The proof rests on a finding only moving forward (Later), so *)
(* what an execution has seen, what a request was sent for and what a      *)
(* report says stay true.  The invariant says what each of them knows:     *)
(* ExecutionIsSound, RequestIsSound and PassedIsSound.                     *)
(***************************************************************************)
EXTENDS ExternalImport, StagingValidator, SequenceTheorems, FiniteSetTheorems, TLAPS

\* The two kinds of records never meet.
LEMMA RecordsDiffer ==
    ASSUME NEW e \in Event, NEW r \in JmlRecord
    PROVE  e # r
  <1>1. DOMAIN e = {"bundle", "type"}
    BY DEF Event
  <1>2. DOMAIN r = {"request", "type"}
    BY DEF JmlRecord
  <1> QED BY <1>1, <1>2

\* What Append adds to the records of a log.
LEMMA AppendAdds ==
    ASSUME NEW S, NEW s \in Seq(S), NEW x \in S
    PROVE  /\ Append(s, x) \in Seq(S)
           /\ DOMAIN Append(s, x) = 1 .. (Len(s) + 1)
           /\ DOMAIN s = 1 .. Len(s) /\ Len(s) \in Nat
           /\ \A n \in 1 .. Len(s) : Append(s, x)[n] = s[n]
           /\ Append(s, x)[Len(s) + 1] = x
  OBVIOUS

-----------------------------------------------------------------------------
(* Types *)

TableType ==
    /\ current \in [Incident -> Bundle \cup {None}]
    /\ outbox \subseteq Event /\ delivered \subseteq outbox
    /\ changes \in [JmlRequest -> 0 .. MaxChanges]
    /\ faults \in 0 .. MaxFaults
LogType == log \in Seq(Event \cup JmlRecord) /\ torn \in BOOLEAN
BridgeType ==
    /\ bridge \in [Bridge -> Bridge_State]
    /\ \A b \in Bridge : bridge[b].pc # "idle" => bridge[b].event \in outbox
JmlType ==
    /\ jml \in [JmlBridge -> Jml_State]
    /\ \A j \in JmlBridge : jml[j].pc = "append" => jml[j].record \in JmlRecord

LEMMA TypeParts == TypeOK <=> TableType /\ LogType /\ BridgeType /\ JmlType
  BY DEF TypeOK, TableType, LogType, BridgeType, JmlType

LEMMA InitType == Init => TypeOK
  <1> SUFFICES ASSUME Init PROVE TypeOK
    OBVIOUS
  <1>1. TableType
    <2>1. 0 \in 0 .. MaxChanges /\ 0 \in 0 .. MaxFaults
      BY ImportAssumption
    <2>2. changes \in [JmlRequest -> 0 .. MaxChanges]
      BY <2>1 DEF Init
    <2> QED BY <2>1, <2>2 DEF Init, TableType
  <1>2. LogType
    <2>1. log \in Seq(Event \cup JmlRecord)
      BY EmptySeq DEF Init
    <2>2. torn \in BOOLEAN
      BY DEF Init
    <2> QED BY <2>1, <2>2 DEF LogType
  <1>3. BridgeType
    BY DEF Init, BridgeType, Bridge_State, Idle
  <1>4. JmlType
    BY DEF Init, JmlType, Jml_State, JmlIdle
  <1> QED BY <1>1, <1>2, <1>3, <1>4, TypeParts

\* How a step may change the record of a bridge.
LEMMA BridgeTyped ==
    ASSUME BridgeType, outbox \subseteq outbox', NEW b \in Bridge, NEW new \in Bridge_State,
           new.pc # "idle" => new.event \in outbox',
           bridge' = [bridge EXCEPT ![b] = new]
    PROVE  BridgeType'
  BY DEF BridgeType, Bridge_State

LEMMA JmlTyped ==
    ASSUME JmlType, NEW j \in JmlBridge, NEW new \in Jml_State,
           new.pc = "append" => new.record \in JmlRecord,
           jml' = [jml EXCEPT ![j] = new]
    PROVE  JmlType'
  BY DEF JmlType, Jml_State

LEMMA IdleStates == Idle \in Bridge_State /\ JmlIdle \in Jml_State
  BY DEF Idle, JmlIdle, Bridge_State, Jml_State

LEMMA LogTyped ==
    ASSUME LogType, NEW r \in Event \cup JmlRecord, torn' \in BOOLEAN,
           log' = log \/ log' = Append(log, r)
    PROVE  LogType'
  BY DEF LogType

\* What Import does to the tables and to the event a bridge carries.
LEMMA ImportFacts ==
    ASSUME TypeOK, NEW b \in Bridge, NEW x \in Bundle, Import(b, x)
    PROVE  /\ outbox \subseteq outbox' /\ outbox' \subseteq Event
           /\ current' \in [Incident -> Bundle \cup {None}]
           /\ \/ bridge' = bridge
              \/ \E e \in outbox' : bridge' = [bridge EXCEPT ![b] = [pc |-> "append", event |-> e]]
  <1>1. x.finding \in Incident
    BY ImportAssumption DEF Bundle_Type
  <1> DEFINE new == [bundle |-> x, type |-> ImportAction(x)]
  <1>2. new \in Event
    BY DEF Event, ImportAction
  <1>3. /\ outbox \subseteq outbox' /\ outbox' \subseteq Event
        /\ current' \in [Incident -> Bundle \cup {None}]
    <2>1. CASE Replayed(x)
      BY <2>1 DEF Import, TypeOK
    <2>2. CASE ~Replayed(x)
      BY <1>1, <1>2, <2>2 DEF Import, TypeOK
    <2> QED BY <2>1, <2>2
  <1> DEFINE owed == {e \in outbox' \ delivered : e.bundle = x}
  <1>4. CASE owed = {}
    BY <1>3, <1>4 DEF Import
  <1>5. CASE owed # {}
    <2>1. PICK e : e = CHOOSE d \in owed : TRUE
      OBVIOUS
    <2>2. e \in owed
      BY <1>5, <2>1
    <2>3. bridge' = [bridge EXCEPT ![b] = [pc |-> "append", event |-> e]]
      BY <1>5, <2>1 DEF Import
    <2> QED BY <1>3, <2>2, <2>3
  <1> QED BY <1>4, <1>5

LEMMA NextType == TypeOK /\ [Next]_vars => TypeOK'
  <1> SUFFICES ASSUME TypeOK, [Next]_vars PROVE TypeOK'
    OBVIOUS
  <1> USE TypeParts
  <1>0. TableType /\ LogType /\ BridgeType /\ JmlType
    OBVIOUS
  <1>p. (TypeOK <=> TableType /\ LogType /\ BridgeType /\ JmlType)'
    BY TypeParts, PTL
  <1>1. ASSUME NEW b \in Bridge, NEW x \in Bundle, Import(b, x) PROVE TypeOK'
    <2>1. /\ outbox \subseteq outbox' /\ outbox' \subseteq Event
          /\ current' \in [Incident -> Bundle \cup {None}]
          /\ \/ bridge' = bridge
             \/ \E e \in outbox' : bridge' = [bridge EXCEPT ![b] = [pc |-> "append", event |-> e]]
      BY <1>1, ImportFacts
    <2>2. BridgeType'
      <3>1. CASE bridge' = bridge
        BY <1>0, <2>1, <3>1 DEF BridgeType
      <3>2. ASSUME NEW e \in outbox',
                   bridge' = [bridge EXCEPT ![b] = [pc |-> "append", event |-> e]]
            PROVE  BridgeType'
        <4>1. [pc |-> "append", event |-> e] \in Bridge_State
          BY <2>1, <3>2 DEF Bridge_State
        <4> QED BY <1>0, <2>1, <3>2, <4>1, BridgeTyped
      <3> QED BY <2>1, <3>1, <3>2
    <2>3. TableType' /\ LogType' /\ JmlType'
      BY <1>0, <1>1, <2>1 DEF Import, TableType, LogType, JmlType
    <2> QED BY <1>p, <2>2, <2>3
  <1>2. ASSUME NEW b \in Bridge, Deliver(b) PROVE TypeOK'
    <2> DEFINE new == [bridge[b] EXCEPT !.pc = "mark"]
    <2>1. /\ bridge[b].event \in outbox /\ bridge[b].event \in Event
          /\ new \in Bridge_State /\ new.event = bridge[b].event
      BY <1>0, <1>2 DEF Deliver, BridgeType, TableType, Bridge_State
    <2>2. bridge' = [bridge EXCEPT ![b] = new] /\ outbox' = outbox
      BY <1>2 DEF Deliver
    <2>3. BridgeType'
      <3> HIDE DEF new
      <3> QED BY <1>0, <2>1, <2>2, BridgeTyped
    <2>4. LogType'
      BY <1>0, <1>2, <2>1, LogTyped DEF Deliver, AppendIdempotent, LogType
    <2>5. TableType' /\ JmlType'
      BY <1>0, <1>2 DEF Deliver, TableType, JmlType
    <2> QED BY <1>p, <2>3, <2>4, <2>5
  <1>3. ASSUME NEW b \in Bridge, DeliverError(b) PROVE TypeOK'
    <2>1. bridge[b].event \in Event
      BY <1>0, <1>3 DEF DeliverError, BridgeType, TableType
    <2>2. LogType'
      BY <1>0, <1>3, <2>1, LogTyped DEF DeliverError, AppendFails, LogType
    <2>3. BridgeType'
      BY <1>0, <1>3, BridgeTyped, IdleStates DEF DeliverError, Idle
    <2>4. TableType' /\ JmlType'
      BY <1>0, <1>3, ImportAssumption DEF DeliverError, AppendFails, TableType, JmlType
    <2> QED BY <1>p, <2>2, <2>3, <2>4
  <1>4. ASSUME NEW b \in Bridge, Mark(b) \/ Stop(b) PROVE TypeOK'
    <2>1. BridgeType'
      BY <1>0, <1>4, BridgeTyped, IdleStates DEF Mark, Stop, Idle
    <2>2. delivered' \subseteq outbox
      BY <1>0, <1>4 DEF Mark, Stop, BridgeType, TableType
    <2>3. TableType' /\ LogType' /\ JmlType'
      BY <1>0, <1>4, <2>2 DEF Mark, Stop, TableType, LogType, JmlType
    <2> QED BY <1>p, <2>1, <2>3
  <1>5. ASSUME NEW j \in JmlBridge, NEW q \in JmlRequest, JmlUpsert(j, q) PROVE TypeOK'
    <2> DEFINE r == [request |-> q, type |-> IF changes[q] = 0 THEN "created" ELSE "reassessed"]
    <2> DEFINE new == [pc |-> "append", todo |-> jml[j].todo \ {q}, record |-> r]
    <2>1. r \in JmlRecord
      BY DEF JmlRecord
    <2>2. new \in Jml_State /\ new.record \in JmlRecord
      BY <1>0, <2>1 DEF JmlType, Jml_State
    <2>3. jml' = [jml EXCEPT ![j] = new]
      BY <1>0, <1>5 DEF JmlUpsert, JmlType, Jml_State
    <2>4. JmlType'
      <3> HIDE DEF new
      <3> QED BY <1>0, <2>2, <2>3, JmlTyped
    <2>5. TableType'
      BY <1>0, <1>5, ImportAssumption DEF JmlUpsert, TableType
    <2>6. LogType' /\ BridgeType'
      BY <1>0, <1>5 DEF JmlUpsert, LogType, BridgeType
    <2> QED BY <1>p, <2>4, <2>5, <2>6
  <1>6. ASSUME NEW j \in JmlBridge, JmlStart(j) PROVE TypeOK'
    <2>1. PICK S \in {{q} : q \in JmlRequest} \cup {JmlRequest} :
            jml' = [jml EXCEPT ![j] = [pc |-> "next", todo |-> {q \in S : JmlEligible(q)},
                                       record |-> None]]
      BY <1>6 DEF JmlStart
    <2> DEFINE new == [pc |-> "next", todo |-> {q \in S : JmlEligible(q)}, record |-> None]
    <2>2. new \in Jml_State /\ new.pc # "append"
      BY DEF Jml_State
    <2>3. JmlType'
      <3> HIDE DEF new
      <3> QED BY <1>0, <2>1, <2>2, JmlTyped DEF new
    <2>4. TableType' /\ LogType' /\ BridgeType'
      BY <1>0, <1>6 DEF JmlStart, TableType, LogType, BridgeType
    <2> QED BY <1>p, <2>3, <2>4
  <1>7. ASSUME NEW j \in JmlBridge, JmlAppend(j) PROVE TypeOK'
    <2> DEFINE new == [pc |-> "next", todo |-> jml[j].todo, record |-> None]
    <2>1. new \in Jml_State /\ new.pc # "append"
      BY <1>0 DEF JmlType, Jml_State
    <2>2. jml' = [jml EXCEPT ![j] = new]
      BY <1>0, <1>7 DEF JmlAppend, JmlType, Jml_State
    <2>3. JmlType'
      <3> HIDE DEF new
      <3> QED BY <1>0, <2>1, <2>2, JmlTyped
    <2>4. LogType'
      BY <1>0, <1>7, LogTyped DEF JmlAppend, JmlType, LogType
    <2>5. TableType' /\ BridgeType'
      BY <1>0, <1>7 DEF JmlAppend, TableType, BridgeType
    <2> QED BY <1>p, <2>3, <2>4, <2>5
  <1>8. ASSUME NEW j \in JmlBridge, JmlAppendError(j) PROVE TypeOK'
    <2>1. LogType'
      BY <1>0, <1>8, LogTyped DEF JmlAppendError, AppendFails, JmlType, LogType
    <2>2. JmlType'
      BY <1>0, <1>8, JmlTyped, IdleStates DEF JmlAppendError, JmlIdle
    <2>3. TableType' /\ BridgeType'
      BY <1>0, <1>8, ImportAssumption DEF JmlAppendError, AppendFails, TableType, BridgeType
    <2> QED BY <1>p, <2>1, <2>2, <2>3
  <1>9. ASSUME NEW j \in JmlBridge, JmlStop(j) PROVE TypeOK'
    <2>1. JmlType'
      BY <1>0, <1>9, JmlTyped, IdleStates DEF JmlStop, JmlIdle
    <2>2. TableType' /\ LogType' /\ BridgeType'
      BY <1>0, <1>9 DEF JmlStop, TableType, LogType, BridgeType
    <2> QED BY <1>p, <2>1, <2>2
  <1>10. CASE UNCHANGED vars
    BY <1>10 DEF vars, TypeOK
  <1> QED BY <1>1, <1>2, <1>3, <1>4, <1>5, <1>6, <1>7, <1>8, <1>9, <1>10 DEF Next

\* Tables, log and bridges stay well typed, and a bridge that delivers carries an
\* event of the outbox.
THEOREM TypeCorrect == Spec => []TypeOK
  BY InitType, NextType, PTL DEF Spec

-----------------------------------------------------------------------------
(* The audit log *)

\* A bridge about to mark an event has seen its record in the log.
MarkedIsLogged == \A b \in Bridge : bridge[b].pc = "mark" => bridge[b].event \in Logged

\* The inductive invariant of the log.  DeliveredIsLogged alone is not inductive: the
\* step that marks relies on what an earlier step of the same bridge appended, and on
\* records staying where they are meanwhile.
LogInv == TypeOK /\ AuditedOnce /\ DeliveredIsLogged /\ MarkedIsLogged

\* Appending a record the log does not hold, or one that is no event of the outbox,
\* doubles nothing and loses nothing.
LEMMA AppendKeeps ==
    ASSUME TypeOK, AuditedOnce, NEW r \in Event \cup JmlRecord,
           r \in JmlRecord \/ r \notin Logged,
           log' = Append(log, r)
    PROVE  AuditedOnce' /\ Logged' = Logged \cup {r}
  <1> DEFINE S == Event \cup JmlRecord
  <1>1. log \in Seq(S)
    BY DEF TypeOK
  <1>2. /\ DOMAIN log' = 1 .. (Len(log) + 1)
        /\ DOMAIN log = 1 .. Len(log) /\ Len(log) \in Nat
        /\ \A n \in 1 .. Len(log) : log'[n] = log[n]
        /\ log'[Len(log) + 1] = r
    <2> HIDE DEF S
    <2> QED BY <1>1, AppendAdds DEF S
  <1>3. Logged' = Logged \cup {r}
    BY <1>2 DEF Logged
  <1>4. ASSUME NEW m \in DOMAIN log', NEW n \in DOMAIN log',
               log'[m] \in Event, log'[m] = log'[n]
        PROVE  m = n
    <2>1. CASE m \in 1 .. Len(log) /\ n \in 1 .. Len(log)
      BY <1>2, <1>4, <2>1 DEF AuditedOnce
    <2>2. CASE m = Len(log) + 1 /\ n = Len(log) + 1
      BY <2>2
    <2>3. CASE r \in Logged
      BY <1>2, <1>4, <2>1, <2>2, <2>3, RecordsDiffer DEF Logged
    <2>4. CASE r \notin Logged
      BY <1>2, <1>4, <2>1, <2>2, <2>4 DEF Logged
    <2> QED BY <2>3, <2>4
  <1> QED BY <1>3, <1>4 DEF AuditedOnce

\* A step that leaves the log alone or appends such a record keeps LogInv, if what it
\* marks or is about to mark is logged.
LEMMA LogStepKeeps ==
    ASSUME LogInv, TypeOK',
           \/ log' = log
           \/ \E r \in Event \cup JmlRecord :
                (r \in JmlRecord \/ r \notin Logged) /\ log' = Append(log, r),
           \A e \in delivered' \ delivered : e \in Logged',
           \A b \in Bridge : bridge'[b].pc = "mark" =>
                bridge'[b] = bridge[b] \/ bridge'[b].event \in Logged'
    PROVE  LogInv'
  <1>1. AuditedOnce' /\ Logged \subseteq Logged'
    <2>1. CASE log' = log
      BY <2>1 DEF LogInv, AuditedOnce, Logged
    <2>2. ASSUME NEW r \in Event \cup JmlRecord,
                 r \in JmlRecord \/ r \notin Logged, log' = Append(log, r)
          PROVE  AuditedOnce' /\ Logged \subseteq Logged'
      BY <2>2, AppendKeeps DEF LogInv
    <2> QED BY <2>1, <2>2
  <1>2. DeliveredIsLogged'
    BY <1>1 DEF LogInv, DeliveredIsLogged
  <1>3. MarkedIsLogged'
    BY <1>1 DEF LogInv, MarkedIsLogged
  <1> QED BY <1>1, <1>2, <1>3 DEF LogInv

LEMMA NextLog == LogInv /\ [Next]_vars => LogInv'
  <1> SUFFICES ASSUME LogInv, [Next]_vars PROVE LogInv'
    OBVIOUS
  <1>0. TypeOK /\ TypeOK'
    BY NextType DEF LogInv
  <1>1. ASSUME NEW b \in Bridge, NEW x \in Bundle, Import(b, x) PROVE LogInv'
    <2>1. \/ bridge' = bridge
          \/ \E e \in outbox' : bridge' = [bridge EXCEPT ![b] = [pc |-> "append", event |-> e]]
      BY <1>0, <1>1, ImportFacts
    <2>2. \A c \in Bridge : bridge'[c].pc = "mark" => bridge'[c] = bridge[c]
      BY <1>0, <2>1 DEF TypeOK
    <2>3. log' = log /\ delivered' = delivered
      BY <1>1 DEF Import
    <2> QED BY <1>0, <2>2, <2>3, LogStepKeeps
  <1>2. ASSUME NEW b \in Bridge, Deliver(b) PROVE LogInv'
    <2>1. PICK e : e = bridge[b].event
      OBVIOUS
    <2>2. e \in Event
      BY <1>0, <1>2, <2>1 DEF Deliver, TypeOK
    <2>3. log' = IF e \in Logged THEN log ELSE Append(log, e)
      BY <1>2, <2>1 DEF Deliver, AppendIdempotent
    <2>4. e \in Logged'
      <3>1. CASE e \in Logged
        BY <2>3, <3>1 DEF Logged
      <3>2. CASE e \notin Logged
        BY <1>0, <2>2, <2>3, <3>2, AppendKeeps DEF LogInv
      <3> QED BY <3>1, <3>2
    <2>5. \A c \in Bridge : bridge'[c].pc = "mark" =>
             bridge'[c] = bridge[c] \/ bridge'[c].event = e
      BY <1>0, <1>2, <2>1 DEF Deliver, TypeOK, Bridge_State
    <2>6. delivered' = delivered
      BY <1>2 DEF Deliver
    <2>7. \/ log' = log
          \/ \E r \in Event \cup JmlRecord :
               (r \in JmlRecord \/ r \notin Logged) /\ log' = Append(log, r)
      BY <2>2, <2>3
    <2> QED BY <1>0, <2>4, <2>5, <2>6, <2>7, LogStepKeeps
  <1>3. ASSUME NEW b \in Bridge, DeliverError(b) PROVE LogInv'
    <2>1. bridge[b].event \in Event
      BY <1>0, <1>3 DEF DeliverError, TypeOK
    <2>2. \/ log' = log
          \/ \E r \in Event \cup JmlRecord :
               (r \in JmlRecord \/ r \notin Logged) /\ log' = Append(log, r)
      BY <1>3, <2>1 DEF DeliverError, AppendFails
    <2>3. /\ delivered' = delivered
          /\ \A c \in Bridge : bridge'[c].pc = "mark" => bridge'[c] = bridge[c]
      BY <1>0, <1>3 DEF DeliverError, TypeOK, Idle
    <2> QED BY <1>0, <2>2, <2>3, LogStepKeeps
  <1>4. ASSUME NEW b \in Bridge, Mark(b) PROVE LogInv'
    <2>1. bridge[b].event \in Logged
      BY <1>4 DEF Mark, LogInv, MarkedIsLogged
    <2>2. /\ log' = log /\ Logged' = Logged
          /\ \A e \in delivered' \ delivered : e = bridge[b].event
          /\ \A c \in Bridge : bridge'[c].pc = "mark" => bridge'[c] = bridge[c]
      BY <1>0, <1>4 DEF Mark, TypeOK, Idle, Logged
    <2> QED BY <1>0, <2>1, <2>2, LogStepKeeps
  <1>5. ASSUME NEW b \in Bridge, Stop(b) PROVE LogInv'
    <2>1. /\ log' = log /\ delivered' = delivered
          /\ \A c \in Bridge : bridge'[c].pc = "mark" => bridge'[c] = bridge[c]
      BY <1>0, <1>5 DEF Stop, TypeOK, Idle
    <2> QED BY <1>0, <2>1, LogStepKeeps
  <1>6. ASSUME NEW j \in JmlBridge,
               JmlStart(j) \/ JmlStop(j) \/ \E q \in JmlRequest : JmlUpsert(j, q)
        PROVE  LogInv'
    <2>1. log' = log /\ delivered' = delivered /\ bridge' = bridge
      BY <1>6 DEF JmlStart, JmlStop, JmlUpsert
    <2> QED BY <1>0, <2>1, LogStepKeeps
  <1>7. ASSUME NEW j \in JmlBridge, JmlAppend(j) \/ JmlAppendError(j) PROVE LogInv'
    <2>1. jml[j].record \in JmlRecord
      BY <1>0, <1>7 DEF JmlAppend, JmlAppendError, TypeOK
    <2>2. \/ log' = log
          \/ \E r \in Event \cup JmlRecord :
               (r \in JmlRecord \/ r \notin Logged) /\ log' = Append(log, r)
      BY <1>7, <2>1 DEF JmlAppend, JmlAppendError, AppendFails
    <2>3. delivered' = delivered /\ bridge' = bridge
      BY <1>7 DEF JmlAppend, JmlAppendError
    <2> QED BY <1>0, <2>2, <2>3, LogStepKeeps
  <1>8. CASE UNCHANGED vars
    <2>1. log' = log /\ delivered' = delivered /\ bridge' = bridge
      BY <1>8 DEF vars
    <2> QED BY <1>0, <2>1, LogStepKeeps
  <1> QED BY <1>1, <1>2, <1>3, <1>4, <1>5, <1>6, <1>7, <1>8 DEF Next

LEMMA LogHolds == Spec => []LogInv
  <1>1. Init => LogInv
    <2> SUFFICES ASSUME Init PROVE LogInv
      OBVIOUS
    <2>1. DOMAIN log = {}
      BY DEF Init
    <2>2. AuditedOnce /\ DeliveredIsLogged /\ MarkedIsLogged
      BY <2>1 DEF Init, AuditedOnce, DeliveredIsLogged, MarkedIsLogged, Idle
    <2> QED BY <2>2, InitType DEF LogInv
  <1> QED BY <1>1, NextLog, PTL DEF Spec

\* No import is audited twice, however many bridges deliver its event and wherever
\* they stop.
THEOREM NoSecondRecord == Spec => []AuditedOnce
  BY LogHolds, PTL DEF LogInv

\* What the outbox counts as delivered is in the log.
THEOREM DeliveriesAreReal == Spec => []DeliveredIsLogged
  BY LogHolds, PTL DEF LogInv

-----------------------------------------------------------------------------
(* The findings *)

\* The events of one finding.
Of(f) == {e \in outbox : e.bundle.finding = f}

\* EventsExplainFindings for one finding.
Explained(f) ==
    /\ (current[f] # None) = (Of(f) # {})
    /\ Of(f) # {} => \E c \in Of(f) : {e \in Of(f) : e.type = "created"} = {c}
    /\ current[f] # None => current[f] \in {e.bundle : e \in Of(f)}
    /\ \A d, e \in Of(f) : d.bundle = e.bundle => d = e

LEMMA ExplainedAll == EventsExplainFindings <=> \A f \in Incident : Explained(f)
  BY DEF EventsExplainFindings, Explained, Of

\* What an import that is not a replay does to the tables.
LEMMA FreshImport ==
    ASSUME TypeOK, NEW b \in Bridge, NEW x \in Bundle, Import(b, x), ~Replayed(x)
    PROVE  /\ x.finding \in Incident /\ x # None
           /\ current' = [current EXCEPT ![x.finding] = x]
           /\ outbox' = outbox \cup {[bundle |-> x, type |-> ImportAction(x)]}
  BY ImportAssumption DEF Import, Bundle_Type

LEMMA ImportExplained ==
    ASSUME TypeOK, NEW b \in Bridge, NEW x \in Bundle, Import(b, x), ~Replayed(x),
           NEW f \in Incident, Explained(f)
    PROVE  Explained(f)'
  <1>1. PICK new : new = [bundle |-> x, type |-> ImportAction(x)]
    OBVIOUS
  <1>2. new.bundle = x /\ new.type = ImportAction(x)
    BY <1>1
  <1>3. /\ x.finding \in Incident /\ x # None
        /\ current' = [current EXCEPT ![x.finding] = x]
        /\ outbox' = outbox \cup {new}
    BY <1>1, FreshImport
  <1>4. \A e \in outbox : e.bundle # x
    BY DEF Replayed, Imported
  <1>5. CASE x.finding # f
    <2>1. Of(f)' = Of(f) /\ current'[f] = current[f]
      BY <1>2, <1>3, <1>5 DEF Of, TypeOK
    <2> QED BY <2>1 DEF Explained
  <1>6. CASE x.finding = f
    <2>1. Of(f)' = Of(f) \cup {new} /\ current'[f] = x
      BY <1>2, <1>3, <1>6 DEF Of, TypeOK
    <2>2. \A d, e \in Of(f)' : d.bundle = e.bundle => d = e
      BY <1>2, <1>4, <2>1 DEF Explained, Of
    <2>3. \E c \in Of(f)' : {e \in Of(f)' : e.type = "created"} = {c}
      <3>1. CASE current[f] = None
        <4>1. Of(f)' = {new}
          BY <2>1, <3>1 DEF Explained
        <4>2. new.type = "created"
          BY <1>2, <1>6, <3>1 DEF ImportAction
        <4> QED BY <4>1, <4>2
      <3>2. CASE current[f] # None
        <4>1. PICK c \in Of(f) : {e \in Of(f) : e.type = "created"} = {c}
          BY <3>2 DEF Explained
        <4>2. new.type # "created"
          BY <1>2, <1>6, <3>2 DEF ImportAction
        <4>3. {e \in Of(f)' : e.type = "created"} = {c}
          BY <2>1, <4>1, <4>2
        <4> QED BY <2>1, <4>1, <4>3
      <3> QED BY <3>1, <3>2
    <2>4. current'[f] \in {e.bundle : e \in Of(f)'}
      BY <1>2, <2>1
    <2>5. current'[f] # None /\ Of(f)' # {}
      BY <1>3, <2>1
    <2> QED BY <2>2, <2>3, <2>4, <2>5 DEF Explained
  <1> QED BY <1>5, <1>6

\* Every other step leaves the findings and their events alone.
LEMMA OnlyImports ==
    ASSUME TypeOK, [Next]_vars
    PROVE  \/ current' = current /\ outbox' = outbox
           \/ \E b \in Bridge, x \in Bundle : Import(b, x) /\ ~Replayed(x)
  <1>1. ASSUME NEW b \in Bridge, NEW x \in Bundle, Import(b, x), Replayed(x)
        PROVE  current' = current /\ outbox' = outbox
    BY <1>1 DEF Import
  <1>2. ASSUME NEW b \in Bridge, Deliver(b) \/ DeliverError(b) \/ Mark(b) \/ Stop(b)
        PROVE  current' = current /\ outbox' = outbox
    BY <1>2 DEF Deliver, DeliverError, Mark, Stop
  <1>3. ASSUME NEW j \in JmlBridge,
               \/ JmlStart(j) \/ JmlAppend(j) \/ JmlAppendError(j) \/ JmlStop(j)
               \/ \E q \in JmlRequest : JmlUpsert(j, q)
        PROVE  current' = current /\ outbox' = outbox
    BY <1>3 DEF JmlStart, JmlAppend, JmlAppendError, JmlStop, JmlUpsert
  <1>4. CASE UNCHANGED vars
    BY <1>4 DEF vars
  <1> QED BY <1>1, <1>2, <1>3, <1>4 DEF Next

\* Findings and events tell the same story: one creation, one event per import.
THEOREM FindingsAreExplained == Spec => []EventsExplainFindings
  <1>1. Init => EventsExplainFindings
    BY ImportAssumption DEF Init, EventsExplainFindings
  <1>2. TypeOK /\ EventsExplainFindings /\ [Next]_vars => EventsExplainFindings'
    <2> SUFFICES ASSUME TypeOK, EventsExplainFindings, [Next]_vars
                 PROVE  EventsExplainFindings'
      OBVIOUS
    <2>1. \A f \in Incident : Explained(f)
      BY ExplainedAll
    <2>2. ASSUME NEW f \in Incident PROVE Explained(f)'
      <3>1. CASE current' = current /\ outbox' = outbox
        BY <2>1, <3>1 DEF Explained, Of
      <3>2. ASSUME NEW b \in Bridge, NEW x \in Bundle, Import(b, x), ~Replayed(x)
            PROVE  Explained(f)'
        BY <2>1, <3>2, ImportExplained
      <3> QED BY <3>1, <3>2, OnlyImports
    <2>3. (EventsExplainFindings <=> \A f \in Incident : Explained(f))'
      BY ExplainedAll, PTL
    <2> QED BY <2>2, <2>3
  <1> QED BY <1>1, <1>2, TypeCorrect, PTL DEF Spec

\* Replayed bundles never take a finding back.
THEOREM NoReversion == Spec => ReplayNeverReverts
  <1>1. ASSUME TypeOK, [Next]_vars, NEW f \in Incident, current'[f] # current[f]
        PROVE  ~Imported(current'[f])
    <2>1. PICK b \in Bridge, x \in Bundle : Import(b, x) /\ ~Replayed(x)
      BY <1>1, OnlyImports
    <2>2. x.finding \in Incident /\ current' = [current EXCEPT ![x.finding] = x]
      BY <1>1, <2>1, FreshImport
    <2>3. current'[f] = x
      BY <1>1, <2>2 DEF TypeOK
    <2> QED BY <2>1, <2>3 DEF Replayed
  <1>2. TypeOK /\ [Next]_vars
        => [\A f \in Incident : current'[f] # current[f] => ~Imported(current'[f])]_vars
    BY <1>1
  <1> QED BY <1>2, TypeCorrect, PTL DEF Spec, ReplayNeverReverts
-----------------------------------------------------------------------------
(* The records of JML requests.  The bound on the records in the log is not  *)
(* inductive: what keeps it is that a bridge between the upsert and the      *)
(* append owes one, so the records written and those still owed are counted *)
(* together.                                                                 *)

Recorded(q) == {n \in DOMAIN log : log[n] \in JmlRecord /\ log[n].request = q}
Owing(q) == {j \in JmlBridge : jml[j].pc = "append" /\ jml[j].record.request = q}

CreationsRecorded(q) == {n \in Recorded(q) : log[n].type = "created"}
CreationsOwed(q) == {j \in Owing(q) : jml[j].record.type = "created"}

Balanced(q) ==
    /\ IsFiniteSet(Recorded(q)) /\ IsFiniteSet(Owing(q))
    /\ Cardinality(Recorded(q)) + Cardinality(Owing(q)) <= changes[q]

CreatedOnce(q) ==
    /\ \A m, n \in CreationsRecorded(q) : m = n
    /\ \A i, j \in CreationsOwed(q) : i = j
    /\ CreationsRecorded(q) = {} \/ CreationsOwed(q) = {}

RecordInv == \A q \in JmlRequest : Balanced(q) /\ CreatedOnce(q)

LEMMA OwersAreBridges == \A q \in JmlRequest : Owing(q) \subseteq JmlBridge
  BY DEF Owing

LEMMA RecordsInit == Init => RecordInv
  <1> SUFFICES ASSUME Init, NEW q \in JmlRequest PROVE Balanced(q) /\ CreatedOnce(q)
    BY DEF RecordInv
  <1>1. Recorded(q) = {}
    BY DEF Init, Recorded
  <1>2. Owing(q) = {}
    BY DEF Init, Owing, JmlIdle
  <1>3. changes[q] = 0
    BY DEF Init
  <1> QED BY <1>1, <1>2, <1>3, FS_EmptySet
      DEF Balanced, CreatedOnce, CreationsRecorded, CreationsOwed

\* The records in the log once r is appended.
LEMMA AppendRecords ==
    ASSUME TypeOK, NEW r \in Event \cup JmlRecord, log' = Append(log, r),
           NEW q \in JmlRequest
    PROVE  LET mine == r \in JmlRecord /\ r.request = q
               last == Len(log) + 1
           IN  /\ last \notin Recorded(q)
               /\ Recorded(q)' = IF mine THEN Recorded(q) \cup {last} ELSE Recorded(q)
               /\ CreationsRecorded(q)' =
                    IF mine /\ r.type = "created" THEN CreationsRecorded(q) \cup {last}
                                                  ELSE CreationsRecorded(q)
  <1> DEFINE last == Len(log) + 1
  <1>1. log \in Seq(Event \cup JmlRecord)
    BY DEF TypeOK
  <1>2. /\ DOMAIN log' = DOMAIN log \cup {last} /\ last \notin DOMAIN log
        /\ \A n \in DOMAIN log : log'[n] = log[n]
        /\ log'[last] = r
    <2>1. /\ DOMAIN log' = 1 .. (Len(log) + 1)
          /\ DOMAIN log = 1 .. Len(log) /\ Len(log) \in Nat
          /\ \A n \in 1 .. Len(log) : log'[n] = log[n]
          /\ log'[Len(log) + 1] = r
      BY <1>1, AppendAdds
    <2>2. 1 .. (Len(log) + 1) = 1 .. Len(log) \cup {last} /\ last \notin 1 .. Len(log)
      BY <2>1
    <2> QED BY <2>1, <2>2
  <1> HIDE DEF last
  <1>3. Recorded(q)' = {n \in DOMAIN log' : log'[n] \in JmlRecord /\ log'[n].request = q}
    BY DEF Recorded
  <1>4. CreationsRecorded(q)' = {n \in Recorded(q)' : log'[n].type = "created"}
    BY DEF CreationsRecorded
  <1>5. last \notin Recorded(q)
    BY <1>2 DEF Recorded
  <1>6. CASE r \in JmlRecord /\ r.request = q
    <2>1. Recorded(q)' = Recorded(q) \cup {last}
      BY <1>2, <1>3, <1>6 DEF Recorded
    <2>2. CreationsRecorded(q)' = IF r.type = "created" THEN CreationsRecorded(q) \cup {last}
                                                      ELSE CreationsRecorded(q)
      BY <1>2, <1>4, <2>1 DEF CreationsRecorded, Recorded
    <2> QED BY <1>5, <1>6, <2>1, <2>2 DEF last
  <1>7. CASE ~(r \in JmlRecord /\ r.request = q)
    <2>1. Recorded(q)' = Recorded(q)
      BY <1>2, <1>3, <1>7 DEF Recorded
    <2>2. CreationsRecorded(q)' = CreationsRecorded(q)
      BY <1>2, <1>4, <2>1 DEF CreationsRecorded, Recorded
    <2> QED BY <1>5, <1>7, <2>1, <2>2 DEF last
  <1> QED BY <1>6, <1>7

\* A step that adds no record of q and makes no bridge owe one.
LEMMA FewerRecords ==
    ASSUME NEW q \in JmlRequest, TypeOK, Balanced(q), CreatedOnce(q),
           Recorded(q)' = Recorded(q), CreationsRecorded(q)' = CreationsRecorded(q),
           Owing(q)' \subseteq Owing(q), CreationsOwed(q)' \subseteq CreationsOwed(q),
           changes'[q] = changes[q]
    PROVE  Balanced(q)' /\ CreatedOnce(q)'
  <1>1. IsFiniteSet(Owing(q)') /\ Cardinality(Owing(q)') <= Cardinality(Owing(q))
    BY FS_Subset DEF Balanced
  <1>2. /\ Cardinality(Owing(q)') \in Nat /\ Cardinality(Owing(q)) \in Nat
        /\ Cardinality(Recorded(q)) \in Nat
    BY <1>1, FS_CardinalityType DEF Balanced
  <1>3. changes[q] \in Nat
    BY ImportAssumption DEF TypeOK
  <1>4. Balanced(q)'
    BY <1>1, <1>2, <1>3 DEF Balanced
  <1>5. CreatedOnce(q)'
    BY DEF CreatedOnce
  <1> QED BY <1>4, <1>5

\* The upsert raises the count by the record the bridge now owes.
LEMMA UpsertKeepsRecords ==
    ASSUME TypeOK, RecordInv, NEW j \in JmlBridge, NEW p \in JmlRequest, JmlUpsert(j, p),
           NEW q \in JmlRequest
    PROVE  Balanced(q)' /\ CreatedOnce(q)'
  <1>1. Balanced(q) /\ CreatedOnce(q)
    BY DEF RecordInv
  <1> DEFINE owed == [request |-> p, type |-> IF changes[p] = 0 THEN "created"
                                                               ELSE "reassessed"]
  <1>2. /\ changes' = [changes EXCEPT ![p] = @ + 1]
        /\ jml[j].pc = "next" /\ log' = log
        /\ jml'[j].pc = "append" /\ jml'[j].record = owed
        /\ \A i \in JmlBridge : i # j => jml'[i] = jml[i]
    BY DEF JmlUpsert, TypeOK, Jml_State
  <1>3. owed.request = p /\ owed.type = (IF changes[p] = 0 THEN "created" ELSE "reassessed")
    OBVIOUS
  <1> HIDE DEF owed
  <1>4. j \notin Owing(q) /\ j \notin CreationsOwed(q)
    BY <1>2 DEF Owing, CreationsOwed
  <1>5. Recorded(q)' = Recorded(q) /\ CreationsRecorded(q)' = CreationsRecorded(q)
    BY <1>2 DEF Recorded, CreationsRecorded
  <1>6. CASE p # q
    <2>1. Owing(q)' = Owing(q)
      BY <1>2, <1>3, <1>4, <1>6 DEF Owing
    <2>2. CreationsOwed(q)' = CreationsOwed(q)
      BY <1>2, <1>4, <2>1, OwersAreBridges DEF CreationsOwed
    <2>3. changes'[q] = changes[q]
      BY <1>2, <1>6 DEF TypeOK
    <2> QED BY <1>1, <1>5, <2>1, <2>2, <2>3, FewerRecords
  <1>7. CASE p = q
    <2>1. Owing(q)' = Owing(q) \cup {j}
      BY <1>2, <1>3, <1>4, <1>7 DEF Owing
    <2>2. CreationsOwed(q)' = IF changes[q] = 0 THEN CreationsOwed(q) \cup {j}
                                                 ELSE CreationsOwed(q)
      BY <1>2, <1>3, <1>4, <1>7, <2>1, OwersAreBridges DEF CreationsOwed
    <2>3. changes[q] \in Nat /\ changes'[q] = changes[q] + 1
      BY <1>2, <1>7, ImportAssumption DEF TypeOK
    <2>4. /\ IsFiniteSet(Owing(q)')
          /\ Cardinality(Owing(q)') = Cardinality(Owing(q)) + 1
      BY <1>1, <1>4, <2>1, FS_AddElement DEF Balanced
    <2>5. Cardinality(Owing(q)) \in Nat /\ Cardinality(Recorded(q)) \in Nat
      BY <1>1, FS_CardinalityType DEF Balanced
    <2>6. Balanced(q)'
      BY <1>1, <1>5, <2>3, <2>4, <2>5 DEF Balanced
    <2>7. CreatedOnce(q)'
      <3>1. CASE changes[q] = 0
        <4>1. Cardinality(Owing(q)) = 0 /\ Cardinality(Recorded(q)) = 0
          BY <1>1, <2>5, <3>1 DEF Balanced
        <4>2. Owing(q) = {} /\ Recorded(q) = {}
          BY <1>1, <4>1, FS_EmptySet DEF Balanced
        <4>3. CreationsRecorded(q)' = {} /\ CreationsOwed(q)' = {j}
          BY <1>5, <2>2, <3>1, <4>2 DEF CreationsRecorded, CreationsOwed
        <4> QED BY <4>3 DEF CreatedOnce
      <3>2. CASE changes[q] # 0
        BY <1>1, <1>5, <2>2, <3>2 DEF CreatedOnce
      <3> QED BY <3>1, <3>2
    <2> QED BY <2>6, <2>7
  <1> QED BY <1>6, <1>7

\* An append, whole, failed or half-way, settles what its bridge owed.
LEMMA AppendKeepsRecords ==
    ASSUME TypeOK, RecordInv, NEW j \in JmlBridge, jml[j].pc = "append",
           log' = log \/ log' = Append(log, jml[j].record),
           jml'[j].pc # "append", \A i \in JmlBridge : i # j => jml'[i] = jml[i],
           changes' = changes, NEW q \in JmlRequest
    PROVE  Balanced(q)' /\ CreatedOnce(q)'
  <1>1. Balanced(q) /\ CreatedOnce(q)
    BY DEF RecordInv
  <1>2. jml[j].record \in JmlRecord
    BY DEF TypeOK
  <1>3. Owing(q)' = Owing(q) \ {j}
    BY DEF Owing
  <1>4. CreationsOwed(q)' = CreationsOwed(q) \ {j}
    BY <1>3, OwersAreBridges DEF CreationsOwed
  <1>5. CASE log' = log
    <2>1. Recorded(q)' = Recorded(q) /\ CreationsRecorded(q)' = CreationsRecorded(q)
      BY <1>5 DEF Recorded, CreationsRecorded
    <2> QED BY <1>1, <1>3, <1>4, <2>1, FewerRecords
  <1>6. CASE log' = Append(log, jml[j].record)
    <2> DEFINE mine == jml[j].record.request = q
               last == Len(log) + 1
    <2>1. /\ last \notin Recorded(q)
          /\ Recorded(q)' = IF mine THEN Recorded(q) \cup {last} ELSE Recorded(q)
          /\ CreationsRecorded(q)' = IF mine /\ jml[j].record.type = "created"
                                     THEN CreationsRecorded(q) \cup {last}
                                     ELSE CreationsRecorded(q)
      BY <1>2, <1>6, AppendRecords
    <2> HIDE DEF last
    <2>2. CASE ~mine
      BY <1>1, <1>3, <1>4, <2>1, <2>2, FewerRecords
    <2>3. CASE mine
      <3>1. j \in Owing(q)
        BY <2>3 DEF Owing
      <3>2. /\ IsFiniteSet(Owing(q)') /\ IsFiniteSet(Recorded(q)')
            /\ Cardinality(Owing(q)') = Cardinality(Owing(q)) - 1
            /\ Cardinality(Recorded(q)') = Cardinality(Recorded(q)) + 1
        BY <1>1, <1>3, <2>1, <2>3, <3>1, FS_AddElement, FS_RemoveElement DEF Balanced
      <3>3. Cardinality(Owing(q)) \in Nat /\ Cardinality(Recorded(q)) \in Nat
        BY <1>1, FS_CardinalityType DEF Balanced
      <3>4. changes[q] \in Nat
        BY ImportAssumption DEF TypeOK
      <3>5. Balanced(q)'
        BY <1>1, <3>2, <3>3, <3>4 DEF Balanced
      <3>6. CreatedOnce(q)'
        <4>1. CASE jml[j].record.type = "created"
          <5>1. j \in CreationsOwed(q)
            BY <3>1, <4>1 DEF CreationsOwed
          <5>2. CreationsRecorded(q) = {} /\ CreationsOwed(q) \ {j} = {}
            BY <1>1, <5>1 DEF CreatedOnce
          <5>3. CreationsRecorded(q)' = {last} /\ CreationsOwed(q)' = {}
            BY <1>4, <2>1, <2>3, <4>1, <5>2
          <5> QED BY <5>3 DEF CreatedOnce
        <4>2. CASE jml[j].record.type # "created"
          <5>1. CreationsRecorded(q)' = CreationsRecorded(q)
            BY <2>1, <4>2
          <5> QED BY <1>1, <1>4, <5>1 DEF CreatedOnce
        <4> QED BY <4>1, <4>2
      <3> QED BY <3>5, <3>6
    <2> QED BY <2>2, <2>3
  <1> QED BY <1>5, <1>6

\* A step of the Mini-SOAR bridges appends events only.
LEMMA EventsAreNoRecords ==
    ASSUME TypeOK, RecordInv, log' = log \/ \E e \in Event : log' = Append(log, e),
           jml' = jml, changes' = changes, NEW q \in JmlRequest
    PROVE  Balanced(q)' /\ CreatedOnce(q)'
  <1>1. Recorded(q)' = Recorded(q) /\ CreationsRecorded(q)' = CreationsRecorded(q)
    <2>1. CASE log' = log
      BY <2>1 DEF Recorded, CreationsRecorded
    <2>2. ASSUME NEW e \in Event, log' = Append(log, e)
          PROVE  Recorded(q)' = Recorded(q) /\ CreationsRecorded(q)' = CreationsRecorded(q)
      <3>1. e \notin JmlRecord
        BY RecordsDiffer
      <3> QED BY <2>2, <3>1, AppendRecords
    <2> QED BY <2>1, <2>2
  <1>2. Owing(q)' = Owing(q) /\ CreationsOwed(q)' = CreationsOwed(q)
    BY DEF Owing, CreationsOwed
  <1> QED BY <1>1, <1>2, FewerRecords DEF RecordInv

LEMMA NextRecords == TypeOK /\ RecordInv /\ [Next]_vars => RecordInv'
  <1> SUFFICES ASSUME TypeOK, RecordInv, [Next]_vars, NEW q \in JmlRequest
               PROVE  Balanced(q)' /\ CreatedOnce(q)'
    BY DEF RecordInv
  <1>1. ASSUME NEW b \in Bridge,
               \/ \E x \in Bundle : Import(b, x)
               \/ Deliver(b) \/ DeliverError(b) \/ Mark(b) \/ Stop(b)
        PROVE  Balanced(q)' /\ CreatedOnce(q)'
    <2>1. jml' = jml /\ changes' = changes
      BY <1>1 DEF Import, Deliver, DeliverError, Mark, Stop
    <2>2. bridge[b].pc = "append" => bridge[b].event \in Event
      BY DEF TypeOK
    <2>3. log' = log \/ \E e \in Event : log' = Append(log, e)
      BY <1>1, <2>2
         DEF Import, Deliver, DeliverError, Mark, Stop, AppendIdempotent, AppendFails
    <2> QED BY <2>1, <2>3, EventsAreNoRecords
  <1>2. ASSUME NEW j \in JmlBridge, NEW p \in JmlRequest, JmlUpsert(j, p)
        PROVE  Balanced(q)' /\ CreatedOnce(q)'
    BY <1>2, UpsertKeepsRecords
  <1>3. ASSUME NEW j \in JmlBridge, JmlStart(j) \/ JmlStop(j)
        PROVE  Balanced(q)' /\ CreatedOnce(q)'
    <2>1. log' = log /\ changes' = changes
      BY <1>3 DEF JmlStart, JmlStop
    <2>2. jml'[j].pc # "append" /\ \A i \in JmlBridge : i # j => jml'[i] = jml[i]
      BY <1>3 DEF JmlStart, JmlStop, JmlIdle, TypeOK
    <2>3. Recorded(q)' = Recorded(q) /\ CreationsRecorded(q)' = CreationsRecorded(q)
      BY <2>1 DEF Recorded, CreationsRecorded
    <2>4. Owing(q)' \subseteq Owing(q) /\ CreationsOwed(q)' \subseteq CreationsOwed(q)
      BY <2>2 DEF Owing, CreationsOwed
    <2> QED BY <2>1, <2>3, <2>4, FewerRecords DEF RecordInv
  <1>4. ASSUME NEW j \in JmlBridge, JmlAppend(j) \/ JmlAppendError(j)
        PROVE  Balanced(q)' /\ CreatedOnce(q)'
    <2>1. jml[j].pc = "append" /\ changes' = changes
      BY <1>4 DEF JmlAppend, JmlAppendError
    <2>2. log' = log \/ log' = Append(log, jml[j].record)
      BY <1>4 DEF JmlAppend, JmlAppendError, AppendFails
    <2>3. jml'[j].pc # "append" /\ \A i \in JmlBridge : i # j => jml'[i] = jml[i]
      BY <1>4 DEF JmlAppend, JmlAppendError, JmlIdle, TypeOK
    <2> QED BY <2>1, <2>2, <2>3, AppendKeepsRecords
  <1>5. CASE UNCHANGED vars
    <2>1. log' = log /\ jml' = jml /\ changes' = changes
      BY <1>5 DEF vars
    <2> QED BY <2>1, EventsAreNoRecords
  <1> QED BY <1>1, <1>2, <1>3, <1>4, <1>5 DEF Next

\* The audit log never says more of a JML request than happened to it, for any
\* number of bridges that overlap, fail and are started again.
THEOREM RecordsAreOfChanges == Spec => []RecordsAreChanges
  <1>1. ASSUME TypeOK, RecordInv, NEW q \in JmlRequest
        PROVE  /\ Cardinality(Recorded(q)) <= changes[q]
               /\ Cardinality(CreationsRecorded(q)) <= 1
    <2>1. Balanced(q) /\ CreatedOnce(q)
      BY <1>1 DEF RecordInv
    <2>2. Cardinality(Owing(q)) \in Nat /\ Cardinality(Recorded(q)) \in Nat
      BY <2>1, FS_CardinalityType DEF Balanced
    <2>3. changes[q] \in Nat
      BY <1>1, ImportAssumption DEF TypeOK
    <2>4. CreationsRecorded(q) = {} \/ \E n : CreationsRecorded(q) = {n}
      BY <2>1 DEF CreatedOnce
    <2>5. Cardinality(CreationsRecorded(q)) \in {0, 1}
      BY <2>4, FS_EmptySet, FS_Singleton
    <2> QED BY <2>1, <2>2, <2>3, <2>5 DEF Balanced
  <1>2. TypeOK /\ RecordInv => RecordsAreChanges
    BY <1>1 DEF RecordsAreChanges, Recorded, CreationsRecorded
  <1> QED BY <1>2, RecordsInit, NextRecords, TypeCorrect, PTL DEF Spec

-----------------------------------------------------------------------------
(* The staging rehearsal: the invariant *)

\* How far a status is along the lifecycle: a rejected proposal goes back to
\* risk_assessed and a failed verification back to in_progress, no further.
Level(s) ==
    CASE s = "absent" -> 0
      [] s = "open" -> 1
      [] s \in {"risk_assessed", "pending_approval"} -> 2
      [] s = "approved" -> 3
      [] s \in {"in_progress", "pending_verification"} -> 4
      [] s = "verified" -> 5
      [] s = "closed" -> 6

\* q is what r may have become.
Later(r, q) ==
    /\ Level(r.status) <= Level(q.status)
    /\ r.submitted \subseteq q.submitted
    /\ Level(r.status) >= 4 => q.implementer = r.implementer

\* What the API guarantees of the row of finding f.
RowIsSound(f, r) ==
    /\ r.status = "absent" => r = NoRow
    /\ r.status # "absent" => r.risk_owner = Expected(f, "risk_owner")
    /\ f = "SOD" => Level(r.status) <= 2
    /\ Level(r.status) >= 3 => r.approved_by # Null /\ r.approved_by # r.risk_owner
    /\ r.implementer # Null => RoleOf[r.implementer] = "analyst"
    /\ r.evidence_submitter # Null =>
         r.evidence_submitter \in r.submitted /\ RoleOf[r.evidence_submitter] = "analyst"
    /\ r.submitted # {} => r.evidence_submitter # Null
    /\ Level(r.status) >= 5 => r.verified_by \notin {Null, r.implementer, r.evidence_submitter}

\* The analyst identity has started work on the row, and has submitted evidence.
Started(r) == Level(r.status) >= 4 /\ r.implementer = Analyst
Evidenced(r) == Started(r) /\ Analyst \in r.submitted

\* A request is the one of a gate of the phase that sent it.
IsSentBy(m, p, i) ==
    /\ m.call = Gates(p)[i].call /\ m.finding = Gates(p)[i].finding
    /\ m.actor = SubjectOf(p)

\* What a request says about the row r of its finding, from when it was sent.
RequestIsSound(m, r) ==
    /\ \E p \in Phase : \E i \in 1 .. Len(Gates(p)) : IsSentBy(m, p, i)
    /\ m.call = "verify" /\ m.actor = Analyst => Started(r)
    /\ m.stage \in {"read", "committed"} =>
         /\ RoleOf[m.actor] \in Roles(m.call) /\ m.call # "get"
         /\ m.call = "approve" => m.finding = "E2E"
         /\ m.call = "verify" => m.actor = Approver
    /\ m.stage = "committed" \/ (m.stage = "answered" /\ m.outcome \in Status \ {"absent"}) =>
         /\ m.call = "start" => Level(r.status) >= 4 /\ r.implementer = m.actor
         /\ m.call = "evidence" => m.actor \in r.submitted
    /\ m.stage = "answered" /\ m.outcome \in Status => Level(m.outcome) <= Level(r.status)
    /\ m.stage = "answered" /\ m.call = "get" =>
         m.outcome = m.row.status /\ RowIsSound(m.finding, m.row) /\ Later(m.row, r)

\* What an execution that tries gate i has seen last.
SeenAt(p, i) ==
    CASE p = "analyst_prepare" ->
           (CASE i \in 1 .. 4 -> {"absent"}
              [] i = 5 -> {"open", "risk_assessed", "pending_approval"}
              [] i = 6 -> {"open"}
              [] i = 7 -> {"risk_assessed"}
              [] i = 8 -> {"pending_approval"}
              [] i = 9 -> {"absent"}
              [] i = 10 -> {"open"}
              [] i = 11 -> {"risk_assessed"})
      [] p = "approver_approve" -> IF i = 1 THEN {"absent"} ELSE {"pending_approval"}
      [] p = "analyst_remediate" ->
           (CASE i = 1 -> {"absent"} [] i = 2 -> {"approved"}
              [] i = 3 -> {"in_progress"} [] i = 4 -> {"pending_verification"})
      [] p = "approver_close" ->
           (CASE i = 1 -> {"absent"} [] i = 2 -> {"pending_verification"}
              [] i = 3 -> {"verified"} [] i = 4 -> {"closed"})

\* What the gates an execution has passed say about the row of the main finding.
ExecutionIsSound(x, r) ==
    /\ x.seen \in SeenAt(x.phase, x.gate)
    /\ x.phase = "analyst_prepare" /\ x.gate = 5 => Level(x.seen) <= Level(r.status)
    /\ x.phase = "analyst_prepare" /\ x.gate >= 8 => Level(r.status) >= 2
    /\ x.phase = "analyst_remediate" /\ x.gate >= 3 => Started(r)
    /\ x.phase = "analyst_remediate" /\ x.gate >= 4 => Evidenced(r)
    /\ x.phase = "approver_close" /\ x.gate >= 2 => Evidenced(r)

\* What the reports of the phases rest on.
PassedIsSound ==
    LET r == finding["E2E"] IN
    /\ "analyst_prepare" \in passed => \A f \in Finding : Level(finding[f].status) >= 2
    /\ "approver_approve" \in passed => Level(r.status) >= 3
    /\ "analyst_remediate" \in passed => Analyst \in r.submitted
    /\ "approver_close" \in passed => Evidenced(r) /\ r.status = "closed"

\* Only the analyst identity submits evidence as long as nobody else takes part.
EvidenceIsByTheBook ==
    bythebook => \A f \in Finding : finding[f].evidence_submitter \in {Null, Analyst}

StagingInv ==
    /\ StagingTypeOK
    /\ \A f \in Finding : RowIsSound(f, finding[f])
    /\ \A s \in Slot : wire[s] # Null => RequestIsSound(wire[s], finding[wire[s].finding])
    /\ \A e \in Execution :
         execution[e].phase # Null => ExecutionIsSound(execution[e], finding["E2E"])
    /\ PassedIsSound
    /\ EvidenceIsByTheBook
-----------------------------------------------------------------------------

\* The gates of the four phases, by number.
LEMMA PrepareGates ==
    ASSUME NEW p, p = "analyst_prepare"
    PROVE  /\ Len(Gates(p)) = 11
           /\ Gates(p)[1] = Probe("list", "E2E", Status, "missing_bearer_token")
           /\ Gates(p)[2] = Probe("create_as", "E2E", Status, "actor_in_body")
           /\ Gates(p)[3] = Prepare("E2E")[1]
           /\ Gates(p)[4] = Prepare("E2E")[2]
           /\ Gates(p)[5] = Probe("create", "E2E", Status, "exists")
           /\ Gates(p)[6] = Propose("E2E")[1]
           /\ Gates(p)[7] = Propose("E2E")[2]
           /\ Gates(p)[8] = Prepare("SOD")[1]
           /\ Gates(p)[9] = Prepare("SOD")[2]
           /\ Gates(p)[10] = Propose("SOD")[1]
           /\ Gates(p)[11] = Propose("SOD")[2]
  <1>1. Gates(p) = _analyst_prepare
    BY DEF Gates
  <1> QED BY <1>1 DEF _analyst_prepare, Prepare, Propose

LEMMA ApproveGates ==
    ASSUME NEW p, p = "approver_approve"
    PROVE  /\ Len(Gates(p)) = 5
           /\ Gates(p)[1] = Resume("SOD", {"pending_approval"}, Assigned)
           /\ Gates(p)[2] = Probe("approve", "SOD", Status, "self_approval")
           /\ Gates(p)[3] = Resume("E2E", {"pending_approval", "approved"}, Assigned)
           /\ Gates(p)[4] = Probe("close", "E2E", {"pending_approval"}, "not_closable")
           /\ Gates(p)[5] = Step("approve", "E2E", "pending_approval", "approved")
  BY DEF Gates, _approver_approve

LEMMA RemediateGates ==
    ASSUME NEW p, p = "analyst_remediate"
    PROVE  /\ Len(Gates(p)) = 4
           /\ Gates(p)[1]
                = Resume("E2E", {"approved", "in_progress", "pending_verification"}, Worked)
           /\ Gates(p)[2] = Step("start", "E2E", "approved", "in_progress")
           /\ Gates(p)[3]
                = Step("evidence", "E2E", "in_progress", "pending_verification")
           /\ Gates(p)[4] = Probe("verify", "E2E", Status, "not_independent")
  BY DEF Gates, _analyst_remediate

LEMMA CloseGates ==
    ASSUME NEW p, p = "approver_close"
    PROVE  /\ Len(Gates(p)) = 4
           /\ Gates(p)[1]
                = Resume("E2E", {"pending_verification", "verified", "closed"}, Worked)
           /\ Gates(p)[2] = Step("verify", "E2E", "pending_verification", "verified")
           /\ Gates(p)[3] = Step("close", "E2E", "verified", "closed")
           /\ Gates(p)[4] = Gate("get", "E2E", Status, {"closed"})
  BY DEF Gates, _approver_close

LEMMA Phases ==
    /\ Phase = {"analyst_prepare", "approver_approve", "analyst_remediate", "approver_close"}
    /\ SubjectOf("analyst_prepare") = Analyst /\ SubjectOf("analyst_remediate") = Analyst
    /\ SubjectOf("approver_approve") = Approver /\ SubjectOf("approver_close") = Approver
  BY DEF Phase, NEXT_PHASE, SubjectOf, ROLE_PHASES

\* What each gate of analyst_prepare requests, of which finding and when.
LEMMA PrepareFields ==
    ASSUME NEW p, p = "analyst_prepare"
    PROVE  LET g == Gates(p) IN
           /\ g[1].call = "list" /\ g[1].finding = "E2E" /\ g[1].when = Status
           /\ g[2].call = "create_as" /\ g[2].finding = "E2E" /\ g[2].when = Status
           /\ g[3].call = "get" /\ g[3].finding = "E2E" /\ g[3].when = Status
           /\ g[4].call = "create" /\ g[4].finding = "E2E" /\ g[4].when = {"absent"}
           /\ g[5].call = "create" /\ g[5].finding = "E2E" /\ g[5].when = Status
           /\ g[6].call = "assess" /\ g[6].finding = "E2E" /\ g[6].when = {"open"}
           /\ g[7].call = "propose" /\ g[7].finding = "E2E" /\ g[7].when = {"risk_assessed"}
           /\ g[8].call = "get" /\ g[8].finding = "SOD" /\ g[8].when = Status
           /\ g[9].call = "create" /\ g[9].finding = "SOD" /\ g[9].when = {"absent"}
           /\ g[10].call = "assess" /\ g[10].finding = "SOD" /\ g[10].when = {"open"}
           /\ g[11].call = "propose" /\ g[11].finding = "SOD" /\ g[11].when = {"risk_assessed"}
  BY PrepareGates DEF Prepare, Propose, Probe, Step, Gate, Resume

\* NextGate is the first gate left that the state seen calls for.
LEMMA NextGateIs ==
    ASSUME NEW p, NEW i \in Nat, NEW s, NEW j \in Nat, i < j, j <= Len(Gates(p)),
           Len(Gates(p)) \in Nat,
           s \in Gates(p)[j].when, \A k \in Nat : i < k /\ k < j => s \notin Gates(p)[k].when
    PROVE  NextGate(p, i, s) = j
  <1> DEFINE left == {k \in (i + 1) .. Len(Gates(p)) : s \in Gates(p)[k].when}
             first == CHOOSE k \in left : \A l \in left : k <= l
  <1>1. j \in left /\ \A k \in left : j <= k
    OBVIOUS
  <1>2. first \in left /\ \A l \in left : first <= l
    BY <1>1
  <1>3. first = j
    BY <1>1, <1>2
  <1> QED BY <1>1, <1>3 DEF NextGate

FirstOf(left, end) ==
    IF left = {} THEN end ELSE CHOOSE j \in left : \A k \in left : j <= k

\* NextGate, one gate at a time.
LEMMA NextGateStep ==
    ASSUME NEW p, NEW i \in Nat, NEW j \in Nat, j = i + 1, NEW s,
           Len(Gates(p)) \in Nat, j <= Len(Gates(p))
    PROVE  NextGate(p, i, s) = IF s \in Gates(p)[j].when THEN j ELSE NextGate(p, j, s)
  <1>1. CASE s \in Gates(p)[j].when
    BY <1>1, NextGateIs
  <1>2. CASE s \notin Gates(p)[j].when
    <2>1. {k \in (i + 1) .. Len(Gates(p)) : s \in Gates(p)[k].when}
            = {k \in (j + 1) .. Len(Gates(p)) : s \in Gates(p)[k].when}
      BY <1>2
    <2>2. /\ NextGate(p, i, s) = FirstOf({k \in (i + 1) .. Len(Gates(p)) :
                                            s \in Gates(p)[k].when}, Len(Gates(p)) + 1)
          /\ NextGate(p, j, s) = FirstOf({k \in (j + 1) .. Len(Gates(p)) :
                                            s \in Gates(p)[k].when}, Len(Gates(p)) + 1)
      BY DEF NextGate, FirstOf
    <2> QED BY <1>2, <2>1, <2>2
  <1> QED BY <1>1, <1>2

\* Past the last gate a phase is done.
LEMMA NextGateEnd ==
    ASSUME NEW p, NEW s, NEW i \in Nat, Len(Gates(p)) = i
    PROVE  NextGate(p, i, s) = i + 1
  <1>1. {k \in (i + 1) .. i : s \in Gates(p)[k].when} = {}
    OBVIOUS
  <1> QED BY <1>1 DEF NextGate

\* Where each phase goes from each of its gates, by the state it has seen.
LEMMA PrepareNext ==
    ASSUME NEW p, p = "analyst_prepare", NEW s \in Status
    PROVE  LET n(i) == NextGate(p, i, s) IN
           /\ n(0) = 1 /\ n(1) = 2 /\ n(2) = 3
           /\ n(3) = IF s = "absent" THEN 4 ELSE 5
           /\ n(4) = 5
           /\ n(5) = IF s = "open" THEN 6 ELSE IF s = "risk_assessed" THEN 7 ELSE 8
           /\ n(6) = IF s = "risk_assessed" THEN 7 ELSE 8
           /\ n(7) = 8
           /\ n(8) = IF s = "absent" THEN 9 ELSE IF s = "open" THEN 10
                     ELSE IF s = "risk_assessed" THEN 11 ELSE 12
           /\ n(9) = IF s = "open" THEN 10 ELSE IF s = "risk_assessed" THEN 11 ELSE 12
           /\ n(10) = IF s = "risk_assessed" THEN 11 ELSE 12
           /\ n(11) = 12
  <1> DEFINE n(i) == NextGate(p, i, s)
  <1>1. Len(Gates(p)) = 11
    BY PrepareGates
  <1>2. \A i \in 0 .. 10 : n(i) = IF s \in Gates(p)[i + 1].when
                                THEN i + 1 ELSE n(i + 1)
    BY <1>1, NextGateStep
  <1>3. n(11) = 12
    <2>1. 11 \in Nat /\ 11 + 1 = 12
      OBVIOUS
    <2>2. n(11) = 11 + 1
      BY <1>1, <2>1, NextGateEnd, Zenon
    <2> QED BY <2>1, <2>2
  <1>4. n(10) = IF s = "risk_assessed" THEN 11 ELSE 12
    BY <1>2, <1>3, PrepareFields
  <1>5. n(9) = IF s = "open" THEN 10 ELSE n(10)
    BY <1>2, PrepareFields
  <1>6. n(8) = IF s = "absent" THEN 9 ELSE n(9)
    BY <1>2, PrepareFields
  <1>7. n(7) = 8
    BY <1>2, PrepareFields
  <1>8. n(6) = IF s = "risk_assessed" THEN 7 ELSE 8
    BY <1>2, <1>7, PrepareFields
  <1>9. n(5) = IF s = "open" THEN 6 ELSE n(6)
    BY <1>2, PrepareFields
  <1>10. n(4) = 5
    BY <1>2, PrepareFields
  <1>11. n(3) = IF s = "absent" THEN 4 ELSE 5
    BY <1>2, <1>10, PrepareFields
  <1>12. n(0) = 1 /\ n(1) = 2 /\ n(2) = 3
    BY <1>2, PrepareFields
  <1> HIDE DEF n
  <1>13. /\ n(0) = 1 /\ n(1) = 2 /\ n(2) = 3
         /\ n(3) = IF s = "absent" THEN 4 ELSE 5
         /\ n(4) = 5
         /\ n(5) = IF s = "open" THEN 6 ELSE IF s = "risk_assessed" THEN 7 ELSE 8
         /\ n(6) = IF s = "risk_assessed" THEN 7 ELSE 8
         /\ n(7) = 8
         /\ n(8) = IF s = "absent" THEN 9 ELSE IF s = "open" THEN 10
                   ELSE IF s = "risk_assessed" THEN 11 ELSE 12
         /\ n(9) = IF s = "open" THEN 10 ELSE IF s = "risk_assessed" THEN 11 ELSE 12
         /\ n(10) = IF s = "risk_assessed" THEN 11 ELSE 12
         /\ n(11) = 12
    BY <1>3, <1>4, <1>5, <1>6, <1>7, <1>8, <1>9, <1>10, <1>11, <1>12
  <1> QED BY <1>13 DEF n

LEMMA ApproveNext ==
    ASSUME NEW p, p = "approver_approve", NEW s \in Status
    PROVE  LET n(i) == NextGate(p, i, s) IN
           /\ n(0) = 1
           /\ n(1) = 2
           /\ n(2) = 3
           /\ n(3) = IF s = "pending_approval" THEN 4 ELSE 6
           /\ n(4) = IF s = "pending_approval" THEN 5 ELSE 6
           /\ n(5) = 6
  <1> DEFINE n(i) == NextGate(p, i, s)
  <1>1. Len(Gates(p)) = 5
    BY ApproveGates
  <1>2. \A i \in 0 .. 4 : n(i) = IF s \in Gates(p)[i + 1].when THEN i + 1 ELSE n(i + 1)
    BY <1>1, NextGateStep
  <1>3. n(5) = 6
    <2>1. 5 \in Nat /\ 5 + 1 = 6
      OBVIOUS
    <2>2. n(5) = 5 + 1
      BY <1>1, <2>1, NextGateEnd, Zenon
    <2> QED BY <2>1, <2>2
  <1>4. n(4) = IF s = "pending_approval" THEN 5 ELSE 6
    BY <1>2, <1>3, ApproveGates DEF Resume, Probe, Step, Gate
  <1>5. n(3) = IF s = "pending_approval" THEN 4 ELSE 6
    BY <1>2, <1>4, ApproveGates DEF Resume, Probe, Step, Gate
  <1>6. n(2) = 3
    BY <1>2, <1>5, ApproveGates DEF Resume, Probe, Step, Gate
  <1>7. n(1) = 2
    BY <1>2, <1>6, ApproveGates DEF Resume, Probe, Step, Gate
  <1>8. n(0) = 1
    BY <1>2, <1>7, ApproveGates DEF Resume, Probe, Step, Gate
  <1> HIDE DEF n
  <1>9. /\ n(0) = 1
        /\ n(1) = 2
        /\ n(2) = 3
        /\ n(3) = IF s = "pending_approval" THEN 4 ELSE 6
        /\ n(4) = IF s = "pending_approval" THEN 5 ELSE 6
        /\ n(5) = 6
    BY <1>3, <1>4, <1>5, <1>6, <1>7, <1>8
  <1> QED BY <1>9 DEF n

LEMMA RemediateNext ==
    ASSUME NEW p, p = "analyst_remediate", NEW s \in Status
    PROVE  LET n(i) == NextGate(p, i, s) IN
           /\ n(0) = 1
           /\ n(1) = IF s = "approved" THEN 2 ELSE IF s = "in_progress" THEN 3 ELSE 4
           /\ n(2) = IF s = "in_progress" THEN 3 ELSE 4
           /\ n(3) = 4
           /\ n(4) = 5
  <1> DEFINE n(i) == NextGate(p, i, s)
  <1>1. Len(Gates(p)) = 4
    BY RemediateGates
  <1>2. \A i \in 0 .. 3 : n(i) = IF s \in Gates(p)[i + 1].when THEN i + 1 ELSE n(i + 1)
    BY <1>1, NextGateStep
  <1>3. n(4) = 5
    <2>1. 4 \in Nat /\ 4 + 1 = 5
      OBVIOUS
    <2>2. n(4) = 4 + 1
      BY <1>1, <2>1, NextGateEnd, Zenon
    <2> QED BY <2>1, <2>2
  <1>4. n(3) = 4
    BY <1>2, <1>3, RemediateGates DEF Resume, Probe, Step, Gate
  <1>5. n(2) = IF s = "in_progress" THEN 3 ELSE 4
    BY <1>2, <1>4, RemediateGates DEF Resume, Probe, Step, Gate
  <1>6. n(1) = IF s = "approved" THEN 2 ELSE IF s = "in_progress" THEN 3 ELSE 4
    BY <1>2, <1>5, RemediateGates DEF Resume, Probe, Step, Gate
  <1>7. n(0) = 1
    BY <1>2, <1>6, RemediateGates DEF Resume, Probe, Step, Gate
  <1> HIDE DEF n
  <1>8. /\ n(0) = 1
        /\ n(1) = IF s = "approved" THEN 2 ELSE IF s = "in_progress" THEN 3 ELSE 4
        /\ n(2) = IF s = "in_progress" THEN 3 ELSE 4
        /\ n(3) = 4
        /\ n(4) = 5
    BY <1>3, <1>4, <1>5, <1>6, <1>7
  <1> QED BY <1>8 DEF n

LEMMA CloseNext ==
    ASSUME NEW p, p = "approver_close", NEW s \in Status
    PROVE  LET n(i) == NextGate(p, i, s) IN
           /\ n(0) = 1
           /\ n(1) = IF s = "pending_verification" THEN 2 ELSE IF s = "verified" THEN 3 ELSE 4
           /\ n(2) = IF s = "verified" THEN 3 ELSE 4
           /\ n(3) = 4
           /\ n(4) = 5
  <1> DEFINE n(i) == NextGate(p, i, s)
  <1>1. Len(Gates(p)) = 4
    BY CloseGates
  <1>2. \A i \in 0 .. 3 : n(i) = IF s \in Gates(p)[i + 1].when THEN i + 1 ELSE n(i + 1)
    BY <1>1, NextGateStep
  <1>3. n(4) = 5
    <2>1. 4 \in Nat /\ 4 + 1 = 5
      OBVIOUS
    <2>2. n(4) = 4 + 1
      BY <1>1, <2>1, NextGateEnd, Zenon
    <2> QED BY <2>1, <2>2
  <1>4. n(3) = 4
    BY <1>2, <1>3, CloseGates DEF Resume, Probe, Step, Gate
  <1>5. n(2) = IF s = "verified" THEN 3 ELSE 4
    BY <1>2, <1>4, CloseGates DEF Resume, Probe, Step, Gate
  <1>6. n(1) = IF s = "pending_verification" THEN 2 ELSE IF s = "verified" THEN 3 ELSE 4
    BY <1>2, <1>5, CloseGates DEF Resume, Probe, Step, Gate
  <1>7. n(0) = 1
    BY <1>2, <1>6, CloseGates DEF Resume, Probe, Step, Gate
  <1> HIDE DEF n
  <1>8. /\ n(0) = 1
        /\ n(1) = IF s = "pending_verification" THEN 2 ELSE IF s = "verified" THEN 3 ELSE 4
        /\ n(2) = IF s = "verified" THEN 3 ELSE 4
        /\ n(3) = 4
        /\ n(4) = 5
    BY <1>3, <1>4, <1>5, <1>6, <1>7
  <1> QED BY <1>8 DEF n

-----------------------------------------------------------------------------
(* Rows *)

\* The levels of the statuses, and what a level says about the status.
LEMMA Levels ==
    /\ Level("absent") = 0 /\ Level("open") = 1 /\ Level("risk_assessed") = 2
    /\ Level("pending_approval") = 2 /\ Level("approved") = 3
    /\ Level("in_progress") = 4 /\ Level("pending_verification") = 4
    /\ Level("verified") = 5 /\ Level("closed") = 6
    /\ \A s \in Status : Level(s) \in 0 .. 6
  BY DEF Level, Status

LEMMA LevelInverse ==
    ASSUME NEW s \in Status
    PROVE  /\ Level(s) = 0 => s = "absent"
           /\ Level(s) >= 6 => s = "closed"
           /\ Level(s) >= 2 <=> s \notin {"absent", "open"}
  BY Levels DEF Status

\* The two identities of the rehearsal, and NULL, are different.
LEMMA Subjects ==
    /\ Analyst \in Subject /\ Approver \in Subject /\ Outsider \subseteq Subject
    /\ RoleOf \in [Subject -> {"analyst", "approver"}]
    /\ RoleOf[Analyst] = "analyst" /\ RoleOf[Approver] = "approver"
    /\ Analyst # Approver /\ Null \notin Subject
  BY SubjectsAssumption, NullAssumption DEF Subject

LEMMA NoRowType == NoRow \in Row
  BY DEF NoRow, Row, Status

\* Moving forward is a preorder.
LEMMA LaterReflexive ==
    ASSUME NEW r \in Row
    PROVE  Later(r, r)
  BY Levels DEF Later, Row

LEMMA LaterTransitive ==
    ASSUME NEW r \in Row, NEW q \in Row, NEW t \in Row, Later(r, q), Later(q, t)
    PROVE  Later(r, t)
  <1>1. Level(r.status) \in Nat /\ Level(q.status) \in Nat /\ Level(t.status) \in Nat
    BY Levels DEF Row
  <1> QED BY <1>1 DEF Later

\* A row, column by column.
RowOf(st, ro, ao, im, es, sb, ab, vb) ==
    [status |-> st, risk_owner |-> ro, action_owner |-> ao, implementer |-> im,
     evidence_submitter |-> es, submitted |-> sb, approved_by |-> ab,
     verified_by |-> vb]

\* The types of a row's columns.
LEMMA RowColumns ==
    ASSUME NEW r \in Row
    PROVE  /\ r.status \in Status /\ Level(r.status) \in 0 .. 6
           /\ r.risk_owner \in Subject \cup {Null}
           /\ r.action_owner \in Subject \cup {Null}
           /\ r.implementer \in Subject \cup {Null}
           /\ r.evidence_submitter \in Subject \cup {Null}
           /\ r.submitted \subseteq Subject
           /\ r.approved_by \in Subject \cup {Null}
           /\ r.verified_by \in Subject \cup {Null}
  BY Levels DEF Row

\* A transition that the API admits keeps a row sound and takes it forward.
LEMMA EffectIsSound ==
    ASSUME NEW f \in Finding, NEW c \in Call, NEW a \in Subject, NEW r \in Row,
           RowIsSound(f, r), r.status \in From(c), RoleOf[a] \in Roles(c),
           c = "approve" => f = "E2E",
           c = "verify" => a \notin {r.implementer, r.evidence_submitter}
    PROVE  /\ Effect(f, c, a, r) \in Row
           /\ RowIsSound(f, Effect(f, c, a, r))
           /\ Later(r, Effect(f, c, a, r))
           /\ c = "start" => Level(Effect(f, c, a, r).status) >= 4
                             /\ Effect(f, c, a, r).implementer = a
           /\ c = "evidence" => a \in Effect(f, c, a, r).submitted
           /\ c # "evidence" =>
                Effect(f, c, a, r).evidence_submitter \in {Null, r.evidence_submitter}
  <1> SUFFICES ASSUME NEW q, q = Effect(f, c, a, r)
               PROVE  /\ q \in Row /\ RowIsSound(f, q) /\ Later(r, q)
                      /\ c = "start" => Level(q.status) >= 4 /\ q.implementer = a
                      /\ c = "evidence" => a \in q.submitted
                      /\ c # "evidence" =>
                           q.evidence_submitter \in {Null, r.evidence_submitter}
    OBVIOUS
  <1> USE Levels, Subjects, RowColumns
  <1>1. Expected(f, "risk_owner") \in Subject
    BY DEF Expected
  <1>2. CASE c = "create"
    <2>1. r.status = "absent" /\ r = NoRow
      BY <1>2 DEF From, RowIsSound
    <2>2. q = RowOf("open", Expected(f, "risk_owner"), Null, Null, Null, {}, Null, Null)
      BY <1>2 DEF Effect, NoRow, RowOf
    <2>3. q \in Row
      BY <1>1, <2>2 DEF Row, RowOf, Status
    <2>4. RowIsSound(f, q)
      BY <1>2, <2>2 DEF RowOf, RowIsSound
    <2>5. r.submitted = {}
      BY <2>1 DEF NoRow
    <2> QED BY <1>2, <2>1, <2>2, <2>3, <2>4, <2>5 DEF RowOf, Later
  <1>3. CASE c = "assess"
    <2>1. r.status = "open"
      BY <1>3 DEF From
    <2>2. q = RowOf("risk_assessed", r.risk_owner, r.action_owner, r.implementer,
                    r.evidence_submitter, r.submitted, r.approved_by, r.verified_by)
      BY <1>3 DEF Effect, Row, RowOf
    <2>3. q \in Row
      BY <1>3, <2>1, <2>2 DEF Row, RowOf, Status
    <2>4. RowIsSound(f, q)
      BY <1>3, <2>1, <2>2 DEF RowOf, RowIsSound
    <2> QED BY <1>3, <2>1, <2>2, <2>3, <2>4 DEF RowOf, Later
  <1>4. CASE c = "propose"
    <2>1. r.status = "risk_assessed"
      BY <1>4 DEF From
    <2>2. q = RowOf("pending_approval", r.risk_owner, a, r.implementer,
                    r.evidence_submitter, r.submitted, r.approved_by, r.verified_by)
      BY <1>4 DEF Effect, Row, RowOf
    <2>3. q \in Row
      BY <1>4, <2>1, <2>2 DEF Row, RowOf, Status
    <2>4. RowIsSound(f, q)
      BY <1>4, <2>1, <2>2 DEF RowOf, RowIsSound
    <2> QED BY <1>4, <2>1, <2>2, <2>3, <2>4 DEF RowOf, Later
  <1>5. CASE c = "approve"
    <2>1. r.status = "pending_approval"
      BY <1>5 DEF From
    <2>2. q = RowOf("approved", r.risk_owner, r.action_owner, r.implementer,
                    r.evidence_submitter, r.submitted, a, r.verified_by)
      BY <1>5 DEF Effect, Row, RowOf, DecidedStatus
    <2>3. r.risk_owner = Analyst /\ RoleOf[a] = "approver"
      BY <1>5, <2>1 DEF RowIsSound, Expected, Roles
    <2>4. q \in Row
      BY <1>5, <2>1, <2>2 DEF Row, RowOf, Status
    <2>5. RowIsSound(f, q)
      BY <1>5, <2>1, <2>2, <2>3 DEF RowOf, RowIsSound
    <2> QED BY <1>5, <2>1, <2>2, <2>3, <2>4, <2>5 DEF RowOf, Later
  <1>6. CASE c = "reject"
    <2>1. r.status = "pending_approval"
      BY <1>6 DEF From
    <2>2. q = RowOf("risk_assessed", r.risk_owner, r.action_owner, r.implementer,
                    r.evidence_submitter, r.submitted, r.approved_by, r.verified_by)
      BY <1>6 DEF Effect, Row, RowOf, DecidedStatus
    <2>3. q \in Row
      BY <1>6, <2>1, <2>2 DEF Row, RowOf, Status
    <2>4. RowIsSound(f, q)
      BY <1>6, <2>1, <2>2 DEF RowOf, RowIsSound
    <2> QED BY <1>6, <2>1, <2>2, <2>3, <2>4 DEF RowOf, Later
  <1>7. CASE c = "start"
    <2>1. r.status = "approved"
      BY <1>7 DEF From
    <2>2. q = RowOf("in_progress", r.risk_owner, r.action_owner, a,
                    r.evidence_submitter, r.submitted, r.approved_by, r.verified_by)
      BY <1>7 DEF Effect, Row, RowOf
    <2>3. RoleOf[a] = "analyst"
      BY <1>7, <2>1 DEF Roles
    <2>4. q \in Row
      BY <1>7, <2>1, <2>2 DEF Row, RowOf, Status
    <2>5. RowIsSound(f, q)
      BY <1>7, <2>1, <2>2, <2>3 DEF RowOf, RowIsSound
    <2> QED BY <1>7, <2>1, <2>2, <2>3, <2>4, <2>5 DEF RowOf, Later
  <1>8. CASE c = "evidence"
    <2>1. r.status = "in_progress"
      BY <1>8 DEF From
    <2>2. q = RowOf("pending_verification", r.risk_owner, r.action_owner, r.implementer,
                    a, r.submitted \cup {a}, r.approved_by, r.verified_by)
      BY <1>8 DEF Effect, Row, RowOf
    <2>3. RoleOf[a] = "analyst"
      BY <1>8, <2>1 DEF Roles
    <2>4. q \in Row
      BY <1>8, <2>1, <2>2 DEF Row, RowOf, Status
    <2>5. RowIsSound(f, q)
      BY <1>8, <2>1, <2>2, <2>3 DEF RowOf, RowIsSound
    <2> QED BY <1>8, <2>1, <2>2, <2>3, <2>4, <2>5 DEF RowOf, Later
  <1>9. CASE c = "verify"
    <2>1. r.status = "pending_verification"
      BY <1>9 DEF From
    <2>2. q = RowOf("verified", r.risk_owner, r.action_owner, r.implementer,
                    r.evidence_submitter, r.submitted, r.approved_by, a)
      BY <1>9 DEF Effect, Row, RowOf
    <2>3. q \in Row
      BY <1>9, <2>1, <2>2 DEF Row, RowOf, Status
    <2>4. RowIsSound(f, q)
      BY <1>9, <2>1, <2>2 DEF RowOf, RowIsSound
    <2> QED BY <1>9, <2>1, <2>2, <2>3, <2>4 DEF RowOf, Later
  <1>10. CASE c = "fail"
    <2>1. r.status = "pending_verification"
      BY <1>10 DEF From
    <2>2. q = RowOf("in_progress", r.risk_owner, r.action_owner, r.implementer,
                    r.evidence_submitter, r.submitted, r.approved_by, r.verified_by)
      BY <1>10 DEF Effect, Row, RowOf
    <2>3. q \in Row
      BY <1>10, <2>1, <2>2 DEF Row, RowOf, Status
    <2>4. RowIsSound(f, q)
      BY <1>10, <2>1, <2>2 DEF RowOf, RowIsSound
    <2> QED BY <1>10, <2>1, <2>2, <2>3, <2>4 DEF RowOf, Later
  <1>11. CASE c = "close"
    <2>1. r.status = "verified"
      BY <1>11 DEF From
    <2>2. q = RowOf("closed", r.risk_owner, r.action_owner, r.implementer,
                    r.evidence_submitter, r.submitted, r.approved_by, r.verified_by)
      BY <1>11 DEF Effect, Row, RowOf
    <2>3. q \in Row
      BY <1>11, <2>1, <2>2 DEF Row, RowOf, Status
    <2>4. RowIsSound(f, q)
      BY <1>11, <2>1, <2>2 DEF RowOf, RowIsSound
    <2> QED BY <1>11, <2>1, <2>2, <2>3, <2>4 DEF RowOf, Later
  <1>12. c \notin {"list", "create_as", "get"}
    BY DEF From
  <1> QED BY <1>2, <1>3, <1>4, <1>5, <1>6, <1>7, <1>8, <1>9, <1>10, <1>11, <1>12
          DEF Call

-----------------------------------------------------------------------------
(* Requests *)

\* Every phase has a gate.
LEMMA PhaseLengths ==
    \A p \in Phase : Len(Gates(p)) \in Nat /\ Len(Gates(p)) >= 1
  BY Phases, PrepareGates, ApproveGates, RemediateGates, CloseGates

\* Which identity sends which request.
LEMMA SentRequests ==
    ASSUME NEW m, NEW p \in Phase, NEW i \in 1 .. Len(Gates(p)), IsSentBy(m, p, i)
    PROVE  /\ m.call \in Call /\ m.finding \in Finding /\ m.actor \in Subject
           /\ m.call \notin {"reject", "fail"}
           /\ m.call \in {"approve", "close"} => m.actor = Approver
           /\ m.call \in {"start", "evidence"} => m.actor = Analyst
           /\ m.call \in {"start", "evidence", "verify", "close"} => m.finding = "E2E"
           /\ m.call = "verify" => \/ p = "analyst_remediate" /\ i = 4 /\ m.actor = Analyst
                                   \/ p = "approver_close" /\ m.actor = Approver
  <1> USE Subjects, Phases DEF IsSentBy, Call, Finding, Probe, Step, Resume, Gate
  <1>1. CASE p = "analyst_prepare"
    <2>1. i \in 1 .. 11
      BY <1>1, PrepareGates
    <2>2. /\ m.actor = Analyst /\ m.finding \in Finding
          /\ m.call \in {"list", "create_as", "get", "create", "assess", "propose"}
      BY <1>1, <2>1, PrepareFields
    <2> QED BY <1>1, <2>2
  <1>2. CASE p = "approver_approve"
    <2>1. i \in 1 .. 5
      BY <1>2, ApproveGates
    <2> QED BY <1>2, <2>1, ApproveGates
  <1>3. CASE p = "analyst_remediate"
    <2>1. i \in 1 .. 4
      BY <1>3, RemediateGates
    <2> QED BY <1>3, <2>1, RemediateGates
  <1>4. CASE p = "approver_close"
    <2>1. i \in 1 .. 4
      BY <1>4, CloseGates
    <2> QED BY <1>4, <2>1, CloseGates
  <1> QED BY <1>1, <1>2, <1>3, <1>4

\* A request as an execution sends it.
LEMMA SentType ==
    ASSUME NEW p \in Phase, NEW i \in 1 .. Len(Gates(p))
    PROVE  /\ Sent(p, i) \in Request /\ IsSentBy(Sent(p, i), p, i)
           /\ Sent(p, i).stage = "sent"
  <1>1. IsSentBy(Sent(p, i), p, i)
    BY DEF IsSentBy, Sent
  <1>2. Sent(p, i).call \in Call /\ Sent(p, i).finding \in Finding /\ Sent(p, i).actor \in Subject
    BY <1>1, SentRequests
  <1> QED BY <1>1, <1>2, NoRowType DEF Sent, Request

\* The types of a request's fields.
LEMMA RequestColumns ==
    ASSUME NEW m \in Request
    PROVE  /\ m.call \in Call /\ m.finding \in Finding /\ m.actor \in Subject /\ m.row \in Row
           /\ m.stage \in {"sent", "read", "committed", "answered"}
           /\ m.outcome \in Outcome \cup {Null} /\ m # Null
  BY NullAssumption DEF Request

\* What a request says about its finding stays true when the finding moves on.
LEMMA RequestKeeps ==
    ASSUME NEW m \in Request, NEW r \in Row, NEW q \in Row,
           RequestIsSound(m, r), Later(r, q)
    PROVE  RequestIsSound(m, q)
  <1> USE Levels, RowColumns
  <1>1. m.row \in Row
    BY RequestColumns
  <1>2. Later(m.row, r) => Later(m.row, q)
    BY <1>1, LaterTransitive
  <1>3. Started(r) => Started(q)
    BY DEF Started, Later
  <1>4. Level(r.status) <= Level(q.status) /\ r.submitted \subseteq q.submitted
    BY DEF Later
  <1>5. \A x \in Status : Level(x) <= Level(r.status) => Level(x) <= Level(q.status)
    BY <1>4
  <1>6. m.stage = "answered" /\ m.outcome \in Status => Level(m.outcome) <= Level(q.status)
    BY <1>5 DEF RequestIsSound
  <1>7. m.call = "start" /\ Level(r.status) >= 4 /\ r.implementer = m.actor
        => Level(q.status) >= 4 /\ q.implementer = m.actor
    BY DEF Later
  <1> QED BY <1>2, <1>3, <1>4, <1>6, <1>7 DEF RequestIsSound

\* An answer.
Answered(m, o, r) ==
    [m EXCEPT !.stage = "answered", !.outcome = o,
              !.row = IF m.call = "get" THEN r ELSE NoRow]

\* An answer is sound when its outcome is true of the row it was given for.
LEMMA AnsweredIsSound ==
    ASSUME NEW m \in Request, NEW r \in Row, NEW o \in Outcome,
           RowIsSound(m.finding, r), RequestIsSound(m, r),
           o \in Status => Level(o) <= Level(r.status),
           m.call = "get" => o = r.status,
           o \in Status \ {"absent"} =>
             /\ m.call = "start" => Level(r.status) >= 4 /\ r.implementer = m.actor
             /\ m.call = "evidence" => m.actor \in r.submitted
    PROVE  /\ Answered(m, o, r) \in Request
           /\ RequestIsSound(Answered(m, o, r), r)
           /\ Answered(m, o, r).call = m.call /\ Answered(m, o, r).finding = m.finding
           /\ Answered(m, o, r).actor = m.actor
  <1> SUFFICES ASSUME NEW n, n = Answered(m, o, r)
               PROVE  /\ n \in Request /\ RequestIsSound(n, r) /\ n.call = m.call
                      /\ n.finding = m.finding /\ n.actor = m.actor
    OBVIOUS
  <1>1. /\ n.call = m.call /\ n.finding = m.finding /\ n.actor = m.actor
        /\ n.stage = "answered" /\ n.outcome = o
        /\ n.row = IF m.call = "get" THEN r ELSE NoRow
    BY DEF Answered, Request
  <1>2. n \in Request
    BY NoRowType DEF Answered, Request
  <1>3. m.call = "get" => n.outcome = n.row.status /\ RowIsSound(n.finding, n.row)
                          /\ Later(n.row, r)
    BY <1>1, LaterReflexive
  <1>4. \E p \in Phase : \E i \in 1 .. Len(Gates(p)) : IsSentBy(n, p, i)
    BY <1>1 DEF RequestIsSound, IsSentBy
  <1>5. n.call = "verify" /\ n.actor = Analyst => Started(r)
    BY <1>1 DEF RequestIsSound
  <1> QED BY <1>1, <1>2, <1>3, <1>4, <1>5 DEF RequestIsSound

\* The same request, one stage further at the server.
LEMMA StagedIsSound ==
    ASSUME NEW m \in Request, NEW r \in Row, NEW stage \in {"read", "committed"},
           RequestIsSound(m, r), RoleOf[m.actor] \in Roles(m.call), m.call # "get",
           m.call = "approve" => m.finding = "E2E",
           m.call = "verify" => m.actor = Approver,
           stage = "committed" =>
             /\ m.call = "start" => Level(r.status) >= 4 /\ r.implementer = m.actor
             /\ m.call = "evidence" => m.actor \in r.submitted
    PROVE  /\ [m EXCEPT !.stage = stage] \in Request
           /\ RequestIsSound([m EXCEPT !.stage = stage], r)
           /\ [m EXCEPT !.stage = stage].call = m.call
           /\ [m EXCEPT !.stage = stage].finding = m.finding
           /\ [m EXCEPT !.stage = stage].actor = m.actor
  <1> SUFFICES ASSUME NEW n, n = [m EXCEPT !.stage = stage]
               PROVE  /\ n \in Request /\ RequestIsSound(n, r) /\ n.call = m.call
                      /\ n.finding = m.finding /\ n.actor = m.actor
    OBVIOUS
  <1>1. /\ n.call = m.call /\ n.finding = m.finding /\ n.actor = m.actor
        /\ n.stage = stage /\ n \in Request
    BY DEF Request
  <1>2. \E p \in Phase : \E i \in 1 .. Len(Gates(p)) : IsSentBy(n, p, i)
    BY <1>1 DEF RequestIsSound, IsSentBy
  <1> QED BY <1>1, <1>2 DEF RequestIsSound

-----------------------------------------------------------------------------
(* The steps of the server *)

\* A refusal is an error or says that the finding is absent.
LEMMA RefusalType ==
    ASSUME NEW c \in Call, NEW a \in Subject, NEW r \in Row
    PROVE  /\ Refusal(c, a, r) \in Outcome \cup {Null}
           /\ Refusal(c, a, r) \in Status => Refusal(c, a, r) = "absent"
           /\ c = "get" /\ Refusal(c, a, r) # Null => Refusal(c, a, r) = "absent" /\ r.status = "absent"
  BY Subjects, NullAssumption DEF Refusal, Outcome, Status, Error, Roles, IsSelfDealing

\* A request that is not refused comes from a role that may make it, and from an
\* identity that does not decide on its own risk or verify its own work.
LEMMA NotRefused ==
    ASSUME NEW c \in Call, NEW a \in Subject, NEW r \in Row, Refusal(c, a, r) = Null
    PROVE  /\ RoleOf[a] \in Roles(c) /\ c \notin {"list", "create_as"}
           /\ c # "create" => r.status # "absent"
           /\ c = "approve" => a # r.risk_owner
           /\ c = "verify" => a \notin {r.implementer, r.evidence_submitter}
  BY NullAssumption DEF Refusal, Outcome, Status, Error, IsSelfDealing

\* Slot s has gone from its request to n, and the other slots are as they were.
Served(s, n) ==
    /\ wire' = [wire EXCEPT ![s] = n]
    /\ \/ n = Null /\ s \in Orphan
       \/ /\ n \in Request /\ n.call = wire[s].call /\ n.finding = wire[s].finding
          /\ n.actor = wire[s].actor /\ RequestIsSound(n, finding'[n.finding])

\* What the invariant says of a request with the server.
LEMMA SlotParts ==
    ASSUME StagingInv, NEW s \in Slot, wire[s] # Null
    PROVE  /\ wire[s] \in Request /\ finding[wire[s].finding] \in Row
           /\ wire[s].finding \in Finding
           /\ RowIsSound(wire[s].finding, finding[wire[s].finding])
           /\ RequestIsSound(wire[s], finding[wire[s].finding])
           /\ wire \in [Slot -> Request \cup {Null}] /\ finding \in [Finding -> Row]
  <1>1. wire[s] \in Request
    BY DEF StagingInv, StagingTypeOK
  <1> QED BY <1>1, RequestColumns DEF StagingInv, StagingTypeOK

\* Each step of the server leaves its slot sound.
LEMMA ReplyServes ==
    ASSUME StagingInv, NEW s \in Slot, wire[s] # Null, NEW o \in Outcome, Reply(s, o),
           finding' = finding,
           o \in Status => Level(o) <= Level(finding[wire[s].finding].status),
           wire[s].call = "get" => o = finding[wire[s].finding].status,
           o \in Status \ {"absent"} =>
             /\ wire[s].call = "start" =>
                  /\ Level(finding[wire[s].finding].status) >= 4
                  /\ finding[wire[s].finding].implementer = wire[s].actor
             /\ wire[s].call = "evidence" =>
                  wire[s].actor \in finding[wire[s].finding].submitted
    PROVE  \E n : Served(s, n)
  <1>1. CASE s \in Orphan
    <2>1. wire' = [wire EXCEPT ![s] = Null]
      BY <1>1 DEF Reply
    <2> QED BY <1>1, <2>1 DEF Served
  <1>2. CASE s \notin Orphan
    <2>1. PICK m \in Request, r \in Row : m = wire[s] /\ r = finding[wire[s].finding]
      BY SlotParts
    <2>2. PICK n : n = Answered(m, o, r)
      OBVIOUS
    <2>3. wire' = [wire EXCEPT ![s] = n]
      BY <1>2, <2>1, <2>2 DEF Reply, Answered
    <2>4. /\ n \in Request /\ RequestIsSound(n, r) /\ n.call = m.call
          /\ n.finding = m.finding /\ n.actor = m.actor
      BY <2>1, <2>2, SlotParts, AnsweredIsSound
    <2>5. finding'[n.finding] = r
      BY <2>1, <2>4
    <2> QED BY <2>1, <2>3, <2>4, <2>5 DEF Served
  <1> QED BY <1>1, <1>2

LEMMA AdmitServes ==
    ASSUME StagingInv, NEW s \in Slot, Admit(s)
    PROVE  \E n : Served(s, n)
  <1>1. wire[s] # Null /\ finding' = finding /\ wire[s].stage = "sent"
    BY DEF Admit, InStage
  <1>2. PICK m \in Request, r \in Row : m = wire[s] /\ r = finding[wire[s].finding]
    BY <1>1, SlotParts
  <1>3. /\ m.call \in Call /\ m.actor \in Subject /\ m.finding \in Finding
        /\ r.status \in Status /\ Level(r.status) \in 0 .. 6
    BY RequestColumns, RowColumns
  <1>4. RequestIsSound(m, r) /\ RowIsSound(m.finding, r)
    BY <1>1, <1>2, SlotParts
  <1>5. CASE Refusal(m.call, m.actor, r) # Null
    <2>1. PICK o : o = Refusal(m.call, m.actor, r)
      OBVIOUS
    <2>2. Reply(s, o)
      BY <1>2, <1>5, <2>1 DEF Admit
    <2>3. /\ o \in Outcome /\ (o \in Status => o = "absent")
          /\ m.call = "get" => o = r.status
      BY <1>3, <1>5, <2>1, RefusalType
    <2>4. o \in Status => Level(o) <= Level(r.status)
      BY <1>3, <2>3, Levels
    <2> QED BY <1>1, <1>2, <2>2, <2>3, <2>4, ReplyServes
  <1>6. CASE /\ Refusal(m.call, m.actor, r) = Null
             /\ m.call = "get" \/ IsRetry(m.call, m.actor, r)
    <2>1. Reply(s, r.status)
      BY <1>2, <1>6 DEF Admit
    <2>2. r.status \in Outcome
      BY <1>3 DEF Outcome
    <2>3. m.call # "start" /\ (m.call = "evidence" => m.actor \in r.submitted)
      BY <1>6 DEF IsRetry
    <2> QED BY <1>1, <1>2, <1>3, <2>1, <2>2, <2>3, ReplyServes
  <1>7. CASE Refusal(m.call, m.actor, r) = Null /\ ~(m.call = "get" \/ IsRetry(m.call, m.actor, r))
    <2>1. wire' = [wire EXCEPT ![s].stage = "read"]
      BY <1>2, <1>7 DEF Admit
    <2>2. PICK n : n = [m EXCEPT !.stage = "read"]
      OBVIOUS
    <2>3. wire' = [wire EXCEPT ![s] = n]
      BY <1>2, <2>1, <2>2
    <2>4. /\ RoleOf[m.actor] \in Roles(m.call)
          /\ m.call = "approve" => m.actor # r.risk_owner
          /\ m.call = "verify" => m.actor \notin {r.implementer, r.evidence_submitter}
          /\ m.call # "create" => r.status # "absent"
      BY <1>3, <1>7, NotRefused
    <2>5. PICK p \in Phase : \E i \in 1 .. Len(Gates(p)) : IsSentBy(m, p, i)
      BY <1>4 DEF RequestIsSound
    <2>6. PICK i \in 1 .. Len(Gates(p)) : IsSentBy(m, p, i)
      BY <2>5
    <2>7. /\ m.call = "approve" => m.actor = Approver
          /\ m.call = "verify" => m.actor \in {Analyst, Approver}
      BY <2>6, SentRequests
    <2>8. m.call = "approve" => m.finding = "E2E"
      <3> SUFFICES ASSUME m.call = "approve", m.finding # "E2E" PROVE FALSE
        OBVIOUS
      <3>1. m.finding = "SOD"
        BY <1>3 DEF Finding
      <3>2. r.risk_owner = Approver
        BY <1>4, <2>4, <3>1 DEF RowIsSound, Expected
      <3> QED BY <2>4, <2>7, <3>2
    <2>9. m.call = "verify" => m.actor = Approver
      BY <1>4, <2>4, <2>7 DEF RequestIsSound, Started
    <2>10. /\ n \in Request /\ RequestIsSound(n, r) /\ n.call = m.call
           /\ n.finding = m.finding /\ n.actor = m.actor
      BY <1>4, <1>7, <2>2, <2>4, <2>8, <2>9, StagedIsSound
    <2> QED BY <1>1, <1>2, <2>3, <2>10 DEF Served
  <1> QED BY <1>5, <1>6, <1>7

LEMMA AnswerServes ==
    ASSUME StagingInv, NEW s \in Slot, Answer(s)
    PROVE  \E n : Served(s, n)
  <1>1. wire[s] # Null /\ finding' = finding /\ wire[s].stage = "committed"
    BY DEF Answer, InStage
  <1>2. PICK m \in Request, r \in Row : m = wire[s] /\ r = finding[wire[s].finding]
    BY <1>1, SlotParts
  <1>3. RequestIsSound(m, r) /\ r.status \in Status /\ Level(r.status) \in 0 .. 6
    BY <1>1, <1>2, SlotParts, RowColumns
  <1>4. Reply(s, r.status)
    BY <1>2 DEF Answer
  <1>5. /\ m.call = "start" => Level(r.status) >= 4 /\ r.implementer = m.actor
        /\ m.call = "evidence" => m.actor \in r.submitted
    BY <1>1, <1>2, <1>3 DEF RequestIsSound
  <1>6. r.status \in Outcome
    BY <1>3 DEF Outcome
  <1> QED BY <1>1, <1>2, <1>3, <1>4, <1>5, <1>6, ReplyServes

\* Every finding is sound after the step and further than before.
FindingsAdvance ==
    /\ finding' \in [Finding -> Row]
    /\ \A f \in Finding : RowIsSound(f, finding'[f]) /\ Later(finding[f], finding'[f])

LEMMA StillAdvances ==
    ASSUME StagingInv, finding' = finding
    PROVE  FindingsAdvance
  BY LaterReflexive DEF FindingsAdvance, StagingInv, StagingTypeOK

\* Writing the row of one admitted transition.
LEMMA WriteAdvances ==
    ASSUME StagingInv, NEW f \in Finding, NEW c \in Call, NEW a \in Subject,
           finding[f].status \in From(c), RoleOf[a] \in Roles(c),
           c = "approve" => f = "E2E",
           c = "verify" => a \notin {finding[f].implementer, finding[f].evidence_submitter},
           finding' = [finding EXCEPT ![f] = Effect(f, c, a, finding[f])]
    PROVE  /\ FindingsAdvance
           /\ c = "start" => Level(finding'[f].status) >= 4 /\ finding'[f].implementer = a
           /\ c = "evidence" => a \in finding'[f].submitted
           /\ c # "evidence" \/ a = Analyst =>
                \A g \in Finding : finding'[g].evidence_submitter
                                     \in {Null, Analyst, finding[g].evidence_submitter}
  <1>1. PICK r \in Row : r = finding[f]
    BY DEF StagingInv, StagingTypeOK
  <1>2. RowIsSound(f, r)
    BY <1>1 DEF StagingInv
  <1>3. PICK q : q = Effect(f, c, a, r)
    OBVIOUS
  <1>4. /\ q \in Row /\ RowIsSound(f, q) /\ Later(r, q)
        /\ c = "start" => Level(q.status) >= 4 /\ q.implementer = a
        /\ c = "evidence" => a \in q.submitted
        /\ c # "evidence" => q.evidence_submitter \in {Null, r.evidence_submitter}
    BY <1>1, <1>2, <1>3, EffectIsSound
  <1>5. c = "evidence" => q.evidence_submitter = a
    BY <1>3 DEF Effect, Row
  <1>6. finding' = [finding EXCEPT ![f] = q] /\ finding \in [Finding -> Row]
    BY <1>1, <1>3 DEF StagingInv, StagingTypeOK
  <1>7. finding'[f] = q /\ \A g \in Finding : g # f => finding'[g] = finding[g]
    BY <1>6
  <1>8. \A g \in Finding : RowIsSound(g, finding[g]) /\ Later(finding[g], finding[g])
    BY <1>6, LaterReflexive DEF StagingInv
  <1>9. FindingsAdvance
    BY <1>1, <1>4, <1>6, <1>7, <1>8 DEF FindingsAdvance
  <1> QED BY <1>1, <1>4, <1>5, <1>7, <1>9

\* The transaction writes a sound row, and only the analyst's evidence.
LEMMA CommitServes ==
    ASSUME StagingInv, NEW s \in Slot, Commit(s)
    PROVE  /\ \E n : Served(s, n)
           /\ FindingsAdvance
           /\ \A g \in Finding : finding'[g].evidence_submitter
                                     \in {Null, Analyst, finding[g].evidence_submitter}
  <1>1. wire[s] # Null /\ wire[s].stage = "read"
    BY DEF Commit, InStage
  <1>2. PICK m \in Request, r \in Row : m = wire[s] /\ r = finding[wire[s].finding]
    BY <1>1, SlotParts
  <1>3. /\ m.call \in Call /\ m.actor \in Subject /\ m.finding \in Finding
        /\ r.status \in Status /\ Level(r.status) \in 0 .. 6
    BY RequestColumns, RowColumns
  <1>4. RequestIsSound(m, r) /\ RowIsSound(m.finding, r)
    BY <1>1, <1>2, SlotParts
  <1>5. /\ RoleOf[m.actor] \in Roles(m.call) /\ m.call # "get"
        /\ m.call = "approve" => m.finding = "E2E"
        /\ m.call = "verify" => m.actor = Approver
    BY <1>1, <1>2, <1>4 DEF RequestIsSound
  <1>6. CASE r.status \in From(m.call)
    <2>1. /\ finding' = [finding EXCEPT ![m.finding] =
                            Effect(m.finding, m.call, m.actor, finding[m.finding])]
          /\ wire' = [wire EXCEPT ![s].stage = "committed"]
      BY <1>2, <1>6 DEF Commit
    <2>2. m.call = "verify" => m.actor \notin {r.implementer, r.evidence_submitter}
      BY <1>4, <1>5, Subjects DEF RowIsSound
    <2>3. m.call = "evidence" => m.actor = Analyst
      BY <1>4, SentRequests DEF RequestIsSound
    <2>4. /\ FindingsAdvance
          /\ m.call = "start" => Level(finding'[m.finding].status) >= 4
                                 /\ finding'[m.finding].implementer = m.actor
          /\ m.call = "evidence" => m.actor \in finding'[m.finding].submitted
          /\ \A g \in Finding : finding'[g].evidence_submitter
                                     \in {Null, Analyst, finding[g].evidence_submitter}
      BY <1>2, <1>3, <1>5, <1>6, <2>1, <2>2, <2>3, WriteAdvances
    <2>5. PICK q \in Row : q = finding'[m.finding]
      BY <1>3, <2>4 DEF FindingsAdvance
    <2>6. RequestIsSound(m, q)
      BY <1>2, <1>3, <1>4, <2>4, <2>5, RequestKeeps DEF FindingsAdvance
    <2>7. PICK n : n = [m EXCEPT !.stage = "committed"]
      OBVIOUS
    <2>8. wire' = [wire EXCEPT ![s] = n]
      BY <1>2, <2>1, <2>7
    <2>9. /\ n \in Request /\ RequestIsSound(n, q) /\ n.call = m.call
          /\ n.finding = m.finding /\ n.actor = m.actor
      BY <1>5, <2>4, <2>5, <2>6, <2>7, StagedIsSound
    <2> QED BY <1>2, <2>4, <2>5, <2>8, <2>9 DEF Served
  <1>7. CASE r.status \notin From(m.call)
    <2>1. PICK o : o = IF m.call = "create" THEN "exists"
                       ELSE IF IsRetry(m.call, m.actor, r) THEN r.status
                       ELSE "transition"
      OBVIOUS
    <2>2. Reply(s, o) /\ finding' = finding
      BY <1>2, <1>7, <2>1 DEF Commit
    <2>3. "exists" \notin Status /\ "transition" \notin Status
          /\ "exists" \in Outcome /\ "transition" \in Outcome /\ Status \subseteq Outcome
      BY DEF Status, Error, Outcome
    <2>4. o \in Outcome /\ (o \in Status => o = r.status)
      BY <1>3, <2>1, <2>3
    <2>5. o \in Status => m.call = "evidence" /\ m.actor \in r.submitted
      BY <2>1, <2>3 DEF IsRetry
    <2>6. \E n : Served(s, n)
      BY <1>1, <1>2, <1>3, <2>2, <1>5, <2>4, <2>5, ReplyServes
    <2> QED BY <2>2, <2>6, StillAdvances
  <1> QED BY <1>6, <1>7

\* An outsider's request is admitted by the same checks.
LEMMA MeddleAdvances ==
    ASSUME StagingInv, NEW a \in Outsider, NEW c \in Call, Meddle(a, c)
    PROVE  FindingsAdvance
  <1>1. "E2E" \in Finding /\ finding["E2E"] \in Row /\ a \in Subject
    BY Subjects DEF Finding, StagingInv, StagingTypeOK
  <1>2. /\ Refusal(c, a, finding["E2E"]) = Null /\ finding["E2E"].status \in From(c)
        /\ finding' = [finding EXCEPT !["E2E"] = Effect("E2E", c, a, finding["E2E"])]
    BY DEF Meddle
  <1> QED BY <1>1, <1>2, NotRefused, WriteAdvances


-----------------------------------------------------------------------------
(* The way of an execution through the gates of its phase *)

\* In each phase, an execution at gate i that gets the outcome o it wants goes on
\* to gate n; one past the last gate it reports.
LEMMA PrepareMoves ==
    ASSUME NEW p, p = "analyst_prepare", NEW i \in 1 .. 11, NEW x \in SeenAt(p, i),
           NEW o \in Gates(p)[i].want, NEW y, y = IF o \in Status THEN o ELSE x,
           NEW n, n = NextGate(p, i, y)
    PROVE  /\ y \in Status /\ n \in 1 .. 12
           /\ n <= 11 => y \in SeenAt(p, n)
           /\ n = 5 => i \in {3, 4} /\ o \in Status /\ y = o
           /\ n >= 8 => \/ i >= 8
                        \/ i = 5 /\ x = "pending_approval"
                        \/ i = 7 /\ o = "pending_approval"
           /\ n = 12 => i \in {8, 11} /\ o = "pending_approval"
  <1>1. \/ i \in {1, 2} /\ y = "absent"
        \/ i \in {3, 8} /\ y = o /\ o \in {"absent", "open", "risk_assessed", "pending_approval"}
        \/ i \in {4, 9} /\ y = o /\ o = "open"
        \/ i = 5 /\ y = x /\ x \in {"open", "risk_assessed", "pending_approval"}
        \/ i \in {6, 10} /\ y = o /\ o = "risk_assessed"
        \/ i \in {7, 11} /\ y = o /\ o = "pending_approval"
    BY PrepareGates DEF SeenAt, Prepare, Propose, Resume, Probe, Step, Gate, Status
  <1>2. y \in Status
    BY <1>1 DEF Status
  <1>3. /\ i = 1 => n = 2
        /\ i = 2 => n = 3
        /\ i = 3 => n = IF y = "absent" THEN 4 ELSE 5
        /\ i = 4 => n = 5
        /\ i = 5 => n = IF y = "open" THEN 6 ELSE IF y = "risk_assessed" THEN 7 ELSE 8
        /\ i = 6 => n = IF y = "risk_assessed" THEN 7 ELSE 8
        /\ i = 7 => n = 8
        /\ i = 8 => n = IF y = "absent" THEN 9 ELSE IF y = "open" THEN 10
                       ELSE IF y = "risk_assessed" THEN 11 ELSE 12
        /\ i = 9 => n = IF y = "open" THEN 10 ELSE IF y = "risk_assessed" THEN 11 ELSE 12
        /\ i = 10 => n = IF y = "risk_assessed" THEN 11 ELSE 12
        /\ i = 11 => n = 12
    BY <1>2, PrepareNext
  <1>4. /\ \A k \in 1 .. 4 : SeenAt(p, k) = {"absent"}
        /\ SeenAt(p, 5) = {"open", "risk_assessed", "pending_approval"}
        /\ SeenAt(p, 6) = {"open"} /\ SeenAt(p, 7) = {"risk_assessed"}
        /\ SeenAt(p, 8) = {"pending_approval"} /\ SeenAt(p, 9) = {"absent"}
        /\ SeenAt(p, 10) = {"open"} /\ SeenAt(p, 11) = {"risk_assessed"}
    BY DEF SeenAt
  <1> QED BY <1>1, <1>2, <1>3, <1>4

\* The same for the other phases.
LEMMA ApproveMoves ==
    ASSUME NEW p, p = "approver_approve", NEW i \in 1 .. 5, NEW x \in SeenAt(p, i),
           NEW o \in Gates(p)[i].want, NEW y, y = IF o \in Status THEN o ELSE x,
           NEW n, n = NextGate(p, i, y)
    PROVE  /\ y \in Status /\ n \in 1 .. 6
           /\ n <= 5 => y \in SeenAt(p, n)
           /\ n = 6 => i \in {3, 5} /\ o = "approved"
  <1>1. \/ i \in {1, 2, 4} /\ y = "pending_approval"
        \/ i = 3 /\ y = o /\ o \in {"pending_approval", "approved"}
        \/ i = 5 /\ y = o /\ o = "approved"
    BY ApproveGates DEF SeenAt, Resume, Probe, Step, Gate, Status
  <1>2. y \in Status
    BY <1>1 DEF Status
  <1>3. /\ i = 1 => n = 2
        /\ i = 2 => n = 3
        /\ i = 3 => n = IF y = "pending_approval" THEN 4 ELSE 6
        /\ i = 4 => n = IF y = "pending_approval" THEN 5 ELSE 6
        /\ i = 5 => n = 6
    BY <1>2, ApproveNext
  <1>4. \A k \in 2 .. 5 : SeenAt(p, k) = {"pending_approval"}
    BY DEF SeenAt
  <1> QED BY <1>1, <1>2, <1>3, <1>4

LEMMA RemediateMoves ==
    ASSUME NEW p, p = "analyst_remediate", NEW i \in 1 .. 4, NEW x \in SeenAt(p, i),
           NEW o \in Gates(p)[i].want, NEW y, y = IF o \in Status THEN o ELSE x,
           NEW n, n = NextGate(p, i, y)
    PROVE  /\ y \in Status /\ n \in 1 .. 5
           /\ n <= 4 => y \in SeenAt(p, n)
           /\ n = 3 => i \in {1, 2} /\ o = "in_progress"
           /\ n = 4 => i \in {1, 3} /\ o = "pending_verification"
           /\ n = 5 => i = 4
  <1>1. \/ i = 1 /\ y = o /\ o \in {"approved", "in_progress", "pending_verification"}
        \/ i = 2 /\ y = o /\ o = "in_progress"
        \/ i = 3 /\ y = o /\ o = "pending_verification"
        \/ i = 4 /\ y = "pending_verification"
    BY RemediateGates DEF SeenAt, Resume, Probe, Step, Gate, Status
  <1>2. y \in Status
    BY <1>1 DEF Status
  <1>3. /\ i = 1 => n = IF y = "approved" THEN 2 ELSE IF y = "in_progress" THEN 3 ELSE 4
        /\ i = 2 => n = IF y = "in_progress" THEN 3 ELSE 4
        /\ i = 3 => n = 4
        /\ i = 4 => n = 5
    BY <1>2, RemediateNext
  <1>4. /\ SeenAt(p, 2) = {"approved"} /\ SeenAt(p, 3) = {"in_progress"}
        /\ SeenAt(p, 4) = {"pending_verification"}
    BY DEF SeenAt
  <1> QED BY <1>1, <1>2, <1>3, <1>4

LEMMA CloseMoves ==
    ASSUME NEW p, p = "approver_close", NEW i \in 1 .. 4, NEW x \in SeenAt(p, i),
           NEW o \in Gates(p)[i].want, NEW y, y = IF o \in Status THEN o ELSE x,
           NEW n, n = NextGate(p, i, y)
    PROVE  /\ y \in Status /\ n \in 1 .. 5
           /\ n <= 4 => y \in SeenAt(p, n)
           /\ i = 1 => o \in {"pending_verification", "verified", "closed"}
           /\ n = 5 => i = 4 /\ o = "closed"
  <1>1. \/ i = 1 /\ y = o /\ o \in {"pending_verification", "verified", "closed"}
        \/ i = 2 /\ y = o /\ o = "verified"
        \/ i \in {3, 4} /\ y = o /\ o = "closed"
    BY CloseGates DEF SeenAt, Resume, Probe, Step, Gate, Status
  <1>2. y \in Status
    BY <1>1 DEF Status
  <1>3. /\ i = 1 => n = IF y = "pending_verification" THEN 2
                       ELSE IF y = "verified" THEN 3 ELSE 4
        /\ i = 2 => n = IF y = "verified" THEN 3 ELSE 4
        /\ i = 3 => n = 4
        /\ i = 4 => n = 5
    BY <1>2, CloseNext
  <1>4. /\ SeenAt(p, 2) = {"pending_verification"} /\ SeenAt(p, 3) = {"verified"}
        /\ SeenAt(p, 4) = {"closed"}
    BY DEF SeenAt
  <1> QED BY <1>1, <1>2, <1>3, <1>4

\* Every phase starts at its first gate.
LEMMA FirstMove ==
    ASSUME NEW p \in Phase
    PROVE  NextGate(p, 0, "absent") = 1 /\ "absent" \in SeenAt(p, 1)
  <1>1. "absent" \in Status
    BY DEF Status
  <1>2. NextGate(p, 0, "absent") = 1
    BY <1>1, Phases, PrepareNext, ApproveNext, RemediateNext, CloseNext
  <1> QED BY <1>2, Phases DEF SeenAt

-----------------------------------------------------------------------------
(* Steps keep the invariant *)

\* An execution's slot is never an orphan's.
LEMMA Slots ==
    /\ Execution \subseteq Slot /\ Orphan \subseteq Slot /\ Execution \cap Orphan = {}
    /\ Slot = Execution \cup Orphan
  BY SubjectsAssumption, BoundsAssumption DEF Slot, Orphan

\* What an execution, a report and a request left behind say about a finding
\* stays true as the finding moves on.
LEMMA ExecutionKeeps ==
    ASSUME NEW x, x.seen \in Status, NEW r \in Row, NEW q \in Row, Later(r, q),
           ExecutionIsSound(x, r)
    PROVE  ExecutionIsSound(x, q)
  <1>1. /\ Level(x.seen) \in 0 .. 6 /\ Level(r.status) \in 0 .. 6
        /\ Level(q.status) \in 0 .. 6 /\ Level(r.status) <= Level(q.status)
    BY Levels, RowColumns DEF Later
  <1>2. /\ Started(r) => Started(q)
        /\ Evidenced(r) => Evidenced(q)
    BY <1>1 DEF Started, Evidenced, Later
  <1>3. /\ Level(x.seen) <= Level(r.status) => Level(x.seen) <= Level(q.status)
        /\ Level(r.status) >= 2 => Level(q.status) >= 2
    BY <1>1
  <1> QED BY <1>2, <1>3 DEF ExecutionIsSound

\* What the reports say stays true as the findings move on.
LEMMA PassedKeeps ==
    ASSUME StagingInv, FindingsAdvance, passed' = passed
    PROVE  PassedIsSound'
  <1>1. \A f \in Finding : /\ finding[f] \in Row /\ finding'[f] \in Row
                           /\ Later(finding[f], finding'[f])
    BY DEF FindingsAdvance, StagingInv, StagingTypeOK
  <1>2. \A f \in Finding : /\ Level(finding[f].status) \in 0 .. 6
                           /\ Level(finding'[f].status) \in 0 .. 6
                           /\ Level(finding[f].status) <= Level(finding'[f].status)
    BY <1>1, RowColumns DEF Later
  <1>3. PICK r \in Row, q \in Row : r = finding["E2E"] /\ q = finding'["E2E"]
    BY <1>1 DEF Finding
  <1>4. /\ Evidenced(r) => Evidenced(q)
        /\ Analyst \in r.submitted => Analyst \in q.submitted
        /\ Level(r.status) <= Level(q.status) /\ Level(r.status) \in 0 .. 6
        /\ Level(q.status) \in 0 .. 6 /\ q.status \in Status
    BY <1>1, <1>3, RowColumns DEF Evidenced, Started, Later, Finding
  <1>5. r.status = "closed" => q.status = "closed"
    BY <1>4, Levels, LevelInverse
  <1>6. PassedIsSound
    BY DEF StagingInv
  <1>7. /\ "analyst_prepare" \in passed => \A f \in Finding : Level(finding'[f].status) >= 2
        /\ "approver_approve" \in passed => Level(q.status) >= 3
        /\ "analyst_remediate" \in passed => Analyst \in q.submitted
        /\ "approver_close" \in passed => Evidenced(q) /\ q.status = "closed"
    BY <1>2, <1>3, <1>4, <1>5, <1>6 DEF PassedIsSound
  <1> QED BY <1>3, <1>7 DEF PassedIsSound

\* The parts of the invariant that a step leaves alone or proves anew.
LEMMA StepKeeps ==
    ASSUME StagingInv, FindingsAdvance, StagingTypeOK', PassedIsSound',
           EvidenceIsByTheBook',
           \A s \in Slot : wire'[s] # Null =>
              \/ wire'[s] = wire[s]
              \/ RequestIsSound(wire'[s], finding'[wire'[s].finding]),
           \A e \in Execution : execution'[e].phase # Null =>
              \/ execution'[e] = execution[e]
              \/ ExecutionIsSound(execution'[e], finding'["E2E"])
    PROVE  StagingInv'
  <1>1. \A f \in Finding : /\ finding[f] \in Row /\ finding'[f] \in Row
                           /\ Later(finding[f], finding'[f])
    BY DEF FindingsAdvance, StagingInv, StagingTypeOK
  <1>2. ASSUME NEW s \in Slot, wire'[s] # Null
        PROVE  RequestIsSound(wire'[s], finding'[wire'[s].finding])
    <2>1. CASE wire'[s] = wire[s]
      <3>1. PICK m \in Request : m = wire[s]
        BY <1>2, <2>1, SlotParts
      <3>2. RequestIsSound(m, finding[m.finding]) /\ m.finding \in Finding
        BY <1>2, <2>1, <3>1, SlotParts
      <3>3. RequestIsSound(m, finding'[m.finding])
        BY <1>1, <3>2, RequestKeeps
      <3> QED BY <2>1, <3>1, <3>3
    <2> QED BY <1>2, <2>1
  <1>3. ASSUME NEW e \in Execution, execution'[e].phase # Null
        PROVE  ExecutionIsSound(execution'[e], finding'["E2E"])
    <2>1. CASE execution'[e] = execution[e]
      <3>1. PICK x : x = execution[e]
        OBVIOUS
      <3>2. ExecutionIsSound(x, finding["E2E"]) /\ x.seen \in Status
        BY <1>3, <2>1, <3>1 DEF StagingInv, StagingTypeOK
      <3>3. ExecutionIsSound(x, finding'["E2E"])
        BY <1>1, <3>2, ExecutionKeeps DEF Finding
      <3> QED BY <2>1, <3>1, <3>3
    <2> QED BY <1>3, <2>1
  <1>4. \A f \in Finding : RowIsSound(f, finding'[f])
    BY DEF FindingsAdvance
  <1> QED BY <1>2, <1>3, <1>4 DEF StagingInv

\* The server keeps the invariant.
LEMMA ServeKeeps ==
    ASSUME StagingInv, NEW s \in Slot, Serve(s)
    PROVE  StagingInv'
  <1>1. /\ UNCHANGED <<execution, upsets, bythebook, passed>>
    BY DEF Serve, Admit, Commit, Answer
  <1>2. /\ FindingsAdvance
        /\ \A g \in Finding : finding'[g].evidence_submitter
                                \in {Null, Analyst, finding[g].evidence_submitter}
    BY StillAdvances, CommitServes DEF Serve, Admit, Answer
  <1>3. PICK n : Served(s, n)
    BY AdmitServes, CommitServes, AnswerServes DEF Serve
  <1>4. wire[s] # Null
    BY DEF Serve, Admit, Commit, Answer, InStage
  <1>5. wire \in [Slot -> Request \cup {Null}] /\ n \in Request \cup {Null}
    BY <1>3 DEF StagingInv, StagingTypeOK, Served
  <1>6. /\ wire' \in [Slot -> Request \cup {Null}] /\ wire'[s] = n
        /\ \A t \in Slot : t # s => wire'[t] = wire[t]
    BY <1>3, <1>5 DEF Served
  <1>7. StagingTypeOK'
    <2>1. ASSUME NEW e \in Execution
          PROVE  LET x == execution[e] IN
                 IF x.phase = Null THEN x = NotRunning /\ wire'[e] = Null
                 ELSE /\ x.gate \in 1 .. Len(Gates(x.phase))
                      /\ wire'[e] # Null /\ wire'[e].call = Gates(x.phase)[x.gate].call
                      /\ wire'[e].finding = Gates(x.phase)[x.gate].finding
                      /\ wire'[e].actor = SubjectOf(x.phase)
      <3>1. CASE e # s
        BY <1>6, <3>1, Slots DEF StagingInv, StagingTypeOK
      <3>2. CASE e = s
        <4>1. /\ n # Null /\ n.call = wire[s].call /\ n.finding = wire[s].finding
              /\ n.actor = wire[s].actor
          BY <1>3, <3>2, Slots, RequestColumns DEF Served
        <4> QED BY <1>4, <1>6, <3>2, <4>1 DEF StagingInv, StagingTypeOK
      <3> QED BY <3>1, <3>2
    <2> QED BY <1>1, <1>2, <1>6, <2>1 DEF StagingInv, StagingTypeOK, FindingsAdvance
  <1>8. PassedIsSound'
    BY <1>1, <1>2, PassedKeeps
  <1>9. EvidenceIsByTheBook'
    BY <1>1, <1>2 DEF StagingInv, EvidenceIsByTheBook
  <1>10. \A t \in Slot : wire'[t] # Null =>
              \/ wire'[t] = wire[t]
              \/ RequestIsSound(wire'[t], finding'[wire'[t].finding])
    BY <1>3, <1>6 DEF Served
  <1> QED BY <1>1, <1>2, <1>7, <1>8, <1>9, <1>10, StepKeeps

\* An outsider keeps the invariant.
LEMMA MeddleKeeps ==
    ASSUME StagingInv, NEW a \in Outsider, NEW c \in Call, Meddle(a, c)
    PROVE  StagingInv'
  <1>1. /\ UNCHANGED <<execution, wire, passed>> /\ bythebook' = FALSE
        /\ upsets' \in 0 .. MaxUpsets
    BY BoundsAssumption DEF Meddle, StagingInv, StagingTypeOK
  <1>2. FindingsAdvance
    BY MeddleAdvances
  <1>3. StagingTypeOK'
    BY <1>1, <1>2 DEF StagingInv, StagingTypeOK, FindingsAdvance
  <1>4. PassedIsSound' /\ EvidenceIsByTheBook'
    BY <1>1, <1>2, PassedKeeps DEF EvidenceIsByTheBook
  <1> QED BY <1>1, <1>2, <1>3, <1>4, StepKeeps

\* What a passed gate lets an execution conclude: when it goes on, what it will
\* have at the next gate; when it is done, what its report says.
Concluded(p, n, y) ==
    LET r == finding["E2E"] IN
    /\ y \in Status /\ n \in 1 .. (Len(Gates(p)) + 1)
    /\ n <= Len(Gates(p)) => ExecutionIsSound([phase |-> p, gate |-> n, seen |-> y], r)
    /\ n > Len(Gates(p)) =>
         /\ p = "analyst_prepare" => \A f \in Finding : Level(finding[f].status) >= 2
         /\ p = "approver_approve" => Level(r.status) >= 3
         /\ p = "analyst_remediate" => Analyst \in r.submitted
         /\ p = "approver_close" => Evidenced(r) /\ r.status = "closed"

\* A phase that resumes at a finding in or past remediation has compared its
\* implementer, and its submitter once there is evidence.
LEMMA ResumedRow ==
    ASSUME NEW q \in Row, NEW r \in Row, RowIsSound("E2E", q), Later(q, r),
           NEW g, g.fields = Worked, g.finding = "E2E", FieldsMatch(g, q)
    PROVE  /\ q.status \in {"in_progress", "pending_verification", "verified", "closed"}
                => Started(r)
           /\ q.status \in {"pending_verification", "verified", "closed"} => Evidenced(r)
  <1>1. /\ q.status \in Status /\ Level(q.status) \in 0 .. 6 /\ Level(r.status) \in 0 .. 6
        /\ Level(q.status) <= Level(r.status)
    BY RowColumns DEF Later
  <1>2. \A field \in Worked[q.status] : q[field] = Expected("E2E", field)
    BY DEF FieldsMatch
  <1>3. q.status \in {"in_progress", "pending_verification", "verified", "closed"}
        => q.implementer = Analyst
    <2> SUFFICES ASSUME q.status \in {"in_progress", "pending_verification", "verified", "closed"}
                 PROVE  q["implementer"] = Analyst
      OBVIOUS
    <2>1. "implementer" \in Worked[q.status]
      BY <1>1 DEF Worked
    <2>2. Expected("E2E", "implementer") = Analyst
      BY DEF Expected
    <2> QED BY <1>2, <2>1, <2>2
  <1>4. q.status \in {"pending_verification", "verified", "closed"}
        => q.evidence_submitter = Analyst
    <2> SUFFICES ASSUME q.status \in {"pending_verification", "verified", "closed"}
                 PROVE  q["evidence_submitter"] = Analyst
      OBVIOUS
    <2>1. "evidence_submitter" \in Worked[q.status]
      BY <1>1 DEF Worked
    <2>2. Expected("E2E", "evidence_submitter") = Analyst
      BY DEF Expected
    <2> QED BY <1>2, <2>1, <2>2
  <1>5. q.status \in {"in_progress", "pending_verification", "verified", "closed"}
        => Level(q.status) >= 4
    BY Levels
  <1>6. q.evidence_submitter = Analyst => Analyst \in q.submitted
    BY Subjects DEF RowIsSound
  <1> QED BY <1>1, <1>3, <1>4, <1>5, <1>6 DEF Started, Evidenced, Later

\* An execution whose gate passes knows what the next gate, or its report, needs.
LEMMA PassedGateConcludes ==
    ASSUME StagingInv, NEW e \in Execution, execution[e].phase # Null,
           InStage(e, "answered"),
           NEW p, p = execution[e].phase, NEW i, i = execution[e].gate,
           NEW m, m = wire[e], Passes(Gates(p)[i], m),
           NEW y, y = IF m.outcome \in Status THEN m.outcome ELSE execution[e].seen,
           NEW n, n = NextGate(p, i, y)
    PROVE  Concluded(p, n, y)
  <1>1. /\ m \in Request /\ m # Null /\ m.stage = "answered" /\ p \in Phase
        /\ m.finding \in Finding
        /\ i \in 1 .. Len(Gates(p)) /\ m.call = Gates(p)[i].call
        /\ m.finding = Gates(p)[i].finding
        /\ RequestIsSound(m, finding[m.finding])
    <2>1. wire[e] # Null /\ e \in Slot
      BY Slots DEF InStage
    <2> QED BY <2>1, SlotParts DEF StagingInv, StagingTypeOK, InStage
  <1>2. PICK r \in Row : r = finding["E2E"]
    BY DEF StagingInv, StagingTypeOK, Finding
  <1>3. PICK x : x = execution[e]
    OBVIOUS
  <1>4. ExecutionIsSound(x, r) /\ x.phase = p /\ x.gate = i
    BY <1>2, <1>3 DEF StagingInv
  <1>5. PICK o : o = m.outcome
    OBVIOUS
  <1>6. /\ o \in Gates(p)[i].want /\ x.seen \in SeenAt(p, i)
        /\ y = IF o \in Status THEN o ELSE x.seen
    BY <1>3, <1>4, <1>5 DEF Passes, ExecutionIsSound
  <1>7. o \in Status => Level(o) <= Level(finding[m.finding].status)
    BY <1>1, <1>5 DEF RequestIsSound
  <1>8. r.status \in Status /\ Level(r.status) \in 0 .. 6
    BY RowColumns
  <1>9. CASE p = "analyst_prepare"
    <2>1. Len(Gates(p)) = 11
      BY <1>9, PrepareGates
    <2>2. i \in 1 .. 11
      BY <1>1, <2>1
    <2>3. /\ y \in Status /\ n \in 1 .. 12
          /\ n <= 11 => y \in SeenAt(p, n)
          /\ n = 5 => i \in {3, 4} /\ o \in Status /\ y = o
          /\ n >= 8 => \/ i >= 8
                       \/ i = 5 /\ x.seen = "pending_approval"
                       \/ i = 7 /\ o = "pending_approval"
          /\ n = 12 => i \in {8, 11} /\ o = "pending_approval"
      BY <1>6, <1>9, <2>2, PrepareMoves
    <2>4. /\ i \in {3, 4, 5, 6, 7} => m.finding = "E2E"
          /\ i \in {8, 9, 10, 11} => m.finding = "SOD"
      <3>1. /\ Gates(p)[3].finding = "E2E" /\ Gates(p)[4].finding = "E2E"
            /\ Gates(p)[5].finding = "E2E" /\ Gates(p)[6].finding = "E2E"
            /\ Gates(p)[7].finding = "E2E"
        BY <1>9, PrepareFields
      <3>2. /\ Gates(p)[8].finding = "SOD" /\ Gates(p)[9].finding = "SOD"
            /\ Gates(p)[10].finding = "SOD" /\ Gates(p)[11].finding = "SOD"
        BY <1>9, PrepareFields
      <3>3. m.finding = Gates(p)[i].finding
        BY <1>1
      <3>4. i \in {3, 4, 5, 6, 7} => m.finding = "E2E"
        BY <3>1, <3>3
      <3>5. i \in {8, 9, 10, 11} => m.finding = "SOD"
        BY <3>2, <3>3
      <3> QED BY <3>4, <3>5
    <2>5. n = 5 => Level(y) <= Level(r.status)
      BY <1>2, <1>7, <2>3, <2>4
    <2>6. n >= 8 => Level(r.status) >= 2
      <3>1. CASE i >= 8
        BY <1>4, <1>9, <3>1 DEF ExecutionIsSound
      <3>2. CASE i = 5 /\ x.seen = "pending_approval"
        BY <1>4, <1>8, <1>9, <3>2, Levels DEF ExecutionIsSound
      <3>3. CASE i = 7 /\ o = "pending_approval"
        BY <1>2, <1>7, <1>8, <2>4, <3>3, Levels DEF Status
      <3> QED BY <2>3, <3>1, <3>2, <3>3
    <2>7. n = 12 => Level(finding["SOD"].status) >= 2
      <3>1. Level(finding["SOD"].status) \in 0 .. 6
        BY RowColumns DEF StagingInv, StagingTypeOK, Finding
      <3> QED BY <1>7, <2>3, <2>4, <3>1, Levels DEF Status
    <2>8. n = 12 => \A f \in Finding : Level(finding[f].status) >= 2
      BY <1>2, <2>6, <2>7 DEF Finding
    <2>9. n <= 11 => ExecutionIsSound([phase |-> p, gate |-> n, seen |-> y], r)
      BY <1>9, <2>3, <2>5, <2>6 DEF ExecutionIsSound
    <2>10. n \in 1 .. (Len(Gates(p)) + 1) /\ (n <= Len(Gates(p)) => n <= 11)
           /\ (n > Len(Gates(p)) => n = 12)
      BY <2>1, <2>3
    <2> QED BY <1>2, <1>9, <2>3, <2>8, <2>9, <2>10 DEF Concluded
  <1>10. CASE p = "approver_approve"
    <2>1. Len(Gates(p)) = 5
      BY <1>10, ApproveGates
    <2>2. i \in 1 .. 5
      BY <1>1, <2>1
    <2>3. /\ y \in Status /\ n \in 1 .. 6
          /\ n <= 5 => y \in SeenAt(p, n)
          /\ n = 6 => i \in {3, 5} /\ o = "approved"
      BY <1>6, <1>10, <2>2, ApproveMoves
    <2>4. i \in {3, 5} => m.finding = "E2E"
      BY <1>1, <1>10, ApproveGates DEF Resume, Step, Gate
    <2>5. n = 6 => Level(r.status) >= 3
      BY <1>2, <1>7, <1>8, <2>3, <2>4, Levels DEF Status
    <2>6. n <= 5 => ExecutionIsSound([phase |-> p, gate |-> n, seen |-> y], r)
      BY <1>10, <2>3 DEF ExecutionIsSound
    <2>7. n \in 1 .. (Len(Gates(p)) + 1) /\ (n <= Len(Gates(p)) => n <= 5)
          /\ (n > Len(Gates(p)) => n = 6)
      BY <2>1, <2>3
    <2> QED BY <1>2, <1>10, <2>3, <2>5, <2>6, <2>7 DEF Concluded
  <1>11. CASE p = "analyst_remediate"
    <2>1. Len(Gates(p)) = 4
      BY <1>11, RemediateGates
    <2>2. i \in 1 .. 4
      BY <1>1, <2>1
    <2>3. /\ y \in Status /\ n \in 1 .. 5
          /\ n <= 4 => y \in SeenAt(p, n)
          /\ n = 3 => i \in {1, 2} /\ o = "in_progress"
          /\ n = 4 => i \in {1, 3} /\ o = "pending_verification"
          /\ n = 5 => i = 4
      BY <1>6, <1>11, <2>2, RemediateMoves
    <2>4. m.finding = "E2E" /\ RequestIsSound(m, r)
      BY <1>1, <1>2, <1>11, <2>2, RemediateGates DEF Resume, Probe, Step, Gate
    <2>5. /\ i = 1 => m.call = "get" /\ Gates(p)[i].fields = Worked
          /\ i = 2 => m.call = "start" /\ m.actor = Analyst
          /\ i = 3 => m.call = "evidence" /\ m.actor = Analyst
      <3>1. m.actor = Analyst
        BY <1>11, Phases DEF StagingInv, StagingTypeOK
      <3> QED BY <1>1, <1>11, <3>1, RemediateGates DEF Resume, Step, Gate
    <2>6. i = 1 => /\ o = "in_progress" => Started(r)
                   /\ o = "pending_verification" => Evidenced(r)
      <3> SUFFICES ASSUME i = 1, o \in {"in_progress", "pending_verification"}
                   PROVE  /\ o = "in_progress" => Started(r)
                          /\ o = "pending_verification" => Evidenced(r)
        OBVIOUS
      <3>1. o = m.row.status /\ RowIsSound("E2E", m.row) /\ Later(m.row, r)
        BY <1>1, <1>5, <2>4, <2>5 DEF RequestIsSound
      <3>2. FieldsMatch(Gates(p)[i], m.row)
        BY <1>5 DEF Passes
      <3>3. Gates(p)[i].finding = "E2E" /\ m.row \in Row
        BY <1>1, <2>4, RequestColumns
      <3>4. PICK g : g = Gates(p)[i]
        OBVIOUS
      <3>5. PICK q \in Row : q = m.row
        BY <3>3
      <3> QED BY <2>5, <3>1, <3>2, <3>3, <3>4, <3>5, ResumedRow
    <2>7. n = 3 => Started(r)
      BY <1>1, <1>5, <2>3, <2>4, <2>5, <2>6 DEF RequestIsSound, Started, Status
    <2>8. n = 4 => Evidenced(r)
      <3>1. CASE i = 1
        BY <2>3, <2>6, <3>1
      <3>2. CASE i = 3
        <4>1. Started(r)
          BY <1>4, <1>11, <3>2 DEF ExecutionIsSound
        <4>2. n = 4 => Analyst \in r.submitted
          BY <1>1, <1>5, <2>3, <2>4, <2>5, <3>2 DEF RequestIsSound, Status
        <4> QED BY <4>1, <4>2 DEF Evidenced
      <3> QED BY <2>3, <3>1, <3>2
    <2>9. n = 5 => Analyst \in r.submitted
      BY <1>4, <1>11, <2>3 DEF ExecutionIsSound, Evidenced
    <2>10. n <= 4 => ExecutionIsSound([phase |-> p, gate |-> n, seen |-> y], r)
      <3>1. Evidenced(r) => Started(r)
        BY DEF Evidenced
      <3> QED BY <1>11, <2>3, <2>7, <2>8, <3>1 DEF ExecutionIsSound
    <2>11. n \in 1 .. (Len(Gates(p)) + 1) /\ (n <= Len(Gates(p)) => n <= 4)
           /\ (n > Len(Gates(p)) => n = 5)
      BY <2>1, <2>3
    <2> QED BY <1>2, <1>11, <2>3, <2>9, <2>10, <2>11 DEF Concluded
  <1>12. CASE p = "approver_close"
    <2>1. Len(Gates(p)) = 4
      BY <1>12, CloseGates
    <2>2. i \in 1 .. 4
      BY <1>1, <2>1
    <2>3. /\ y \in Status /\ n \in 1 .. 5
          /\ n <= 4 => y \in SeenAt(p, n)
          /\ i = 1 => o \in {"pending_verification", "verified", "closed"}
          /\ n = 5 => i = 4 /\ o = "closed"
      BY <1>6, <1>12, <2>2, CloseMoves
    <2>4. m.finding = "E2E" /\ RequestIsSound(m, r)
      BY <1>1, <1>2, <1>12, <2>2, CloseGates DEF Resume, Step, Gate
    <2>5. Evidenced(r)
      <3>1. CASE i = 1
        <4>1. m.call = "get" /\ Gates(p)[i].fields = Worked
          BY <1>1, <1>12, <3>1, CloseGates DEF Resume
        <4>2. o = m.row.status /\ RowIsSound("E2E", m.row) /\ Later(m.row, r)
          BY <1>1, <1>5, <2>4, <4>1 DEF RequestIsSound
        <4>3. FieldsMatch(Gates(p)[i], m.row)
          BY <1>5, <2>3, <3>1 DEF Passes
        <4>4. Gates(p)[i].finding = "E2E" /\ m.row \in Row
          BY <1>1, <2>4, RequestColumns
        <4>5. PICK g : g = Gates(p)[i]
          OBVIOUS
        <4>6. PICK q \in Row : q = m.row
          BY <4>4
        <4> QED BY <2>3, <3>1, <4>1, <4>2, <4>3, <4>4, <4>5, <4>6, ResumedRow
      <3>2. CASE i >= 2
        BY <1>4, <1>12, <3>2 DEF ExecutionIsSound
      <3> QED BY <2>2, <3>1, <3>2
    <2>6. n = 5 => r.status = "closed"
      <3>1. n = 5 => Level(r.status) >= 6
        BY <1>2, <1>7, <1>8, <2>3, <2>4, Levels DEF Status
      <3> QED BY <1>8, <3>1, LevelInverse
    <2>7. n <= 4 => ExecutionIsSound([phase |-> p, gate |-> n, seen |-> y], r)
      BY <1>12, <2>3, <2>5 DEF ExecutionIsSound
    <2>8. n \in 1 .. (Len(Gates(p)) + 1) /\ (n <= Len(Gates(p)) => n <= 4)
          /\ (n > Len(Gates(p)) => n = 5)
      BY <2>1, <2>3
    <2> QED BY <1>2, <1>12, <2>3, <2>5, <2>6, <2>7, <2>8 DEF Concluded
  <1> QED BY <1>1, <1>9, <1>10, <1>11, <1>12, Phases

-----------------------------------------------------------------------------
(* Executions keep the invariant *)

LEMMA NullIsNoPhase == Null \notin Phase
  BY NullAssumption

\* A request that was just sent is sound: only the last gate of analyst_remediate
\* has the analyst verify, and it is tried on a finding the analyst works on.
LEMMA SentIsSound ==
    ASSUME StagingInv, NEW p \in Phase, NEW n \in 1 .. Len(Gates(p)), NEW y,
           ExecutionIsSound([phase |-> p, gate |-> n, seen |-> y], finding["E2E"])
    PROVE  RequestIsSound(Sent(p, n), finding[Sent(p, n).finding])
  <1>1. PICK m \in Request : m = Sent(p, n)
    BY SentType
  <1>2. IsSentBy(m, p, n) /\ m.stage = "sent"
    BY <1>1, SentType
  <1>3. m.call = "verify" /\ m.actor = Analyst => Started(finding[m.finding])
    <2> SUFFICES ASSUME m.call = "verify", m.actor = Analyst
                 PROVE  Started(finding[m.finding])
      OBVIOUS
    <2>1. p = "analyst_remediate" /\ n = 4 /\ m.finding = "E2E"
      BY <1>2, SentRequests, Subjects
    <2> QED BY <2>1 DEF ExecutionIsSound
  <1>4. RequestIsSound(m, finding[m.finding])
    BY <1>2, <1>3 DEF RequestIsSound
  <1> QED BY <1>1, <1>4

\* An execution that goes to a gate and sends its request.
LEMMA SendKeeps ==
    ASSUME StagingInv, NEW e \in Execution, NEW p \in Phase,
           NEW n \in 1 .. Len(Gates(p)), NEW y \in Status,
           ExecutionIsSound([phase |-> p, gate |-> n, seen |-> y], finding["E2E"]),
           execution' = [execution EXCEPT ![e] = [phase |-> p, gate |-> n, seen |-> y]],
           wire' = [wire EXCEPT ![e] = Sent(p, n)],
           finding' = finding, passed' = passed, upsets' \in 0 .. MaxUpsets,
           bythebook' \in BOOLEAN, bythebook' => bythebook
    PROVE  StagingInv'
  <1>1. FindingsAdvance
    BY StillAdvances
  <1>2. PICK x : x = [phase |-> p, gate |-> n, seen |-> y]
    OBVIOUS
  <1>3. /\ x \in [phase: Phase \cup {Null}, gate: Nat, seen: Status] /\ x.phase # Null
        /\ x.phase = p /\ x.gate = n /\ x.seen = y
    BY <1>2, NullIsNoPhase, PhaseLengths
  <1>4. PICK m \in Request : m = Sent(p, n)
    BY SentType
  <1>5. m # Null /\ IsSentBy(m, p, n) /\ RequestIsSound(m, finding[m.finding])
    BY <1>4, SentType, SentIsSound, RequestColumns
  <1>6. /\ execution \in [Execution -> [phase: Phase \cup {Null}, gate: Nat, seen: Status]]
        /\ wire \in [Slot -> Request \cup {Null}] /\ e \in Slot
    BY Slots DEF StagingInv, StagingTypeOK
  <1>7. /\ execution' \in [Execution -> [phase: Phase \cup {Null}, gate: Nat, seen: Status]]
        /\ execution'[e] = x
        /\ \A d \in Execution : d # e => execution'[d] = execution[d]
    BY <1>2, <1>3, <1>6
  <1>8. /\ wire' \in [Slot -> Request \cup {Null}] /\ wire'[e] = m
        /\ \A t \in Slot : t # e => wire'[t] = wire[t]
    BY <1>4, <1>6
  <1>9. StagingTypeOK'
    <2>1. ASSUME NEW d \in Execution
          PROVE  LET z == execution'[d] IN
                 IF z.phase = Null THEN z = NotRunning /\ wire'[d] = Null
                 ELSE /\ z.gate \in 1 .. Len(Gates(z.phase))
                      /\ wire'[d] # Null /\ wire'[d].call = Gates(z.phase)[z.gate].call
                      /\ wire'[d].finding = Gates(z.phase)[z.gate].finding
                      /\ wire'[d].actor = SubjectOf(z.phase)
      <3>1. CASE d # e
        BY <1>7, <1>8, <3>1, Slots DEF StagingInv, StagingTypeOK
      <3>2. CASE d = e
        BY <1>3, <1>5, <1>7, <1>8, <3>2 DEF IsSentBy
      <3> QED BY <3>1, <3>2
    <2> QED BY <1>7, <1>8, <2>1 DEF StagingInv, StagingTypeOK
  <1>10. PassedIsSound'
    BY <1>1, PassedKeeps
  <1>11. EvidenceIsByTheBook'
    BY DEF StagingInv, EvidenceIsByTheBook
  <1>12. \A t \in Slot : wire'[t] # Null =>
              \/ wire'[t] = wire[t]
              \/ RequestIsSound(wire'[t], finding'[wire'[t].finding])
    BY <1>5, <1>8
  <1>13. \A d \in Execution : execution'[d].phase # Null =>
              \/ execution'[d] = execution[d]
              \/ ExecutionIsSound(execution'[d], finding'["E2E"])
    BY <1>2, <1>7
  <1> QED BY <1>1, <1>9, <1>10, <1>11, <1>12, <1>13, StepKeeps

\* An execution that stops; its request is gone or becomes an orphan.
LEMMA StopKeeps ==
    ASSUME StagingInv, NEW e \in Execution,
           execution' = [execution EXCEPT ![e] = NotRunning],
           wire' \in [Slot -> Request \cup {Null}], wire'[e] = Null,
           \A t \in Slot \ {e} : \/ wire'[t] = wire[t]
                                 \/ t \in Orphan /\ wire'[t] \in {Null, wire[e]},
           finding' = finding, PassedIsSound', passed' \subseteq Phase,
           upsets' \in 0 .. MaxUpsets, bythebook' = bythebook
    PROVE  StagingInv'
  <1>1. FindingsAdvance
    BY StillAdvances
  <1>2. /\ execution \in [Execution -> [phase: Phase \cup {Null}, gate: Nat, seen: Status]]
        /\ NotRunning \in [phase: Phase \cup {Null}, gate: Nat, seen: Status]
        /\ NotRunning.phase = Null
    BY DEF StagingInv, StagingTypeOK, NotRunning, Status
  <1>3. /\ execution' \in [Execution -> [phase: Phase \cup {Null}, gate: Nat, seen: Status]]
        /\ execution'[e] = NotRunning
        /\ \A d \in Execution : d # e => execution'[d] = execution[d]
    BY <1>2
  <1>4. \A d \in Execution : d # e => wire'[d] = wire[d]
    BY Slots
  <1>5. StagingTypeOK'
    <2>1. ASSUME NEW d \in Execution
          PROVE  LET z == execution'[d] IN
                 IF z.phase = Null THEN z = NotRunning /\ wire'[d] = Null
                 ELSE /\ z.gate \in 1 .. Len(Gates(z.phase))
                      /\ wire'[d] # Null /\ wire'[d].call = Gates(z.phase)[z.gate].call
                      /\ wire'[d].finding = Gates(z.phase)[z.gate].finding
                      /\ wire'[d].actor = SubjectOf(z.phase)
      <3>1. CASE d # e
        BY <1>3, <1>4, <3>1 DEF StagingInv, StagingTypeOK
      <3>2. CASE d = e
        BY <1>2, <1>3, <3>2
      <3> QED BY <3>1, <3>2
    <2> QED BY <1>3, <2>1 DEF StagingInv, StagingTypeOK
  <1>6. EvidenceIsByTheBook'
    BY DEF StagingInv, EvidenceIsByTheBook
  <1>7. \A t \in Slot : wire'[t] # Null =>
              \/ wire'[t] = wire[t]
              \/ RequestIsSound(wire'[t], finding'[wire'[t].finding])
    BY Slots DEF StagingInv
  <1>8. \A d \in Execution : execution'[d].phase # Null => execution'[d] = execution[d]
    BY <1>2, <1>3
  <1> QED BY <1>1, <1>5, <1>6, <1>7, <1>8, StepKeeps

\* A started execution is at its first gate and has seen nothing.
LEMMA StartKeeps ==
    ASSUME StagingInv, NEW e \in Execution, NEW p \in Phase, Start(e, p)
    PROVE  StagingInv'
  <1>1. NextGate(p, 0, "absent") = 1 /\ "absent" \in SeenAt(p, 1)
    BY FirstMove
  <1>2. /\ execution' = [execution EXCEPT ![e] =
                           [phase |-> p, gate |-> 1, seen |-> "absent"]]
        /\ wire' = [wire EXCEPT ![e] = Sent(p, 1)]
        /\ finding' = finding /\ passed' = passed
    BY <1>1 DEF Start
  <1>3. upsets' \in 0 .. MaxUpsets /\ bythebook' \in BOOLEAN /\ (bythebook' => bythebook)
    <2>1. upsets' \in 0 .. MaxUpsets
      BY BoundsAssumption DEF Start, StagingInv, StagingTypeOK
    <2>2. bythebook' \in {bythebook, FALSE} /\ bythebook \in BOOLEAN
      BY Zenon DEF Start, StagingInv, StagingTypeOK
    <2>3. bythebook' \in BOOLEAN /\ (bythebook' => bythebook)
      <3>1. CASE bythebook' = bythebook
        BY <2>2, <3>1
      <3>2. CASE bythebook' = FALSE
        BY <3>2
      <3> QED BY <2>2, <3>1, <3>2
    <2> QED BY <2>1, <2>3
  <1>4. ExecutionIsSound([phase |-> p, gate |-> 1, seen |-> "absent"], finding["E2E"])
    BY <1>1 DEF ExecutionIsSound
  <1>5. 1 \in 1 .. Len(Gates(p)) /\ "absent" \in Status
    BY PhaseLengths DEF Status
  <1> QED BY <1>2, <1>3, <1>4, <1>5, SendKeeps

\* An execution that reads its answer goes on, fails or reports.
LEMMA ReceiveKeeps ==
    ASSUME StagingInv, NEW e \in Execution, Receive(e)
    PROVE  StagingInv'
  <1>1. PICK p, i, m : p = execution[e].phase /\ i = execution[e].gate /\ m = wire[e]
    OBVIOUS
  <1>2. PICK y : y = IF m.outcome \in Status THEN m.outcome ELSE execution[e].seen
    OBVIOUS
  <1>3. PICK n : n = NextGate(p, i, y)
    OBVIOUS
  <1>4. /\ execution[e].phase # Null /\ InStage(e, "answered")
        /\ finding' = finding /\ upsets' = upsets /\ bythebook' = bythebook
    BY DEF Receive
  <1>5. /\ p \in Phase /\ execution \in [Execution ->
             [phase: Phase \cup {Null}, gate: Nat, seen: Status]]
        /\ wire \in [Slot -> Request \cup {Null}] /\ e \in Slot
        /\ upsets \in 0 .. MaxUpsets /\ bythebook \in BOOLEAN /\ passed \subseteq Phase
    BY <1>1, <1>4, Slots DEF StagingInv, StagingTypeOK
  <1>6. /\ IF Passes(Gates(p)[i], m) /\ ~(n > Len(Gates(p)))
           THEN /\ execution' = [execution EXCEPT ![e] =
                                   [phase |-> p, gate |-> n, seen |-> y]]
                /\ wire' = [wire EXCEPT ![e] = Sent(p, n)]
           ELSE /\ execution' = [execution EXCEPT ![e] = NotRunning]
                /\ wire' = [wire EXCEPT ![e] = Null]
        /\ passed' = IF Passes(Gates(p)[i], m) /\ n > Len(Gates(p))
                     THEN passed \cup {p} ELSE passed
    BY <1>1, <1>2, <1>3 DEF Receive
  <1>7. Passes(Gates(p)[i], m) => Concluded(p, n, y)
    BY <1>1, <1>2, <1>3, <1>4, PassedGateConcludes
  <1>8. Len(Gates(p)) \in Nat
    BY <1>5, PhaseLengths
  <1>9. CASE Passes(Gates(p)[i], m) /\ ~(n > Len(Gates(p)))
    <2>1. Concluded(p, n, y)
      BY <1>7, <1>9
    <2>2. y \in Status /\ n \in 1 .. Len(Gates(p)) /\ n <= Len(Gates(p))
      BY <1>8, <1>9, <2>1 DEF Concluded
    <2>3. ExecutionIsSound([phase |-> p, gate |-> n, seen |-> y], finding["E2E"])
      BY <2>1, <2>2 DEF Concluded
    <2>4. /\ execution' = [execution EXCEPT ![e] = [phase |-> p, gate |-> n, seen |-> y]]
          /\ wire' = [wire EXCEPT ![e] = Sent(p, n)] /\ passed' = passed
      BY <1>6, <1>9
    <2> QED BY <1>4, <1>5, <2>2, <2>3, <2>4, SendKeeps
  <1>10. CASE ~(Passes(Gates(p)[i], m) /\ ~(n > Len(Gates(p))))
    <2>1. /\ execution' = [execution EXCEPT ![e] = NotRunning]
          /\ wire' = [wire EXCEPT ![e] = Null]
      BY <1>6, <1>10
    <2>2. /\ wire' \in [Slot -> Request \cup {Null}] /\ wire'[e] = Null
          /\ \A t \in Slot \ {e} : wire'[t] = wire[t]
      BY <1>5, <2>1
    <2>3. PassedIsSound' /\ passed' \subseteq Phase
      <3>1. CASE passed' = passed
        BY <1>4, <1>5, <3>1, StillAdvances, PassedKeeps
      <3>2. CASE passed' = passed \cup {p} /\ Passes(Gates(p)[i], m) /\ n > Len(Gates(p))
        <4>1. Concluded(p, n, y) /\ PassedIsSound
          BY <1>7, <3>2 DEF StagingInv
        <4> QED BY <1>4, <1>5, <3>2, <4>1 DEF Concluded, PassedIsSound
      <3> QED BY <1>6, <3>1, <3>2
    <2> QED BY <1>4, <1>5, <2>1, <2>2, <2>3, StopKeeps
  <1> QED BY <1>9, <1>10

\* The request of an execution that dies becomes the next orphan.
LEMMA LoseKeeps ==
    ASSUME StagingInv, NEW e \in Execution, Lose(e)
    PROVE  StagingInv'
  <1>1. /\ upsets \in 0 .. MaxUpsets /\ upsets < MaxUpsets /\ upsets' = upsets + 1
        /\ execution' = [execution EXCEPT ![e] = NotRunning]
        /\ finding' = finding /\ bythebook' = bythebook /\ passed' = passed
    BY DEF Lose, StagingInv, StagingTypeOK
  <1>2. PICK k : k = upsets + 1
    OBVIOUS
  <1>3. k \in Orphan /\ upsets' \in 0 .. MaxUpsets
    BY <1>1, <1>2, BoundsAssumption DEF Orphan
  <1>4. PICK v : v = IF InStage(e, "answered") THEN Null ELSE wire[e]
    OBVIOUS
  <1>5. wire' = [wire EXCEPT ![e] = Null, ![k] = v]
    BY <1>2, <1>4 DEF Lose
  <1>6. /\ wire \in [Slot -> Request \cup {Null}] /\ e \in Slot /\ k \in Slot /\ k # e
        /\ v \in {Null, wire[e]} /\ passed \subseteq Phase
    BY <1>3, <1>4, Slots DEF StagingInv, StagingTypeOK
  <1>7. /\ wire' \in [Slot -> Request \cup {Null}] /\ wire'[e] = Null /\ wire'[k] = v
        /\ \A t \in Slot : t # e /\ t # k => wire'[t] = wire[t]
    BY <1>5, <1>6
  <1>8. \A t \in Slot \ {e} : \/ wire'[t] = wire[t]
                              \/ t \in Orphan /\ wire'[t] \in {Null, wire[e]}
    BY <1>3, <1>6, <1>7
  <1>9. PassedIsSound'
    BY <1>1, StillAdvances, PassedKeeps
  <1> QED BY <1>1, <1>3, <1>6, <1>7, <1>8, <1>9, StopKeeps

\* The invariant holds at first and is kept by every step.
LEMMA StagingInitInv ==
    ASSUME StagingInit
    PROVE  StagingInv
  <1>1. finding \in [Finding -> Row] /\ \A f \in Finding : finding[f] = NoRow
    BY NoRowType DEF StagingInit
  <1>2. /\ execution \in [Execution -> [phase: Phase \cup {Null}, gate: Nat, seen: Status]]
        /\ \A e \in Execution : execution[e] = NotRunning /\ execution[e].phase = Null
    BY DEF StagingInit, NotRunning, Status
  <1>3. /\ wire \in [Slot -> Request \cup {Null}] /\ \A s \in Slot : wire[s] = Null
        /\ \A e \in Execution : wire[e] = Null
    BY Slots DEF StagingInit
  <1>4. upsets \in 0 .. MaxUpsets /\ bythebook \in BOOLEAN /\ passed = {}
    BY BoundsAssumption DEF StagingInit
  <1>5. StagingTypeOK
    BY <1>1, <1>2, <1>3, <1>4 DEF StagingTypeOK
  <1>6. \A f \in Finding : RowIsSound(f, NoRow)
    BY Levels DEF RowIsSound, NoRow
  <1>7. EvidenceIsByTheBook
    BY <1>1 DEF EvidenceIsByTheBook, NoRow
  <1>8. PassedIsSound
    BY <1>4 DEF PassedIsSound
  <1> QED BY <1>1, <1>2, <1>3, <1>5, <1>6, <1>7, <1>8 DEF StagingInv

LEMMA StagingNextInv ==
    ASSUME StagingInv, [StagingNext]_stagingVars
    PROVE  StagingInv'
  <1>1. CASE StagingNext
    BY <1>1, ReceiveKeeps, LoseKeeps, StartKeeps, ServeKeeps, MeddleKeeps DEF StagingNext
  <1>2. CASE UNCHANGED stagingVars
    <2>1. /\ finding' = finding /\ execution' = execution /\ wire' = wire
          /\ upsets' = upsets /\ bythebook' = bythebook /\ passed' = passed
      BY <1>2 DEF stagingVars
    <2> QED BY <2>1 DEF StagingInv, StagingTypeOK, PassedIsSound, EvidenceIsByTheBook,
                        InStage
  <1> QED BY <1>1, <1>2

-----------------------------------------------------------------------------
(* The theorems of the staging rehearsal *)

\* StagingInv holds in every reachable state, for any number of executions,
\* outsiders and upsets: what each request with the server, each execution at its
\* gate and each report says about the findings is true of the database.
THEOREM StagingIsSound == StagingSpec => []StagingInv
  <1>1. StagingInit => StagingInv
    BY StagingInitInv
  <1>2. StagingInv /\ [StagingNext]_stagingVars => StagingInv'
    BY StagingNextInv
  <1> QED BY <1>1, <1>2, PTL DEF StagingSpec

\* The findings, executions and requests of the rehearsal keep their shape, and
\* an execution has a request of its gate with the server exactly while it runs.
THEOREM StagingTypeCorrect == StagingSpec => []StagingTypeOK
  <1>1. StagingInv => StagingTypeOK
    BY DEF StagingInv
  <1> QED BY <1>1, StagingIsSound, PTL

\* The invariant is strong enough for every report.
LEMMA InvReportsAreEarned ==
    ASSUME StagingInv
    PROVE  ReportsAreEarned
  <1>1. PICK r \in Row : r = finding["E2E"]
    BY DEF StagingInv, StagingTypeOK, Finding
  <1>2. RowIsSound("E2E", r) /\ PassedIsSound /\ EvidenceIsByTheBook
    BY <1>1 DEF StagingInv, Finding
  <1>3. Level(r.status) \in 0 .. 6
    BY RowColumns
  <1>4. ASSUME "analyst_prepare" \in passed
        PROVE  Earned("analyst_prepare")
    <2>1. \A f \in Finding : finding[f].status \in Status /\ Level(finding[f].status) >= 2
      BY <1>2, <1>4, RowColumns DEF PassedIsSound, StagingInv, StagingTypeOK
    <2>2. \A f \in Finding : finding[f].status \notin {"absent", "open"}
      BY <2>1, LevelInverse
    <2> QED BY <2>2 DEF Earned
  <1>5. ASSUME "approver_approve" \in passed
        PROVE  Earned("approver_approve")
    <2>1. Level(r.status) >= 3
      BY <1>1, <1>2, <1>5 DEF PassedIsSound
    <2>2. r.approved_by \notin {Null, r.risk_owner}
      BY <1>2, <2>1 DEF RowIsSound
    <2> QED BY <1>1, <2>2 DEF Earned
  <1>6. ASSUME "analyst_remediate" \in passed
        PROVE  Earned("analyst_remediate")
    BY <1>2, <1>6 DEF PassedIsSound, Earned
  <1>7. ASSUME "approver_close" \in passed
        PROVE  Earned("approver_close")
    <2>1. Evidenced(r) /\ r.status = "closed"
      BY <1>1, <1>2, <1>7 DEF PassedIsSound
    <2>2. Level(r.status) = 6
      BY <2>1, Levels
    <2>3. r.approved_by \notin {Null, r.risk_owner}
      BY <1>2, <2>2 DEF RowIsSound
    <2>4. r.verified_by \notin {Null, r.implementer, r.evidence_submitter}
      BY <1>2, <2>2 DEF RowIsSound
    <2>5. r.implementer = Analyst /\ Analyst \in r.submitted
      BY <2>1 DEF Evidenced, Started
    <2>6. bythebook => r.evidence_submitter = Analyst
      <3> SUFFICES ASSUME bythebook
                   PROVE  r.evidence_submitter = Analyst
        OBVIOUS
      <3>1. r.evidence_submitter \in {Null, Analyst}
        BY <1>1, <1>2 DEF EvidenceIsByTheBook, Finding
      <3>2. r.evidence_submitter # Null
        BY <1>2, <2>5 DEF RowIsSound
      <3> QED BY <3>1, <3>2
    <2> QED BY <1>1, <2>1, <2>3, <2>4, <2>5, <2>6 DEF Earned
  <1>8. passed \subseteq {"analyst_prepare", "approver_approve", "analyst_remediate",
                          "approver_close"}
    BY Phases DEF StagingInv, StagingTypeOK
  <1> QED BY <1>4, <1>5, <1>6, <1>7, <1>8 DEF ReportsAreEarned

\* A "passed" report of azure_staging_validator.py is true of the database when
\* it is printed and ever after, however many executions died, ran twice or ran
\* out of order, and however many outsiders worked on the finding meanwhile.
THEOREM StagingReportsAreEarned == StagingSpec => []ReportsAreEarned
  <1>1. StagingInv => ReportsAreEarned
    BY InvReportsAreEarned
  <1> QED BY <1>1, StagingIsSound, PTL

\* The step behind the harmless negative tests: only the commit of a request
\* changes a finding together with the wire, and the row it commits on is sound.
LEMMA NextProbesAreHarmless ==
    ASSUME StagingInv, StagingNext, NEW s \in Slot, wire[s] # Null,
           wire'[s] # wire[s], finding' # finding
    PROVE  /\ ~IsProbe(wire[s])
           /\ wire[s].call = "close" => MayBeClosed(finding[wire[s].finding])
  <1>1. CASE \E e \in Execution : Receive(e) \/ Lose(e) \/ \E p \in Phase : Start(e, p)
    BY <1>1 DEF Receive, Lose, Start
  <1>2. ASSUME NEW t \in Slot, Serve(t)
        PROVE  /\ ~IsProbe(wire[s])
               /\ wire[s].call = "close" => MayBeClosed(finding[wire[s].finding])
    <2>1. CASE Admit(t) \/ Answer(t)
      BY <2>1 DEF Admit, Answer
    <2>2. CASE Commit(t)
      <3>1. PICK m : m = wire[t]
        OBVIOUS
      <3>2. /\ m # Null /\ m.stage = "read"
            /\ finding[m.finding].status \in From(m.call)
            /\ wire' = [wire EXCEPT ![t].stage = "committed"]
        BY <2>2, <3>1 DEF Commit, InStage
      <3>3. m \in Request /\ RequestIsSound(m, finding[m.finding])
        BY <3>1, <3>2, SlotParts
      <3>4. s = t
        BY <3>2 DEF StagingInv, StagingTypeOK
      <3>5. ~(m.call = "approve" /\ m.finding = "SOD")
        BY <3>2, <3>3 DEF RequestIsSound
      <3>6. ~(m.call = "verify" /\ m.actor = Analyst)
        BY <3>2, <3>3, Subjects DEF RequestIsSound
      <3>7. ASSUME m.call = "close" PROVE MayBeClosed(finding[m.finding])
        <4>1. PICK r : r = finding[m.finding]
          OBVIOUS
        <4>2. r.status = "verified"
          BY <3>2, <3>7, <4>1 DEF From
        <4>3. RowIsSound(m.finding, r)
          BY <3>3, <4>1 DEF StagingInv, Request
        <4>4. Level(r.status) = 5
          BY <4>2, Levels
        <4>5. r.approved_by \notin {Null, r.risk_owner}
          BY <4>3, <4>4 DEF RowIsSound
        <4>6. r.verified_by \notin {Null, r.implementer, r.evidence_submitter}
          BY <4>3, <4>4 DEF RowIsSound
        <4> QED BY <4>1, <4>2, <4>5, <4>6 DEF MayBeClosed
      <3> QED BY <3>1, <3>4, <3>5, <3>6, <3>7 DEF IsProbe
    <2> QED BY <1>2, <2>1, <2>2 DEF Serve
  <1>3. CASE \E a \in Outsider, c \in Call : Meddle(a, c)
    BY <1>3 DEF Meddle
  <1> QED BY <1>1, <1>2, <1>3 DEF StagingNext

\* A self-approval and a verification by the analyst change no finding, however
\* late the server serves them and whether or not their execution still runs; a
\* close, also one that was sent as a negative test and delayed, closes only a
\* finding that was approved by somebody other than its risk owner and verified
\* by somebody who neither implemented it nor submitted its evidence.
THEOREM StagingProbesAreHarmless == StagingSpec => ProbesAreHarmless
  <1>1. StagingInv /\ [StagingNext]_stagingVars
        => [\A s \in Slot : wire[s] # Null /\ wire'[s] # wire[s] /\ finding' # finding
              => /\ ~IsProbe(wire[s])
                 /\ wire[s].call = "close" =>
                      MayBeClosed(finding[wire[s].finding])]_stagingVars
    BY NextProbesAreHarmless
  <1> QED BY <1>1, StagingIsSound, PTL DEF StagingSpec, ProbesAreHarmless

\* A finding of the rehearsal only moves forward: a rejected proposal stays
\* assessed and a failed verification stays in remediation, evidence that was
\* submitted stays submitted, and once work has started its implementer is the
\* same, which is what lets a phase rely on a read it made long before.
FindingsOnlyAdvance ==
    [][\A f \in Finding : Later(finding[f], finding'[f])]_stagingVars

\* Every step of the server, of an execution and of an outsider takes both
\* findings forward (Later), so what a resumed phase has read of a finding
\* bounds every later state of it.
THEOREM StagingFindingsOnlyAdvance == StagingSpec => FindingsOnlyAdvance
  <1>1. StagingInv /\ [StagingNext]_stagingVars
        => [\A f \in Finding : Later(finding[f], finding'[f])]_stagingVars
    <2> SUFFICES ASSUME StagingInv, StagingNext
                 PROVE  FindingsAdvance
      BY DEF FindingsAdvance
    <2>1. CASE finding' = finding
      BY <2>1, StillAdvances
    <2>2. CASE \E s \in Slot : Serve(s)
      BY <2>2, StillAdvances, CommitServes DEF Serve, Admit, Answer
    <2>3. CASE \E a \in Outsider, c \in Call : Meddle(a, c)
      BY <2>3, MeddleAdvances
    <2> QED BY <2>1, <2>2, <2>3 DEF StagingNext, Receive, Lose, Start
  <1> QED BY <1>1, StagingIsSound, PTL DEF StagingSpec, FindingsOnlyAdvance

\* The finding of the self-approval test is never approved, started or closed,
\* whatever is retried, delayed or left behind: the approver identity owns its
\* risk, and no other approver is asked.
THEOREM SodFindingStaysUndecided ==
    StagingSpec => [](finding["SOD"].status \in
                        {"absent", "open", "risk_assessed", "pending_approval"})
  <1>1. StagingInv => finding["SOD"].status \in
                        {"absent", "open", "risk_assessed", "pending_approval"}
    <2> SUFFICES ASSUME StagingInv
                 PROVE  finding["SOD"].status \in
                          {"absent", "open", "risk_assessed", "pending_approval"}
      OBVIOUS
    <2>1. PICK r \in Row : r = finding["SOD"]
      BY DEF StagingInv, StagingTypeOK, Finding
    <2>2. Level(r.status) <= 2 /\ r.status \in Status
      BY <2>1, RowColumns DEF StagingInv, RowIsSound, Finding
    <2> QED BY <2>1, <2>2, Levels DEF Status
  <1> QED BY <1>1, StagingIsSound, PTL

=============================================================================
