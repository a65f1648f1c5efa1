------------------------- MODULE RestoreGate_proofs -------------------------
(***************************************************************************)
(* Proofs about Migrations and RestoreGate, for any processes, databases,  *)
(* releases and tables and any number of faults.                           *)
(*                                                                         *)
(* Migrations: a file is looked up in one step and committed in another,   *)
(* and in between the process may be overtaken only if somebody else holds *)
(* the same advisory lock.  The invariant ties each process to the lock of *)
(* its target and to the rows it has already compared, which nobody can    *)
(* change any more.                                                        *)
(*                                                                         *)
(* The rehearsal: a snapshot is read table by table while others write.    *)
(* The invariant says that every image of the database (live, restored, or *)
(* seen by a transaction) has the same records in every table, and that    *)
(* what was read is a part of the one image the transaction began with.    *)
(***************************************************************************)
EXTENDS RestoreGate, FiniteSetTheorems, TLAPS

(* Migrations *)

Types ==
    /\ recorded \in [Database -> [Migration -> Checksum \cup {None}]]
    /\ made \in [Database -> [Migration -> Nat]]
    /\ lock \in [Database -> Process \cup {None}]
    /\ process \in [Process -> ProcessState]
    /\ release \in [Process -> Release]
    /\ faults \in 0 .. MaxFaults

\* A process that is under way is at one of its databases; one that waits for a
\* lock has yet to look at the first file.
AtATarget(p) ==
    process[p].pc # "down" =>
        /\ process[p].at \in 1 .. Len(TargetsOf[p]) /\ process[p].next >= 1
        /\ process[p].pc = "waiting" => process[p].next = 1

\* From pg_advisory_lock to the unlock or the end of the session a process holds
\* the lock of its database, also while its session is only ending.
HoldsItsLock(p) ==
    process[p].pc \in {"checking", "applying", "ending"} => lock[Target(p)] = p

\* Every file of a process's release before the one it looks at is recorded with
\* that release's text, and the file it has begun to apply is recorded by nobody.
HasChecked(p) ==
    /\ process[p].pc \in {"checking", "applying"} =>
         \A j \in Migration : j < process[p].next =>
             Files(p)[j] \in {None, recorded[Target(p)][j]}
    /\ process[p].pc = "applying" =>
         /\ process[p].next \in Migration
         /\ Files(p)[process[p].next] # None
         /\ recorded[Target(p)][process[p].next] = None

\* The databases before the one a process is at are complete, and all are when
\* it serves.
HasMigrated(p) ==
    /\ process[p].pc \in {"waiting", "checking", "applying"} =>
         \A k \in 1 .. (process[p].at - 1) : Has(p, TargetsOf[p][k])
    /\ process[p].pc = "serving" =>
         \A k \in 1 .. Len(TargetsOf[p]) : Has(p, TargetsOf[p][k])

Orderly(p) == AtATarget(p) /\ HoldsItsLock(p) /\ HasChecked(p) /\ HasMigrated(p)

MigrationsInv ==
    /\ Types
    /\ \A p \in Process : Orderly(p)
    /\ AppliedOnceInOrder

-----------------------------------------------------------------------------
(* The rehearsal *)

Uniform(tables) == \A t, u \in Table : tables[t] = tables[u]

\* Every record is in all tables of the source and of the restored server.
ImagesAreUniform ==
    /\ rows \in [Table -> SUBSET Row] /\ Uniform(rows)
    /\ restored # None => restored \in Image /\ Uniform(restored.tables)

\* A complete snapshot names its target as an operator may and as the server does.
NamesItsTarget(x) ==
    x.stage = "done" =>
        /\ x.identity.declared \in Declaration
        /\ x.identity.address \in AddressesOf[x.target]
        /\ x.identity = TargetIdentity(x.identity.declared, x.identity.address)

\* What a snapshot has read so far is a part of the one image its transaction
\* began with, whose schema is the expected one; the image of a restored server
\* is what that server still holds.
ReadsItsView(x) ==
    \/ x = NoSnapshot
    \/ /\ x.stage \in {"reading", "done"} /\ x.target \in Side
       /\ x.view \in Image /\ Uniform(x.view.tables) /\ MigrationsMatch(x.view)
       /\ x.target = "restored" => restored # None /\ x.view = restored
       /\ x.tables \in Seq(SUBSET Row) /\ Len(x.tables) \in 0 .. Cardinality(Table)
       /\ \A i \in 1 .. Len(x.tables) : x.tables[i] = x.view.tables[i]
       /\ Len(x.tables) = Cardinality(Table) <=> x.stage = "done"
       /\ NamesItsTarget(x)

SnapshotsReadTheirViews ==
    /\ DOMAIN snapshot = Side
    /\ \A side \in Side : ReadsItsView(snapshot[side])

\* A PASS was given to the two snapshots that are still there.
VerdictIsOfTheSnapshots ==
    verdict \in {None, "PASS"} /\ (verdict = "PASS" =>
        /\ \A side \in Side : snapshot[side].stage = "done"
        /\ Comparable(snapshot["source"], snapshot["restored"]))

\* The inductive invariant.
IInv ==
    /\ MigrationsInv
    /\ ImagesAreUniform
    /\ SnapshotsReadTheirViews
    /\ VerdictIsOfTheSnapshots

-----------------------------------------------------------------------------
(* The constants *)

LEMMA FileFacts ==
    ASSUME NEW r \in Release, NEW m \in Migration
    PROVE  FilesOf[r][m] \in Checksum \cup {None}
  BY FilesAssumption

LEMMA MigrationFacts ==
    /\ Cardinality(Migration) \in Nat
    /\ Migration = 1 .. Cardinality(Migration)
    /\ \A m \in Migration : m \in Nat /\ m >= 1 /\ 1 .. (m - 1) \subseteq Migration
  <1>1. Cardinality(Migration) \in Nat /\ Migration = 1 .. Cardinality(Migration)
    BY FilesAssumption, FS_CardinalityType
  <1> QED BY <1>1

LEMMA TargetFacts ==
    ASSUME NEW p \in Process
    PROVE  /\ Len(TargetsOf[p]) \in Nat /\ Len(TargetsOf[p]) >= 1
           /\ \A k \in 1 .. Len(TargetsOf[p]) : TargetsOf[p][k] \in Database
  <1>1. TargetsOf[p] \in Seq(Database) /\ TargetsOf[p] # <<>>
    BY TargetsAssumption
  <1> QED BY <1>1

LEMMA NoneFacts == None \notin Process /\ None \notin Checksum
  BY FilesAssumption

-----------------------------------------------------------------------------
(* Migrations *)

\* A step of the start-up of p.
Step(p) == StartUp(p) \/ TimeOut(p) \/ ApplyFails(p) \/ CheckFails(p) \/ Stop(p)

LEMMA TargetIn ==
    ASSUME Types, NEW p \in Process, Orderly(p), process[p].pc # "down"
    PROVE  Target(p) \in Database
  BY TargetFacts DEF Orderly, AtATarget, Target

\* What a process that is about to commit knows of its file.
LEMMA AboutToCommit ==
    ASSUME Types, NEW p \in Process, Orderly(p), CommitFile(p)
    PROVE  /\ Target(p) \in Database /\ release[p] \in Release
           /\ process[p].next \in Migration
           /\ Files(p)[process[p].next] \in Checksum
           /\ Files(p)[process[p].next] # None
           /\ recorded[Target(p)][process[p].next] = None
           /\ \A j \in Migration : j < process[p].next =>
                 Files(p)[j] \in {None, recorded[Target(p)][j]}
  <1>1. process[p].pc = "applying" /\ release[p] \in Release
    BY DEF CommitFile, At, Types
  <1>2. Target(p) \in Database
    BY <1>1, TargetIn
  <1>3. /\ process[p].next \in Migration
        /\ Files(p)[process[p].next] # None
        /\ recorded[Target(p)][process[p].next] = None
        /\ \A j \in Migration : j < process[p].next =>
              Files(p)[j] \in {None, recorded[Target(p)][j]}
    BY <1>1 DEF Orderly, HasChecked
  <1>4. Files(p)[process[p].next] \in Checksum
    BY <1>1, <1>3, FileFacts DEF Files
  <1> QED BY <1>1, <1>2, <1>3, <1>4

LEMMA DownType == Down \in ProcessState
  BY DEF Down, ProcessState, PC

LEMMA InitTypes == MigrationsInit => Types
  BY FaultsAssumption DEF MigrationsInit, Types, ProcessState, PC, Down

LEMMA StepTypes ==
    ASSUME Types, NEW p \in Process, Orderly(p), Step(p)
    PROVE  Types'
  <1> USE DEF Types
  <1>1. CASE Begin(p)
    BY <1>1 DEF Begin, ProcessState, PC
  <1>2. CASE TakeLock(p)
    <2>1. Target(p) \in Database
      BY <1>2, TargetIn DEF TakeLock, At
    <2> QED BY <1>2, <2>1 DEF TakeLock, Goto, ProcessState, PC
  <1>3. CASE TimeOut(p) \/ ApplyFails(p) \/ EndSession(p)
    <2>1. Target(p) \in Database
      BY <1>3, TargetIn DEF TimeOut, ApplyFails, EndSession, At
    <2>2. process' = [process EXCEPT ![p] = Down] /\ faults' \in 0 .. MaxFaults
          /\ UNCHANGED <<recorded, made, release>>
      BY <1>3, FaultsAssumption DEF TimeOut, ApplyFails, EndSession, GiveUp, Fault
    <2>3. lock' \in [Database -> Process \cup {None}]
      BY <1>3, <2>1 DEF TimeOut, ApplyFails, EndSession, Free
    <2> QED BY <2>2, <2>3, DownType
  <1>4. CASE CheckFile(p)
    <2>1. Target(p) \in Database
      BY <1>4, TargetIn DEF CheckFile, At
    <2>2. \/ process' = [process EXCEPT ![p].next = process[p].next + 1]
          \/ process' = [process EXCEPT ![p].pc = "applying"]
          \/ process' = [process EXCEPT ![p] = Down]
      BY <1>4 DEF CheckFile, Goto, GiveUp
    <2>3. process' \in [Process -> ProcessState]
      <3>1. CASE process' = [process EXCEPT ![p] = Down]
        BY <3>1, DownType
      <3>2. CASE process' = [process EXCEPT ![p].pc = "applying"]
        BY <3>2 DEF ProcessState, PC
      <3>3. CASE process' = [process EXCEPT ![p].next = process[p].next + 1]
        <4>1. process[p] \in ProcessState /\ process[p].next + 1 \in Nat
          BY DEF ProcessState
        <4>2. [process[p] EXCEPT !.next = process[p].next + 1] \in ProcessState
          BY <4>1 DEF ProcessState
        <4> QED BY <3>3, <4>2
      <3> QED BY <2>2, <3>1, <3>2, <3>3
    <2>4. lock' \in [Database -> Process \cup {None}]
      BY <1>4, <2>1 DEF CheckFile, Free
    <2> QED BY <1>4, <2>3, <2>4 DEF CheckFile
  <1>5. CASE CommitFile(p)
    <2> DEFINE d == Target(p)
               i == process[p].next
    <2>1. d \in Database /\ i \in Migration /\ Files(p)[i] \in Checksum
      BY <1>5, AboutToCommit
    <2>2. recorded' \in [Database -> [Migration -> Checksum \cup {None}]]
      BY <1>5, <2>1 DEF CommitFile
    <2>3. made' \in [Database -> [Migration -> Nat]]
      BY <1>5, <2>1 DEF CommitFile
    <2>4. process' \in [Process -> ProcessState]
      BY <1>5 DEF CommitFile, ProcessState, PC
    <2> QED BY <1>5, <2>2, <2>3, <2>4 DEF CommitFile
  <1>6. CASE CheckFails(p)
    BY <1>6, FaultsAssumption DEF CheckFails, Fault, Goto, ProcessState, PC
  <1>7. CASE Unlock(p)
    <2>1. Target(p) \in Database
      BY <1>7, TargetIn DEF Unlock, At
    <2>2. \/ process' = [process EXCEPT ![p] =
                  [pc |-> "waiting", at |-> process[p].at + 1, next |-> 1]]
          \/ process' = [process EXCEPT ![p] = [process[p] EXCEPT !.pc = "serving"]]
      BY <1>7 DEF Unlock
    <2>3. process' \in [Process -> ProcessState]
      BY <2>2 DEF ProcessState, PC
    <2> QED BY <1>7, <2>1, <2>3 DEF Unlock, Free
  <1>8. CASE Stop(p)
    <2>0. \/ process' = [process EXCEPT ![p].pc = "ending"]
          \/ process' = [process EXCEPT ![p] = Down]
      BY <1>8 DEF Stop, Goto, GiveUp
    <2>1. process' \in [Process -> ProcessState]
      <3>1. CASE process' = [process EXCEPT ![p] = Down]
        BY <3>1, DownType
      <3>2. CASE process' = [process EXCEPT ![p].pc = "ending"]
        BY <3>2 DEF ProcessState, PC
      <3> QED BY <2>0, <3>1, <3>2
    <2>2. release' \in [Process -> Release]
      BY <1>8 DEF Stop
    <2> QED BY <1>8, <2>1, <2>2, FaultsAssumption DEF Stop, Fault
  <1> QED BY <1>1, <1>2, <1>3, <1>4, <1>5, <1>6, <1>7, <1>8 DEF Step, StartUp

\* Rows of schema_migrations are written by CommitFile only, each once.
LEMMA RowSteps ==
    ASSUME Types, NEW p \in Process, Orderly(p), Step(p)
    PROVE  /\ UNCHANGED <<recorded, made>> \/ CommitFile(p)
           /\ \A d \in Database, m \in Migration :
                 recorded[d][m] # None => recorded'[d][m] = recorded[d][m]
  <1>1. UNCHANGED <<recorded, made>> \/ CommitFile(p)
    BY DEF Step, StartUp, Begin, TakeLock, CheckFile, Unlock, EndSession, TimeOut,
         ApplyFails, CheckFails, Stop
  <1>2. CASE CommitFile(p)
    <2>1. /\ Target(p) \in Database /\ process[p].next \in Migration
          /\ recorded[Target(p)][process[p].next] = None
      BY <1>2, AboutToCommit
    <2>2. recorded' = [recorded EXCEPT ![Target(p)][process[p].next] =
                                          Files(p)[process[p].next]]
      BY <1>2 DEF CommitFile
    <2> QED BY <1>1, <2>1, <2>2 DEF Types
  <1> QED BY <1>1, <1>2

\* What the step of p leaves alone of another process q, the lock that q holds
\* included: only the holder frees a lock.
LEMMA OtherProcess ==
    ASSUME Types, NEW p \in Process, Orderly(p), Step(p),
           NEW q \in Process, Orderly(q), q # p
    PROVE  /\ process'[q] = process[q] /\ release'[q] = release[q]
           /\ process[q].pc \in {"checking", "applying", "ending"} =>
                lock'[Target(q)] = q
  <1> USE DEF Types
  <1>1. process'[q] = process[q]
    BY DEF Step, StartUp, Begin, TakeLock, CheckFile, CommitFile, Unlock, EndSession,
         TimeOut, ApplyFails, CheckFails, Stop, Goto, GiveUp
  <1>2. release'[q] = release[q]
    BY DEF Step, StartUp, Begin, TakeLock, CheckFile, CommitFile, Unlock, EndSession,
         TimeOut, ApplyFails, CheckFails, Stop
  <1>3. \/ lock' = lock
        \/ TakeLock(p) /\ process[p].pc = "waiting"
        \/ /\ lock' = [lock EXCEPT ![Target(p)] = None]
           /\ process[p].pc \in {"checking", "applying", "ending"}
    BY DEF Step, StartUp, Begin, TakeLock, CheckFile, CommitFile, Unlock, EndSession,
         TimeOut, ApplyFails, CheckFails, Stop, Free, At
  <1>4. ASSUME process[q].pc \in {"checking", "applying", "ending"}
        PROVE  lock'[Target(q)] = q
    <2>1. lock[Target(q)] = q /\ Target(q) \in Database
      BY <1>4, TargetIn DEF Orderly, HoldsItsLock
    <2>2. CASE TakeLock(p) /\ process[p].pc = "waiting"
      <3>1. Target(p) # Target(q)
        BY <2>1, <2>2, NoneFacts DEF TakeLock
      <3> QED BY <2>1, <2>2, <3>1 DEF TakeLock
    <2>3. CASE /\ lock' = [lock EXCEPT ![Target(p)] = None]
               /\ process[p].pc \in {"checking", "applying", "ending"}
      <3>1. lock[Target(p)] = p
        BY <2>3 DEF Orderly, HoldsItsLock
      <3> QED BY <2>1, <2>3, <3>1
    <2> QED BY <1>3, <2>1, <2>2, <2>3
  <1> QED BY <1>1, <1>2, <1>4

\* So the other processes keep what they have established.
LEMMA OthersStayOrderly ==
    ASSUME Types, NEW p \in Process, Orderly(p), Step(p),
           NEW q \in Process, Orderly(q), q # p
    PROVE  Orderly(q)'
  <1>1. /\ process'[q] = process[q] /\ release'[q] = release[q]
        /\ process[q].pc \in {"checking", "applying", "ending"} => lock'[Target(q)] = q
    BY OtherProcess
  <1>2. Target(q)' = Target(q) /\ Files(q)' = Files(q) /\ release[q] \in Release
    BY <1>1 DEF Target, Files, Types
  <1>3. ASSUME NEW d \in Database, NEW j \in Migration,
               Files(q)[j] \in {None, recorded[d][j]}
        PROVE  Files(q)[j] \in {None, recorded'[d][j]}
    BY <1>3, RowSteps
  <1>4. AtATarget(q)'
    BY <1>1 DEF Orderly, AtATarget
  <1>5. HoldsItsLock(q)'
    BY <1>1, <1>2 DEF HoldsItsLock
  <1>6. HasChecked(q)'
    <2>1. ASSUME process[q].pc \in {"checking", "applying"},
                 NEW j \in Migration, j < process[q].next
          PROVE  Files(q)[j] \in {None, recorded'[Target(q)][j]}
      <3>1. Target(q) \in Database
        BY <2>1, TargetIn
      <3>2. Files(q)[j] \in {None, recorded[Target(q)][j]}
        BY <2>1 DEF Orderly, HasChecked
      <3> QED BY <1>3, <3>1, <3>2
    <2>2. ASSUME process[q].pc = "applying"
          PROVE  recorded'[Target(q)][process[q].next] = None
      <3>1. Target(q) \in Database /\ lock[Target(q)] = q
            /\ recorded[Target(q)][process[q].next] = None
        BY <2>2, TargetIn DEF Orderly, HasChecked, HoldsItsLock
      <3>2. CASE CommitFile(p)
        <4>1. Target(p) # Target(q) /\ Target(p) \in Database
          BY <3>1, <3>2, AboutToCommit DEF Orderly, HoldsItsLock, CommitFile, At
        <4>2. recorded'[Target(q)] = recorded[Target(q)]
          BY <3>1, <3>2, <4>1 DEF CommitFile, Types
        <4> QED BY <3>1, <4>2
      <3> QED BY <3>1, <3>2, RowSteps
    <2>3. process[q].pc = "applying" =>
            process[q].next \in Migration /\ Files(q)[process[q].next] # None
      BY DEF Orderly, HasChecked
    <2> QED BY <1>1, <1>2, <2>1, <2>2, <2>3 DEF HasChecked
  <1>7. ASSUME NEW d \in Database, Has(q, d) PROVE Has(q, d)'
    BY <1>2, <1>3, <1>7 DEF Has
  <1>8. HasMigrated(q)'
    <2>1. ASSUME NEW k \in 1 .. Len(TargetsOf[q]), Has(q, TargetsOf[q][k])
          PROVE  Has(q, TargetsOf[q][k])'
      BY <1>7, <2>1, TargetFacts
    <2>2. ASSUME process[q].pc # "down", NEW k \in 1 .. (process[q].at - 1)
          PROVE  k \in 1 .. Len(TargetsOf[q])
      BY <2>2, TargetFacts DEF Orderly, AtATarget
    <2> QED BY <1>1, <2>1, <2>2 DEF Orderly, HasMigrated
  <1> QED BY <1>4, <1>5, <1>6, <1>8 DEF Orderly

\* The process that takes the step: what it established before, and what the
\* step itself compares, takes or commits.
LEMMA OwnStaysOrderly ==
    ASSUME Types, NEW p \in Process, Orderly(p), Step(p)
    PROVE  Orderly(p)'
  <1> USE DEF Types
  <1>0. process[p] \in ProcessState /\ release[p] \in Release
    OBVIOUS
  <1>1. ASSUME process'[p].pc = "down" PROVE Orderly(p)'
    BY <1>1 DEF Orderly, AtATarget, HoldsItsLock, HasChecked, HasMigrated
  <1>2. CASE TimeOut(p) \/ ApplyFails(p) \/ EndSession(p)
    <2>1. process'[p].pc = "down"
      BY <1>2 DEF TimeOut, ApplyFails, EndSession, GiveUp, Down
    <2> QED BY <1>1, <2>1
  <1>3. CASE Begin(p)
    <2>1. process'[p] = [pc |-> "waiting", at |-> 1, next |-> 1]
      BY <1>3 DEF Begin
    <2> QED BY <2>1, TargetFacts DEF Orderly, AtATarget, HoldsItsLock, HasChecked,
              HasMigrated
  <1>4. CASE TakeLock(p)
    <2>1. /\ process'[p] = [process[p] EXCEPT !.pc = "checking"]
          /\ process[p].pc = "waiting"
          /\ lock' = [lock EXCEPT ![Target(p)] = p]
          /\ UNCHANGED <<recorded, release>>
      BY <1>4 DEF TakeLock, Goto, At
    <2>2. /\ process'[p].pc = "checking" /\ process'[p].at = process[p].at
          /\ process'[p].next = 1
      BY <1>0, <2>1 DEF ProcessState, Orderly, AtATarget
    <2>3. Target(p)' = Target(p) /\ Files(p)' = Files(p) /\ Target(p) \in Database
      BY <2>1, <2>2, TargetIn DEF Target, Files
    <2>4. AtATarget(p)'
      BY <2>1, <2>2 DEF Orderly, AtATarget
    <2>5. HoldsItsLock(p)'
      BY <2>1, <2>3 DEF HoldsItsLock
    <2>6. HasChecked(p)'
      BY <2>2, MigrationFacts DEF HasChecked
    <2>7. HasMigrated(p)'
      BY <2>1, <2>2, <2>3 DEF Orderly, HasMigrated, Has
    <2> QED BY <2>4, <2>5, <2>6, <2>7 DEF Orderly
  <1>5. CASE CheckFile(p)
    <2> DEFINE d == Target(p)
               i == process[p].next
    <2>1. /\ process[p].pc = "checking" /\ i \in Nat
          /\ i \in Migration /\ UNCHANGED <<recorded, release>>
      BY <1>0, <1>5 DEF CheckFile, At, ProcessState
    <2>2. CASE /\ Files(p)[i] \in {None, recorded[d][i]} /\ UNCHANGED lock
               /\ process' = [process EXCEPT ![p].next = i + 1]
      <3>1. /\ process'[p].pc = "checking" /\ process'[p].at = process[p].at
            /\ process'[p].next = i + 1
        BY <1>0, <2>1, <2>2 DEF ProcessState
      <3>2. Target(p)' = Target(p) /\ Files(p)' = Files(p)
        BY <2>1, <3>1 DEF Target, Files
      <3>3. AtATarget(p)' /\ HoldsItsLock(p)'
        BY <2>1, <2>2, <3>1, <3>2 DEF Orderly, AtATarget, HoldsItsLock
      <3>4. HasChecked(p)'
        <4>1. \A j \in Migration : j < i => Files(p)[j] \in {None, recorded[d][j]}
          BY <2>1 DEF Orderly, HasChecked
        <4>2. \A j \in Migration : j < i + 1 => j < i \/ j = i
          BY <2>1, MigrationFacts
        <4> QED BY <2>1, <2>2, <3>1, <3>2, <4>1, <4>2 DEF HasChecked
      <3>5. HasMigrated(p)'
        BY <2>1, <3>1, <3>2 DEF Orderly, HasMigrated, Has
      <3> QED BY <3>3, <3>4, <3>5 DEF Orderly
    <2>3. CASE Files(p)[i] # None /\ recorded[d][i] = None /\ UNCHANGED lock
               /\ process' = [process EXCEPT ![p].pc = "applying"]
      <3>1. /\ process'[p].pc = "applying" /\ process'[p].at = process[p].at
            /\ process'[p].next = i
        BY <1>0, <2>1, <2>3 DEF ProcessState
      <3>2. Target(p)' = Target(p) /\ Files(p)' = Files(p)
        BY <2>1, <3>1 DEF Target, Files
      <3>3. AtATarget(p)' /\ HoldsItsLock(p)'
        BY <2>1, <2>3, <3>1, <3>2 DEF Orderly, AtATarget, HoldsItsLock
      <3>4. HasChecked(p)'
        BY <2>1, <2>3, <3>1, <3>2 DEF Orderly, HasChecked
      <3>5. HasMigrated(p)'
        BY <2>1, <3>1, <3>2 DEF Orderly, HasMigrated, Has
      <3> QED BY <3>3, <3>4, <3>5 DEF Orderly
    <2>4. CASE GiveUp(p)
      <3>1. process'[p].pc = "down"
        BY <2>4 DEF GiveUp, Down
      <3> QED BY <1>1, <3>1
    <2> QED BY <1>5, <2>2, <2>3, <2>4 DEF CheckFile, Goto
  <1>6. CASE CommitFile(p)
    <2> DEFINE d == Target(p)
               i == process[p].next
    <2>1. /\ d \in Database /\ i \in Migration
          /\ process[p].pc = "applying" /\ UNCHANGED <<lock, release>>
          /\ \A j \in Migration : j < i => Files(p)[j] \in {None, recorded[d][j]}
      BY <1>6, AboutToCommit DEF CommitFile, At
    <2>2. /\ process'[p].pc = "checking" /\ process'[p].at = process[p].at
          /\ process'[p].next = i + 1
      BY <1>0, <1>6 DEF CommitFile, ProcessState
    <2>3. Target(p)' = Target(p) /\ Files(p)' = Files(p)
      BY <2>1, <2>2 DEF Target, Files
    <2>4. AtATarget(p)'
      BY <2>1, <2>2, MigrationFacts DEF Orderly, AtATarget
    <2>5. HoldsItsLock(p)'
      BY <2>1, <2>2, <2>3 DEF Orderly, HoldsItsLock
    <2>6. ASSUME NEW e \in Database, NEW j \in Migration,
                 Files(p)[j] \in {None, recorded[e][j]}
          PROVE  Files(p)[j] \in {None, recorded'[e][j]}
      BY <2>6, RowSteps
    <2>7. recorded'[d][i] = Files(p)[i]
      BY <1>6, <2>1 DEF CommitFile
    <2>8. HasChecked(p)'
      <3>1. \A j \in Migration : j < i + 1 => j < i \/ j = i
        BY <2>1, MigrationFacts
      <3>2. \A j \in Migration : j < i + 1 => Files(p)[j] \in {None, recorded'[d][j]}
        BY <2>1, <2>6, <2>7, <3>1
      <3> QED BY <2>2, <2>3, <3>2 DEF HasChecked
    <2>9. HasMigrated(p)'
      <3>1. ASSUME NEW k \in 1 .. (process[p].at - 1) PROVE Has(p, TargetsOf[p][k])'
        <4>1. TargetsOf[p][k] \in Database
          BY <2>1, TargetFacts DEF Orderly, AtATarget
        <4>2. Has(p, TargetsOf[p][k])
          BY <2>1 DEF Orderly, HasMigrated
        <4> QED BY <2>3, <2>6, <4>1, <4>2 DEF Has
      <3> QED BY <2>2, <3>1 DEF HasMigrated
    <2> QED BY <2>4, <2>5, <2>8, <2>9 DEF Orderly
  <1>7. CASE CheckFails(p) \/ Stop(p)
    <2>1. CASE process'[p].pc = "down"
      BY <1>1, <2>1
    <2>2. CASE /\ process' = [process EXCEPT ![p].pc = "ending"]
               /\ process[p].pc \in {"checking", "applying"}
               /\ UNCHANGED lock
      <3>1. /\ process'[p].pc = "ending" /\ process'[p].at = process[p].at
            /\ process'[p].next = process[p].next
        BY <1>0, <2>2 DEF ProcessState
      <3>2. Target(p)' = Target(p)
        BY <3>1 DEF Target
      <3> QED BY <2>2, <3>1, <3>2 DEF Orderly, AtATarget, HoldsItsLock, HasChecked,
                HasMigrated
    <2>3. process' = [process EXCEPT ![p] = Down] => process'[p].pc = "down"
      BY DEF Down
    <2> QED BY <1>7, <2>1, <2>2, <2>3 DEF CheckFails, Stop, Goto, GiveUp, At
  <1>8. CASE Unlock(p)
    <2>1. /\ process[p].pc = "checking" /\ process[p].next \notin Migration
          /\ UNCHANGED <<recorded, release>>
      BY <1>8 DEF Unlock, At
    <2>2. Files(p)' = Files(p) /\ \A e : Has(p, e)' = Has(p, e)
      BY <2>1 DEF Files, Has
    <2>3. Has(p, Target(p))
      <3>1. process[p].next \in Nat /\ process[p].next >= 1
        BY <1>0, <2>1 DEF Orderly, AtATarget, ProcessState
      <3>2. \A j \in Migration : j < process[p].next
        BY <2>1, <3>1, MigrationFacts
      <3> QED BY <2>1, <3>2 DEF Orderly, HasChecked, Has
    <2>4. process[p].at \in 1 .. Len(TargetsOf[p]) /\ Len(TargetsOf[p]) \in Nat
      BY <2>1, TargetFacts DEF Orderly, AtATarget
    <2>5. \A k \in 1 .. process[p].at : Has(p, TargetsOf[p][k])
      BY <2>1, <2>3, <2>4 DEF Orderly, HasMigrated, Target
    <2>6. CASE process[p].at < Len(TargetsOf[p])
      <3>1. process'[p] = [pc |-> "waiting", at |-> process[p].at + 1, next |-> 1]
        BY <1>8, <2>6 DEF Unlock
      <3>2. AtATarget(p)'
        BY <2>4, <2>6, <3>1 DEF AtATarget
      <3>3. HasMigrated(p)'
        BY <2>2, <2>4, <2>5, <3>1 DEF HasMigrated
      <3> QED BY <3>1, <3>2, <3>3 DEF Orderly, HoldsItsLock, HasChecked
    <2>7. CASE ~(process[p].at < Len(TargetsOf[p]))
      <3>1. process'[p] = [process[p] EXCEPT !.pc = "serving"]
        BY <1>8, <2>7 DEF Unlock
      <3>2. /\ process'[p].pc = "serving" /\ process'[p].at = process[p].at
            /\ process'[p].next = process[p].next
        BY <1>0, <3>1 DEF ProcessState
      <3>3. AtATarget(p)'
        BY <2>1, <3>2 DEF Orderly, AtATarget
      <3>4. HasMigrated(p)'
        BY <2>2, <2>4, <2>5, <2>7, <3>2 DEF HasMigrated
      <3> QED BY <3>2, <3>3, <3>4 DEF Orderly, HoldsItsLock, HasChecked
    <2> QED BY <2>6, <2>7
  <1> QED BY <1>2, <1>3, <1>4, <1>5, <1>6, <1>7, <1>8 DEF Step, StartUp

\* A release whose earlier files are all there has them for good.
LEMMA OrderStays ==
    ASSUME Types, NEW p \in Process, Orderly(p), Step(p),
           NEW d \in Database, NEW m \in Migration, NEW r \in Release,
           \A j \in 1 .. (m - 1) : FilesOf[r][j] \in {None, recorded[d][j]}
    PROVE  \A j \in 1 .. (m - 1) : FilesOf[r][j] \in {None, recorded'[d][j]}
  BY MigrationFacts, RowSteps

LEMMA StepAppliedOnce ==
    ASSUME Types, AppliedOnceInOrder, NEW p \in Process, Orderly(p), Step(p)
    PROVE  AppliedOnceInOrder'
  <1>1. CASE UNCHANGED <<recorded, made>>
    BY <1>1 DEF AppliedOnceInOrder
  <1>2. CASE CommitFile(p)
    <2> DEFINE d == Target(p)
               i == process[p].next
    <2>1. /\ d \in Database /\ i \in Migration /\ recorded[d][i] = None
          /\ Files(p)[i] # None /\ release[p] \in Release
          /\ \A j \in Migration : j < i => Files(p)[j] \in {None, recorded[d][j]}
      BY <1>2, AboutToCommit
    <2>2. /\ recorded' = [recorded EXCEPT ![d][i] = Files(p)[i]]
          /\ made' = [made EXCEPT ![d][i] = @ + 1]
      BY <1>2 DEF CommitFile
    <2>3. made[d][i] = 0
      BY <2>1 DEF AppliedOnceInOrder
    <2> SUFFICES ASSUME NEW e \in Database, NEW m \in Migration
                 PROVE  /\ made'[e][m] = IF recorded'[e][m] = None THEN 0 ELSE 1
                        /\ recorded'[e][m] # None => \E r \in Release :
                             /\ FilesOf[r][m] = recorded'[e][m]
                             /\ \A j \in 1 .. (m - 1) :
                                   FilesOf[r][j] \in {None, recorded'[e][j]}
      BY DEF AppliedOnceInOrder
    <2>4. CASE e # d \/ m # i
      <3>1. made'[e][m] = made[e][m] /\ recorded'[e][m] = recorded[e][m]
        BY <2>1, <2>2, <2>4 DEF Types
      <3>2. ASSUME recorded[e][m] # None
            PROVE  \E r \in Release :
                     /\ FilesOf[r][m] = recorded'[e][m]
                     /\ \A j \in 1 .. (m - 1) : FilesOf[r][j] \in {None, recorded'[e][j]}
        <4>1. PICK r \in Release :
                 /\ FilesOf[r][m] = recorded[e][m]
                 /\ \A j \in 1 .. (m - 1) : FilesOf[r][j] \in {None, recorded[e][j]}
          BY <3>2 DEF AppliedOnceInOrder
        <4>2. \A j \in 1 .. (m - 1) : FilesOf[r][j] \in {None, recorded'[e][j]}
          BY <4>1, OrderStays
        <4> QED BY <3>1, <4>1, <4>2
      <3> QED BY <3>1, <3>2 DEF AppliedOnceInOrder
    <2>5. CASE e = d /\ m = i
      <3>1. made'[e][m] = 1 /\ recorded'[e][m] = FilesOf[release[p]][i]
        BY <2>1, <2>2, <2>3, <2>5 DEF Types, Files
      <3>2. \A j \in 1 .. (m - 1) : FilesOf[release[p]][j] \in {None, recorded[e][j]}
        BY <2>1, <2>5, MigrationFacts DEF Files
      <3>3. \A j \in 1 .. (m - 1) : FilesOf[release[p]][j] \in {None, recorded'[e][j]}
        BY <2>1, <2>5, <3>2, OrderStays
      <3> QED BY <2>1, <2>5, <3>1, <3>3 DEF Files
    <2> QED BY <2>4, <2>5
  <1> QED BY <1>1, <1>2, RowSteps

LEMMA InitMigrations == MigrationsInit => MigrationsInv
  <1> SUFFICES ASSUME MigrationsInit PROVE MigrationsInv
    OBVIOUS
  <1>1. \A p \in Process : Orderly(p)
    BY DEF MigrationsInit, Down, Orderly, AtATarget, HoldsItsLock, HasChecked,
       HasMigrated
  <1>2. AppliedOnceInOrder
    BY DEF MigrationsInit, AppliedOnceInOrder
  <1> QED BY <1>1, <1>2, InitTypes DEF MigrationsInv

LEMMA NextMigrations == MigrationsInv /\ [MigrationsNext]_migrationVars => MigrationsInv'
  <1> SUFFICES ASSUME MigrationsInv, [MigrationsNext]_migrationVars
               PROVE  MigrationsInv'
    OBVIOUS
  <1> USE DEF MigrationsInv
  <1>1. ASSUME NEW p \in Process, Step(p) PROVE MigrationsInv'
    <2>1. Types'
      BY <1>1, StepTypes
    <2>2. \A q \in Process : Orderly(q)'
      BY <1>1, OthersStayOrderly, OwnStaysOrderly
    <2>3. AppliedOnceInOrder'
      BY <1>1, StepAppliedOnce
    <2> QED BY <2>1, <2>2, <2>3
  <1>2. CASE UNCHANGED migrationVars
    BY <1>2 DEF migrationVars, Types, Orderly, AtATarget, HoldsItsLock, HasChecked,
         HasMigrated, AppliedOnceInOrder, Has, Target, Files
  <1> QED BY <1>1, <1>2 DEF MigrationsNext, Step

-----------------------------------------------------------------------------
(* The rehearsal *)

LEMMA TableFacts ==
    /\ Cardinality(Table) \in Nat /\ Cardinality(Table) >= 1
    /\ Table = 1 .. Cardinality(Table) /\ 1 \in Table
  <1>1. Cardinality(Table) \in Nat
    BY TableAssumption, FS_CardinalityType
  <1>2. Cardinality(Table) >= 1
    BY <1>1, TableAssumption
  <1> QED BY <1>1, <1>2, TableAssumption

\* What a new transaction sees has the same records in every table.
LEMMA NowFacts ==
    ASSUME Types, ImagesAreUniform, NEW server \in Side, Reachable(server)
    PROVE  /\ Now(server) \in Image /\ Uniform(Now(server).tables)
           /\ server = "restored" => restored # None /\ Now(server) = restored
  <1>1. CASE server = "source"
    <2>1. Now(server) = [migrations |-> recorded[Source], tables |-> rows]
      BY <1>1 DEF Now
    <2>2. /\ recorded[Source] \in [Migration -> Checksum \cup {None}]
          /\ rows \in [Table -> SUBSET Row]
      BY SourceAssumption DEF Types, ImagesAreUniform
    <2> QED BY <1>1, <2>1, <2>2 DEF Image, ImagesAreUniform
  <1>2. CASE server # "source"
    BY <1>2 DEF Now, Reachable, ImagesAreUniform
  <1> QED BY <1>1, <1>2

\* A record number is in range: no more rows exist than numbers were given out.
LEMMA RowNumber ==
    ASSUME rows \in [Table -> SUBSET Row]
    PROVE  Cardinality(UNION {rows[t] : t \in Table}) \in Nat
  <1>1. IsFiniteSet(1 .. MaxRows)
    BY VerdictAssumption, FS_Interval
  <1>2. UNION {rows[t] : t \in Table} \subseteq 1 .. MaxRows
    BY DEF Row
  <1>3. IsFiniteSet(UNION {rows[t] : t \in Table})
    BY <1>1, <1>2, FS_Subset
  <1> QED BY <1>3, FS_CardinalityType

LEMMA NextImages == Types /\ ImagesAreUniform /\ [Next]_vars => ImagesAreUniform'
  <1> SUFFICES ASSUME Types, ImagesAreUniform, [Next]_vars PROVE ImagesAreUniform'
    OBVIOUS
  <1> USE DEF ImagesAreUniform
  <1>1. ASSUME NEW p \in Process, Write(p) PROVE ImagesAreUniform'
    <2> DEFINE n == Cardinality(UNION {rows[t] : t \in Table}) + 1
    <2>1. n \in Nat /\ n >= 1
      BY RowNumber
    <2> HIDE DEF n
    <2>2. n <= MaxRows /\ rows' = [t \in Table |-> rows[t] \cup {n}]
          /\ restored' = restored
      BY <1>1 DEF Write, n
    <2>3. n \in Row
      BY <2>1, <2>2, VerdictAssumption DEF Row
    <2>4. rows' \in [Table -> SUBSET Row]
      BY <2>2, <2>3
    <2>5. Uniform(rows')
      BY <2>2 DEF Uniform
    <2> QED BY <2>2, <2>4, <2>5
  <1>2. CASE Restore
    <2>1. restored' = Now("source") /\ rows' = rows
      BY <1>2 DEF Restore
    <2>2. Now("source") \in Image /\ Uniform(Now("source").tables)
      BY NowFacts DEF Side, Reachable
    <2> QED BY <2>1, <2>2
  <1>3. CASE UNCHANGED <<rows, restored>>
    BY <1>3
  <1>4. ASSUME \/ MigrationsNext /\ UNCHANGED gateVars
               \/ Compare
               \/ \E side \in Side :
                    \/ \E server \in Side : BeginSnapshot(side, server)
                    \/ ReadTable(side)
               \/ UNCHANGED vars
        PROVE  UNCHANGED <<rows, restored>>
    BY <1>4 DEF gateVars, Compare, BeginSnapshot, ReadTable, vars
  <1> QED BY <1>1, <1>2, <1>3, <1>4 DEF Next, GateNext

\* A restored server is never written again.
LEMMA RestoredStays ==
    ASSUME [Next]_vars, restored # None
    PROVE  restored' = restored
  BY DEF Next, GateNext, gateVars, vars, Write, Restore, Compare, BeginSnapshot, ReadTable

LEMMA ViewStays ==
    ASSUME NEW x, ReadsItsView(x), [Next]_vars
    PROVE  ReadsItsView(x)'
  BY RestoredStays DEF ReadsItsView, NamesItsTarget, Uniform, MigrationsMatch,
     NoSnapshot, Image, ExpectedMigrations

LEMMA NextSnapshots ==
    ASSUME Types, ImagesAreUniform, SnapshotsReadTheirViews, [Next]_vars
    PROVE  SnapshotsReadTheirViews'
  <1> USE DEF SnapshotsReadTheirViews
  <1>1. ASSUME NEW side \in Side, NEW server \in Side, BeginSnapshot(side, server)
        PROVE  SnapshotsReadTheirViews'
    <2> DEFINE x == [stage |-> "reading", target |-> server, identity |-> None,
                     view |-> Now(server), tables |-> <<>>]
    <2>1. /\ snapshot' = [snapshot EXCEPT ![side] = x] /\ UNCHANGED restored
          /\ Reachable(server) /\ MigrationsMatch(Now(server))
      BY <1>1 DEF BeginSnapshot
    <2>2. /\ Now(server) \in Image /\ Uniform(Now(server).tables)
          /\ server = "restored" => restored # None /\ Now(server) = restored
      BY <2>1, NowFacts
    <2>3. x.tables \in Seq(SUBSET Row) /\ Len(x.tables) = 0
      OBVIOUS
    <2>4. ReadsItsView(x)
      BY <2>1, <2>2, <2>3, TableFacts DEF ReadsItsView, NamesItsTarget
    <2>5. \A s \in Side : \E y : ReadsItsView(y) /\ snapshot'[s] = y
      BY <2>1, <2>4
    <2>6. \A s \in Side : ReadsItsView(snapshot'[s])
      BY <2>5
    <2>7. DOMAIN snapshot' = Side
      BY <2>1
    <2>8. \A y : ReadsItsView(y) => ReadsItsView(y)'
      BY ViewStays
    <2> QED BY <2>6, <2>7, <2>8
  <1>2. ASSUME NEW side \in Side, ReadTable(side) PROVE SnapshotsReadTheirViews'
    <2> DEFINE x == snapshot[side]
               t == Len(x.tables) + 1
               tables == Append(x.tables, x.view.tables[t])
    <2>0. ReadsItsView(x) /\ x.stage = "reading"
      BY <1>2 DEF ReadTable
    <2>1. /\ x.stage = "reading"
          /\ \/ /\ Len(tables) < Cardinality(Table)
                /\ snapshot' = [snapshot EXCEPT ![side] = [x EXCEPT !.tables = tables]]
             \/ snapshot' = [snapshot EXCEPT ![side] = NoSnapshot]
             \/ /\ Len(tables) = Cardinality(Table)
                /\ \E declared \in Declaration, reported \in AddressesOf[x.target] :
                     snapshot' = [snapshot EXCEPT ![side] =
                       [x EXCEPT !.tables = tables, !.stage = "done",
                                 !.identity = TargetIdentity(declared, reported)]]
      BY <1>2 DEF ReadTable, Seen
    <2>2. /\ x.target \in Side
          /\ x.view \in Image /\ Uniform(x.view.tables) /\ MigrationsMatch(x.view)
          /\ x.target = "restored" => restored # None /\ x.view = restored
          /\ x.tables \in Seq(SUBSET Row) /\ Len(x.tables) \in 0 .. Cardinality(Table)
          /\ \A i \in 1 .. Len(x.tables) : x.tables[i] = x.view.tables[i]
          /\ Len(x.tables) # Cardinality(Table)
      BY <2>0 DEF ReadsItsView, NoSnapshot
    <2>3. t \in Table
      BY <2>2, TableFacts
    <2>4. x.view.tables[t] \in SUBSET Row
      BY <2>2, <2>3 DEF Image
    <2>5. tables \in Seq(SUBSET Row) /\ Len(tables) = t
          /\ Len(tables) \in 0 .. Cardinality(Table)
      BY <2>2, <2>3, <2>4, TableFacts
    <2>6. \A i \in 1 .. Len(tables) : tables[i] = x.view.tables[i]
      BY <2>2, <2>4, <2>5
    <2> HIDE DEF tables
    <2>7. ASSUME NEW y, snapshot' = [snapshot EXCEPT ![side] = y], ReadsItsView(y)
          PROVE  SnapshotsReadTheirViews'
      <3>1. \A s \in Side : ReadsItsView(snapshot'[s])
        BY <2>7
      <3>2. DOMAIN snapshot' = Side
        BY <2>7
      <3>3. \A z : ReadsItsView(z) => ReadsItsView(z)'
        BY ViewStays
      <3> QED BY <3>1, <3>2, <3>3
    <2>8. ASSUME NEW y, y.target = x.target, y.view = x.view, y.tables = tables,
                 \/ y.stage = "reading" /\ Len(tables) < Cardinality(Table)
                 \/ y.stage = "done" /\ Len(tables) = Cardinality(Table),
                 NamesItsTarget(y)
          PROVE  ReadsItsView(y)
      BY <2>2, <2>5, <2>6, <2>8, TableFacts DEF ReadsItsView
    <2>9. CASE snapshot' = [snapshot EXCEPT ![side] = NoSnapshot]
      BY <2>7, <2>9 DEF ReadsItsView
    <2>10. CASE /\ Len(tables) < Cardinality(Table)
                /\ snapshot' = [snapshot EXCEPT ![side] = [x EXCEPT !.tables = tables]]
      <3> DEFINE y == [x EXCEPT !.tables = tables]
      <3>1. /\ y.target = x.target /\ y.view = x.view /\ y.tables = tables
            /\ y.stage = x.stage
        OBVIOUS
      <3>2. snapshot' = [snapshot EXCEPT ![side] = y]
        BY <2>10
      <3> HIDE DEF y
      <3>3. ReadsItsView(y)
        BY <2>0, <2>8, <2>10, <3>1 DEF NamesItsTarget
      <3> QED BY <2>7, <3>2, <3>3
    <2>11. ASSUME NEW declared \in Declaration, NEW reported \in AddressesOf[x.target],
                  Len(tables) = Cardinality(Table),
                  snapshot' = [snapshot EXCEPT ![side] =
                       [x EXCEPT !.tables = tables, !.stage = "done",
                                 !.identity = TargetIdentity(declared, reported)]]
           PROVE  SnapshotsReadTheirViews'
      <3> DEFINE y == [x EXCEPT !.tables = tables, !.stage = "done",
                                !.identity = TargetIdentity(declared, reported)]
      <3>1. /\ y.target = x.target /\ y.view = x.view /\ y.tables = tables
            /\ y.stage = "done" /\ y.identity = TargetIdentity(declared, reported)
        OBVIOUS
      <3>2. snapshot' = [snapshot EXCEPT ![side] = y]
        BY <2>11
      <3> HIDE DEF y
      <3>3. NamesItsTarget(y)
        BY <3>1 DEF NamesItsTarget, TargetIdentity
      <3>4. ReadsItsView(y)
        BY <2>8, <2>11, <3>1, <3>3
      <3> QED BY <2>7, <3>2, <3>4
    <2> QED BY <2>1, <2>9, <2>10, <2>11
  <1>3. ASSUME snapshot' = [s \in Side |-> NoSnapshot] PROVE SnapshotsReadTheirViews'
    BY <1>3 DEF ReadsItsView
  <1>4. ASSUME snapshot' = snapshot PROVE SnapshotsReadTheirViews'
    <2>1. \A z : ReadsItsView(z) => ReadsItsView(z)'
      BY ViewStays
    <2> QED BY <1>4, <2>1
  <1>5. ASSUME \/ MigrationsNext /\ UNCHANGED gateVars
               \/ \E p \in Process : Write(p)
               \/ Restore
               \/ Compare
               \/ UNCHANGED vars
        PROVE  snapshot' = snapshot \/ snapshot' = [s \in Side |-> NoSnapshot]
    BY <1>5 DEF gateVars, Write, Restore, Compare, vars
  <1> QED BY <1>1, <1>2, <1>3, <1>4, <1>5 DEF Next, GateNext

\* No step touches the snapshots once the verdict is given.
LEMMA NextVerdict == VerdictIsOfTheSnapshots /\ [Next]_vars => VerdictIsOfTheSnapshots'
  <1> SUFFICES ASSUME VerdictIsOfTheSnapshots, [Next]_vars
               PROVE  VerdictIsOfTheSnapshots'
    OBVIOUS
  <1> USE DEF VerdictIsOfTheSnapshots
  <1>1. ASSUME NEW side \in Side,
               ReadTable(side) \/ \E server \in Side : BeginSnapshot(side, server)
        PROVE  VerdictIsOfTheSnapshots'
    <2>1. snapshot[side].stage # "done" /\ UNCHANGED verdict
      BY <1>1 DEF ReadTable, BeginSnapshot
    <2>2. verdict # "PASS"
      BY <2>1
    <2> QED BY <2>1, <2>2
  <1>2. CASE Compare
    <2>1. \A side \in Side : snapshot[side].stage = "done"
      BY <1>2 DEF Compare
    <2>2. CASE Comparable(snapshot["source"], snapshot["restored"])
      <3>1. verdict' = "PASS" /\ snapshot' = snapshot
        BY <1>2, <2>2 DEF Compare
      <3> QED BY <2>1, <2>2, <3>1 DEF Comparable
    <2>3. CASE ~Comparable(snapshot["source"], snapshot["restored"])
      <3>1. verdict = None /\ verdict' = verdict
        BY <1>2, <2>3 DEF Compare
      <3> QED BY <3>1, VerdictAssumption
    <2> QED BY <2>2, <2>3
  <1>3. CASE UNCHANGED <<snapshot, verdict>>
    BY <1>3 DEF Comparable
  <1>4. ASSUME \/ MigrationsNext /\ UNCHANGED gateVars
               \/ \E p \in Process : Write(p)
               \/ Restore
               \/ UNCHANGED vars
        PROVE  UNCHANGED <<snapshot, verdict>>
    BY <1>4 DEF gateVars, Write, Restore, vars
  <1> QED BY <1>1, <1>2, <1>3, <1>4 DEF Next, GateNext

LEMMA InitInv == Init => IInv
  <1> SUFFICES ASSUME Init PROVE IInv
    OBVIOUS
  <1> USE DEF Init
  <1>1. MigrationsInv
    BY InitMigrations
  <1>2. ImagesAreUniform
    BY DEF ImagesAreUniform, Uniform
  <1>3. SnapshotsReadTheirViews
    BY DEF SnapshotsReadTheirViews, ReadsItsView
  <1>4. VerdictIsOfTheSnapshots
    BY VerdictAssumption DEF VerdictIsOfTheSnapshots
  <1> QED BY <1>1, <1>2, <1>3, <1>4 DEF IInv

LEMMA NextInv == IInv /\ [Next]_vars => IInv'
  <1> SUFFICES ASSUME IInv, [Next]_vars PROVE IInv'
    OBVIOUS
  <1>1. [MigrationsNext]_migrationVars
    BY DEF Next, GateNext, vars, Write, Restore, Compare, BeginSnapshot, ReadTable
  <1>2. MigrationsInv'
    BY <1>1, NextMigrations DEF IInv
  <1>3. ImagesAreUniform'
    BY NextImages DEF IInv, MigrationsInv
  <1>4. SnapshotsReadTheirViews'
    BY NextSnapshots DEF IInv, MigrationsInv
  <1>5. VerdictIsOfTheSnapshots'
    BY NextVerdict DEF IInv
  <1> QED BY <1>2, <1>3, <1>4, <1>5 DEF IInv

LEMMA InvariantHolds == Spec => []IInv
  BY InitInv, NextInv, PTL DEF Spec

-----------------------------------------------------------------------------
(* Theorems *)

\* Every reachable state is well typed; in particular no file's effects are ever
\* in a database twice.
THEOREM TypeCorrect == Spec => []TypeOK
  <1>1. IInv => TypeOK
    <2> SUFFICES ASSUME IInv PROVE TypeOK
      OBVIOUS
    <2>1. made \in [Database -> [Migration -> 0 .. 2]]
      <3>1. made \in [Database -> [Migration -> Nat]]
        BY DEF IInv, MigrationsInv, Types
      <3>2. \A d \in Database, m \in Migration : made[d][m] \in 0 .. 2
        BY DEF IInv, MigrationsInv, AppliedOnceInOrder
      <3>3. \A d \in Database : made[d] \in [Migration -> 0 .. 2]
        BY <3>1, <3>2
      <3> QED BY <3>1, <3>3
    <2>2. MigrationsTypeOK
      BY <2>1 DEF IInv, MigrationsInv, Types, MigrationsTypeOK
    <2>3. rows \in [Table -> SUBSET Row] /\ restored \in Image \cup {None}
      BY DEF IInv, ImagesAreUniform
    <2>4. ASSUME NEW side \in Side
          PROVE  /\ snapshot[side].stage \in {"none", "reading", "done"}
                 /\ snapshot[side].stage # "none" =>
                      snapshot[side].target \in Side /\ snapshot[side].view \in Image
                 /\ snapshot[side].stage = "done" =>
                      /\ snapshot[side].identity.declared \in Declaration
                      /\ snapshot[side].identity.address
                           \in AddressesOf[snapshot[side].target]
      BY DEF IInv, SnapshotsReadTheirViews, ReadsItsView, NamesItsTarget, NoSnapshot
    <2>5. verdict \in {None, "PASS"}
      BY DEF IInv, VerdictIsOfTheSnapshots
    <2> QED BY <2>2, <2>3, <2>4, <2>5 DEF TypeOK
  <1> QED BY <1>1, InvariantHolds, PTL

\* However many processes of however many releases start, stop and time out
\* against each other, each recorded file is in a database exactly once, no other
\* file is, and none went in before the earlier files of its release, whichever
\* files each release ships.
THEOREM MigrationsAreAppliedOnce == Spec => []AppliedOnceInOrder
  <1>1. IInv => AppliedOnceInOrder
    BY DEF IInv, MigrationsInv
  <1> QED BY <1>1, InvariantHolds, PTL

\* A process serves only on the schema of its own release, in every one of its
\* databases, and goes on doing so whatever other releases add later.
THEOREM ServingProcessesHaveTheirSchema == Spec => []ServesItsOwnSchema
  <1>1. IInv => ServesItsOwnSchema
    BY DEF IInv, MigrationsInv, Orderly, HasMigrated, ServesItsOwnSchema, At
  <1> QED BY <1>1, InvariantHolds, PTL

\* The advisory lock excludes: at most one process at a time looks at or applies
\* the files of a database, a session that is only ending included.
OneMigrator ==
    \A p, q \in Process :
        /\ process[p].pc \in {"checking", "applying", "ending"}
        /\ process[q].pc \in {"checking", "applying", "ending"}
        /\ Target(p) = Target(q)
        => p = q

\* No two processes migrate one database at once.
THEOREM OneMigratorPerDatabase == Spec => []OneMigrator
  <1>1. IInv => OneMigrator
    BY DEF IInv, MigrationsInv, Orderly, HoldsItsLock, OneMigrator
  <1> QED BY <1>1, InvariantHolds, PTL

\* A snapshot read table by table under concurrent writers is of one moment, for
\* any number of tables, writers and records.
THEOREM SnapshotsAreConsistent == Spec => []SnapshotIsOneMoment
  <1>1. IInv => SnapshotIsOneMoment
    <2> SUFFICES ASSUME IInv, NEW side \in Side,
                        NEW i \in 1 .. Len(snapshot[side].tables),
                        NEW j \in 1 .. Len(snapshot[side].tables)
                 PROVE  snapshot[side].tables[i] = snapshot[side].tables[j]
      BY DEF SnapshotIsOneMoment
    <2> DEFINE x == snapshot[side]
    <2>1. ReadsItsView(x)
      BY DEF IInv, SnapshotsReadTheirViews
    <2>2. CASE x = NoSnapshot
      BY <2>2 DEF NoSnapshot
    <2>3. CASE x # NoSnapshot
      <3>1. /\ Uniform(x.view.tables) /\ Len(x.tables) \in 0 .. Cardinality(Table)
            /\ x.tables[i] = x.view.tables[i] /\ x.tables[j] = x.view.tables[j]
        BY <2>1, <2>3 DEF ReadsItsView
      <3>2. i \in Table /\ j \in Table
        BY <3>1, TableFacts
      <3> QED BY <3>1, <3>2 DEF Uniform
    <2> QED BY <2>2, <2>3
  <1> QED BY <1>1, InvariantHolds, PTL

\* A PASS is given only to two transactions that saw the same database, of the
\* expected schema and with the same records in every table, although the
\* operator may have named either server for either side and declared anything of
\* it; and when both snapshots are declared as what they are, under one key, and
\* no server moved between two snapshots of it, there is a restored server, which
\* still is exactly what the source snapshot saw.
THEOREM PassIsEarned == Spec => []PassMeansRestored
  <1>1. IInv => PassMeansRestored
    <2> SUFFICES ASSUME IInv, verdict = "PASS" PROVE PassMeansRestored
      BY DEF PassMeansRestored
    <2> DEFINE s == snapshot["source"]
               r == snapshot["restored"]
    <2>1. /\ s.stage = "done" /\ r.stage = "done"
          /\ s.identity # r.identity /\ s.tables = r.tables
      BY DEF IInv, VerdictIsOfTheSnapshots, Comparable, Side
    <2>2. ReadsItsView(s) /\ ReadsItsView(r)
      BY DEF IInv, SnapshotsReadTheirViews, Side
    <2>3. ASSUME NEW x, ReadsItsView(x), x.stage = "done"
          PROVE  /\ x.target \in Side /\ MigrationsMatch(x.view) /\ x.view \in Image
                 /\ x.target = "restored" => restored # None /\ x.view = restored
                 /\ \A t \in Table : x.tables[t] = x.view.tables[t]
                 /\ x.identity = TargetIdentity(x.identity.declared, x.identity.address)
      BY <2>3, TableFacts DEF ReadsItsView, NamesItsTarget, NoSnapshot
    <2>4. \A t \in Table : s.view.tables[t] = r.view.tables[t]
      BY <2>1, <2>2, <2>3
    <2>5. /\ s.view.migrations = ExpectedMigrations
          /\ r.view.migrations = ExpectedMigrations
          /\ s.view \in Image /\ r.view \in Image
      BY <2>1, <2>2, <2>3 DEF MigrationsMatch
    <2>6. r.view = s.view
      <3>1. r.view.tables = s.view.tables
        BY <2>4, <2>5 DEF Image
      <3> QED BY <2>5, <3>1 DEF Image
    <2>7. ASSUME Identified(s, r) PROVE restored = s.view
      <3>1. s.target # r.target
        <4> SUFFICES ASSUME s.target = r.target PROVE FALSE
          OBVIOUS
        <4>1. /\ s.identity.declared = r.identity.declared
              /\ s.identity.address = r.identity.address
          BY <2>7 DEF Identified
        <4> QED BY <2>1, <2>2, <2>3, <4>1
      <3>2. s.target = "restored" \/ r.target = "restored"
        BY <2>1, <2>2, <2>3, <3>1 DEF Side
      <3> QED BY <2>1, <2>2, <2>3, <2>6, <3>2
    <2> QED BY <2>5, <2>6, <2>7 DEF PassMeansRestored
  <1> QED BY <1>1, InvariantHolds, PTL
=============================================================================
