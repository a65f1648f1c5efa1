----------------------------- MODULE Migrations -----------------------------
(***************************************************************************)
(* Start-up of the service's processes: PostgresMigrationRunner.apply of   *)
(* migration_runner.py as called by SentinelRuntime (runtime_app.py), by   *)
(* audit_worker.py and by outbox_worker.py.  Every process applies the     *)
(* migration files of its own release to its databases, one after the      *)
(* other, each under that database's session advisory lock, and serves     *)
(* only when all of them are recorded.  Processes start, stop and are      *)
(* redeployed with another release at any time.                            *)
(*                                                                         *)
(* A file is its id and the checksum of its text.  `made' counts how often *)
(* the effects of a file are in the database: a transaction that rolls     *)
(* back leaves none.  PostgreSQL releases an advisory lock when its holder *)
(* unlocks it or when the session ends, which may be some time later.      *)
(***************************************************************************)
EXTENDS Naturals, Sequences, FiniteSets

CONSTANTS
    Process,     \* processes that share the databases
    Database,    \* databases
    TargetsOf,   \* the databases each process migrates, in order
    Migration,   \* migration ids, numbered in the order of their file names
    Checksum,    \* checksums of the text of migration files
    Release,     \* releases of the software
    FilesOf,     \* the checksum of each file of a release, None if it ships none
    None,        \* no row, no file, no holder
    MaxFaults    \* bound on stopped processes and failed statements

\* Every process has at least one database: the application its governance and
\* identity databases, a worker the governance database.
ASSUME TargetsAssumption ==
    /\ TargetsOf \in [Process -> Seq(Database)]
    /\ \A p \in Process : TargetsOf[p] # <<>>
\* The ids are those of all releases, numbered in the order of sorted(glob).  A
\* release ships any of them, at least one: a later release may drop a file, or
\* add one that sorts before the files that databases already have.
ASSUME FilesAssumption ==
    /\ IsFiniteSet(Migration) /\ Migration = 1 .. Cardinality(Migration)
    /\ FilesOf \in [Release -> [Migration -> Checksum \cup {None}]]
    /\ \A r \in Release : \E m \in Migration : FilesOf[r][m] # None
    /\ None \notin Checksum \cup Process
ASSUME FaultsAssumption == MaxFaults \in Nat

VARIABLES
    recorded,  \* schema_migrations of each database: id -> checksum
    made,      \* how often the effects of each file are in each database
    lock,      \* who holds the advisory lock of each database
    process,   \* where each process is
    release,   \* the release each process runs
    faults     \* how many faults there were

migrationVars == <<recorded, made, lock, process, release, faults>>

\* `at': the database being migrated, `next': the file looked at.
PC == {"down", "waiting", "checking", "applying", "serving", "ending"}
ProcessState == [pc: PC, at: Nat, next: Nat]
Down == [pc |-> "down", at |-> 0, next |-> 0]

MigrationsInit ==
    /\ recorded = [d \in Database |-> [m \in Migration |-> None]]
    /\ made = [d \in Database |-> [m \in Migration |-> 0]]
    /\ lock = [d \in Database |-> None]
    /\ process = [p \in Process |-> Down]
    /\ release \in [Process -> Release]
    /\ faults = 0

-----------------------------------------------------------------------------
(* Helpers *)

Files(p) == FilesOf[release[p]]
Target(p) == TargetsOf[p][process[p].at]
At(p, pc) == process[p].pc = pc
Goto(p, pc) == process' = [process EXCEPT ![p].pc = pc]
Holds(p, d) == lock[d] = p
Free(d) == lock' = [lock EXCEPT ![d] = None]

\* The startup fails after the lock was released: the process is gone, or the
\* next request of the lazy application starts over.
GiveUp(p) == process' = [process EXCEPT ![p] = Down]

Fault == faults < MaxFaults /\ faults' = faults + 1

-----------------------------------------------------------------------------
(* Actions *)

\* _apply_runtime_migrations, build_worker: on to the first database.
Begin(p) ==
    /\ At(p, "down")
    /\ process' = [process EXCEPT ![p] = [pc |-> "waiting", at |-> 1, next |-> 1]]
    /\ UNCHANGED <<recorded, made, lock, release, faults>>

\* pg_advisory_lock, then CREATE TABLE IF NOT EXISTS schema_migrations.
TakeLock(p) ==
    /\ At(p, "waiting")
    /\ lock[Target(p)] = None
    /\ lock' = [lock EXCEPT ![Target(p)] = p]
    /\ Goto(p, "checking")
    /\ UNCHANGED <<recorded, made, release, faults>>

\* lock_timeout: the statement fails before the lock is held.
TimeOut(p) ==
    /\ At(p, "waiting")
    /\ lock[Target(p)] # None
    /\ GiveUp(p)
    /\ UNCHANGED <<recorded, made, lock, release, faults>>

\* The next id: one the release does not ship is passed over, and a recorded file
\* is skipped when its checksum agrees; when it does not, the lock is released
\* and the startup fails; a new file is executed in a transaction that stays
\* open.
CheckFile(p) ==
    LET d == Target(p)
        i == process[p].next
        row == recorded[d][i]
    IN
    /\ At(p, "checking")
    /\ i \in Migration
    /\ \/ /\ Files(p)[i] \in {None, row}
          /\ process' = [process EXCEPT ![p].next = i + 1]
          /\ UNCHANGED lock
       \/ /\ Files(p)[i] # None /\ row = None
          /\ Goto(p, "applying")
          /\ UNCHANGED lock
       \/ /\ Files(p)[i] # None /\ row \notin {None, Files(p)[i]}
          /\ GiveUp(p) /\ Free(d)
    /\ UNCHANGED <<recorded, made, release, faults>>

\* Mutant: the row is written in a transaction after the one of the file.
CommitFile_Autocommit(p) ==
    LET d == Target(p)
        i == process[p].next
    IN
    /\ At(p, "applying")
    /\ made' = [made EXCEPT ![d][i] = IF @ < 2 THEN @ + 1 ELSE @]
    /\ recorded' = [recorded EXCEPT ![d][i] = IF made[d][i] = 0 THEN @
                                              ELSE Files(p)[i]]
    /\ process' = [process EXCEPT ![p].pc = "checking"]
    /\ UNCHANGED <<lock, release, faults>>

\* The file's effects and its row commit together.
CommitFile(p) ==
    LET d == Target(p)
        i == process[p].next
    IN
    /\ At(p, "applying")
    /\ recorded' = [recorded EXCEPT ![d][i] = Files(p)[i]]
    /\ made' = [made EXCEPT ![d][i] = @ + 1]
    /\ process' = [process EXCEPT ![p].pc = "checking", ![p].next = i + 1]
    /\ UNCHANGED <<lock, release, faults>>

\* The file's SQL fails: rollback, unlock, fail.
ApplyFails(p) ==
    /\ At(p, "applying")
    /\ Fault
    /\ GiveUp(p) /\ Free(Target(p))
    /\ UNCHANGED <<recorded, made, release>>

\* A statement that no handler rolls back fails while the lock is held (a
\* timeout of CREATE TABLE or of the SELECT): pg_advisory_unlock is refused in
\* the aborted transaction, and the session goes back to the pool with its lock.
CheckFails(p) ==
    /\ At(p, "checking")
    /\ Fault
    /\ Goto(p, "ending")
    /\ UNCHANGED <<recorded, made, lock, release>>

\* Mutant: the process serves before its other databases are migrated.
Unlock_FirstOnly(p) ==
    /\ At(p, "checking")
    /\ process[p].next \notin Migration
    /\ Free(Target(p))
    /\ Goto(p, "serving")
    /\ UNCHANGED <<recorded, made, release, faults>>

\* pg_advisory_unlock, then the next database, or the service starts.
Unlock(p) ==
    /\ At(p, "checking")
    /\ process[p].next \notin Migration
    /\ Free(Target(p))
    /\ process' = [process EXCEPT ![p] =
         IF @.at < Len(TargetsOf[p])
         THEN [pc |-> "waiting", at |-> @.at + 1, next |-> 1]
         ELSE [@ EXCEPT !.pc = "serving"]]
    /\ UNCHANGED <<recorded, made, release, faults>>

\* The process is killed or replaced by another release.  What it has not
\* committed is rolled back; its lock goes when the server ends the session.
Stop(p) ==
    /\ process[p].pc \notin {"down", "ending"}
    /\ Fault
    /\ \E r \in Release : release' = [release EXCEPT ![p] = r]
    /\ IF process[p].pc \in {"checking", "applying"}
       THEN Goto(p, "ending") ELSE GiveUp(p)
    /\ UNCHANGED <<recorded, made, lock>>

\* Mutant: the session, kept in a pool, is never ended.
EndSession_Pooled(p) ==
    /\ At(p, "ending")
    /\ GiveUp(p)
    /\ UNCHANGED <<recorded, made, lock, release, faults>>

\* The session ends and PostgreSQL releases its lock.
EndSession(p) ==
    /\ At(p, "ending")
    /\ GiveUp(p) /\ Free(Target(p))
    /\ UNCHANGED <<recorded, made, release, faults>>

\* What a process does by itself, and what the platform does for it.
StartUp(p) ==
    \/ Begin(p) \/ TakeLock(p) \/ CheckFile(p) \/ CommitFile(p) \/ Unlock(p)
    \/ EndSession(p)

MigrationsNext ==
    \E p \in Process :
        \/ StartUp(p) \/ TimeOut(p) \/ ApplyFails(p) \/ CheckFails(p) \/ Stop(p)

-----------------------------------------------------------------------------
(* Properties *)

MigrationsTypeOK ==
    /\ recorded \in [Database -> [Migration -> Checksum \cup {None}]]
    /\ made \in [Database -> [Migration -> 0 .. 2]]
    /\ lock \in [Database -> Process \cup {None}]
    /\ process \in [Process -> ProcessState]
    /\ release \in [Process -> Release]
    /\ faults \in 0 .. MaxFaults

\* The database has every file that p's release ships, with its text.
Has(p, d) == \A m \in Migration : Files(p)[m] \in {None, recorded[d][m]}

\* However many processes start at once and wherever they stop, a database holds
\* the effects of each recorded file exactly once and of no other file, and each
\* file went in only after all the earlier ones of a release that ships it with
\* this text.  (Files that only another release ships may come later, out of
\* order: the runner does not look at them.)
AppliedOnceInOrder ==
    \A d \in Database, m \in Migration :
        /\ made[d][m] = IF recorded[d][m] = None THEN 0 ELSE 1
        /\ recorded[d][m] # None => \E r \in Release :
             /\ FilesOf[r][m] = recorded[d][m]
             /\ \A j \in 1 .. (m - 1) : FilesOf[r][j] \in {None, recorded[d][j]}

\* A process that serves has, in each of its databases, every file of its own
\* release with its own text, whatever other releases did before or since.
ServesItsOwnSchema ==
    \A p \in Process : At(p, "serving") =>
        \A i \in 1 .. Len(TargetsOf[p]) : Has(p, TargetsOf[p][i])

\* No recorded file was ever edited: every release in use agrees with the rows.
NoFileWasEdited ==
    \A p \in Process, d \in Database, m \in Migration :
        Files(p)[m] = None \/ recorded[d][m] \in {None, Files(p)[m]}

\* As long as nobody edits a released file, every process ends up serving once
\* faults stop: no lock that a dead session or a failed start leaves behind, and
\* no timeout of a process that waits, keeps the others out for good.
EveryProcessServes ==
    []NoFileWasEdited => <>[](\A p \in Process : At(p, "serving"))

=============================================================================
