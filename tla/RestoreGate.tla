---------------------------- MODULE RestoreGate -----------------------------
(***************************************************************************)
(* The restore rehearsal of live_gate_harness.py, composed with the        *)
(* processes of Migrations: serving processes keep writing to the source   *)
(* database, the platform restores it, as of any moment (while migrations  *)
(* run, too), to a new server, the verifier takes a snapshot of each side  *)
(* in a repeatable-read transaction, table by table, and two snapshots are *)
(* compared.                                                               *)
(*                                                                         *)
(* Writers commit one synthetic row to every table in one transaction, as  *)
(* GovernanceCore does with a finding's event, outbox and export rows.     *)
(* Digests are modelled by what they digest.  So is the HMAC that stands   *)
(* for a target: it covers the key, resource id and host name the operator *)
(* supplies (a declaration) and the address the server reports, and is no  *)
(* proof of which server that is.  An operator may declare one server      *)
(* twice, and a server may be met at another address than before.          *)
(***************************************************************************)
EXTENDS Migrations

Side == {"source", "restored"}

CONSTANTS
    Source,     \* the database the processes write to
    Expected,   \* the release whose files the verifier expects
    Table,      \* tables that hold synthetic rows
    MaxRows,    \* bound on synthetic rows
    Declaration,    \* what an operator may supply: key, resource id, host name
    DeclarationOf,  \* each server's own, under the one key of a rehearsal
    AddressesOf     \* the addresses each server may report

ASSUME SourceAssumption == Source \in Database /\ Expected \in Release
\* The tables are numbered in the order of SYNTHETIC_TABLE_KEYS.
ASSUME TableAssumption ==
    /\ IsFiniteSet(Table) /\ Table # {}
    /\ Table = 1 .. Cardinality(Table)
ASSUME IdentityAssumption == DeclarationOf \in [Side -> Declaration]
ASSUME VerdictAssumption == MaxRows \in Nat /\ None # "PASS"

VARIABLES
    rows,      \* the synthetic rows of each table of the source
    restored,  \* the restored server, None before it exists
    snapshot,  \* the snapshot taken for each side
    verdict    \* verify_restore_snapshot's answer

gateVars == <<rows, restored, snapshot, verdict>>
vars == <<migrationVars, gateVars>>

Row == 1 .. MaxRows
Image == [migrations: [Migration -> Checksum \cup {None}], tables: [Table -> SUBSET Row]]

\* `target' is the server it is taken of, `identity' what it says of that server,
\* `view' what the transaction sees and `tables' what was read of it so far.
NoSnapshot ==
    [stage |-> "none", target |-> None, identity |-> None, view |-> None,
     tables |-> <<>>]

Init ==
    /\ MigrationsInit
    /\ rows = [t \in Table |-> {}]
    /\ restored = None
    /\ snapshot = [s \in Side |-> NoSnapshot]
    /\ verdict = None

\* What a transaction that starts now sees of a server.
Now(server) ==
    IF server = "source" THEN [migrations |-> recorded[Source], tables |-> rows]
    ELSE restored

Reachable(server) == server = "source" \/ restored # None

-----------------------------------------------------------------------------
(* The environment *)

\* A serving process commits a synthetic record.
Write(p) ==
    LET n == Cardinality(UNION {rows[t] : t \in Table}) + 1 IN
    /\ At(p, "serving") /\ TargetsOf[p][1] = Source
    /\ n <= MaxRows
    /\ rows' = [t \in Table |-> rows[t] \cup {n}]
    /\ UNCHANGED <<migrationVars, restored, snapshot, verdict>>

\* The platform restores what is committed now to a new server, for which the
\* verifier gets its own job.
Restore ==
    /\ restored = None
    /\ restored' = Now("source")
    /\ UNCHANGED <<migrationVars, rows, snapshot, verdict>>

-----------------------------------------------------------------------------
(* PostgresRestoreVerifier *)

ExpectedMigrations == FilesOf[Expected]

\* actual_migrations = expected_migrations
MigrationsMatch(image) == image.migrations = ExpectedMigrations

\* _target_identity_hmac, which differs whenever what it covers does.
TargetIdentity(declared, reported) == [declared |-> declared, address |-> reported]

\* snapshot: the operator may name either server for either side.  The
\* transaction begins and the migrations are compared; a mismatch ends it.
BeginSnapshot(side, server) ==
    /\ snapshot[side].stage = "none"
    /\ Reachable(server)
    /\ MigrationsMatch(Now(server))
    /\ snapshot' = [snapshot EXCEPT ![side] =
         [stage |-> "reading", target |-> server, identity |-> None,
          view |-> Now(server), tables |-> <<>>]]
    /\ UNCHANGED <<migrationVars, rows, restored, verdict>>

\* Mutant: every statement sees what is committed when it runs.
Seen_ReadCommitted(side, t) == Now(snapshot[side].target).tables[t]

\* REPEATABLE READ: every statement sees the state the transaction began in.
Seen(side, t) == snapshot[side].view.tables[t]

\* The next table, in the order of SYNTHETIC_TABLE_KEYS.  After the last one the
\* application read must find the synthetic finding, else the snapshot fails and
\* may be taken again; the transaction is rolled back in either case.  The
\* finished snapshot names its target, with any declaration the operator
\* supplied and the address the session reported when it began.
ReadTable(side) ==
    LET x == snapshot[side]
        tables == Append(x.tables, Seen(side, Len(x.tables) + 1))
    IN
    /\ x.stage = "reading"
    /\ \/ /\ Len(tables) < Cardinality(Table)
          /\ snapshot' = [snapshot EXCEPT ![side].tables = tables]
       \/ /\ Len(tables) = Cardinality(Table) /\ 1 \notin x.view.tables[1]
          /\ snapshot' = [snapshot EXCEPT ![side] = NoSnapshot]
       \/ /\ Len(tables) = Cardinality(Table) /\ 1 \in x.view.tables[1]
          /\ \E declared \in Declaration, reported \in AddressesOf[x.target] :
               snapshot' = [snapshot EXCEPT ![side] =
                 [x EXCEPT !.tables = tables, !.stage = "done",
                           !.identity = TargetIdentity(declared, reported)]]
    /\ UNCHANGED <<migrationVars, rows, restored, verdict>>

\* Mutant: the two identities are not compared.
Comparable_AnyTarget(s, r) ==
    s.view.migrations = r.view.migrations /\ s.tables = r.tables

\* verify_restore_snapshot's conditions.
Comparable(s, r) ==
    /\ s.identity # r.identity
    /\ s.view.migrations = r.view.migrations /\ s.tables = r.tables

\* A verdict, or an error after which the rehearsal starts over.
Compare ==
    /\ verdict = None
    /\ \A side \in Side : snapshot[side].stage = "done"
    /\ IF Comparable(snapshot["source"], snapshot["restored"])
       THEN verdict' = "PASS" /\ UNCHANGED snapshot
       ELSE snapshot' = [s \in Side |-> NoSnapshot] /\ UNCHANGED verdict
    /\ UNCHANGED <<migrationVars, rows, restored>>

-----------------------------------------------------------------------------
GateNext ==
    \/ \E p \in Process : Write(p)
    \/ Restore \/ Compare
    \/ \E side \in Side :
         \/ \E server \in Side : BeginSnapshot(side, server)
         \/ ReadTable(side)

Next == (MigrationsNext /\ UNCHANGED gateVars) \/ GateNext

Spec == Init /\ [][Next]_vars

\* Processes are scheduled, and the platform restarts the ones that exit.
Fairness == \A p \in Process : WF_vars(StartUp(p) /\ UNCHANGED gateVars)

FairSpec == Spec /\ Fairness

-----------------------------------------------------------------------------
(* Properties *)

TypeOK ==
    /\ MigrationsTypeOK
    /\ rows \in [Table -> SUBSET Row]
    /\ restored \in Image \cup {None}
    /\ \A side \in Side :
         LET x == snapshot[side] IN
         /\ x.stage \in {"none", "reading", "done"}
         /\ x.stage # "none" => x.target \in Side /\ x.view \in Image
         /\ x.stage = "done" =>
              /\ x.identity.declared \in Declaration
              /\ x.identity.address \in AddressesOf[x.target]
    /\ verdict \in {None, "PASS"}

\* A snapshot taken while processes write describes one moment of the database:
\* no record is in one table's digest and missing from another's.
SnapshotIsOneMoment ==
    \A side \in Side : \A i, j \in 1 .. Len(snapshot[side].tables) :
        snapshot[side].tables[i] = snapshot[side].tables[j]

\* The operator declared both snapshots honestly, under one key, and no server
\* moved between two snapshots of it.
Identified(s, r) ==
    /\ \A x \in {s, r} : x.identity.declared = DeclarationOf[x.target]
    /\ s.target = r.target => s.identity.address = r.identity.address

\* A PASS means that the two transactions saw the same database: the schema of
\* exactly the expected release (no copy made in the middle of a migration
\* passes) and the same records in every table.  And when the two snapshots are
\* identified, it means that a restored server exists and still is what the
\* source snapshot saw.  Otherwise nothing may have been restored: one server
\* declared twice, or met at two addresses, has two identities.
PassMeansRestored ==
    LET s == snapshot["source"]
        r == snapshot["restored"]
    IN verdict = "PASS" =>
        /\ s.view.migrations = ExpectedMigrations /\ r.view = s.view
        /\ Identified(s, r) => restored = s.view

=============================================================================
