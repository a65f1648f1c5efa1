# SentinelGRC in TLA+

SentinelGRC takes posture reports of machines, evaluates controls on them, and
drives the findings that result through a role-gated governance workflow whose
every step is audited. This directory holds TLA+ models of the parts of it in
which the order of steps matters, the TLC configurations that check them on
small instances, and TLAPS proofs that hold for instances of any size.
Line numbers refer to the repository's source.

## The system

| Part | State | Operations that change it | What makes it correct |
|---|---|---|---|
| Governance lifecycle (`governance_core.py`) | finding rows, seven workflow tables, the per-finding event trail | `create_finding`, `upsert_finding`, `assess_risk`, `propose_treatment`, `approve_treatment`, `start_action`, `submit_evidence`, `verify`, `close` | nothing acts before approval; every verification judges new evidence; nobody approves or verifies their own work; the trail explains the state |
| Evidence objects (`evidence_store.py`) | content-addressed, create-only objects | `persist` | metadata never points at missing or torn content |
| Broker outbox (`outbox_delivery.py`, `outbox_worker.py`) | `governance_outbox` rows, leases, heartbeat, broker | `claim`, `publish`, `acknowledge`, `fail`, `requeue_dead`, `heartbeat` | per-finding order, delivery recorded only when it happened, every event settles |
| Audit export (`audit_delivery.py`, `audit_archive.py`, `audit_worker.py`) | `audit_exports` rows, archive objects | the same, without `heartbeat` | the archive has no gap and no torn object that counts as archived |
| Ingestion (`scripts/ingestion_api.py`, `state_store.py`) | `accepted_payloads`, inbox directories, nonces | `begin_payload`, rename, `commit_payload`; `consume_nonce` | an accepted document is never lost or processed half-published |
| Reconciliation (`publication_reconciliation.py`) | the same | a sweep at server start, per worker poll, or by an operator | an interrupted publication is completed |
| Job queue and pipeline worker (`job_queue.py`, `scripts/pipeline_worker.py`) | `pipeline_jobs`, leases, a heartbeat thread per job | `enqueue`, `claim`, `renew`, `complete`, `fail` | only the lease holder settles a job; every job settles |
| Pipeline run (`scripts/pipeline.py`, `sentinelgrc.py`) | `pipeline_runs`, evidence ledger, output files, audit log | one run: findings, ledger, outputs, completion, audit record | idempotent under crash and retry |
| PostgreSQL runtime (`postgres_runtime_state.py`) | the same tables in PostgreSQL, not used by the runtime yet | token-fenced claim, renew, complete, fail | as for the SQLite queue |
| Connectors and bridges (`*_connector.py`, `scripts/bridge_*.py`), audit log (`audit_log.py`) | external findings, the audit outbox of imports, the hash-chained log | import, append, mark delivered | one import and at most one audit record per bundle; an old bundle never comes back |
| Identities and keys (`human_identity.py`, `scripts/agent_keys.py`) | registries of people and agent keys | register, issue, revoke | a revoked key stays revoked |
| HTTP service (`governance_http.py`, `governance_api.py`, `runtime_app.py`) | none of its own; requests in flight | route, authenticate, dispatch, answer | a request acts under the identity it was authenticated with; a refused one changes nothing |
| Migrations (`migration_runner.py`, start of `runtime_app.py` and the workers) | `schema_migrations`, a session lock per database | apply in order, unlock | each file applied once and in the order of its release, whoever starts at once; a process serves its own schema |
| Staging rehearsal (`scripts/azure_staging_validator.py`) | the two findings of a rehearsal | four phases of two identities, each resumable | a report says what happened; negative tests do no harm |
| Live gates (`live_gate_harness.py`, `scripts/azure_live_gate_harness.py`) | snapshots of two servers; messages of a queue and its dead letters | snapshot, compare; receive, verify, settle, report | a PASS means two equal views of the expected schema; only the named message is settled |
| Remediation, tickets, domain packs (`scripts/governance.py`, `scripts/workflow.py`, ...) | none (pure functions over documents) | - | outcomes agree with the control definitions |
| Contracts, cryptography, OIDC, reports, document assurance, clients | none, or caches | - | - |

`PROJECT.json` lists the parts with the files that hold them; the last section
says why some are not modelled.

**How the parts interact.** A client posts a document; the ingestion server
reserves a row, renames a file into an inbox and commits the row. Workers poll
the posture inbox, sweep interrupted publications, queue committed files and
run the pipeline under a job lease, which a heartbeat thread renews, and a run
lease, which nothing renews. A run calls `GovernanceCore.upsert_finding` for
each item, appends to the ledger, writes files, completes the run and appends to
the audit log. People act on findings over HTTP; each committed step writes one
event and, in the same transaction, one outbox row and one export row. Outbox and
audit workers take these to the broker and to the archive. Beside all this, an
operator runs bridges that import closed incidents and access requests of two
other systems as external findings and write to a local audit log. Before any of this,
every process migrates its databases. Operators rehearse the deployment with three
programs that act on it from outside: the staging validator over HTTP, the restore gate
on two database servers, and the Service Bus gate on the outbox's queue.

**Where concurrency comes from.** The container runs one gunicorn process with
four threads (`Dockerfile:39`), up to two replicas of it
(`infra/azure/main.bicep:1143`), and separate worker processes, all over one
database. Connections are opened in autocommit mode (`persistence.py:142`) and
transactions are explicit (`BEGIN IMMEDIATE`, or row locks on PostgreSQL), so a
transaction is one step of a model, and a read before it is a step of its own.

**What is hard here.** Columns read before a transaction and used inside it; a
lease that runs out under a slow worker; a clock sampled before the database lock
is obtained; a process killed between two stores; a broker that took a message
and reported an error; two leases with different renewal rules on one job; sweeps
that race the request they repair; a request that is served after its client gave
up on it; a session lock that outlives the start that took it; a message whose lock is
lost between its verification and its settlement. `PROJECT.json` lists these hazards with their
lines and the properties aimed at them.

## Modules

    GovernanceCore      findings, requests, evidence objects
      GovernanceCore_proofs
    OrderedDelivery     abstract: events of a finding reach a sink in order
      <- OutboxDelivery     implements it with workers, leases, a broker
           OutboxDelivery_proofs
      <- AuditDelivery      implements it with workers, leases, an archive
           AuditDelivery_proofs
    PipelineWorker      job queue, heartbeat, pipeline run
      PipelineWorker_proofs
    Publication         ingestion, reconciliation, polling
      Publication_proofs
    ExternalImport      the two bridges, the external findings, the audit log
    StagingValidator    the staging rehearsal against the HTTP service
      ImportAndStaging_proofs    of both, each for itself
    Migrations          start of the processes: migrations of their databases
      <- RestoreGate        composes them with writers, a restore, two snapshots
           RestoreGate_proofs     of both
    ServiceBusGate      the gate's executions, the publisher's copies, the broker
      ServiceBusGate_proofs
    MC<module>          the instances TLC checks

Definitions named `X_...` and commented "Mutant" are deliberately wrong variants of
`X`; no specification uses them. Substituting one for `X` must make a run fail,
which shows that the property it belongs to depends on that code.

### GovernanceCore

Tables are sets of rows; a row's uuid is represented by `at`, the sequence number
of the event written with it, which is what orders rows of different tables. Each
HTTP or pipeline thread is a `Request`. `create_finding`, `upsert_finding`,
`propose_treatment` and `close` decide inside their transaction and are one
action. `assess_risk`, `approve_treatment`, `start_action` and `verify` call
`get_finding` first and `_mutate` later: an action `...Read` performs the checks
on the row that was read and keeps the columns the commit still uses, `...Commit`
performs `_mutate`, which rechecks the status under the lock and nothing else.
`submit_evidence` has a third step between them, the object store. `Abandon` is
a commit that is refused, or a thread that dies: the transaction rolls back.
`Event` is `_event`: the trail, the outbox row and the export row together.
Titles, reasons, ratings and times are left out, since no code branches on them.

### OrderedDelivery, OutboxDelivery, AuditDelivery

`OrderedDelivery` is what a reader of the broker or the archive may rely on: an
event is accepted only after every earlier event of its finding is recorded, it is
recorded only when it was accepted, and neither is taken back.

Both implementations have one action per step of `run_once`. Time is reduced to
the comparisons the code makes: a lease has run out (`lapsed`) or not, a retry is
due (not in `waiting`) or not, and either may change at any moment. `acknowledge`
and `fail` sample the clock before they get the database lock, so `Sample` is a
separate step and the verdict may be stale. A lock token lives in one `run_once`
call and is represented by its worker. The broker may take a message and report
an error (`PublishTransient`), a local message file may be left in part (`torn`),
an archive object may be seen half written, a worker may stop anywhere, and an
operator may requeue dead letters. The two queues differ where the code does:
`AuditExportQueue.fail` asks for the token but not for the lease, every archive
error is retryable, and an archive object is created before it is written.

### PipelineWorker

`job` and `run` are the two tables with their two leases. A claimed job is renewed
once synchronously (`FirstRenewal`); then the heartbeat thread may at any moment
report a loss (`HeartbeatLost`), which the main thread looks at only where the code
does. `ClaimRun` ... `AuditRun` are the writes of `_execute_pipeline` in their order,
`find_ledger_record` and `append_evidence_atomic` being two sections under the
ledger lock. `ExecuteError` and `FailRun` are the exception path, on which
`fail_pipeline_run` names the input and not the executor. `outrun` is a history
variable: the inputs one of whose runs outlasted the run lease. The output files are emptied
when they are opened (`OpenOutputs`) and whole when the last is closed (`WriteOutputs`), unless a second executor
of the input has them open as well: then they may come out mixed. `Finish` completes the job, finds
the lease lost, or raises and fails the job. A worker killed, or a
disk full, in the middle of a ledger line leaves the ledger torn (`AppendCut`): it no longer
verifies, and every later run is refused, whatever its input.

### Publication

Request threads of one server process and its `publication_lock`; `BeginPayload`,
`WriteFile` and `CommitPayload` are the three steps of
`_persist_validated_body`, and a storage error or a crash may follow any of them.
The sweepers are the starting server (no grace period), the workers (posture inbox
only) and the operator's command; a sweep lists, then examines each candidate, then
commits its row, as separate steps. A worker lists its inbox before the sweep
and looks rows up after it. Processes die; the host's file system does not. A directory that cannot be
listed yields no candidates (`publication_reconciliation.py:94`); that is the case in which every
candidate is unreadable (`Unreadable`), and has no action of its own.

### ExternalImport

A Mini-SOAR bridge imports a bundle (`Import`: the finding, and in the same
transaction the event owed for it), appends the event to the log (`Deliver`) and
marks it delivered (`Mark`); a bundle imported before is a replay that only
returns its event, if that is still owed. A JML bridge walks over eligible
requests, updating a finding (`JmlUpsert`) and appending a record (`JmlAppend`) that
nothing remembers in between. Bridges are started at will and may stop anywhere.
A write to the log may fail and leave nothing, the whole record or a part of it
(`torn`); with a part of a line in it the log no longer verifies and refuses every
append. A line cut exactly before its newline, which still verifies, is left out.
An event is represented by what its `event_id` hashes, a bundle by its content.

### StagingValidator

The rehearsal has four phases, run by jobs with two identities; the findings in the
database are the only hand-over. A phase is a sequence of gates, each a request and
the outcomes that pass: a read that resumes (`_finding_state`), a transition (`_post`) or a
probe that must be refused. `when` holds the `if`s between them: a step is tried only in
the state that was seen last. A request is served in the steps of the handler: `Admit` (token, forbidden
fields, role, the checks on the row read before the transaction), `Commit` (the status
again, and the write), `Answer` (the read after the commit). `Lose` is an execution that was killed or
timed out: its request stays in `wire` as an orphan and is served later or never.
The server's part is restricted to what the rehearsal calls, with the columns it
compares; the full lifecycle is `GovernanceCore`. `Meddle` is another user of the staging
API, working on the main finding with any call that is allowed to them. Their requests are narrower
than the API: each is one step, names its sender as owner and implementer, proposes to mitigate and
leaves the finding of the self-approval test alone.

`ProbesAreHarmless` claims of the self-approval and of the analyst's verification that they never
change a finding. The premature close of `approver_approve` is different: served late, when the finding
has been verified, it is no longer premature and closes it. The property says that it closes
nothing else: not a finding that its risk owner approved or its own implementer or submitter verified.

`ReportsAreEarned` says of a closed finding that the analyst implemented it and submitted
evidence for it, and that the verifier did neither; not that the evidence it was verified on is
the analyst's, unless the rehearsal was alone. `approver_close` compares the submitter when it
resumes (`azure_staging_validator.py:634`) and verifies later, and two requests of outsiders in
between, a failed verification and a new submission, replace the submitter. The instance
with one upset cannot show this; the proof of a stronger statement failed at that step, and TLC confirmed
it with two upsets.

### Migrations, RestoreGate

`Migrations` is `PostgresMigrationRunner.apply` as each process calls it when it starts, for one
database after the other. A file is its id and its checksum; `made` counts how often its
effects are in a database, so that a file executed twice, or without its row, shows. A
statement that fails outside the inner `try` aborts the transaction, in which
`pg_advisory_unlock` is refused too; the connection goes back to the pool with the lock (`CheckFails`,
state `ending`) and the lock goes when the failed start's pool is dropped and its session
ends (`EndSession`). A process may be redeployed with any release, also one that edited a file, left
one out or added one that sorts before files the databases have. The runner applies whatever of its
own files is missing (`migration_runner.py:92`), so across releases files may go in out of
numerical order; what `AppliedOnceInOrder` claims is that each went in after all earlier files of
a release that ships it.

`RestoreGate` extends it with the rehearsal of a restore: serving processes write one row to every table in one
transaction, the platform copies the database at any moment (in the middle of the
migrations, too), a snapshot of each side is read table by table, and two snapshots are
compared. The operator may aim either snapshot at either server. A digest is modelled by
what it digests. So is the target's identity (`TargetIdentity`): the key, resource id and host name an operator
supplies, any `Declaration`, and an address the server reports. `Comparable` asks only that two such
identities differ, as the code does, so one server that is declared in two ways, or met at two addresses, is
compared with itself and passes. `PassMeansRestored` therefore has two halves. Of every PASS: both
transactions saw the expected schema and the same records. Of a PASS whose snapshots are `Identified` (one
key, each server's own id and name, no server moved between two snapshots of it): a restored server
exists and holds them. The code enforces none of the conditions of `Identified`.

### ServiceBusGate

The broker is external and follows the queue that `infra/azure/main.bicep` declares: sessions
in order with one holder, a lock that runs out, a limit on deliveries, expiry, dead letters
without sessions, and a window of duplicate detection. What it holds are numbered copies of
messages, because a send that got no answer and is repeated after the window makes a second
one. An execution receives a copy (`Receive`), and verifies and settles it in one step, since
only the broker's lock can change in between: in time (`SettleAndReport`), with the
answer lost (`SettleUnanswered`), or too late (`SettleTooLate`). A copy that is not the named one is
abandoned, which counts as a delivery, so misdirected executions can make the broker dead-letter it.
The first half of `NamedIsSettled` allows that, too.

## Runs

| Run | Instance | Shows |
|---|---|---|
| `governance` | 1 finding, 2 requests in flight, 2 people, up to 10 events | the safety properties hold whatever two requests have read |
| `governance_skip_verification` | 2 requests | an approval that is stale at its commit skips the verification |
| `governance_earlier_submitter` | 1 request | a submitter of rejected evidence may verify |
| `outbox` | 1 finding, 3 events, 2 workers, 2 attempts | refinement of `OrderedDelivery`, exclusive leases, `Settles` |
| `audit` | the same | the same for the archive |
| `pipeline` | 1 file, 2 workers, 3 attempts | only the holder settles a job; one executor of a run at a time; completed runs have results; one ledger record; every job settles |
| `pipeline_lost_outputs` | 1 file, 2 workers | a job can be completed with nothing written |
| `publication` | a posture and a portfolio document, 2 request threads, server, worker, operator, 1 fault | nothing is committed, answered or queued early; restart heals; posture files are queued in the end |
| `external_import` | 1 incident with a verified, an unverified and a self-verified bundle, 2 JML requests, 2 bridges of each kind, 1 failed write | each import is audited at most once and marked only when logged; replays change nothing |
| `staging` | 2 executions that may overlap, another analyst and another approver, 1 upset | every report is earned; probes do no harm; a rehearsal by the book ends, whatever died |
| `restore` | an application on 2 databases, a worker on 1, 3 files, 2 releases (the newer adds the first file and edits the third), 2 rows in 2 tables, 2 declarations, 2 addresses of the restored server, 1 fault | files are applied once and in the order of their release; processes serve their own schema, and in the end all serve; a PASS means equal views of the expected schema and, for identified snapshots, a restored server |
| `servicebus` | 2 findings with 1 event, 2 copies, 2 executions, 2 deliveries, the message named rightly and with the wrong session, 1 fault | only the named message is settled; reports and recoveries are real; a named message at the front is settled in the end, if not by a gate then by the broker's dead-lettering |

**Bounds.** A violation of any of these properties needs two actors on one object:
one that is stale and one that moved ahead. Two requests, workers or threads give
every such pair, and a third repeats the part of one of them; where a proof exists it
covers any number. One finding is enough because no step touches two. Three events
let an event have a predecessor that itself has one. Two attempts reach both the retry and
the limit; the pipeline has a third, so that a retry can itself be retried. Ten events cover the longest path to closure, including one failed
verification and its resubmission. `attempts` is counted up to `MaxAttempts`, since
the code only compares it with that limit. The two documents of `publication`
differ in what sweeps them. Two eligible bundles of one incident are what a replay of
an older one needs, two changes of a request tell its creation from a reassessment, and
one failed write already leaves each of the three outcomes. In `staging` one upset
suffices for every scenario the validator claims to survive (one lost response per phase
attempt), and two executions give every overlap; what takes two upsets is left to the proofs, which have no bound. In `restore` two releases hold a file added before
the others and a file edited, two declarations let one server be taken for two, two addresses let one move, and two rows in two tables make a torn snapshot visible. In `servicebus` two copies
are two messages in two sessions or one message twice, and two deliveries reach the
limit. `MaxUpsets`, `MaxFaults`, `MaxRows`, `MaxCopies`, `MaxDelivery` and `MaxSequence` are these bounds.

**Deadlock.** The governance, audit, pipeline and gate instances may stop: all findings are closed
and `MaxEvents` is used up, everything is archived, every job is settled, a rehearsal or a
comparison is over, the queues are empty. There deadlock is not checked. The outbox worker heartbeats for ever, and workers poll
for ever, and a bridge can always be started again, so in `outbox`, `publication` and
`external_import` it is.

**Fairness.** `OutboxDelivery`: `_run_worker_loop` (`outbox_worker.py:67`) repeats
`run_once` for ever, so each worker's next step is weakly fair; clocks advance, so
leases and delays end. `AuditDelivery`: `audit_worker.py` drains and exits, so the
same assumption is that a schedule outside the repository starts it again and
again. `PipelineWorker` and `Publication`: `serve` (`scripts/pipeline_worker.py:416`)
polls for ever. For the three queues it is also assumed that workers are killed, lose
their heartbeat or outlive a lease only finitely often: the code
compares attempts with the limit only in `fail`, so an item whose worker is killed at
every attempt is claimed again without end (a hazard listed in `PROJECT.json`).
Nothing is assumed of clients or of the ingestion server. `StagingValidator`: the server
answers the requests of running executions, orphans excepted, and the operator keeps starting the phase that is due.
`RestoreGate`: the platform restarts processes that exit, and sessions of dead
processes and failed starts end; nothing is assumed of the rehearsal. `ServiceBusGate`: executions
go on, locks of stopped ones run out, and operators keep starting the job for the messages
they want completed; that one is strong fairness, because another execution may hold
the message just then, again and again.

## Findings

1. **An earlier submitter verifies** (`governance_core.py:739`). `evidence_submitter` holds the last
   submitter only. No concurrency is needed.
2. **Verification skipped** (`:582`). The approval of a risk acceptance, read before a
   rejection and a new proposal, puts the mitigation on the accepted path; it is
   closed without evidence. The risk owner that `approve_treatment` compares with the
   approver (`:579`) and the implementer and submitter that `verify` compares with the
   verifier (`:738`) are columns read before the transaction in the same way.
3. **Job completed without outputs** (`state_store.py:240`). A worker killed in its run leaves
   the run's lease, taken after the job's, to end later. The next worker is told
   "duplicate" and completes the job.

`PROJECT.json` quotes the documentation each one disagrees with. Where nothing interleaves with
them, the separation-of-duties checks do their work: `ProbesAreHarmless` and `ReportsAreEarned`
rest on them.

## Proofs

Each theorem is `Spec => []P`, `Spec => [][A]_vars` or a refinement, for all values of the
constants, under the assumptions named in the modules: constants are well typed, bounds are
naturals, `None` (`Null` in `StagingValidator`) is no other value. `Migrations` also assumes that a process has at least one
database and that every release ships at least one migration file; the ids are those of all releases, numbered in
the order in which file names sort, and nothing is assumed of which of them a release ships. `RestoreGate` assumes that the tables
are numbered from one and that there is at least one; both are how the code lists them
(`runtime_app.py` migrates one or two targets, the runner sorts numbered files, and
`SYNTHETIC_TABLE_KEYS` of `live_gate_harness.py` names a fixed set of tables, in order).

- **GovernanceCore_proofs**: `TypeOK` is inductive. For the safety properties the
  invariant `IInv` is `TypeOK`, `StoredInv` (recorded
  evidence is whole, and so is the object of a request that has stored it: the create-only
  store never takes it back) and, for each finding, the conjunction of: rows are numbered by events
  (`Numbered`, `NotAhead`), the approval gate by status, what is pending at each
  status, what each verification judges, when evidence may be repeated, what a closure
  rests on, and the trail. The properties are not inductive alone: `ApprovalGate`, for
  instance, says nothing of a finding that waits for approval, but the step that approves it
  needs to know that no approval is on record yet. It counts and orders approvals; it does not say that the
  approver had read the proposal the approval was recorded against, which is finding 2. Requests in flight carry no
  obligation but their type, because `_mutate` rechecks the status: that is the reason these
  properties survive any number of stale requests while the separation-of-duties
  rules, whose columns are not rechecked, do not.
- **OutboxDelivery_proofs**: `IInv` adds to the properties that whoever holds an item or works on it
  saw its predecessors delivered (`HeldInOrder`; delivery is never undone, so this stays true of stale
  workers), that a worker about to acknowledge has published (`ReceiptIsReal`), and that
  delivered events are at the broker. From it, each step is a step of
  `OrderedDelivery` or a stutter; `LeaseIsExclusive` also needs that dead rows are released.
- **Publication_proofs**: `IInv` adds what a thread inside
  `_persist_validated_body` has already done (`WritersAreAhead`), that a file has a
  row, and that what a sweep or poll listed is on disk. `RestartHeals` needs a second
  invariant of the starting server: every file is committed, skipped, or still on the sweep's list.
- **ImportAndStaging_proofs**, imports: `TypeOK`, which includes that an event in a bridge's hands
  is one the outbox owes. `LogInv` adds `AuditedOnce`, `DeliveredIsLogged` and
  `MarkedIsLogged`: a bridge about to mark an event has its record in the log, without which
  the mark could not be justified; the log only grows, so this stays true of a slow
  bridge. `EventsExplainFindings` is inductive together with `TypeOK`, finding by finding;
  `ReplayNeverReverts` needs only `TypeOK` and that nothing but an import moves a finding.
  `RecordsAreChanges` counts, and the count of records is not inductive: the step that appends one
  has no upsert beside it. `RecordInv` counts the records in the log together with the bridges
  that have upserted and not yet appended, against `changes`; of the creations, written or owed, there is one.
- **ImportAndStaging_proofs**, the rehearsal: a phase decides from reads made long before, and a
  request may be served after its execution died, so neither property is inductive. `Later` orders
  the states of a finding: a rejected proposal stays assessed, a failed verification stays in
  remediation, submitted evidence stays submitted and the implementer stays. Every step of the
  server and of an outsider moves findings forward in it, so whatever follows from a read stays
  true. `StagingInv` then says what each holder of old information knows: a row
  (`RowIsSound`: who owns its risk, who may have approved, worked, submitted and verified), a request from when it was
  sent or read (`RequestIsSound`: past `Admit` an approval is of the main finding and a
  verification is the approver's), an execution at its gate (`ExecutionIsSound`, with `SeenAt`, the states
  it can have seen last there) and a report (`PassedIsSound`). `PassedGateConcludes` takes an answer that passes
  a gate to what the next gate, or the report, needs. The gates are the sequences of the model,
  so the lemmas `PrepareGates` to `CloseNext` compute, gate by gate, where each phase goes next.
- **AuditDelivery_proofs**: as for the outbox, `HeldInOrder` and `ReceiptIsReal`; in addition
  `ObjectsInOrder` and `OneWriter`, because an archive object exists before it is whole: the
  worker that created it is the one that completes it, and a worker that meets a part of an object does
  not take it for a delivery. From it follow the refinement, `LeaseIsExclusive` and `CreateOnly`.
- **PipelineWorker_proofs**: `IInv` says what each point of `_execute_pipeline` has already
  written (`StepsAreBacked`), that the run's row shows it (`RunIsShown`), and that a worker before its append
  knows the ledger has no record (`AppendIsFirst`). The last needs `OneExecutor`, which rests on the run lease
  alone: the job lease plays no part, so the theorems hold for two payloads of one input and for
  stale workers. Output files are whole from `WriteOutputs` on because no second executor can open them.
  `OneExecutor`, `OneLedgerRecord` and the files in `CompletedRunHasResults` except the inputs in `outrun`, whose run outlasted its lease.
- **RestoreGate_proofs**: `Orderly` says of each process that it is at one of its databases, holds that
  database's lock from its check to its unlock (a session that is only ending keeps it), has
  compared every file it has passed, and has migrated every earlier database. Two processes in one
  database would then hold one lock, so between the check and the record nobody else writes there;
  that is `AppliedOnceInOrder`. `ServesItsOwnSchema` stays true afterwards since rows are never
  changed. The gate's part adds that a restored image is uniform, that tables read so far are
  those of the view taken with the transaction, that a finished snapshot carries an identity of the server it
  was taken of (`NamesItsTarget`), and what the verdict compared.
- **ServiceBusGate_proofs**: `Placed` ties the place of a copy to its reason and its settlements, and
  `LocksAreReal` says that a lock that is valid has one holder and that its copy is still in a queue. An execution that
  settles in time therefore finds the copy where it received it: a copy cannot be completed twice, and
  one that carries the contract's reason was put there by a gate. The lemmas on `RemoveFirst`
  and `Append` hold for queues without repetitions, which is part of the invariant.

The runs check the same formulas on their instances. The type invariants, `PublishedInOrder`, `NeverDeadAndDelivered`, `CreateOnly`, `OneMigrator`, `FindingsOnlyAdvance` and that the finding of the
self-approval test stays undecided are proved and have no run of their own. Every inductive invariant was checked by TLC before it was proved.

**Only model-checked.** Liveness (`Settles`, `JobsSettle`, `PublishedIsQueued`, `Resumes`,
`EveryProcessServes`, `NamedIsSettled`), which this prover does not reach. Every other property of a passing run is a theorem.

## Not modelled

- Request authentication (nonces included), document validation, path policy, cryptographic envelopes
  and OIDC token checks are functions of bytes, or one statement each.
- `security_assessment.py`, `offline_evidence.py`, `load_soak_baseline.py`, `staging_assurance.py`,
  `historical_evidence_archive.py` and `hermetic_recovery.py` check documents field by field,
  measure, or run a fixed sequence of local commands; they have no state that two actors share.
- `postgres_runtime_state.py`, `ConnectorEventStore`, the SQLite `MigrationRunner` and `migrate_json.py` have
  no caller in the runtime.
- Remediation, tickets and domain packs are functions of their arguments.
- Human identities and agent keys: each operation is one statement or one transaction.
- Reports, metrics, readiness and the user interface only read.
- Pool sizes and SQL translation of `persistence.py`, and the Azure clients' retries
  within one call, are below the level of the models. Loss of the host's file system
  cache is not modelled.

Effects that the models contain or that are known, and that no property judges because no
document promises otherwise: the audit record of a run is lost when the worker stops right after
completing it (`scripts/pipeline.py:204`); an import's event that is still owed is delivered only
when the same bundle is imported again (`scripts/bridge_minisoar.py:234`); `start_action` and `assess_risk` copy
an owner read before the transaction (`governance_core.py:597`); JML requests "JML-x" and "x" share a
finding (`jml_connector.py:79`).

## Plan

1. Governance composed with the two deliveries: what a reader of the broker can
   conclude about the state.
2. The PostgreSQL job queue, when the runtime uses it, shown to implement the same abstract
   queue as the SQLite one.
