--------------------------- MODULE PipelineWorker ---------------------------
(***************************************************************************)
(* The evidence pipeline: the SQLite job queue (job_queue.py), the worker  *)
(* that supervises its lease with a heartbeat thread                       *)
(* (scripts/pipeline_worker.py), the pipeline run it executes              *)
(* (scripts/pipeline.py) and the run table that makes runs idempotent      *)
(* (state_store.py).                                                       *)
(*                                                                         *)
(* Leases are modelled by whether they have run out: a job's lease is      *)
(* renewed by the heartbeat, a run's lease is not.  The worker identity is *)
(* fresh for every process_inbox_once, so a worker that stops and starts   *)
(* again never meets its own old claim while still working on it.  claim's *)
(* ORDER BY job_id is left open: which job is older is not observable      *)
(* here.  Controls, findings and file contents are left out; a payload is  *)
(* known by its input hash.                                                *)
(***************************************************************************)
EXTENDS Naturals, FiniteSets

CONSTANTS
    Payload,      \* inbox files (pipeline_jobs.payload_path)
    Input,        \* input hashes
    InputOf,      \* the input hash of each payload
    Worker, None,
    MaxAttempts   \* options.max_attempts

ASSUME PipelineAssumption ==
    /\ InputOf \in [Payload -> Input]
    /\ MaxAttempts \in Nat \ {0}
    /\ None \notin Worker \cup Payload

VARIABLES
    job,       \* pipeline_jobs.status ("none": no row)
    attempts,  \* pipeline_jobs.attempts, counted up to MaxAttempts
    holder,    \* pipeline_jobs.worker_id
    lapsed,    \* running jobs whose locked_until has passed
    waiting,   \* pending jobs whose available_at is still ahead
    run,       \* pipeline_runs.status ("none": no row)
    overdue,   \* running runs whose run_lease_until has passed
    outrun,    \* history: inputs a run of which has outlasted its lease
    upserted,  \* inputs whose findings were created or reassessed in GovernanceCore
    ledger,    \* evidence ledger: records per input hash
    torn,      \* the ledger ends in a part of a line
    outputs,   \* inputs whose remediation, tickets and report files are whole
    audited,   \* inputs with a "pipeline.completed" audit record
    worker     \* _process_claimed_job of each worker

queue == <<job, attempts, holder, lapsed, waiting>>
runs == <<run, overdue, outrun>>
results == <<upserted, ledger, torn, outputs, audited>>
vars == <<queue, runs, results, worker>>

Idle == [pc |-> "idle", job |-> None, lost |-> FALSE]
\* Inside _execute_pipeline, where an exception also fails the run.
Executing == {"upsert", "find", "append", "write", "writing", "complete", "audit"}
Supervised == {"read", "run", "finish", "fail_run", "fail", "fail_bad"} \cup Executing
Worker_State == [pc: {"idle", "claimed"} \cup Supervised,
                 job: Payload \cup {None}, lost: BOOLEAN]

Init ==
    /\ job = [p \in Payload |-> "none"]
    /\ attempts = [p \in Payload |-> 0]
    /\ holder = [p \in Payload |-> None]
    /\ lapsed = {} /\ waiting = {}
    /\ run = [h \in Input |-> "none"]
    /\ overdue = {} /\ outrun = {}
    /\ ledger = [h \in Input |-> 0] /\ torn = FALSE
    /\ upserted = {} /\ outputs = {} /\ audited = {}
    /\ worker = [w \in Worker |-> Idle]

Goto(w, pc) == worker' = [worker EXCEPT ![w].pc = pc]
Return(w) == worker' = [worker EXCEPT ![w] = Idle]
InputAt(w) == InputOf[worker[w].job]

-----------------------------------------------------------------------------
(* Clocks *)

Lapse(p) ==
    /\ job[p] = "running" /\ p \notin lapsed
    /\ lapsed' = lapsed \cup {p}
    /\ UNCHANGED <<job, attempts, holder, waiting, runs, results, worker>>

BecomeAvailable(p) ==
    /\ p \in waiting
    /\ waiting' = waiting \ {p}
    /\ UNCHANGED <<job, attempts, holder, lapsed, runs, results, worker>>

BeingExecuted(h) ==
    \E w \in Worker : worker[w].pc \in Executing \cup {"fail_run"} /\ InputAt(w) = h

RunLapse(h) ==
    /\ run[h] = "running" /\ h \notin overdue
    /\ overdue' = overdue \cup {h}
    /\ outrun' = IF BeingExecuted(h) THEN outrun \cup {h} ELSE outrun
    /\ UNCHANGED <<queue, run, results, worker>>

-----------------------------------------------------------------------------
(* job_queue.py *)

\* enqueue: INSERT OR IGNORE, so a payload is queued once for all time.
Enqueue(p) ==
    /\ job[p] = "none"
    /\ job' = [job EXCEPT ![p] = "pending"]
    /\ UNCHANGED <<attempts, holder, lapsed, waiting, runs, results, worker>>

\* claim: a pending job that is due, or a running one whose lease has run out;
\* the number of attempts so far is not looked at.
Claim(w, p) ==
    /\ worker[w].pc = "idle"
    /\ \/ job[p] = "pending" /\ p \notin waiting
       \/ job[p] = "running" /\ p \in lapsed
    /\ job' = [job EXCEPT ![p] = "running"]
    /\ attempts' = [attempts EXCEPT ![p] = IF @ < MaxAttempts THEN @ + 1 ELSE @]
    /\ holder' = [holder EXCEPT ![p] = w]
    /\ lapsed' = lapsed \ {p}
    /\ worker' = [worker EXCEPT ![w] = [pc |-> "claimed", job |-> p, lost |-> FALSE]]
    /\ UNCHANGED <<waiting, runs, results>>

\* The condition of renew, complete and fail, evaluated under the write lock.
Mine(w) ==
    LET p == worker[w].job IN
    job[p] = "running" /\ holder[p] = w /\ p \notin lapsed

\* Mutant: the job goes back to pending whatever the number of attempts.
FailJob_Forever(w, limit) ==
    LET p == worker[w].job IN
    /\ Return(w)
    /\ UNCHANGED <<attempts, lapsed, runs, results>>
    /\ IF Mine(w)
       THEN /\ job' = [job EXCEPT ![p] = "pending"]
            /\ waiting' = waiting \cup {p}
            /\ holder' = [holder EXCEPT ![p] = None]
       ELSE UNCHANGED <<job, waiting, holder>>

\* fail: dead at the limit, else pending again after retry_delay; "lease_lost"
\* leaves the row alone.
FailJob(w, limit) ==
    LET p == worker[w].job
        die == attempts[p] >= limit
    IN
    /\ Return(w)
    /\ UNCHANGED <<attempts, lapsed, runs, results>>
    /\ IF Mine(w)
       THEN /\ job' = [job EXCEPT ![p] = IF die THEN "dead" ELSE "pending"]
            /\ waiting' = IF die THEN waiting ELSE waiting \cup {p}
            /\ holder' = [holder EXCEPT ![p] = None]
       ELSE UNCHANGED <<job, waiting, holder>>

-----------------------------------------------------------------------------
(* _process_claimed_job *)

\* The synchronous renewal before any work; a storage error counts as a loss.
FirstRenewal(w) ==
    /\ worker[w].pc = "claimed"
    /\ \/ Mine(w) /\ Goto(w, "read")
       \/ Return(w)
    /\ UNCHANGED <<queue, runs, results>>

\* A renewal by the heartbeat thread that finds the lease gone or cannot reach
\* the queue.  (A successful renewal only keeps the lease from running out.)
HeartbeatLost(w) ==
    /\ worker[w].pc \in Supervised
    /\ ~worker[w].lost
    /\ worker' = [worker EXCEPT ![w].lost = TRUE]
    /\ UNCHANGED <<queue, runs, results>>

\* _read_claimed_payload: the payload is read, or storage is unavailable, or the
\* file is not a committed, hash-verified payload.
ReadPayload(w) ==
    /\ worker[w].pc = "read"
    /\ \/ IF worker[w].lost THEN Return(w) ELSE Goto(w, "run")
       \/ Goto(w, "fail")
       \/ Goto(w, "fail_bad")
    /\ UNCHANGED <<queue, runs, results>>

\* queue.fail of the handlers; an unusable payload is dead at once.
Fail(w) ==
    /\ worker[w].pc = "fail"
    /\ FailJob(w, MaxAttempts)

FailBad(w) ==
    /\ worker[w].pc = "fail_bad"
    /\ FailJob(w, 1)

\* Mutant: the stop signal of the heartbeat is ignored.
Finish_Unchecked(w) ==
    LET p == worker[w].job IN
    /\ worker[w].pc = "finish"
    /\ job' = [job EXCEPT ![p] = "completed"]
    /\ Return(w)
    /\ UNCHANGED <<attempts, holder, lapsed, waiting, runs, results>>

\* The heartbeat is stopped and joined, its verdict is looked at, and complete
\* checks the lease once more; when complete itself raises, the job is failed.
Finish(w) ==
    LET p == worker[w].job IN
    /\ worker[w].pc = "finish"
    /\ \/ /\ job' = IF ~worker[w].lost /\ Mine(w)
                    THEN [job EXCEPT ![p] = "completed"] ELSE job
          /\ Return(w)
       \/ /\ ~worker[w].lost
          /\ Goto(w, "fail")
          /\ UNCHANGED job
    /\ UNCHANGED <<attempts, holder, lapsed, waiting, runs, results>>

\* The process is killed; its claims stay as they are.
Crash(w) ==
    /\ worker[w].pc # "idle"
    /\ Return(w)
    /\ UNCHANGED <<queue, runs, results>>

-----------------------------------------------------------------------------
(* run_pipeline *)

\* Mutant: a run is taken over whether or not its lease has run out.
ClaimableRun_Any(h) == run[h] # "completed"

ClaimableRun(h) ==
    \/ run[h] \in {"none", "failed"}
    \/ run[h] = "running" /\ h \in overdue

\* claim_pipeline_run; when it returns False the caller reports "duplicate" and
\* the job is completed, also when the other run is only under way.
ClaimRun(w) ==
    LET h == InputAt(w) IN
    /\ worker[w].pc = "run"
    /\ \/ /\ ClaimableRun(h)
          /\ run' = [run EXCEPT ![h] = "running"]
          /\ overdue' = overdue \ {h}
          /\ Goto(w, "upsert")
          /\ UNCHANGED outrun
       \/ /\ ~ClaimableRun(h)
          /\ Goto(w, "finish")
          /\ UNCHANGED runs
       \/ \* the payload does not parse or validate, or the store is unavailable
          /\ Goto(w, "fail")
          /\ UNCHANGED runs
    /\ UNCHANGED <<queue, results>>

\* GovernanceCore.upsert_finding for every remediation item; repeated by a retry.
UpsertFindings(w) ==
    /\ worker[w].pc = "upsert"
    /\ upserted' = upserted \cup {InputAt(w)}
    /\ Goto(w, "find")
    /\ UNCHANGED <<queue, runs, ledger, torn, outputs, audited>>

\* Mutant: the ledger is not searched before the append.
FindRecord_Always(w) ==
    /\ worker[w].pc = "find"
    /\ Goto(w, "append")
    /\ UNCHANGED <<queue, runs, results>>

\* The hash chain verifies: every line is a whole record.  find_ledger_record and
\* append_evidence_atomic raise otherwise (ExecuteError), for every input.
verify_ledger == ~torn

\* find_ledger_record: one section under the ledger lock ...
FindRecord(w) ==
    /\ worker[w].pc = "find" /\ verify_ledger
    /\ Goto(w, IF ledger[InputAt(w)] = 0 THEN "append" ELSE "write")
    /\ UNCHANGED <<queue, runs, results>>

\* ... append_evidence_atomic: another.
AppendRecord(w) ==
    /\ worker[w].pc = "append" /\ verify_ledger
    /\ ledger' = [ledger EXCEPT ![InputAt(w)] = @ + 1]
    /\ Goto(w, "write")
    /\ UNCHANGED <<queue, runs, upserted, torn, outputs, audited>>

\* The worker is killed, or the disk is full, in the middle of the line.  (A line
\* cut exactly before its newline, which still verifies, is left out.)
AppendCut(w) ==
    /\ worker[w].pc = "append" /\ verify_ledger
    /\ torn' = TRUE
    /\ Return(w) \/ Goto(w, "fail_run")
    /\ UNCHANGED <<queue, runs, upserted, ledger, outputs, audited>>

\* The remediation, ticket and report files are opened one after the other, which
\* empties each of them; they are whole again when the last one is closed.
OpenOutputs(w) ==
    /\ worker[w].pc = "write"
    /\ outputs' = outputs \ {InputAt(w)}
    /\ Goto(w, "writing")
    /\ UNCHANGED <<queue, runs, upserted, ledger, torn, audited>>

\* Mutant: the run is marked complete before its outputs are written.
WriteOutputs_AfterCommit(w) ==
    /\ worker[w].pc = "writing"
    /\ run' = [run EXCEPT ![InputAt(w)] = "completed"]
    /\ Goto(w, "complete")
    /\ UNCHANGED <<queue, overdue, outrun, results>>

\* What is written through a file that another executor of the same input has
\* opened, too, may come out whole or mixed.
WriteOutputs(w) ==
    LET h == InputAt(w)
        shared == \E v \in Worker \ {w} : worker[v].pc = "writing" /\ InputAt(v) = h
    IN
    /\ worker[w].pc = "writing"
    /\ \/ outputs' = outputs \cup {h}
       \/ shared /\ outputs' = outputs \ {h}
    /\ Goto(w, "complete")
    /\ UNCHANGED <<queue, runs, upserted, ledger, torn, audited>>

\* complete_pipeline_run: the update names the input only.
CompleteRun(w) ==
    /\ worker[w].pc = "complete"
    /\ run' = [run EXCEPT ![InputAt(w)] = "completed"]
    /\ overdue' = overdue \ {InputAt(w)}
    /\ Goto(w, "audit")
    /\ UNCHANGED <<queue, outrun, results>>

\* The audit record follows the commit of the run.
AuditRun(w) ==
    /\ worker[w].pc = "audit"
    /\ audited' = audited \cup {InputAt(w)}
    /\ Goto(w, "finish")
    /\ UNCHANGED <<queue, runs, upserted, ledger, torn, outputs>>

\* An exception inside _execute_pipeline, the audit append included.
ExecuteError(w) ==
    /\ worker[w].pc \in Executing
    /\ Goto(w, "fail_run")
    /\ UNCHANGED <<queue, runs, results>>

\* fail_pipeline_run: the update names the input only; it may itself fail.
FailRun(w) ==
    /\ worker[w].pc = "fail_run"
    /\ \/ /\ run' = [run EXCEPT ![InputAt(w)] = "failed"]
          /\ overdue' = overdue \ {InputAt(w)}
          /\ UNCHANGED outrun
       \/ UNCHANGED runs
    /\ Goto(w, "fail")
    /\ UNCHANGED <<queue, results>>

-----------------------------------------------------------------------------
Work(w) ==
    \/ \E p \in Payload : Claim(w, p)
    \/ FirstRenewal(w) \/ ReadPayload(w) \/ Fail(w) \/ FailBad(w) \/ Finish(w)
    \/ ClaimRun(w) \/ UpsertFindings(w) \/ FindRecord(w) \/ AppendRecord(w)
    \/ OpenOutputs(w) \/ WriteOutputs(w) \/ CompleteRun(w) \/ AuditRun(w) \/ ExecuteError(w) \/ FailRun(w)

Next ==
    \/ \E p \in Payload : Enqueue(p) \/ Lapse(p) \/ BecomeAvailable(p)
    \/ \E h \in Input : RunLapse(h)
    \/ \E w \in Worker : Work(w) \/ HeartbeatLost(w) \/ Crash(w) \/ AppendCut(w)

Spec == Init /\ [][Next]_vars

\* A worker that runs finishes its steps and clocks advance; from some point on
\* workers are not killed and their leases are renewed in time (the heartbeat
\* interval is kept well below the lease and the first renewal succeeds).
SlowLapse == \E p \in Payload : holder[p] # None /\ worker[holder[p]].job = p /\ Lapse(p)
Disturbed == \E w \in Worker :
    Crash(w) \/ AppendCut(w) \/ HeartbeatLost(w) \/ (worker[w].pc = "claimed" /\ worker'[w].pc = "idle")
Fairness ==
    /\ \A w \in Worker : WF_vars(Work(w))
    /\ \A p \in Payload : WF_vars(Lapse(p)) /\ WF_vars(BecomeAvailable(p))
    /\ <>[][~SlowLapse /\ ~Disturbed]_vars

FairSpec == Spec /\ Fairness

-----------------------------------------------------------------------------
(* Properties *)

\* Every row and worker holds values of its columns, and a worker that is not
\* idle has a job.
TypeOK ==
    /\ job \in [Payload -> {"none", "pending", "running", "completed", "dead"}]
    /\ attempts \in [Payload -> 0 .. MaxAttempts]
    /\ holder \in [Payload -> Worker \cup {None}]
    /\ lapsed \subseteq Payload /\ waiting \subseteq Payload
    /\ run \in [Input -> {"none", "running", "completed", "failed"}]
    /\ overdue \subseteq Input /\ outrun \subseteq Input
    /\ ledger \in [Input -> Nat] /\ torn \in BOOLEAN
    /\ upserted \subseteq Input /\ outputs \subseteq Input /\ audited \subseteq Input
    /\ worker \in [Worker -> Worker_State]
    /\ \A w \in Worker : worker[w].pc # "idle" => worker[w].job \in Payload

\* A stale worker cannot settle a job: a job is completed, failed or returned
\* to the queue only by the worker that holds it, while its lease runs, and a
\* settled job never changes again except that a pending one is claimed.
OnlyTheHolderSettles ==
    [][\A p \in Payload :
         /\ job[p] \in {"completed", "dead"} => job'[p] = job[p]
         /\ job[p] = "running" /\ job'[p] # "running" =>
              /\ p \notin lapsed
              /\ worker[holder[p]].job = p
              /\ worker'[holder[p]].pc = "idle"]_vars

\* A worker between claim_pipeline_run and complete_pipeline_run or
\* fail_pipeline_run.
InRun(w) == worker[w].pc \in Executing \cup {"fail_run"}

\* The run table gives an input to one worker at a time, although the lease of
\* the job and the lease of the run expire independently and a job is claimed
\* anew while its first worker still executes it: as long as no run of the input
\* has outlasted the run lease, which nothing renews.
OneExecutor ==
    \A v, w \in Worker :
        /\ InRun(v) /\ InRun(w) /\ InputAt(v) = InputAt(w)
        /\ InputAt(v) \notin outrun
        => v = w

\* A completed run is backed by its results, whoever executed it and wherever it
\* was killed: its findings and its ledger record were written first, and its
\* output files are whole.  Only where a run of the input has outlasted its lease
\* may a second executor have emptied or mixed the files after the completion.
CompletedRunHasResults ==
    \A h \in Input : run[h] = "completed" =>
        /\ h \in upserted /\ ledger[h] > 0
        /\ h \in outputs \cup outrun

\* A payload killed at any step and processed again adds no second ledger record
\* for the same input, as long as no run of it outlasts the run lease (which
\* nothing renews): find and append are two sections under the ledger lock.
OneLedgerRecord == \A h \in Input : ledger[h] > 1 => h \in outrun

\* A job is completed only when the pipeline has succeeded on its input: its
\* outputs are written, or at least somebody is still at work on them.
CompletedJobHasOutputs ==
    \A p \in Payload : job[p] = "completed" =>
        InputOf[p] \in outputs \/ BeingExecuted(InputOf[p])

\* Every queued payload is eventually completed or dead-lettered.
JobsSettle ==
    \A p \in Payload :
        job[p] = "pending" ~> job[p] \in {"completed", "dead"}

=============================================================================
