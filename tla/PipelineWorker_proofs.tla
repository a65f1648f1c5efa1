----------------------- MODULE PipelineWorker_proofs -----------------------
(***************************************************************************)
(* Proofs about PipelineWorker, for any payloads, inputs and workers.      *)
(*                                                                         *)
(* A run is executed in steps that commit one by one, by a worker that may *)
(* have lost its job to another one.  What makes a completed run complete  *)
(* is that each step's result is still there when the next one starts.     *)
(*                                                                         *)
(* That a payload leaves one ledger record, and whole output files, is a   *)
(* matter of exclusion: the search and the append are two sections under   *)
(* the ledger lock, and a file is emptied before it is written, so it      *)
(* holds only while the run table lets one worker at a time execute an     *)
(* input.  The invariant says when it does: as long as no run of the input *)
(* has outlasted the lease that nothing renews.                            *)
(***************************************************************************)
EXTENDS PipelineWorker, TLAPS

\* A worker inside _execute_pipeline has the results of the steps behind it.
StepsAreBacked(w) ==
    /\ worker[w].pc \in {"find", "append", "write", "writing", "complete", "audit"}
         => InputAt(w) \in upserted
    /\ worker[w].pc \in {"write", "writing", "complete", "audit"}
         => ledger[InputAt(w)] > 0
    /\ worker[w].pc \in {"complete", "audit"} => InputAt(w) \in outputs \cup outrun

\* As long as no run of an input has outlasted its lease, the run table shows a
\* run that is under way to everybody, until it is completed.
RunIsShown(w) ==
    InRun(w) /\ InputAt(w) \notin outrun =>
        /\ InputAt(w) \notin overdue
        /\ \/ run[InputAt(w)] = "running"
           \/ run[InputAt(w)] = "completed" /\ worker[w].pc \in {"audit", "fail_run"}

\* So one worker at a time executes it (OneExecutor), and what find_ledger_record
\* did not find is still not there at the append.
AppendIsFirst(w) ==
    worker[w].pc = "append" /\ InputAt(w) \notin outrun => ledger[InputAt(w)] = 0

\* The inductive invariant.
IInv ==
    /\ TypeOK
    /\ \A w \in Worker : StepsAreBacked(w) /\ RunIsShown(w) /\ AppendIsFirst(w)
    /\ OneExecutor
    /\ CompletedRunHasResults
    /\ OneLedgerRecord

-----------------------------------------------------------------------------
(* Types *)

WorkerOK ==
    /\ worker \in [Worker -> Worker_State]
    /\ \A w \in Worker : worker[w].pc # "idle" => worker[w].job \in Payload

LEMMA GotoType ==
    ASSUME WorkerOK, NEW w \in Worker, NEW pc \in Supervised,
           worker[w].pc # "idle", Goto(w, pc)
    PROVE  WorkerOK'
  <1>1. [worker[w] EXCEPT !.pc = pc] \in Worker_State
    BY DEF WorkerOK, Worker_State
  <1>2. worker'[w].job = worker[w].job
    BY DEF WorkerOK, Goto, Worker_State
  <1> QED BY <1>1, <1>2 DEF WorkerOK, Goto

LEMMA ReturnType ==
    ASSUME WorkerOK, NEW w \in Worker, Return(w)
    PROVE  WorkerOK'
  <1>1. Idle \in Worker_State /\ Idle.pc = "idle"
    BY DEF Idle, Worker_State
  <1> QED BY <1>1 DEF WorkerOK, Return

\* Every step of a worker that has a job goes on with that job or returns.
LEMMA WorkerMoves ==
    ASSUME WorkerOK, NEW w \in Worker,
           \/ FirstRenewal(w) \/ ReadPayload(w) \/ Fail(w) \/ FailBad(w) \/ Finish(w)
           \/ ClaimRun(w) \/ UpsertFindings(w) \/ FindRecord(w) \/ AppendRecord(w)
           \/ OpenOutputs(w) \/ WriteOutputs(w) \/ CompleteRun(w) \/ AuditRun(w)
           \/ ExecuteError(w) \/ FailRun(w) \/ Crash(w) \/ AppendCut(w)
    PROVE  /\ worker[w].pc # "idle"
           /\ Return(w) \/ \E pc \in Supervised : Goto(w, pc)
  <1> USE DEF Supervised, Executing
  <1>1. CASE FirstRenewal(w) \/ ReadPayload(w)
    BY <1>1 DEF FirstRenewal, ReadPayload
  <1>2. CASE Fail(w) \/ FailBad(w) \/ Finish(w) \/ Crash(w)
    BY <1>2 DEF Fail, FailBad, FailJob, Finish, Crash
  <1>3. CASE ClaimRun(w) \/ UpsertFindings(w)
    BY <1>3 DEF ClaimRun, UpsertFindings
  <1>4. CASE FindRecord(w)
    BY <1>4 DEF FindRecord
  <1>5. CASE AppendRecord(w) \/ AppendCut(w)
    BY <1>5 DEF AppendRecord, AppendCut
  <1>6. CASE OpenOutputs(w) \/ WriteOutputs(w) \/ CompleteRun(w) \/ AuditRun(w)
    BY <1>6 DEF OpenOutputs, WriteOutputs, CompleteRun, AuditRun
  <1>7. CASE ExecuteError(w) \/ FailRun(w)
    BY <1>7 DEF ExecuteError, FailRun
  <1> QED BY <1>1, <1>2, <1>3, <1>4, <1>5, <1>6, <1>7

LEMMA WorkerType ==
    ASSUME WorkerOK, [Next]_vars
    PROVE  WorkerOK'
  <1>1. CASE UNCHANGED worker
    BY <1>1 DEF WorkerOK
  <1>2. ASSUME NEW w \in Worker, NEW p \in Payload, Claim(w, p) PROVE WorkerOK'
    <2>1. [pc |-> "claimed", job |-> p, lost |-> FALSE] \in Worker_State
      BY DEF Worker_State
    <2> QED BY <1>2, <2>1 DEF Claim, WorkerOK
  <1>3. ASSUME NEW w \in Worker, HeartbeatLost(w) PROVE WorkerOK'
    <2>1. worker' = [worker EXCEPT ![w] = [worker[w] EXCEPT !.lost = TRUE]]
      BY <1>3 DEF HeartbeatLost
    <2>2. /\ [worker[w] EXCEPT !.lost = TRUE] \in Worker_State
          /\ [worker[w] EXCEPT !.lost = TRUE].job = worker[w].job
          /\ [worker[w] EXCEPT !.lost = TRUE].pc = worker[w].pc
      BY DEF WorkerOK, Worker_State
    <2> QED BY <2>1, <2>2 DEF WorkerOK
  <1>4. ASSUME NEW w \in Worker, worker[w].pc # "idle",
               Return(w) \/ \E pc \in Supervised : Goto(w, pc)
        PROVE  WorkerOK'
    BY <1>4, GotoType, ReturnType
  <1>5. ASSUME \/ \E p \in Payload : Enqueue(p) \/ Lapse(p) \/ BecomeAvailable(p)
               \/ \E h \in Input : RunLapse(h)
               \/ UNCHANGED vars
        PROVE  UNCHANGED worker
    BY <1>5 DEF Enqueue, Lapse, BecomeAvailable, RunLapse, vars
  <1> QED BY <1>1, <1>2, <1>3, <1>4, <1>5, WorkerMoves DEF Next, Work

LEMMA InputAtType ==
    ASSUME TypeOK, NEW w \in Worker, worker[w].pc # "idle"
    PROVE  InputAt(w) \in Input
  BY PipelineAssumption DEF TypeOK, InputAt

LEMMA InitType == Init => TypeOK
  <1>1. Idle \in Worker_State /\ Idle.pc = "idle"
    BY DEF Idle, Worker_State
  <1> SUFFICES ASSUME Init PROVE TypeOK
    OBVIOUS
  <1>2. /\ job \in [Payload -> {"none", "pending", "running", "completed", "dead"}]
        /\ attempts \in [Payload -> 0 .. MaxAttempts]
        /\ holder \in [Payload -> Worker \cup {None}]
        /\ run \in [Input -> {"none", "running", "completed", "failed"}]
        /\ ledger \in [Input -> Nat]
    BY PipelineAssumption DEF Init
  <1>3. /\ worker \in [Worker -> Worker_State]
        /\ \A w \in Worker : worker[w].pc = "idle"
    BY <1>1 DEF Init
  <1> QED BY <1>2, <1>3 DEF Init, TypeOK

QueueOK ==
    /\ job \in [Payload -> {"none", "pending", "running", "completed", "dead"}]
    /\ attempts \in [Payload -> 0 .. MaxAttempts]
    /\ holder \in [Payload -> Worker \cup {None}]
    /\ lapsed \subseteq Payload /\ waiting \subseteq Payload

LEMMA QueueType ==
    ASSUME TypeOK, [Next]_vars
    PROVE  QueueOK'
  <1> USE DEF TypeOK, QueueOK
  <1>1. CASE UNCHANGED queue
    BY <1>1 DEF queue
  <1>2. ASSUME NEW p \in Payload, Enqueue(p) \/ Lapse(p) \/ BecomeAvailable(p)
        PROVE  QueueOK'
    BY <1>2 DEF Enqueue, Lapse, BecomeAvailable
  <1>3. ASSUME NEW w \in Worker, NEW p \in Payload, Claim(w, p) PROVE QueueOK'
    <2>1. attempts' \in [Payload -> 0 .. MaxAttempts]
      BY <1>3, PipelineAssumption DEF Claim
    <2> QED BY <1>3, <2>1 DEF Claim
  <1>4. ASSUME NEW w \in Worker, Fail(w) \/ FailBad(w) PROVE QueueOK'
    <2>1. worker[w].job \in Payload
      BY <1>4 DEF Fail, FailBad
    <2>2. PICK limit \in Nat : FailJob(w, limit)
      BY <1>4, PipelineAssumption DEF Fail, FailBad
    <2> QED BY <2>1, <2>2 DEF FailJob
  <1>5. ASSUME NEW w \in Worker, Finish(w) PROVE QueueOK'
    BY <1>5 DEF Finish
  <1>6. ASSUME NEW w \in Worker,
               \/ FirstRenewal(w) \/ ReadPayload(w) \/ ClaimRun(w) \/ UpsertFindings(w)
               \/ FindRecord(w) \/ AppendRecord(w) \/ OpenOutputs(w) \/ WriteOutputs(w)
               \/ CompleteRun(w) \/ AuditRun(w) \/ ExecuteError(w) \/ FailRun(w) \/ HeartbeatLost(w)
               \/ Crash(w) \/ AppendCut(w)
        PROVE  UNCHANGED queue
    BY <1>6 DEF FirstRenewal, ReadPayload, ClaimRun, UpsertFindings, FindRecord,
         AppendRecord, OpenOutputs, WriteOutputs, CompleteRun, AuditRun, ExecuteError, FailRun,
         HeartbeatLost, Crash, AppendCut
  <1>7. ASSUME (\E h \in Input : RunLapse(h)) \/ UNCHANGED vars
        PROVE  UNCHANGED queue
    BY <1>7 DEF RunLapse, vars
  <1> QED BY <1>1, <1>2, <1>3, <1>4, <1>5, <1>6, <1>7 DEF Next, Work

\* How the run table changes: a clock, a claim, a completion or a failure.
LEMMA RunSteps ==
    ASSUME [Next]_vars
    PROVE  \/ UNCHANGED runs
           \/ \E h \in Input : RunLapse(h)
           \/ \E w \in Worker :
                \/ /\ worker[w].pc = "run" /\ ClaimableRun(InputAt(w))
                   /\ run' = [run EXCEPT ![InputAt(w)] = "running"]
                   /\ overdue' = overdue \ {InputAt(w)} /\ outrun' = outrun
                   /\ ClaimRun(w)
                \/ CompleteRun(w)
                \/ /\ FailRun(w)
                   /\ run' = [run EXCEPT ![InputAt(w)] = "failed"]
                   /\ overdue' = overdue \ {InputAt(w)} /\ outrun' = outrun
  <1>1. ASSUME NEW w \in Worker,
               \/ FirstRenewal(w) \/ ReadPayload(w) \/ Fail(w) \/ FailBad(w) \/ Finish(w)
               \/ UpsertFindings(w) \/ FindRecord(w) \/ AppendRecord(w) \/ OpenOutputs(w)
               \/ WriteOutputs(w) \/ AuditRun(w) \/ ExecuteError(w) \/ HeartbeatLost(w) \/ Crash(w)
               \/ AppendCut(w) \/ \E p \in Payload : Claim(w, p)
        PROVE  UNCHANGED runs
    BY <1>1 DEF FirstRenewal, ReadPayload, Fail, FailBad, FailJob, Finish, UpsertFindings,
         FindRecord, AppendRecord, OpenOutputs, WriteOutputs, AuditRun, ExecuteError,
         HeartbeatLost, Crash, AppendCut, Claim
  <1>2. ASSUME \/ \E p \in Payload : Enqueue(p) \/ Lapse(p) \/ BecomeAvailable(p)
               \/ UNCHANGED vars
        PROVE  UNCHANGED runs
    BY <1>2 DEF Enqueue, Lapse, BecomeAvailable, vars
  <1>3. ASSUME NEW w \in Worker, ClaimRun(w)
        PROVE  \/ UNCHANGED runs
               \/ /\ worker[w].pc = "run" /\ ClaimableRun(InputAt(w))
                  /\ run' = [run EXCEPT ![InputAt(w)] = "running"]
                  /\ overdue' = overdue \ {InputAt(w)} /\ outrun' = outrun
    BY <1>3 DEF ClaimRun
  <1>4. ASSUME NEW w \in Worker, FailRun(w)
        PROVE  \/ UNCHANGED runs
               \/ /\ run' = [run EXCEPT ![InputAt(w)] = "failed"]
                  /\ overdue' = overdue \ {InputAt(w)} /\ outrun' = outrun
    BY <1>4 DEF FailRun
  <1> QED BY <1>1, <1>2, <1>3, <1>4 DEF Next, Work

\* How the results change: one step at a time.
LEMMA ResultSteps ==
    ASSUME [Next]_vars
    PROVE  \/ UNCHANGED <<upserted, ledger, outputs, audited>>
                /\ (torn' = torn \/ torn' = TRUE)
           \/ \E w \in Worker :
                \/ UpsertFindings(w) \/ AppendRecord(w) \/ AuditRun(w)
                \/ OpenOutputs(w) \/ WriteOutputs(w)
  <1>1. ASSUME NEW w \in Worker,
               \/ FirstRenewal(w) \/ ReadPayload(w) \/ Fail(w) \/ FailBad(w) \/ Finish(w)
               \/ ClaimRun(w) \/ FindRecord(w) \/ CompleteRun(w) \/ FailRun(w)
               \/ ExecuteError(w) \/ HeartbeatLost(w) \/ Crash(w)
               \/ \E p \in Payload : Claim(w, p)
        PROVE  UNCHANGED results
    BY <1>1 DEF FirstRenewal, ReadPayload, Fail, FailBad, FailJob, Finish, ClaimRun,
         FindRecord, CompleteRun, FailRun, ExecuteError, HeartbeatLost, Crash, Claim
  <1>2. ASSUME \/ \E p \in Payload : Enqueue(p) \/ Lapse(p) \/ BecomeAvailable(p)
               \/ \E h \in Input : RunLapse(h)
               \/ UNCHANGED vars
        PROVE  UNCHANGED results
    BY <1>2 DEF Enqueue, Lapse, BecomeAvailable, RunLapse, vars
  <1>3. ASSUME NEW w \in Worker, AppendCut(w)
        PROVE  UNCHANGED <<upserted, ledger, outputs, audited>> /\ torn' = TRUE
    BY <1>3 DEF AppendCut
  <1>4. CASE UNCHANGED results
    BY <1>4 DEF results
  <1> QED BY <1>1, <1>2, <1>3, <1>4 DEF Next, Work

\* Findings and ledger records stay; output files are emptied and written.
LEMMA ResultsGrow ==
    ASSUME TypeOK, [Next]_vars
    PROVE  /\ upserted \subseteq upserted'
           /\ upserted' \subseteq Input /\ outputs' \subseteq Input
           /\ audited' \subseteq Input /\ torn' \in BOOLEAN
           /\ ledger' \in [Input -> Nat]
           /\ \A h \in Input : ledger[h] <= ledger'[h]
           /\ \A w \in Worker : UpsertFindings(w) => InputAt(w) \in upserted'
           /\ \A w \in Worker : AppendRecord(w) => ledger'[InputAt(w)] > 0
  <1> USE DEF TypeOK
  <1>1. ASSUME UNCHANGED <<upserted, ledger, outputs, audited>>,
               torn' = torn \/ torn' = TRUE
        PROVE  /\ upserted \subseteq upserted'
               /\ upserted' \subseteq Input /\ outputs' \subseteq Input
               /\ audited' \subseteq Input /\ torn' \in BOOLEAN
               /\ ledger' \in [Input -> Nat]
               /\ \A h \in Input : ledger[h] <= ledger'[h]
    <2>1. torn' \in BOOLEAN
      BY <1>1
    <2>2. \A h \in Input : ledger[h] <= ledger'[h]
      BY <1>1
    <2> QED BY <1>1, <2>1, <2>2
  <1>2. ASSUME NEW w \in Worker,
               UpsertFindings(w) \/ OpenOutputs(w) \/ WriteOutputs(w) \/ AuditRun(w)
        PROVE  /\ upserted \subseteq upserted'
               /\ upserted' \subseteq Input /\ outputs' \subseteq Input
               /\ audited' \subseteq Input /\ torn' \in BOOLEAN
               /\ ledger' \in [Input -> Nat]
               /\ \A h \in Input : ledger[h] <= ledger'[h]
    <2>1. InputAt(w) \in Input
      BY <1>2, InputAtType DEF UpsertFindings, OpenOutputs, WriteOutputs, AuditRun
    <2> QED BY <1>2, <2>1 DEF UpsertFindings, OpenOutputs, WriteOutputs, AuditRun
  <1>3. ASSUME NEW w \in Worker, AppendRecord(w)
        PROVE  /\ UNCHANGED <<upserted, outputs, audited, torn>> /\ torn' \in BOOLEAN
               /\ ledger' \in [Input -> Nat] /\ ledger'[InputAt(w)] > 0
               /\ \A h \in Input : ledger[h] <= ledger'[h]
    <2>1. InputAt(w) \in Input
      BY <1>3, InputAtType DEF AppendRecord
    <2> QED BY <1>3, <2>1 DEF AppendRecord
  <1>4. \A w \in Worker : UpsertFindings(w) => InputAt(w) \in upserted'
    BY DEF UpsertFindings
  <1> QED BY <1>1, <1>2, <1>3, <1>4, ResultSteps

LEMMA RunType ==
    ASSUME TypeOK, [Next]_vars
    PROVE  /\ run' \in [Input -> {"none", "running", "completed", "failed"}]
           /\ overdue' \subseteq Input /\ outrun' \subseteq Input
           /\ outrun \subseteq outrun'
  <1> USE DEF TypeOK
  <1>1. CASE UNCHANGED runs
    BY <1>1 DEF runs
  <1>2. ASSUME NEW h \in Input, RunLapse(h)
        PROVE  /\ run' = run /\ overdue' \subseteq Input
               /\ outrun' \subseteq Input /\ outrun \subseteq outrun'
    BY <1>2 DEF RunLapse
  <1>3. ASSUME NEW w \in Worker, NEW status \in {"running", "completed", "failed"},
               run' = [run EXCEPT ![InputAt(w)] = status],
               overdue' = overdue \ {InputAt(w)}, outrun' = outrun
        PROVE  /\ run' \in [Input -> {"none", "running", "completed", "failed"}]
               /\ overdue' \subseteq Input
               /\ outrun' \subseteq Input /\ outrun \subseteq outrun'
    BY <1>3
  <1>4. ASSUME NEW w \in Worker, CompleteRun(w)
        PROVE  /\ run' = [run EXCEPT ![InputAt(w)] = "completed"]
               /\ overdue' = overdue \ {InputAt(w)} /\ outrun' = outrun
    BY <1>4 DEF CompleteRun
  <1> QED BY <1>1, <1>2, <1>3, <1>4, RunSteps

LEMMA NextType == TypeOK /\ [Next]_vars => TypeOK'
  <1> SUFFICES ASSUME TypeOK, [Next]_vars PROVE TypeOK'
    OBVIOUS
  <1>1. QueueOK'
    BY QueueType
  <1>2. WorkerOK'
    BY WorkerType DEF TypeOK, WorkerOK
  <1>3. /\ run' \in [Input -> {"none", "running", "completed", "failed"}]
        /\ overdue' \subseteq Input /\ outrun' \subseteq Input
    BY RunType
  <1>4. /\ upserted' \subseteq Input /\ outputs' \subseteq Input
        /\ audited' \subseteq Input /\ torn' \in BOOLEAN
        /\ ledger' \in [Input -> Nat]
    BY ResultsGrow
  <1> QED BY <1>1, <1>2, <1>3, <1>4 DEF TypeOK, QueueOK, WorkerOK

\* Every reachable state of the queue, the run table, the ledger and the workers
\* is well typed.
THEOREM TypeCorrect == Spec => []TypeOK
  BY InitType, NextType, PTL DEF Spec

-----------------------------------------------------------------------------
(* The invariant *)

\* A worker is moved by its own steps only.
LEMMA OtherWorker ==
    ASSUME TypeOK, NEW v \in Worker, NEW w \in Worker, v # w,
           Work(v) \/ HeartbeatLost(v) \/ Crash(v) \/ AppendCut(v)
    PROVE  worker'[w] = worker[w]
  <1>1. CASE (\E p \in Payload : Claim(v, p)) \/ HeartbeatLost(v)
    BY <1>1 DEF Claim, HeartbeatLost, TypeOK
  <1>2. CASE Return(v) \/ \E pc \in Supervised : Goto(v, pc)
    BY <1>2 DEF Return, Goto, TypeOK
  <1> QED BY <1>1, <1>2, WorkerMoves DEF Work, TypeOK, WorkerOK

\* How a step may bring or keep a worker inside a run.
LEMMA WorkerSteps ==
    ASSUME TypeOK, [Next]_vars, NEW w \in Worker, InRun(w)'
    PROVE  /\ worker'[w].job = worker[w].job /\ worker[w].pc # "idle"
           /\ \/ InRun(w) /\ worker'[w].pc = worker[w].pc
              \/ InRun(w) /\ worker'[w].pc = "fail_run"
              \/ /\ worker[w].pc = "run" /\ worker'[w].pc = "upsert"
                 /\ ClaimRun(w) /\ ClaimableRun(InputAt(w))
                 /\ run' = [run EXCEPT ![InputAt(w)] = "running"]
                 /\ overdue' = overdue \ {InputAt(w)} /\ outrun' = outrun
              \/ worker[w].pc = "upsert" /\ worker'[w].pc = "find" /\ UpsertFindings(w)
              \/ /\ worker[w].pc = "find" /\ worker'[w].pc = "append"
                 /\ ledger[InputAt(w)] = 0 /\ ledger' = ledger
              \/ /\ worker[w].pc = "find" /\ worker'[w].pc = "write"
                 /\ ledger[InputAt(w)] # 0
              \/ worker[w].pc = "append" /\ worker'[w].pc = "write" /\ AppendRecord(w)
              \/ worker[w].pc = "write" /\ worker'[w].pc = "writing" /\ OpenOutputs(w)
              \/ worker[w].pc = "writing" /\ worker'[w].pc = "complete" /\ WriteOutputs(w)
              \/ worker[w].pc = "complete" /\ worker'[w].pc = "audit" /\ CompleteRun(w)
  <1> USE DEF InRun, Executing
  <1>0. worker[w] \in Worker_State
    BY DEF TypeOK
  <1>1. CASE worker'[w] = worker[w]
    BY <1>1
  <1>2. ASSUME NEW pc, Goto(w, pc)
        PROVE  worker'[w].pc = pc /\ worker'[w].job = worker[w].job
    BY <1>0, <1>2 DEF Goto, TypeOK, Worker_State
  <1>3. ASSUME Return(w) PROVE worker'[w].pc = "idle"
    BY <1>3 DEF Return, Idle, TypeOK
  <1>4. ASSUME NEW v \in Worker, v # w,
               Work(v) \/ HeartbeatLost(v) \/ Crash(v) \/ AppendCut(v)
        PROVE  worker'[w] = worker[w]
    BY <1>4, OtherWorker
  <1>5. CASE HeartbeatLost(w)
    BY <1>0, <1>5 DEF HeartbeatLost, TypeOK, Worker_State
  <1>6. CASE \E p \in Payload : Claim(w, p)
    BY <1>6 DEF Claim, TypeOK
  <1>7. CASE FirstRenewal(w) \/ ReadPayload(w)
    BY <1>2, <1>3, <1>7 DEF FirstRenewal, ReadPayload
  <1>8. CASE Fail(w) \/ FailBad(w) \/ Finish(w) \/ Crash(w)
    BY <1>2, <1>3, <1>8 DEF Fail, FailBad, FailJob, Finish, Crash
  <1>9. CASE ClaimRun(w)
    BY <1>2, <1>9 DEF ClaimRun
  <1>10. CASE UpsertFindings(w)
    BY <1>2, <1>10 DEF UpsertFindings
  <1>11. CASE FindRecord(w)
    <2>1. CASE ledger[InputAt(w)] = 0
      BY <1>2, <1>11, <2>1 DEF FindRecord, results
    <2>2. CASE ledger[InputAt(w)] # 0
      BY <1>2, <1>11, <2>2 DEF FindRecord
    <2> QED BY <2>1, <2>2
  <1>12. CASE AppendRecord(w)
    BY <1>2, <1>12 DEF AppendRecord
  <1>13. CASE AppendCut(w)
    BY <1>2, <1>3, <1>13 DEF AppendCut
  <1>14. CASE OpenOutputs(w) \/ WriteOutputs(w)
    BY <1>2, <1>14 DEF OpenOutputs, WriteOutputs
  <1>15. CASE CompleteRun(w)
    BY <1>2, <1>15 DEF CompleteRun
  <1>16. CASE AuditRun(w) \/ FailRun(w)
    BY <1>2, <1>16 DEF AuditRun, FailRun
  <1>17. CASE ExecuteError(w)
    BY <1>2, <1>17 DEF ExecuteError
  <1>18. CASE \/ \E p \in Payload : Enqueue(p) \/ Lapse(p) \/ BecomeAvailable(p)
              \/ \E h \in Input : RunLapse(h)
              \/ UNCHANGED vars
    BY <1>1, <1>18 DEF Enqueue, Lapse, BecomeAvailable, RunLapse, vars
  <1> QED BY <1>1, <1>4, <1>5, <1>6, <1>7, <1>8, <1>9, <1>10, <1>11, <1>12, <1>13,
             <1>14, <1>15, <1>16, <1>17, <1>18 DEF Next, Work

\* A worker in a run keeps its input.
LEMMA SameInput ==
    ASSUME TypeOK, [Next]_vars, NEW w \in Worker, InRun(w)'
    PROVE  InputAt(w)' = InputAt(w) /\ InputAt(w) \in Input
  BY WorkerSteps, InputAtType DEF InputAt

\* The files of an input that one worker at a time executes are touched by nobody
\* but that worker.
LEMMA OutputsStay ==
    ASSUME TypeOK, [Next]_vars, OneExecutor, NEW h \in Input, h \notin outrun,
           h \in outputs,
           \A v \in Worker : InRun(v) /\ InputAt(v) = h =>
               worker[v].pc \notin {"write", "writing"}
    PROVE  h \in outputs'
  <1>1. ASSUME NEW v \in Worker, OpenOutputs(v) \/ WriteOutputs(v)
        PROVE  InputAt(v) # h
    BY <1>1 DEF OpenOutputs, WriteOutputs, InRun, Executing
  <1>2. ASSUME NEW v \in Worker, OpenOutputs(v) \/ WriteOutputs(v)
        PROVE  h \in outputs'
    BY <1>1, <1>2 DEF OpenOutputs, WriteOutputs
  <1>3. ASSUME NEW v \in Worker, UpsertFindings(v) \/ AppendRecord(v) \/ AuditRun(v)
        PROVE  outputs' = outputs
    BY <1>3 DEF UpsertFindings, AppendRecord, AuditRun
  <1> QED BY <1>2, <1>3, ResultSteps

\* And its last close leaves them whole.
LEMMA OutputsWritten ==
    ASSUME TypeOK, OneExecutor, NEW w \in Worker, WriteOutputs(w),
           InputAt(w) \notin outrun
    PROVE  InputAt(w) \in outputs'
  <1>1. ASSUME NEW v \in Worker \ {w}, worker[v].pc = "writing", InputAt(v) = InputAt(w)
        PROVE  FALSE
    BY <1>1 DEF OneExecutor, InRun, Executing, WriteOutputs
  <1> QED BY <1>1 DEF WriteOutputs

LEMMA NextBacked ==
    ASSUME TypeOK, [Next]_vars, OneExecutor, NEW w \in Worker, StepsAreBacked(w)
    PROVE  StepsAreBacked(w)'
  <1> SUFFICES ASSUME InRun(w)' PROVE StepsAreBacked(w)'
    BY DEF StepsAreBacked, InRun, Executing
  <1> DEFINE h == InputAt(w)
  <1>1. InputAt(w)' = h /\ h \in Input
    BY SameInput
  <1>2. /\ h \in upserted => h \in upserted'
        /\ ledger[h] > 0 => ledger'[h] > 0
        /\ ledger[h] # 0 => ledger'[h] > 0
    BY <1>1, ResultsGrow DEF TypeOK
  <1>3. /\ UpsertFindings(w) => h \in upserted'
        /\ AppendRecord(w) => ledger'[h] > 0
    BY ResultsGrow
  <1>4. h \in outrun => h \in outrun'
    BY RunType
  <1>5. ASSUME worker[w].pc \in {"complete", "audit"}
        PROVE  h \in outputs' \cup outrun'
    <2>1. CASE h \in outrun
      BY <1>4, <2>1
    <2>2. CASE h \notin outrun
      <3>1. h \in outputs
        BY <1>5, <2>2 DEF StepsAreBacked
      <3>2. ASSUME NEW v \in Worker, InRun(v), InputAt(v) = h PROVE v = w
        BY <1>5, <2>2, <3>2 DEF OneExecutor, InRun, Executing
      <3>3. \A v \in Worker : InRun(v) /\ InputAt(v) = h =>
               worker[v].pc \notin {"write", "writing"}
        BY <1>5, <3>2
      <3> HIDE DEF h
      <3> QED BY <1>1, <2>2, <3>1, <3>3, OutputsStay
    <2> QED BY <2>1, <2>2
  <1>6. WriteOutputs(w) => h \in outputs' \cup outrun'
    BY <1>4, OutputsWritten
  <1> HIDE DEF h
  <1> QED BY <1>1, <1>2, <1>3, <1>5, <1>6, WorkerSteps DEF StepsAreBacked, InRun, Executing, h

\* Exclusion, as far as the run table grants it.
LEMMA NextExclusion ==
    ASSUME TypeOK, [Next]_vars, OneExecutor, \A w \in Worker : RunIsShown(w)
    PROVE  OneExecutor' /\ \A w \in Worker : RunIsShown(w)'
  <1>1. TypeOK' /\ outrun \subseteq outrun'
    BY NextType, RunType
  <1>2. ASSUME NEW v \in Worker, NEW w \in Worker, InRun(v), v # w,
               InputAt(v) = InputAt(w), InputAt(v) \notin outrun
        PROVE  ~ClaimableRun(InputAt(w))
    BY <1>2 DEF RunIsShown, ClaimableRun
  <1>3. ASSUME NEW w \in Worker, InRun(w)' PROVE InRun(w) \/ ClaimableRun(InputAt(w))
    BY <1>3, WorkerSteps DEF InRun, Executing
  <1>4. OneExecutor'
    <2> SUFFICES ASSUME NEW v \in Worker, NEW w \in Worker, InRun(v)', InRun(w)',
                        InputAt(v)' = InputAt(w)', InputAt(v)' \notin outrun',
                        v # w
                 PROVE  FALSE
      BY DEF OneExecutor
    <2>1. InputAt(v) = InputAt(w) /\ InputAt(v) \notin outrun
      BY <1>1, SameInput
    <2>2. InRun(v) \/ InRun(w)
      <3>1. worker'[v] = worker[v] \/ worker'[w] = worker[w]
        BY OtherWorker DEF Next, Enqueue, Lapse, BecomeAvailable, RunLapse, vars
      <3> QED BY <3>1 DEF InRun
    <2>3. InRun(v) /\ InRun(w)
      BY <1>2, <1>3, <2>1, <2>2
    <2> QED BY <2>1, <2>3 DEF OneExecutor
  <1>5. ASSUME NEW w \in Worker PROVE RunIsShown(w)'
    <2> SUFFICES ASSUME InRun(w)', InputAt(w)' \notin outrun'
                 PROVE  /\ InputAt(w)' \notin overdue'
                        /\ \/ run'[InputAt(w)'] = "running"
                           \/ /\ run'[InputAt(w)'] = "completed"
                              /\ worker'[w].pc \in {"audit", "fail_run"}
      BY DEF RunIsShown
    <2> DEFINE h == InputAt(w)
    <2>1. InputAt(w)' = h /\ h \in Input /\ h \notin outrun
      BY <1>1, SameInput
    <2>2. CASE ~InRun(w)
      <3>1. /\ run' = [run EXCEPT ![h] = "running"]
            /\ overdue' = overdue \ {h}
        BY <2>2, WorkerSteps DEF InRun, Executing
      <3> QED BY <2>1, <3>1 DEF TypeOK
    <2>3. CASE InRun(w)
      <3>1. /\ h \notin overdue
            /\ \/ run[h] = "running"
               \/ run[h] = "completed" /\ worker[w].pc \in {"audit", "fail_run"}
        BY <2>1, <2>3 DEF RunIsShown
      <3>2. worker[w].pc \in {"audit", "fail_run"} => worker'[w].pc \in {"audit", "fail_run"}
        BY WorkerSteps
      <3>3. CASE UNCHANGED runs
        BY <2>1, <3>1, <3>2, <3>3 DEF runs
      <3>4. ASSUME NEW g \in Input, RunLapse(g)
            PROVE  g # h /\ overdue' = overdue \cup {g} /\ run' = run
        <4>1. g = h => BeingExecuted(g)
          BY <2>3 DEF BeingExecuted, InRun
        <4> QED BY <2>1, <3>4, <4>1 DEF RunLapse
      <3>5. ASSUME NEW v \in Worker, worker[v].pc = "run", ClaimableRun(InputAt(v)),
                   run' = [run EXCEPT ![InputAt(v)] = "running"],
                   overdue' = overdue \ {InputAt(v)}
            PROVE  InputAt(v) # h
        BY <2>1, <2>3, <3>1, <3>5 DEF ClaimableRun
      <3>6. ASSUME NEW v \in Worker, CompleteRun(v)
            PROVE  /\ run' = [run EXCEPT ![InputAt(v)] = "completed"]
                   /\ overdue' = overdue \ {InputAt(v)}
                   /\ InputAt(v) = h => worker'[w].pc \in {"audit", "fail_run"}
        <4>1. InRun(v) /\ worker[v].pc = "complete" /\ Goto(v, "audit")
          BY <3>6 DEF CompleteRun, InRun, Executing
        <4>2. worker'[v].pc = "audit"
          BY <4>1 DEF Goto, TypeOK, Worker_State
        <4>3. InputAt(v) = h => v = w
          BY <2>1, <2>3, <4>1 DEF OneExecutor
        <4> QED BY <3>6, <4>2, <4>3 DEF CompleteRun
      <3>7. ASSUME NEW v \in Worker, FailRun(v) PROVE InputAt(v) # h
        <4>1. InRun(v) /\ Goto(v, "fail")
          BY <3>7 DEF FailRun, InRun
        <4>2. worker'[v].pc = "fail"
          BY <4>1 DEF Goto, TypeOK, Worker_State
        <4>3. v # w
          BY <4>2 DEF InRun, Executing
        <4> QED BY <2>1, <2>3, <4>1, <4>3 DEF OneExecutor
      <3>8. ASSUME NEW v \in Worker, NEW status, InputAt(v) # h,
                   run' = [run EXCEPT ![InputAt(v)] = status],
                   overdue' = overdue \ {InputAt(v)}
            PROVE  run'[h] = run[h] /\ h \notin overdue'
        BY <2>1, <3>1, <3>8 DEF TypeOK
      <3>9. CASE \E g \in Input : RunLapse(g)
        BY <2>1, <3>1, <3>2, <3>4, <3>9
      <3>10. CASE \E v \in Worker : CompleteRun(v)
        BY <2>1, <3>1, <3>2, <3>6, <3>10 DEF TypeOK
      <3> QED BY <2>1, <3>1, <3>2, <3>3, <3>5, <3>7, <3>8, <3>9, <3>10, RunSteps
    <2> QED BY <2>2, <2>3
  <1> QED BY <1>4, <1>5

LEMMA NextLedger ==
    ASSUME TypeOK, [Next]_vars, OneExecutor, OneLedgerRecord,
           \A w \in Worker : AppendIsFirst(w)
    PROVE  OneLedgerRecord' /\ \A w \in Worker : AppendIsFirst(w)'
  <1>1. outrun \subseteq outrun'
    BY RunType
  <1>2. ASSUME NEW v \in Worker, AppendRecord(v)
        PROVE  /\ worker[v].pc = "append" /\ worker'[v].pc = "write"
               /\ InputAt(v) \in Input
               /\ ledger' = [ledger EXCEPT ![InputAt(v)] = @ + 1]
    <2>1. worker[v].pc = "append" /\ Goto(v, "write")
      BY <1>2 DEF AppendRecord
    <2>2. worker'[v].pc = "write" /\ InputAt(v) \in Input
      BY <2>1, InputAtType DEF Goto, TypeOK, Worker_State
    <2> QED BY <1>2, <2>1, <2>2 DEF AppendRecord
  <1>3. ledger' = ledger \/ \E v \in Worker : AppendRecord(v)
    BY ResultSteps DEF UpsertFindings, OpenOutputs, WriteOutputs, AuditRun
  <1>4. OneLedgerRecord'
    <2>1. CASE ledger' = ledger
      BY <1>1, <2>1 DEF OneLedgerRecord
    <2>2. ASSUME NEW v \in Worker, AppendRecord(v) PROVE OneLedgerRecord'
      <3> SUFFICES ASSUME NEW h \in Input, ledger'[h] > 1, h \notin outrun'
                   PROVE  FALSE
        BY DEF OneLedgerRecord
      <3>1. CASE h = InputAt(v)
        <4>1. ledger[h] = 0
          BY <1>1, <1>2, <2>2, <3>1 DEF AppendIsFirst
        <4> QED BY <1>2, <2>2, <3>1, <4>1 DEF TypeOK
      <3>2. CASE h # InputAt(v)
        BY <1>1, <1>2, <2>2, <3>2 DEF TypeOK, OneLedgerRecord
      <3> QED BY <3>1, <3>2
    <2> QED BY <1>3, <2>1, <2>2
  <1>5. ASSUME NEW w \in Worker PROVE AppendIsFirst(w)'
    <2> SUFFICES ASSUME worker'[w].pc = "append", InputAt(w)' \notin outrun'
                 PROVE  ledger'[InputAt(w)'] = 0
      BY DEF AppendIsFirst
    <2>1. InRun(w)'
      BY DEF InRun, Executing
    <2>2. InputAt(w)' = InputAt(w) /\ InputAt(w) \in Input /\ InputAt(w) \notin outrun
      BY <1>1, <2>1, SameInput
    <2>3. \/ worker[w].pc = "append"
          \/ ledger[InputAt(w)] = 0 /\ ledger' = ledger
      BY <2>1, WorkerSteps
    <2>4. CASE worker[w].pc = "append"
      <3>1. ledger[InputAt(w)] = 0
        BY <2>2, <2>4 DEF AppendIsFirst
      <3>2. ASSUME NEW v \in Worker, AppendRecord(v) PROVE InputAt(v) # InputAt(w)
        <4>1. v # w
          BY <1>2, <3>2
        <4>2. InRun(v) /\ InRun(w)
          BY <1>2, <2>4, <3>2 DEF InRun, Executing
        <4> QED BY <2>2, <4>1, <4>2 DEF OneExecutor
      <3>3. ASSUME NEW v \in Worker, AppendRecord(v)
            PROVE  ledger'[InputAt(w)] = ledger[InputAt(w)]
        BY <1>2, <2>2, <3>2, <3>3 DEF TypeOK
      <3> QED BY <1>3, <2>2, <3>1, <3>3
    <2> QED BY <2>2, <2>3, <2>4
  <1> QED BY <1>4, <1>5

LEMMA NextCompleted ==
    ASSUME TypeOK, [Next]_vars, CompletedRunHasResults, OneExecutor,
           \A w \in Worker : StepsAreBacked(w) /\ RunIsShown(w)
    PROVE  CompletedRunHasResults'
  <1> SUFFICES ASSUME NEW h \in Input, run'[h] = "completed"
               PROVE  /\ h \in upserted' /\ ledger'[h] > 0
                      /\ h \in outputs' \cup outrun'
    BY DEF CompletedRunHasResults
  <1>1. \/ run[h] = "completed"
        \/ \E w \in Worker : CompleteRun(w) /\ InputAt(w) = h
    BY RunSteps DEF runs, RunLapse, CompleteRun, TypeOK
  <1>2. h \in upserted /\ ledger[h] > 0 /\ h \in outputs \cup outrun
    <2>1. CASE run[h] = "completed"
      BY <2>1 DEF CompletedRunHasResults
    <2>2. ASSUME NEW w \in Worker, CompleteRun(w), InputAt(w) = h
          PROVE  h \in upserted /\ ledger[h] > 0 /\ h \in outputs \cup outrun
      BY <2>2 DEF CompleteRun, StepsAreBacked
    <2> QED BY <1>1, <2>1, <2>2
  <1>3. h \in upserted' /\ ledger'[h] > 0
    BY <1>2, ResultsGrow DEF TypeOK
  <1>4. CASE h \in outrun
    BY <1>3, <1>4, RunType
  <1>5. CASE h \notin outrun
    <2>1. CASE run[h] = "completed"
      <3>1. \A v \in Worker : InRun(v) /\ InputAt(v) = h =>
               worker[v].pc \notin {"write", "writing"}
        BY <1>5, <2>1 DEF RunIsShown
      <3> QED BY <1>2, <1>3, <1>5, <3>1, OutputsStay
    <2>2. ASSUME NEW w \in Worker, CompleteRun(w) PROVE outputs' = outputs
      BY <2>2 DEF CompleteRun, results
    <2> QED BY <1>1, <1>2, <1>3, <1>5, <2>1, <2>2
  <1> QED BY <1>4, <1>5

LEMMA InitInv == Init => IInv
  <1> SUFFICES ASSUME Init PROVE IInv
    OBVIOUS
  <1>1. TypeOK
    BY InitType
  <1>2. \A w \in Worker : worker[w].pc = "idle"
    BY DEF Init, Idle
  <1>3. /\ OneExecutor
        /\ \A w \in Worker : StepsAreBacked(w) /\ RunIsShown(w) /\ AppendIsFirst(w)
    BY <1>2 DEF OneExecutor, StepsAreBacked, RunIsShown, AppendIsFirst, InRun, Executing
  <1>4. CompletedRunHasResults /\ OneLedgerRecord
    BY DEF Init, CompletedRunHasResults, OneLedgerRecord
  <1> QED BY <1>1, <1>3, <1>4 DEF IInv

LEMMA NextInv == IInv /\ [Next]_vars => IInv'
  <1> SUFFICES ASSUME IInv, [Next]_vars PROVE IInv'
    OBVIOUS
  <1> USE DEF IInv
  <1>1. TypeOK'
    BY NextType
  <1>2. \A w \in Worker : StepsAreBacked(w)'
    BY NextBacked
  <1>3. OneExecutor' /\ \A w \in Worker : RunIsShown(w)'
    BY NextExclusion
  <1>4. OneLedgerRecord' /\ \A w \in Worker : AppendIsFirst(w)'
    BY NextLedger
  <1>5. CompletedRunHasResults'
    BY NextCompleted
  <1> QED BY <1>1, <1>2, <1>3, <1>4, <1>5

LEMMA InvariantHolds == Spec => []IInv
  BY InitInv, NextInv, PTL DEF Spec

-----------------------------------------------------------------------------
(* Theorems *)

\* A run marked complete has its findings, its ledger record and whole output
\* files, for any number of workers that execute, repeat or abandon it; only the
\* files of an input a run of which has outlasted its lease are excepted.
THEOREM CompletedRunsAreBacked == Spec => []CompletedRunHasResults
  <1>1. IInv => CompletedRunHasResults
    BY DEF IInv
  <1> QED BY <1>1, InvariantHolds, PTL

\* A second ledger record of an input appears only after a run of that input has
\* outlasted the run lease, however often its payloads are retried and by how
\* many workers.
THEOREM LedgerIsWrittenOnce == Spec => []OneLedgerRecord
  <1>1. IInv => OneLedgerRecord
    BY DEF IInv
  <1> QED BY <1>1, InvariantHolds, PTL

\* As long as no run of an input outlasts its lease, the run table gives it to one
\* worker at a time, although jobs of equal content are claimed independently.
THEOREM RunsAreExclusive == Spec => []OneExecutor
  <1>1. IInv => OneExecutor
    BY DEF IInv
  <1> QED BY <1>1, InvariantHolds, PTL

-----------------------------------------------------------------------------
(* Jobs *)

LEMMA StepSettles ==
    ASSUME TypeOK, [Next]_vars, NEW p \in Payload
    PROVE  /\ job[p] \in {"completed", "dead"} => job'[p] = job[p]
           /\ job[p] = "running" /\ job'[p] # "running" =>
                /\ p \notin lapsed
                /\ worker[holder[p]].job = p
                /\ worker'[holder[p]].pc = "idle"
  <1> USE DEF TypeOK
  <1>1. CASE job'[p] = job[p]
    BY <1>1
  <1>2. ASSUME NEW q \in Payload, Enqueue(q) \/ \E w \in Worker : Claim(w, q)
        PROVE  job'[p] = job[p] \/ (job[p] \notin {"completed", "dead"}
                                    /\ (job[p] = "running" => job'[p] = "running"))
    BY <1>2 DEF Enqueue, Claim
  <1>3. ASSUME NEW w \in Worker, Fail(w) \/ FailBad(w) \/ Finish(w),
               job'[p] # job[p]
        PROVE  /\ job[p] = "running" /\ p \notin lapsed
               /\ holder[p] = w /\ worker[w].job = p /\ worker'[w].pc = "idle"
    <2>1. Return(w) /\ worker[w].job \in Payload
      BY <1>3 DEF Fail, FailBad, FailJob, Finish
    <2>2. worker'[w].pc = "idle"
      BY <2>1 DEF Return, Idle
    <2>3. CASE Finish(w)
      BY <1>3, <2>1, <2>2, <2>3 DEF Finish, Mine
    <2>4. CASE Fail(w) \/ FailBad(w)
      <3>1. PICK limit \in Nat : FailJob(w, limit)
        BY <2>4, PipelineAssumption DEF Fail, FailBad
      <3>2. Mine(w) /\ p = worker[w].job
        BY <1>3, <2>1, <3>1 DEF FailJob
      <3> QED BY <2>2, <3>2 DEF Mine
    <2> QED BY <1>3, <2>3, <2>4
  <1>4. ASSUME NEW w \in Worker,
               \/ FirstRenewal(w) \/ ReadPayload(w) \/ ClaimRun(w) \/ UpsertFindings(w)
               \/ FindRecord(w) \/ AppendRecord(w) \/ OpenOutputs(w) \/ WriteOutputs(w)
               \/ CompleteRun(w) \/ AuditRun(w) \/ ExecuteError(w) \/ FailRun(w) \/ HeartbeatLost(w)
               \/ Crash(w) \/ AppendCut(w)
        PROVE  job' = job
    BY <1>4 DEF FirstRenewal, ReadPayload, ClaimRun, UpsertFindings, FindRecord,
         AppendRecord, OpenOutputs, WriteOutputs, CompleteRun, AuditRun, ExecuteError, FailRun,
         HeartbeatLost, Crash, AppendCut, queue
  <1>5. ASSUME \/ \E q \in Payload : Lapse(q) \/ BecomeAvailable(q)
               \/ \E h \in Input : RunLapse(h)
               \/ UNCHANGED vars
        PROVE  job' = job
    BY <1>5 DEF Lapse, BecomeAvailable, RunLapse, queue, vars
  <1> QED BY <1>1, <1>2, <1>3, <1>4, <1>5 DEF Next, Work

\* No stale worker ever settles a job, and a completed or dead job stays so, for
\* any number of workers, late heartbeats and leases that run out.
THEOREM JobsAreSettledByTheirHolder == Spec => OnlyTheHolderSettles
  <1>1. TypeOK /\ [Next]_vars
        => [\A p \in Payload :
              /\ job[p] \in {"completed", "dead"} => job'[p] = job[p]
              /\ job[p] = "running" /\ job'[p] # "running" =>
                   /\ p \notin lapsed
                   /\ worker[holder[p]].job = p
                   /\ worker'[holder[p]].pc = "idle"]_vars
    BY StepSettles
  <1> QED BY <1>1, TypeCorrect, PTL DEF Spec, OnlyTheHolderSettles
=============================================================================
