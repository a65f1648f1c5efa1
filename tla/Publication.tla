---------------------------- MODULE Publication ----------------------------
(***************************************************************************)
(* How accepted evidence becomes processable: the publication protocol of  *)
(* scripts/ingestion_api.py (reserve a row, rename the file into the       *)
(* inbox, commit the row), the sweeps of publication_reconciliation.py     *)
(* that finish what a crash interrupted, and the poll of                   *)
(* scripts/pipeline_worker.py that queues committed files.                 *)
(*                                                                         *)
(* Request threads share one server process and its publication_lock; the  *)
(* sweepers are the starting server (no grace period), workers (posture    *)
(* inbox only) and the operator's reconcile command.  A payload stands for *)
(* its canonical bytes, so for its payload_hash, evidence_id and file      *)
(* name.  The temporary file is not modelled: no sweep or poll sees it,    *)
(* and os.replace publishes it whole.  Processes die, the host does not:   *)
(* what was renamed stays on disk.  Age is the comparison with the grace   *)
(* period and nothing else.                                                *)
(***************************************************************************)
EXTENDS Naturals

CONSTANTS
    Payload,    \* accepted documents
    Posture,    \* the ones that go to the posture inbox; the rest are portfolio
    Thread,     \* request threads of the ingestion server
    Worker,     \* pipeline worker processes
    Server, Operator, None,
    MaxFaults   \* bound: unreadable files and killed sweepers

ASSUME PublicationAssumption ==
    /\ Posture \subseteq Payload
    /\ None \notin Payload \cup Thread
    /\ Server \notin Worker /\ Operator \notin Worker /\ Server # Operator
    /\ MaxFaults \in Nat

Sweeper == Worker \cup {Server, Operator}

VARIABLES
    row,      \* accepted_payloads.status ("none": no row)
    aged,     \* rows accepted longer ago than RECONCILIATION_GRACE_SECONDS
    disk,     \* payloads whose file is in its inbox
    queued,   \* payloads with a pipeline_jobs row
    told,     \* payloads some client was told are accepted or duplicate
    serving,  \* whether the server accepts requests
    lock,     \* publication_lock: the thread that holds it
    thread,   \* _persist_validated_body of each request thread
    sweep,    \* the reconcile and poll loops
    faults

vars == <<row, aged, disk, queued, told, serving, lock, thread, sweep, faults>>

\* _persist_validated_body: the step a thread is at, and its body.
Thread_State ==
    [pc : {"idle", "lookup", "begin", "write", "commit"}, payload : Payload \cup {None}]
Waiting == [pc |-> "idle", payload |-> None]

\* inbox: the worker's listing; todo: candidates left; old: aged when the sweep
\* read its clock; skipped: candidates that could not be read; item: the one whose
\* row is about to be committed.
Sweep_State ==
    [pc : {"idle", "listed", "sweep", "commit"},
     inbox : SUBSET Payload, todo : SUBSET Payload, old : SUBSET Payload,
     skipped : SUBSET Payload, item : Payload \cup {None}]
Quiet == [pc |-> "idle", inbox |-> {}, todo |-> {}, old |-> {}, skipped |-> {},
          item |-> None]

Init ==
    /\ row = [p \in Payload |-> "none"]
    /\ aged = {} /\ disk = {} /\ queued = {} /\ told = {}
    /\ serving = FALSE
    /\ lock = None
    /\ thread = [t \in Thread |-> Waiting]
    /\ sweep = [s \in Sweeper |-> Quiet]
    /\ faults = 0

-----------------------------------------------------------------------------
(* _persist_validated_body *)

Goto(t, pc) == thread' = [thread EXCEPT ![t].pc = pc]

\* Leaving the with block, with or without an exception.
Unlock(t) ==
    /\ lock' = None
    /\ thread' = [thread EXCEPT ![t] = Waiting]

\* An authenticated, validated body reaches the lock.
Acquire(t, p) ==
    /\ serving /\ thread[t].pc = "idle"
    /\ lock = None
    /\ lock' = t
    /\ thread' = [thread EXCEPT ![t] = [pc |-> "lookup", payload |-> p]]
    /\ UNCHANGED <<row, aged, disk, queued, told, serving, sweep, faults>>

\* get_evidence_id finds a committed row: the client is told "duplicate".
Duplicate(t) ==
    /\ thread[t].pc = "lookup"
    /\ row[thread[t].payload] = "committed"
    /\ told' = told \cup {thread[t].payload}
    /\ Unlock(t)
    /\ UNCHANGED <<row, aged, disk, queued, serving, sweep, faults>>

\* get_evidence_id finds none; a sweep may still commit a row left pending.
NotYetCommitted(t) ==
    /\ thread[t].pc = "lookup"
    /\ row[thread[t].payload] # "committed"
    /\ Goto(t, "begin")
    /\ UNCHANGED <<row, aged, disk, queued, told, serving, lock, sweep, faults>>

\* Mutant: every attempt renews accepted_at and the status (INSERT OR REPLACE).
BeginPayload_Renews(t) ==
    LET p == thread[t].payload IN
    /\ thread[t].pc = "begin"
    /\ row' = [row EXCEPT ![p] = "pending"]
    /\ aged' = aged \ {p}
    /\ Goto(t, "write")
    /\ UNCHANGED <<disk, queued, told, serving, lock, sweep, faults>>

\* begin_payload: INSERT OR IGNORE keeps the status and the age of a row that exists.
BeginPayload(t) ==
    /\ thread[t].pc = "begin"
    /\ row' = [row EXCEPT ![thread[t].payload] = IF @ = "none" THEN "pending" ELSE @]
    /\ Goto(t, "write")
    /\ UNCHANGED <<aged, disk, queued, told, serving, lock, sweep, faults>>

\* Mutant: the row is committed before the file is there.
WriteFile_AfterCommit(t) ==
    /\ thread[t].pc = "write"
    /\ row' = [row EXCEPT ![thread[t].payload] = "committed"]
    /\ Goto(t, "commit")
    /\ UNCHANGED <<aged, disk, queued, told, serving, lock, sweep, faults>>

\* The temporary file is written and synced, os.replace publishes it.
WriteFile(t) ==
    /\ thread[t].pc = "write"
    /\ disk' = disk \cup {thread[t].payload}
    /\ Goto(t, "commit")
    /\ UNCHANGED <<row, aged, queued, told, serving, lock, sweep, faults>>

\* Mutant: the client is answered although no row was updated.
CommitPayload_Unchecked(t) ==
    /\ thread[t].pc = "commit"
    /\ told' = told \cup {thread[t].payload}
    /\ Unlock(t)
    /\ UNCHANGED <<row, aged, disk, queued, serving, sweep, faults>>

\* commit_payload; the client is told "accepted".
CommitPayload(t) ==
    /\ thread[t].pc = "commit"
    /\ row' = [row EXCEPT ![thread[t].payload] = "committed"]
    /\ told' = told \cup {thread[t].payload}
    /\ Unlock(t)
    /\ UNCHANGED <<aged, disk, queued, serving, sweep, faults>>

\* A storage error at any step (the directory's fsync too): 503, and what was
\* written so far stays.
Unavailable(t) ==
    /\ thread[t].pc # "idle"
    /\ Unlock(t)
    /\ UNCHANGED <<row, aged, disk, queued, told, serving, sweep, faults>>

-----------------------------------------------------------------------------
(* reconcile_pending_publications *)

\* The server dies, or fails to start: its threads and its lock are gone.
ServerCrash ==
    /\ serving \/ sweep[Server].pc # "idle"
    /\ serving' = FALSE
    /\ lock' = None
    /\ thread' = [t \in Thread |-> Waiting]
    /\ sweep' = [sweep EXCEPT ![Server] = Quiet]
    /\ UNCHANGED <<row, aged, disk, queued, told, faults>>

\* A row passes the grace period.
Age(p) ==
    /\ row[p] # "none" /\ p \notin aged
    /\ aged' = aged \cup {p}
    /\ UNCHANGED <<row, disk, queued, told, serving, lock, thread, sweep, faults>>

\* Mutant: the starting server waits for the grace period too.
OldEnough_Always(s) == aged

\* The rows a sweep that starts now takes for abandoned: grace_seconds is 0 when the
\* server starts.
OldEnough(s) == IF s = Server THEN Payload ELSE aged

\* The sweep reads the clock and lists its candidates: the posture inbox for a
\* worker, all inboxes for the starting server and for the operator.  A directory
\* that cannot be listed yields no candidate, as when each of its files is
\* Unreadable.
List(s) ==
    /\ sweep[s].pc = IF s \in Worker THEN "listed" ELSE "idle"
    /\ s = Server => ~serving
    /\ sweep' = [sweep EXCEPT ![s] =
                   [@ EXCEPT !.pc = "sweep", !.old = OldEnough(s),
                             !.todo = IF s \in Worker THEN disk \cap Posture ELSE disk]]
    /\ UNCHANGED <<row, aged, disk, queued, told, serving, lock, thread, faults>>

\* _pending_candidate: a pending row that is old enough.  The file was listed and
\* holds the reserved bytes.
Pending(s, p) == row[p] = "pending" /\ p \in sweep[s].old

\* One candidate is read.
Examine(s, p) ==
    /\ sweep[s].pc = "sweep" /\ p \in sweep[s].todo
    /\ sweep' = [sweep EXCEPT ![s] =
                   [@ EXCEPT !.pc = IF Pending(s, p) THEN "commit" ELSE "sweep",
                             !.item = IF Pending(s, p) THEN p ELSE None,
                             !.todo = sweep[s].todo \ {p}]]
    /\ UNCHANGED <<row, aged, disk, queued, told, serving, lock, thread, faults>>

\* An OSError skips the candidate: a later sweep may succeed.
Unreadable(s, p) ==
    /\ faults < MaxFaults
    /\ sweep[s].pc = "sweep" /\ p \in sweep[s].todo
    /\ Pending(s, p)
    /\ faults' = faults + 1
    /\ sweep' = [sweep EXCEPT ![s] = [@ EXCEPT !.skipped = sweep[s].skipped \cup {p},
                                               !.todo = sweep[s].todo \ {p}]]
    /\ UNCHANGED <<row, aged, disk, queued, told, serving, lock, thread>>

\* commit_payload of _reconcile_candidate.
Reconcile(s) ==
    /\ sweep[s].pc = "commit"
    /\ row' = [row EXCEPT ![sweep[s].item] = "committed"]
    /\ sweep' = [sweep EXCEPT ![s] = [@ EXCEPT !.pc = "sweep", !.item = None]]
    /\ UNCHANGED <<aged, disk, queued, told, serving, lock, thread, faults>>

\* The server has swept and starts to serve; the operator's command ends.
SweepDone(s) ==
    /\ s \notin Worker
    /\ sweep[s].pc = "sweep" /\ sweep[s].todo = {}
    /\ serving' = (serving \/ s = Server)
    /\ sweep' = [sweep EXCEPT ![s] = Quiet]
    /\ UNCHANGED <<row, aged, disk, queued, told, lock, thread, faults>>

-----------------------------------------------------------------------------
(* process_inbox_once, up to the claim loop *)

\* The worker lists its inbox, before the sweep makes a listing of its own.
Poll(w) ==
    /\ sweep[w].pc = "idle"
    /\ sweep' = [sweep EXCEPT ![w] = [Quiet EXCEPT !.pc = "listed", !.inbox = disk \cap Posture]]
    /\ UNCHANGED <<row, aged, disk, queued, told, serving, lock, thread, faults>>

\* Mutant: a file that is there is queued.
Queueable_Any(p) == p \in disk

\* A file without a row is unmanaged evidence; a pending one stays invisible.
Queueable(p) == row[p] \in {"none", "committed"}

\* One listed file is looked up and queued; enqueue leaves a job that exists alone.
Enqueue(w, p) ==
    /\ sweep[w].pc = "sweep" /\ sweep[w].todo = {}
    /\ p \in sweep[w].inbox
    /\ queued' = IF Queueable(p) THEN queued \cup {p} ELSE queued
    /\ sweep' = [sweep EXCEPT ![w] = [@ EXCEPT !.inbox = sweep[w].inbox \ {p}]]
    /\ UNCHANGED <<row, aged, disk, told, serving, lock, thread, faults>>

\* The poll is over (its jobs are the subject of PipelineWorker); serve calls again.
PollDone(w) ==
    /\ sweep[w].pc = "sweep" /\ sweep[w].todo = {} /\ sweep[w].inbox = {}
    /\ sweep' = [sweep EXCEPT ![w] = Quiet]
    /\ UNCHANGED <<row, aged, disk, queued, told, serving, lock, thread, faults>>

\* A worker or the operator's command is killed, or stops at a database error; the
\* worker is started again.
Stop(s) ==
    /\ s # Server
    /\ faults < MaxFaults
    /\ sweep[s].pc # "idle"
    /\ faults' = faults + 1
    /\ sweep' = [sweep EXCEPT ![s] = Quiet]
    /\ UNCHANGED <<row, aged, disk, queued, told, serving, lock, thread>>

-----------------------------------------------------------------------------
Request(t) ==
    \/ \E p \in Payload : Acquire(t, p)
    \/ Duplicate(t) \/ NotYetCommitted(t)
    \/ BeginPayload(t) \/ WriteFile(t) \/ CommitPayload(t)
    \/ Unavailable(t)

Sweeping(s) ==
    \/ List(s)
    \/ \E p \in Payload : Examine(s, p)
    \/ Reconcile(s) \/ SweepDone(s)

Polling(w) ==
    \/ Poll(w)
    \/ \E p \in Payload : Enqueue(w, p)
    \/ PollDone(w)

Fault(s) ==
    \/ \E p \in Payload : Unreadable(s, p)
    \/ Stop(s)

Next ==
    \/ \E t \in Thread : Request(t)
    \/ \E s \in Sweeper : Sweeping(s) \/ Fault(s)
    \/ \E w \in Worker : Polling(w)
    \/ \E p \in Payload : Age(p)
    \/ ServerCrash

Spec == Init /\ [][Next]_vars

\* serve polls for ever, and time passes.  Requests, the server and the operator
\* promise nothing.
Fairness ==
    /\ \A w \in Worker : WF_vars(Sweeping(w) \/ Polling(w))
    /\ \A p \in Payload : WF_vars(Age(p))

FairSpec == Spec /\ Fairness

-----------------------------------------------------------------------------
(* Properties *)

\* Every variable has its type, a committing thread or sweep names a payload, and only
\* the holder of publication_lock is inside _persist_validated_body.
TypeOK ==
    /\ row \in [Payload -> {"none", "pending", "committed"}]
    /\ aged \subseteq Payload /\ disk \subseteq Payload
    /\ queued \subseteq Payload /\ told \subseteq Payload
    /\ serving \in BOOLEAN
    /\ lock \in Thread \cup {None}
    /\ thread \in [Thread -> Thread_State]
    /\ \A t \in Thread : thread[t].pc # "idle" => lock = t /\ thread[t].payload \in Payload
    /\ sweep \in [Sweeper -> Sweep_State]
    /\ \A s \in Sweeper : sweep[s].pc = "commit" => sweep[s].item \in Payload
    /\ faults \in 0..MaxFaults

\* A committed row always has its file in the inbox, whoever committed it (the request
\* after the rename, or a sweep racing it) and wherever a process died.
CommittedIsPublished == \A p \in Payload : row[p] = "committed" => p \in disk

\* A client is answered "accepted" or "duplicate" only for evidence that is committed
\* and on disk, so evidence a client stopped retrying can be processed.
AnsweredIsKept == \A p \in told : row[p] = "committed" /\ p \in disk

\* A queued file is readable by _read_claimed_payload: its row is committed, not
\* reserved by a request still in flight or abandoned by one.
QueuedIsProcessable == \A p \in queued : row[p] = "committed" /\ p \in disk

\* When the server begins to serve, no publication that reached the inbox is left
\* pending, apart from files the starting sweep could not read.
RestartHeals ==
    [][~serving /\ serving' =>
         \A p \in disk' : row'[p] = "committed" \/ p \in sweep[Server].skipped]_vars

\* A posture file that reached the inbox is queued in the end, even when its request
\* failed after the rename, every retry fails again and the server never restarts.
PublishedIsQueued == \A p \in Posture : p \in disk ~> p \in queued
=============================================================================
