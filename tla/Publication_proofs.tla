------------------------- MODULE Publication_proofs -------------------------
(***************************************************************************)
(* Proofs about Publication, for any sets of payloads, threads and workers *)
(* and any number of faults.                                               *)
(*                                                                         *)
(* What a thread or a sweep does next rests on what it saw earlier, so the *)
(* invariant says which of it stays true while other processes run: files  *)
(* never leave the inbox and rows never become younger.  For the restart   *)
(* it accounts for every published file while the server sweeps: it is     *)
(* committed, skipped, about to be committed or still to be looked at.     *)
(***************************************************************************)
EXTENDS Publication, TLAPS

\* A thread past begin_payload has its row, and past the rename its file.
WritersAreAhead ==
    \A t \in Thread :
        /\ thread[t].pc \in {"write", "commit"} => row[thread[t].payload] # "none"
        /\ thread[t].pc = "commit" => thread[t].payload \in disk

\* A file in an inbox has a row.
FilesHaveRows == \A p \in disk : row[p] # "none"

\* Whatever a sweep or a poll has listed stays on disk.
ListedIsOnDisk ==
    \A s \in Sweeper :
        /\ sweep[s].inbox \subseteq disk /\ sweep[s].todo \subseteq disk
        /\ sweep[s].pc = "commit" => sweep[s].item \in disk

IInv ==
    /\ TypeOK
    /\ WritersAreAhead
    /\ FilesHaveRows
    /\ ListedIsOnDisk
    /\ CommittedIsPublished
    /\ AnsweredIsKept
    /\ QueuedIsProcessable

\* While the server starts no request runs, and its sweep, which finds every row old
\* enough, has each published file committed, skipped, in hand or ahead of it.
StartIsAccounted ==
    /\ ~serving => \A t \in Thread : thread[t].pc = "idle"
    /\ sweep[Server].pc # "idle" =>
         /\ ~serving
         /\ sweep[Server].old = Payload
         /\ \A p \in disk :
              \/ row[p] = "committed"
              \/ p \in sweep[Server].skipped
              \/ p \in sweep[Server].todo
              \/ sweep[Server].pc = "commit" /\ sweep[Server].item = p

-----------------------------------------------------------------------------
\* How a step of a sweep may change its record.
LEMMA SweepTyped ==
    ASSUME TypeOK, NEW s \in Sweeper, NEW new \in Sweep_State,
           new.pc = "commit" => new.item \in Payload,
           sweep' = [sweep EXCEPT ![s] = new]
    PROVE  /\ sweep' \in [Sweeper -> Sweep_State]
           /\ \A q \in Sweeper : sweep'[q].pc = "commit" => sweep'[q].item \in Payload
  BY DEF TypeOK, Sweep_State

LEMMA QuietTyped == Quiet \in Sweep_State
  BY DEF Quiet, Sweep_State

LEMMA InitType == Init => TypeOK
  <1> SUFFICES ASSUME Init PROVE TypeOK
    OBVIOUS
  <1>1. thread \in [Thread -> Thread_State] /\ \A t \in Thread : thread[t].pc = "idle"
    BY DEF Init, Waiting, Thread_State
  <1>2. sweep \in [Sweeper -> Sweep_State] /\ \A s \in Sweeper : sweep[s].pc = "idle"
    BY QuietTyped DEF Init, Quiet
  <1>3. row \in [Payload -> {"none", "pending", "committed"}] /\ faults \in 0 .. MaxFaults
    BY PublicationAssumption DEF Init
  <1>4. /\ aged \subseteq Payload /\ disk \subseteq Payload /\ queued \subseteq Payload
        /\ told \subseteq Payload /\ serving \in BOOLEAN /\ lock \in Thread \cup {None}
    BY DEF Init
  <1> QED BY <1>1, <1>2, <1>3, <1>4 DEF TypeOK

\* A thread inside the lock moves on.
LEMMA ThreadTyped ==
    ASSUME TypeOK, NEW t \in Thread, thread[t].pc # "idle", lock' = lock,
           NEW pc \in {"lookup", "begin", "write", "commit"}, Goto(t, pc)
    PROVE  /\ thread' \in [Thread -> Thread_State]
           /\ \A q \in Thread : thread'[q].pc # "idle" =>
                 lock' = q /\ thread'[q].payload \in Payload
  BY DEF TypeOK, Goto, Thread_State

\* A thread leaves the lock; no other is inside.
LEMMA UnlockTyped ==
    ASSUME TypeOK, NEW t \in Thread, thread[t].pc # "idle", Unlock(t)
    PROVE  /\ lock' \in Thread \cup {None}
           /\ thread' \in [Thread -> Thread_State]
           /\ \A q \in Thread : thread'[q].pc = "idle"
  BY DEF TypeOK, Unlock, Waiting, Thread_State

LEMMA RequestType ==
    ASSUME TypeOK, NEW t \in Thread, Request(t)
    PROVE  TypeOK'
  <1>1. ASSUME NEW p \in Payload, Acquire(t, p) PROVE TypeOK'
    BY <1>1, PublicationAssumption DEF Acquire, TypeOK, Thread_State
  <1>2. CASE Duplicate(t)
    <2>1. /\ thread[t].pc # "idle" /\ Unlock(t) /\ thread[t].payload \in Payload
      BY <1>2 DEF Duplicate, TypeOK
    <2> QED BY <1>2, <2>1, UnlockTyped DEF Duplicate, TypeOK
  <1>3. CASE NotYetCommitted(t)
    BY <1>3, ThreadTyped DEF NotYetCommitted, TypeOK
  <1>4. CASE BeginPayload(t)
    <2>1. row' \in [Payload -> {"none", "pending", "committed"}]
      BY <1>4 DEF BeginPayload, TypeOK
    <2> QED BY <1>4, <2>1, ThreadTyped DEF BeginPayload, TypeOK
  <1>5. CASE WriteFile(t)
    <2>1. thread[t].payload \in Payload
      BY <1>5 DEF WriteFile, TypeOK
    <2> QED BY <1>5, <2>1, ThreadTyped DEF WriteFile, TypeOK
  <1>6. CASE CommitPayload(t)
    <2>1. /\ thread[t].pc # "idle" /\ Unlock(t) /\ thread[t].payload \in Payload
      BY <1>6 DEF CommitPayload, TypeOK
    <2> QED BY <1>6, <2>1, UnlockTyped DEF CommitPayload, TypeOK
  <1>7. CASE Unavailable(t)
    BY <1>7, UnlockTyped DEF Unavailable, TypeOK
  <1> QED BY <1>1, <1>2, <1>3, <1>4, <1>5, <1>6, <1>7 DEF Request

LEMMA SweepingType ==
    ASSUME TypeOK, NEW s \in Sweeper, Sweeping(s) \/ Fault(s)
    PROVE  TypeOK'
  <1>0. sweep[s] \in Sweep_State
    BY DEF TypeOK
  <1>1. CASE List(s)
    <2> DEFINE new == [sweep[s] EXCEPT !.pc = "sweep", !.old = OldEnough(s),
                        !.todo = IF s \in Worker THEN disk \cap Posture ELSE disk]
    <2>1. new \in Sweep_State /\ new.pc = "sweep"
      BY <1>0 DEF OldEnough, Sweep_State, TypeOK
    <2>2. sweep' = [sweep EXCEPT ![s] = new]
      BY <1>1 DEF List
    <2> HIDE DEF new
    <2> QED BY <1>1, <2>1, <2>2, SweepTyped DEF List, TypeOK
  <1>2. ASSUME NEW p \in Payload, Examine(s, p) PROVE TypeOK'
    <2> DEFINE new == [sweep[s] EXCEPT
                         !.pc = IF Pending(s, p) THEN "commit" ELSE "sweep",
                         !.item = IF Pending(s, p) THEN p ELSE None,
                         !.todo = sweep[s].todo \ {p}]
    <2>1. new \in Sweep_State /\ (new.pc = "commit" => new.item \in Payload)
      BY <1>0 DEF Sweep_State
    <2>2. sweep' = [sweep EXCEPT ![s] = new]
      BY <1>2 DEF Examine
    <2> HIDE DEF new
    <2> QED BY <1>2, <2>1, <2>2, SweepTyped DEF Examine, TypeOK
  <1>3. CASE Reconcile(s)
    <2> DEFINE new == [sweep[s] EXCEPT !.pc = "sweep", !.item = None]
    <2>1. new \in Sweep_State /\ new.pc = "sweep"
      BY <1>0 DEF Sweep_State
    <2>2. sweep' = [sweep EXCEPT ![s] = new]
      BY <1>3 DEF Reconcile
    <2>3. row' \in [Payload -> {"none", "pending", "committed"}]
      BY <1>3 DEF Reconcile, TypeOK
    <2> HIDE DEF new
    <2> QED BY <1>3, <2>1, <2>2, <2>3, SweepTyped DEF Reconcile, TypeOK
  <1>4. CASE SweepDone(s)
    <2>1. Quiet.pc = "idle" /\ serving' \in BOOLEAN
      BY <1>4 DEF Quiet, SweepDone, TypeOK
    <2> QED BY <1>4, <2>1, QuietTyped, SweepTyped DEF SweepDone, TypeOK
  <1>5. ASSUME NEW p \in Payload, Unreadable(s, p) PROVE TypeOK'
    <2> DEFINE new == [sweep[s] EXCEPT !.skipped = sweep[s].skipped \cup {p},
                                       !.todo = sweep[s].todo \ {p}]
    <2>1. new \in Sweep_State /\ new.pc = "sweep"
      BY <1>0, <1>5 DEF Sweep_State, Unreadable
    <2>2. sweep' = [sweep EXCEPT ![s] = new]
      BY <1>5 DEF Unreadable
    <2>3. faults' \in 0 .. MaxFaults
      BY <1>5, PublicationAssumption DEF Unreadable, TypeOK
    <2> HIDE DEF new
    <2> QED BY <1>5, <2>1, <2>2, <2>3, SweepTyped DEF Unreadable, TypeOK
  <1>6. CASE Stop(s)
    <2>1. Quiet.pc = "idle"
      BY DEF Quiet
    <2>2. faults' \in 0 .. MaxFaults
      BY <1>6, PublicationAssumption DEF Stop, TypeOK
    <2> QED BY <1>6, <2>1, <2>2, QuietTyped, SweepTyped DEF Stop, TypeOK
  <1> QED BY <1>1, <1>2, <1>3, <1>4, <1>5, <1>6 DEF Sweeping, Fault

LEMMA PollingType ==
    ASSUME TypeOK, NEW w \in Worker, Polling(w)
    PROVE  TypeOK'
  <1>0. w \in Sweeper /\ sweep[w] \in Sweep_State
    BY DEF TypeOK, Sweeper
  <1>1. CASE Poll(w)
    <2> DEFINE new == [Quiet EXCEPT !.pc = "listed", !.inbox = disk \cap Posture]
    <2>1. new \in Sweep_State /\ new.pc = "listed"
      BY DEF Quiet, Sweep_State, TypeOK
    <2>2. sweep' = [sweep EXCEPT ![w] = new]
      BY <1>1 DEF Poll
    <2> HIDE DEF new
    <2> QED BY <1>0, <1>1, <2>1, <2>2, SweepTyped DEF Poll, TypeOK
  <1>2. ASSUME NEW p \in Payload, Enqueue(w, p) PROVE TypeOK'
    <2> DEFINE new == [sweep[w] EXCEPT !.inbox = sweep[w].inbox \ {p}]
    <2>1. new \in Sweep_State /\ new.pc = "sweep"
      BY <1>0, <1>2 DEF Sweep_State, Enqueue
    <2>2. sweep' = [sweep EXCEPT ![w] = new] /\ queued' \subseteq Payload
      BY <1>2 DEF Enqueue, TypeOK
    <2> HIDE DEF new
    <2> QED BY <1>0, <1>2, <2>1, <2>2, SweepTyped DEF Enqueue, TypeOK
  <1>3. CASE PollDone(w)
    <2>1. Quiet.pc = "idle"
      BY DEF Quiet
    <2> QED BY <1>0, <1>3, <2>1, QuietTyped, SweepTyped DEF PollDone, TypeOK
  <1> QED BY <1>1, <1>2, <1>3 DEF Polling

LEMMA NextType == TypeOK /\ [Next]_vars => TypeOK'
  <1> SUFFICES ASSUME TypeOK, [Next]_vars PROVE TypeOK'
    OBVIOUS
  <1>1. ASSUME NEW p \in Payload, Age(p) PROVE TypeOK'
    BY <1>1 DEF Age, TypeOK
  <1>2. CASE ServerCrash
    <2>1. Server \in Sweeper /\ Quiet.pc = "idle"
      BY DEF Sweeper, Quiet
    <2>2. thread' \in [Thread -> Thread_State] /\ \A t \in Thread : thread'[t].pc = "idle"
      BY <1>2 DEF ServerCrash, Waiting, Thread_State
    <2> QED BY <1>2, <2>1, <2>2, QuietTyped, SweepTyped DEF ServerCrash, TypeOK
  <1>3. CASE UNCHANGED vars
    BY <1>3 DEF vars, TypeOK
  <1> QED BY <1>1, <1>2, <1>3, RequestType, SweepingType, PollingType DEF Next

-----------------------------------------------------------------------------
LEMMA InitInv == Init => IInv
  BY InitType DEF Init, IInv, WritersAreAhead, FilesHaveRows, ListedIsOnDisk,
     CommittedIsPublished, AnsweredIsKept, QueuedIsProcessable, Waiting, Quiet

\* Nothing but the record of one sweep changes, and it lists files on disk.
LEMMA ListingKeeps ==
    ASSUME IInv, TypeOK', UNCHANGED <<row, disk, queued, told, thread>>,
           NEW s \in Sweeper, NEW new, sweep' = [sweep EXCEPT ![s] = new],
           new.inbox \subseteq disk, new.todo \subseteq disk,
           new.pc = "commit" => new.item \in disk
    PROVE  IInv'
  <1>1. ListedIsOnDisk'
    BY DEF IInv, TypeOK, ListedIsOnDisk
  <1> QED BY <1>1 DEF IInv, WritersAreAhead, FilesHaveRows, CommittedIsPublished,
          AnsweredIsKept, QueuedIsProcessable

\* Nothing that the invariant looks at changes, except that threads become idle.
LEMMA IdleKeeps ==
    ASSUME IInv, TypeOK', UNCHANGED <<row, disk, queued, told, sweep>>,
           \A t \in Thread : thread'[t].pc = "idle"
    PROVE  IInv'
  BY DEF IInv, WritersAreAhead, FilesHaveRows, ListedIsOnDisk, CommittedIsPublished,
     AnsweredIsKept, QueuedIsProcessable

\* A row is committed for a file that is on disk.
LEMMA CommitKeeps ==
    ASSUME IInv, TypeOK', NEW p \in disk,
           row' = [row EXCEPT ![p] = "committed"],
           UNCHANGED <<disk, queued>>, told' \subseteq told \cup {p},
           \A t \in Thread : thread'[t] = thread[t] \/ thread'[t].pc = "idle",
           ListedIsOnDisk'
    PROVE  IInv'
  <1>1. p \in Payload /\ row' \in [Payload -> {"none", "pending", "committed"}]
    BY DEF IInv, TypeOK
  <1>2. \A q \in Payload : row'[q] = IF q = p THEN "committed" ELSE row[q]
    BY <1>1 DEF IInv, TypeOK
  <1>3. WritersAreAhead'
    BY <1>1, <1>2 DEF IInv, TypeOK, WritersAreAhead
  <1>4. FilesHaveRows' /\ CommittedIsPublished'
    BY <1>1, <1>2 DEF IInv, TypeOK, FilesHaveRows, CommittedIsPublished
  <1>5. AnsweredIsKept' /\ QueuedIsProcessable'
    BY <1>1, <1>2 DEF IInv, TypeOK, AnsweredIsKept, QueuedIsProcessable
  <1> QED BY <1>3, <1>4, <1>5 DEF IInv

LEMMA RequestKeeps ==
    ASSUME IInv, TypeOK', NEW t \in Thread, Request(t)
    PROVE  IInv'
  <1>0. TypeOK
    BY DEF IInv
  <1>1. ASSUME NEW p \in Payload, Acquire(t, p) PROVE IInv'
    BY <1>0, <1>1 DEF Acquire, IInv, TypeOK, WritersAreAhead, FilesHaveRows,
       ListedIsOnDisk, CommittedIsPublished, AnsweredIsKept, QueuedIsProcessable
  <1>2. CASE Duplicate(t)
    <2>1. \A q \in Thread : thread'[q].pc = "idle"
      BY <1>0, <1>2, UnlockTyped DEF Duplicate
    <2>2. thread[t].payload \in disk
      BY <1>0, <1>2 DEF Duplicate, IInv, TypeOK, CommittedIsPublished
    <2> QED BY <1>2, <2>1, <2>2 DEF Duplicate, IInv, WritersAreAhead, FilesHaveRows,
            ListedIsOnDisk, CommittedIsPublished, AnsweredIsKept, QueuedIsProcessable
  <1>3. CASE NotYetCommitted(t)
    BY <1>0, <1>3 DEF NotYetCommitted, Goto, IInv, TypeOK, WritersAreAhead,
       FilesHaveRows, ListedIsOnDisk, CommittedIsPublished, AnsweredIsKept,
       QueuedIsProcessable
  <1>4. CASE BeginPayload(t)
    <2>1. PICK p \in Payload : p = thread[t].payload
      BY <1>0, <1>4 DEF BeginPayload, TypeOK
    <2>2. \A q \in Payload : row'[q] = IF q = p /\ row[q] = "none" THEN "pending" ELSE row[q]
      BY <1>0, <1>4, <2>1 DEF BeginPayload, TypeOK
    <2>3. WritersAreAhead'
      BY <1>0, <1>4, <2>1, <2>2 DEF BeginPayload, Goto, IInv, TypeOK, WritersAreAhead
    <2>4. FilesHaveRows' /\ CommittedIsPublished' /\ ListedIsOnDisk'
      BY <1>0, <1>4, <2>2 DEF BeginPayload, IInv, TypeOK, FilesHaveRows,
         CommittedIsPublished, ListedIsOnDisk
    <2>5. AnsweredIsKept' /\ QueuedIsProcessable'
      BY <1>0, <1>4, <2>2 DEF BeginPayload, IInv, TypeOK, AnsweredIsKept,
         QueuedIsProcessable
    <2> QED BY <2>3, <2>4, <2>5 DEF IInv
  <1>5. CASE WriteFile(t)
    <2>1. WritersAreAhead'
      BY <1>0, <1>5 DEF WriteFile, Goto, IInv, TypeOK, WritersAreAhead
    <2>2. FilesHaveRows'
      BY <1>0, <1>5 DEF WriteFile, IInv, TypeOK, WritersAreAhead, FilesHaveRows
    <2> QED BY <1>5, <2>1, <2>2 DEF WriteFile, IInv, ListedIsOnDisk,
            CommittedIsPublished, AnsweredIsKept, QueuedIsProcessable
  <1>6. CASE CommitPayload(t)
    <2>1. PICK p \in disk : p = thread[t].payload
      BY <1>6 DEF CommitPayload, IInv, WritersAreAhead
    <2>2. \A q \in Thread : thread'[q].pc = "idle"
      BY <1>0, <1>6, UnlockTyped DEF CommitPayload
    <2>3. ListedIsOnDisk'
      BY <1>6 DEF CommitPayload, IInv, ListedIsOnDisk
    <2> QED BY <1>6, <2>1, <2>2, <2>3, CommitKeeps DEF CommitPayload
  <1>7. CASE Unavailable(t)
    BY <1>0, <1>7, UnlockTyped, IdleKeeps DEF Unavailable
  <1> QED BY <1>1, <1>2, <1>3, <1>4, <1>5, <1>6, <1>7 DEF Request

LEMMA SweepingKeeps ==
    ASSUME IInv, TypeOK', NEW s \in Sweeper, Sweeping(s) \/ Fault(s)
    PROVE  IInv'
  <1>0. /\ sweep[s] \in Sweep_State /\ Quiet.inbox = {} /\ Quiet.todo = {}
        /\ Quiet.pc = "idle"
        /\ sweep[s].inbox \subseteq disk /\ sweep[s].todo \subseteq disk
    BY DEF IInv, TypeOK, ListedIsOnDisk, Quiet
  <1>1. CASE List(s)
    <2> DEFINE new == [sweep[s] EXCEPT !.pc = "sweep", !.old = OldEnough(s),
                        !.todo = IF s \in Worker THEN disk \cap Posture ELSE disk]
    <2>1. new.inbox \subseteq disk /\ new.todo \subseteq disk /\ new.pc = "sweep"
      BY <1>0 DEF Sweep_State
    <2>2. sweep' = [sweep EXCEPT ![s] = new]
      BY <1>1 DEF List
    <2> HIDE DEF new
    <2> QED BY <1>1, <2>1, <2>2, ListingKeeps DEF List
  <1>2. ASSUME NEW p \in Payload, Examine(s, p) PROVE IInv'
    <2> DEFINE new == [sweep[s] EXCEPT
                         !.pc = IF Pending(s, p) THEN "commit" ELSE "sweep",
                         !.item = IF Pending(s, p) THEN p ELSE None,
                         !.todo = sweep[s].todo \ {p}]
    <2>1. /\ new.inbox \subseteq disk /\ new.todo \subseteq disk
          /\ new.pc = "commit" => new.item \in disk
      BY <1>0, <1>2 DEF Sweep_State, Examine
    <2>2. sweep' = [sweep EXCEPT ![s] = new]
      BY <1>2 DEF Examine
    <2> HIDE DEF new
    <2> QED BY <1>2, <2>1, <2>2, ListingKeeps DEF Examine
  <1>3. CASE Reconcile(s)
    <2>1. PICK p \in disk : p = sweep[s].item
      BY <1>3 DEF Reconcile, IInv, ListedIsOnDisk
    <2>2. ListedIsOnDisk'
      BY <1>0, <1>3 DEF Reconcile, IInv, TypeOK, ListedIsOnDisk, Sweep_State
    <2> QED BY <1>3, <2>1, <2>2, CommitKeeps DEF Reconcile
  <1>4. CASE SweepDone(s)
    BY <1>0, <1>4, ListingKeeps DEF SweepDone
  <1>5. ASSUME NEW p \in Payload, Unreadable(s, p) PROVE IInv'
    <2> DEFINE new == [sweep[s] EXCEPT !.skipped = sweep[s].skipped \cup {p},
                                       !.todo = sweep[s].todo \ {p}]
    <2>1. new.inbox \subseteq disk /\ new.todo \subseteq disk /\ new.pc = "sweep"
      BY <1>0, <1>5 DEF Sweep_State, Unreadable
    <2>2. sweep' = [sweep EXCEPT ![s] = new]
      BY <1>5 DEF Unreadable
    <2> HIDE DEF new
    <2> QED BY <1>5, <2>1, <2>2, ListingKeeps DEF Unreadable
  <1>6. CASE Stop(s)
    BY <1>0, <1>6, ListingKeeps DEF Stop
  <1> QED BY <1>1, <1>2, <1>3, <1>4, <1>5, <1>6 DEF Sweeping, Fault

LEMMA PollingKeeps ==
    ASSUME IInv, TypeOK', NEW w \in Worker, Polling(w)
    PROVE  IInv'
  <1>0. /\ w \in Sweeper /\ sweep[w] \in Sweep_State
        /\ Quiet.inbox = {} /\ Quiet.todo = {} /\ Quiet.pc = "idle"
        /\ sweep[w].inbox \subseteq disk /\ sweep[w].todo \subseteq disk
    BY DEF IInv, TypeOK, ListedIsOnDisk, Quiet, Sweeper
  <1>1. CASE Poll(w)
    <2> DEFINE new == [Quiet EXCEPT !.pc = "listed", !.inbox = disk \cap Posture]
    <2>1. new.inbox \subseteq disk /\ new.todo \subseteq disk /\ new.pc = "listed"
      BY DEF Quiet
    <2>2. sweep' = [sweep EXCEPT ![w] = new]
      BY <1>1 DEF Poll
    <2> HIDE DEF new
    <2> QED BY <1>0, <1>1, <2>1, <2>2, ListingKeeps DEF Poll
  <1>2. ASSUME NEW p \in Payload, Enqueue(w, p) PROVE IInv'
    <2>1. p \in disk /\ row[p] # "none"
      BY <1>0, <1>2 DEF Enqueue, IInv, FilesHaveRows
    <2>2. QueuedIsProcessable'
      BY <1>2, <2>1 DEF Enqueue, Queueable, IInv, QueuedIsProcessable
    <2>3. ListedIsOnDisk'
      BY <1>0, <1>2 DEF Enqueue, IInv, TypeOK, ListedIsOnDisk, Sweep_State
    <2> QED BY <1>2, <2>2, <2>3 DEF Enqueue, IInv, WritersAreAhead, FilesHaveRows,
            CommittedIsPublished, AnsweredIsKept
  <1>3. CASE PollDone(w)
    BY <1>0, <1>3, ListingKeeps DEF PollDone
  <1> QED BY <1>1, <1>2, <1>3 DEF Polling

LEMMA NextInv == IInv /\ [Next]_vars => IInv'
  <1> SUFFICES ASSUME IInv, [Next]_vars PROVE IInv'
    OBVIOUS
  <1>1. TypeOK'
    BY NextType DEF IInv
  <1>2. ASSUME NEW p \in Payload, Age(p) PROVE IInv'
    BY <1>1, <1>2 DEF Age, IInv, WritersAreAhead, FilesHaveRows, ListedIsOnDisk,
       CommittedIsPublished, AnsweredIsKept, QueuedIsProcessable
  <1>3. CASE ServerCrash
    <2>1. \A t \in Thread : thread'[t].pc = "idle"
      BY <1>3 DEF ServerCrash, Waiting
    <2>2. ListedIsOnDisk'
      BY <1>3 DEF ServerCrash, IInv, TypeOK, ListedIsOnDisk, Quiet, Sweeper
    <2> QED BY <1>1, <1>3, <2>1, <2>2 DEF ServerCrash, IInv, WritersAreAhead,
            FilesHaveRows, CommittedIsPublished, AnsweredIsKept, QueuedIsProcessable
  <1>4. CASE UNCHANGED vars
    BY <1>1, <1>4 DEF vars, IInv, WritersAreAhead, FilesHaveRows, ListedIsOnDisk,
       CommittedIsPublished, AnsweredIsKept, QueuedIsProcessable
  <1> QED BY <1>1, <1>2, <1>3, <1>4, RequestKeeps, SweepingKeeps, PollingKeeps DEF Next

\* Every variable keeps its type, and only the holder of publication_lock is inside
\* _persist_validated_body.
THEOREM TypeCorrect == Spec => []TypeOK
  <1>1. Init => TypeOK
    BY InitType
  <1>2. TypeOK /\ [Next]_vars => TypeOK'
    BY NextType
  <1> QED BY <1>1, <1>2, PTL DEF Spec

LEMMA Invariance == Spec => []IInv
  <1>1. Init => IInv
    BY InitInv
  <1>2. IInv /\ [Next]_vars => IInv'
    BY NextInv
  <1> QED BY <1>1, <1>2, PTL DEF Spec

\* A committed row has its file in the inbox, whoever committed it.
THEOREM RowsArePublished == Spec => []CommittedIsPublished
  <1>1. IInv => CommittedIsPublished
    BY DEF IInv
  <1> QED BY <1>1, Invariance, PTL

\* Whatever a client was told is accepted is committed and on disk.
THEOREM AnswersAreKept == Spec => []AnsweredIsKept
  <1>1. IInv => AnsweredIsKept
    BY DEF IInv
  <1> QED BY <1>1, Invariance, PTL

\* Whatever is queued can be read by the worker that claims it.
THEOREM QueueIsProcessable == Spec => []QueuedIsProcessable
  <1>1. IInv => QueuedIsProcessable
    BY DEF IInv
  <1> QED BY <1>1, Invariance, PTL

-----------------------------------------------------------------------------
(* The restart *)

LEMMA InitStart == Init => StartIsAccounted
  BY DEF Init, StartIsAccounted, Waiting, Quiet, Sweeper

\* A step that leaves the server's own sweep alone.
LEMMA ElsewhereKeeps ==
    ASSUME IInv, StartIsAccounted, sweep'[Server] = sweep[Server],
           serving' = serving,
           \A t \in Thread : thread'[t].pc = "idle" \/ serving,
           disk' = disk \/ serving,
           \A p \in disk : row[p] = "committed" => row'[p] = "committed"
    PROVE  StartIsAccounted'
  BY DEF StartIsAccounted

LEMMA NextStart == IInv /\ StartIsAccounted /\ [Next]_vars => StartIsAccounted'
  <1> SUFFICES ASSUME IInv, StartIsAccounted, [Next]_vars PROVE StartIsAccounted'
    OBVIOUS
  <1>0. /\ TypeOK /\ Server \in Sweeper /\ sweep[Server] \in Sweep_State
        /\ Server \notin Worker
    BY PublicationAssumption DEF IInv, TypeOK, Sweeper
  <1>1. ASSUME NEW t \in Thread, Request(t) PROVE StartIsAccounted'
    <2>1. serving /\ serving' = serving /\ sweep' = sweep
      BY <1>1 DEF Request, Acquire, Duplicate, NotYetCommitted, BeginPayload, WriteFile,
         CommitPayload, Unavailable, StartIsAccounted
    <2> QED BY <2>1 DEF StartIsAccounted
  <1>2. ASSUME NEW s \in Sweeper, s # Server, Sweeping(s) \/ Fault(s)
        PROVE  StartIsAccounted'
    <2>1. /\ sweep'[Server] = sweep[Server] /\ serving' = serving
          /\ UNCHANGED <<thread, disk>>
      BY <1>0, <1>2 DEF Sweeping, Fault, List, Examine, Reconcile, SweepDone, Unreadable,
         Stop, TypeOK
    <2>2. \A p \in disk : row[p] = "committed" => row'[p] = "committed"
      BY <1>0, <1>2 DEF Sweeping, Fault, List, Examine, Reconcile, SweepDone, Unreadable,
         Stop, TypeOK
    <2> QED BY <2>1, <2>2, ElsewhereKeeps DEF StartIsAccounted
  <1>3. ASSUME NEW w \in Worker, Polling(w) PROVE StartIsAccounted'
    <2>1. /\ sweep'[Server] = sweep[Server] /\ serving' = serving
          /\ UNCHANGED <<thread, disk, row>>
      BY <1>0, <1>3 DEF Polling, Poll, Enqueue, PollDone, TypeOK
    <2> QED BY <2>1, ElsewhereKeeps DEF StartIsAccounted
  <1>4. CASE List(Server)
    <2>1. sweep'[Server] = [sweep[Server] EXCEPT !.pc = "sweep", !.old = Payload, !.todo = disk]
      BY <1>0, <1>4 DEF List, OldEnough, TypeOK
    <2>2. /\ sweep'[Server].pc = "sweep" /\ sweep'[Server].old = Payload
          /\ sweep'[Server].todo = disk
      BY <1>0, <2>1 DEF Sweep_State
    <2> QED BY <1>4, <2>2 DEF List, StartIsAccounted
  <1>5. ASSUME NEW p \in Payload, Examine(Server, p) PROVE StartIsAccounted'
    <2>1. sweep'[Server] = [sweep[Server] EXCEPT
             !.pc = IF Pending(Server, p) THEN "commit" ELSE "sweep",
             !.item = IF Pending(Server, p) THEN p ELSE None,
             !.todo = sweep[Server].todo \ {p}]
      BY <1>0, <1>5 DEF Examine, TypeOK
    <2>2. /\ sweep'[Server].pc = IF Pending(Server, p) THEN "commit" ELSE "sweep"
          /\ sweep'[Server].item = IF Pending(Server, p) THEN p ELSE None
          /\ sweep'[Server].todo = sweep[Server].todo \ {p}
          /\ sweep'[Server].old = sweep[Server].old
          /\ sweep'[Server].skipped = sweep[Server].skipped
      BY <1>0, <2>1 DEF Sweep_State
    <2>3. Pending(Server, p) \/ row[p] = "committed"
      BY <1>0, <1>5 DEF Examine, Pending, StartIsAccounted, IInv, TypeOK, ListedIsOnDisk,
         FilesHaveRows
    <2> QED BY <1>5, <2>2, <2>3 DEF Examine, StartIsAccounted
  <1>6. CASE Reconcile(Server)
    <2>1. sweep'[Server] = [sweep[Server] EXCEPT !.pc = "sweep", !.item = None]
      BY <1>0, <1>6 DEF Reconcile, TypeOK
    <2>2. /\ sweep'[Server].pc = "sweep"
          /\ sweep'[Server].todo = sweep[Server].todo
          /\ sweep'[Server].old = sweep[Server].old
          /\ sweep'[Server].skipped = sweep[Server].skipped
      BY <1>0, <2>1 DEF Sweep_State
    <2>3. \A q \in disk : row'[q] = IF q = sweep[Server].item THEN "committed" ELSE row[q]
      BY <1>0, <1>6 DEF Reconcile, TypeOK
    <2> QED BY <1>6, <2>2, <2>3 DEF Reconcile, StartIsAccounted
  <1>7. ASSUME NEW p \in Payload, Unreadable(Server, p) PROVE StartIsAccounted'
    <2>1. sweep'[Server] = [sweep[Server] EXCEPT !.skipped = sweep[Server].skipped \cup {p},
                                                 !.todo = sweep[Server].todo \ {p}]
      BY <1>0, <1>7 DEF Unreadable, TypeOK
    <2>2. /\ sweep'[Server].pc = sweep[Server].pc
          /\ sweep'[Server].item = sweep[Server].item
          /\ sweep'[Server].old = sweep[Server].old
          /\ sweep'[Server].skipped = sweep[Server].skipped \cup {p}
          /\ sweep'[Server].todo = sweep[Server].todo \ {p}
      BY <1>0, <2>1 DEF Sweep_State
    <2> QED BY <1>7, <2>2 DEF Unreadable, StartIsAccounted
  <1>8. CASE SweepDone(Server)
    <2>1. serving' /\ sweep'[Server].pc = "idle"
      BY <1>0, <1>8 DEF SweepDone, TypeOK, Quiet
    <2> QED BY <2>1 DEF StartIsAccounted
  <1>9. CASE ServerCrash
    <2>1. sweep'[Server].pc = "idle" /\ \A t \in Thread : thread'[t].pc = "idle"
      BY <1>0, <1>9 DEF ServerCrash, TypeOK, Quiet, Waiting
    <2> QED BY <2>1 DEF StartIsAccounted
  <1>10. ASSUME \/ \E p \in Payload : Age(p)
                \/ UNCHANGED vars
         PROVE  StartIsAccounted'
    BY <1>10 DEF Age, vars, StartIsAccounted
  <1> QED BY <1>1, <1>2, <1>3, <1>4, <1>5, <1>6, <1>7, <1>8, <1>9, <1>10
          DEF Next, Sweeping, Fault, Stop

\* A server that begins to serve has healed every publication it could read, for any
\* number of earlier crashes and of sweeps running beside it.
THEOREM RestartIsHealing == Spec => RestartHeals
  <1>1. Init => StartIsAccounted
    BY InitStart
  <1>2. IInv /\ StartIsAccounted /\ [Next]_vars => StartIsAccounted'
    BY NextStart
  <1>3. IInv /\ StartIsAccounted /\ [Next]_vars
        => [~serving /\ serving' =>
              \A p \in disk' : row'[p] = "committed" \/ p \in sweep[Server].skipped]_vars
    <2> SUFFICES ASSUME StartIsAccounted, [Next]_vars, ~serving, serving'
                 PROVE  \A p \in disk' : row'[p] = "committed" \/ p \in sweep[Server].skipped
      OBVIOUS
    <2>1. SweepDone(Server)
      BY DEF Next, Request, Acquire, Duplicate, NotYetCommitted, BeginPayload, WriteFile,
         CommitPayload, Unavailable, Sweeping, Fault, List, Examine, Reconcile, SweepDone,
         Unreadable, Stop, Polling, Poll, Enqueue, PollDone, Age, ServerCrash, vars
    <2> QED BY <2>1 DEF SweepDone, StartIsAccounted
  <1> QED BY <1>1, <1>2, <1>3, Invariance, PTL DEF Spec, RestartHeals
=============================================================================
