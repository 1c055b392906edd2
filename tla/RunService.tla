----------------------------- MODULE RunService -----------------------------
(***************************************************************************)
(* The runs of one job as the engine starts, queues, aborts and drains     *)
(* them (src/src/engine/service.py): manual triggers, each on a thread of  *)
(* its own, firings of the scheduler on a thread of its pool, the one      *)
(* follow-up a trigger may queue behind the active run, the abort requests *)
(* and the shutdown.  Of LockingRunner only the job lock is kept, and the  *)
(* wait for the collection, which ends either way (RunLocks).              *)
(***************************************************************************)
EXTENDS FiniteSets

CONSTANTS Threads,   \* threads that may execute a run
          Clients,   \* requests to the API
          NoThread,  \* an abort request whose run is over
          Cron       \* whether the job has a schedule

ASSUME RunServiceAssumption == NoThread \notin Threads /\ Cron \in BOOLEAN

VARIABLES lock,      \* the job lock is held
          thread,    \* thread[t]: where the run of thread t is
          kind,      \* kind[t]: started by a manual trigger or by cron
          row,       \* row[t]: its row has status "running"
          aborts,    \* _aborted_runs, of runs that are not over
          queued,    \* _queued has an entry for the job
          client,    \* client[c]: where request c is
          target,    \* target[c]: the run the abort request c is about
          shutdown   \* the shutdown event is set

rsVars == <<lock, thread, kind, row, aborts, queued, client, target, shutdown>>

Idle(t) == thread[t] = "free"
\* The run of t holds the job lock.
Owner(t) == thread[t] \in {"waiting", "working", "document", "closing"}

\* Slip: a manual run is told of the shutdown only.
ShutdownSeen(t) == shutdown
\* Slip: a run is told of its own abort only.
OwnAbortSeen(t) == kind[t] = "manual" /\ t \in aborts

\* should_abort of the run of t: _abort_requested for a manual run, the
\* shutdown event alone in run_sync.
AbortSeen(t) == shutdown \/ (kind[t] = "manual" /\ t \in aborts)

\* The id of t's run stands for nothing any more: it was a uuid.
Retire(t) ==
    /\ aborts' = aborts \ {t}
    /\ target' = [c \in Clients |-> IF target[c] = t THEN NoThread ELSE target[c]]

RSInit ==
    /\ lock = FALSE
    /\ thread = [t \in Threads |-> "free"]
    /\ kind = [t \in Threads |-> "manual"]
    /\ row = [t \in Threads |-> FALSE]
    /\ aborts = {}
    /\ queued = FALSE
    /\ client = [c \in Clients |-> "idle"]
    /\ target = [c \in Clients |-> NoThread]
    /\ shutdown = FALSE

(* trigger_run: begin claims the job lock, a thread is started.  The API   *)
(* is down before shutdown is called.                                      *)
TriggerRun(t) ==
    /\ ~shutdown /\ Idle(t) /\ ~lock
    /\ lock' = TRUE
    /\ thread' = [thread EXCEPT ![t] = "waiting"]
    /\ kind' = [kind EXCEPT ![t] = "manual"]
    /\ UNCHANGED <<row, aborts, queued, client, target, shutdown>>

(* trigger_run with queue: begin has raised,                               *)
TriggerRefused(c) ==
    /\ ~shutdown /\ client[c] = "idle" /\ lock
    /\ client' = [client EXCEPT ![c] = "queueing"]
    /\ UNCHANGED <<lock, thread, kind, row, aborts, queued, target, shutdown>>

(* and the follow-up is entered, unless there is one; the answer is queued.*)
Enqueue(c) ==
    /\ client[c] = "queueing"
    /\ queued' = TRUE
    /\ client' = [client EXCEPT ![c] = "idle"]
    /\ UNCHANGED <<lock, thread, kind, row, aborts, target, shutdown>>

(* _cron_execute is called, at most once at a time, and sees no shutdown;  *)
CronFire(t) ==
    /\ Cron /\ ~shutdown /\ Idle(t)
    /\ \A u \in Threads : kind[u] = "cron" => Idle(u)
    /\ thread' = [thread EXCEPT ![t] = "firing"]
    /\ kind' = [kind EXCEPT ![t] = "cron"]
    /\ UNCHANGED <<lock, row, aborts, queued, client, target, shutdown>>

(* run_sync claims the job lock, or the firing is skipped.                 *)
CronBegin(t) ==
    /\ thread[t] = "firing"
    /\ lock' = TRUE
    /\ thread' = [thread EXCEPT ![t] = IF lock THEN "free" ELSE "waiting"]
    /\ UNCHANGED <<kind, row, aborts, queued, client, target, shutdown>>

(* execute gets the collection lock, run_job creates the row ...           *)
EnterCollection(t) ==
    /\ thread[t] = "waiting"
    /\ thread' = [thread EXCEPT ![t] = "working"]
    /\ row' = [row EXCEPT ![t] = TRUE]
    /\ UNCHANGED <<lock, kind, aborts, queued, client, target, shutdown>>

(* ... or the collection lock stays taken: aborted_lock.                   *)
LockTimeout(t) ==
    /\ thread[t] = "waiting"
    /\ thread' = [thread EXCEPT ![t] = "closing"]
    /\ UNCHANGED <<lock, kind, row, aborts, queued, client, target, shutdown>>

(* The loop over the files: the abort check, then the next document.       *)
StartDocument(t) ==
    /\ thread[t] = "working" /\ ~AbortSeen(t)
    /\ thread' = [thread EXCEPT ![t] = "document"]
    /\ UNCHANGED <<lock, kind, row, aborts, queued, client, target, shutdown>>

EndDocument(t) ==
    /\ thread[t] = "document"
    /\ thread' = [thread EXCEPT ![t] = "working"]
    /\ UNCHANGED <<lock, kind, row, aborts, queued, client, target, shutdown>>

\* Slip: the final status is not stored.
EndUnrecorded(t) ==
    /\ thread' = [thread EXCEPT ![t] = "closing"]
    /\ UNCHANGED <<lock, kind, row, aborts, queued, client, target, shutdown>>

EndRow(t) ==
    /\ thread' = [thread EXCEPT ![t] = "closing"]
    /\ row' = [row EXCEPT ![t] = FALSE]
    /\ UNCHANGED <<lock, kind, aborts, queued, client, target, shutdown>>

(* The run finds should_abort true between two documents.                  *)
Interrupt(t) == thread[t] = "working" /\ AbortSeen(t) /\ EndRow(t)

(* The run comes to its end: no file is left, or something has failed.     *)
Finish(t) == thread[t] \in {"working", "document"} /\ EndRow(t)

(* The finally of execute.  A run of run_sync is over then.                *)
ReleaseLock(t) ==
    /\ thread[t] = "closing"
    /\ lock' = FALSE
    /\ IF kind[t] = "manual"
       THEN /\ thread' = [thread EXCEPT ![t] = "cleanup"]
            /\ UNCHANGED <<aborts, target>>
       ELSE /\ thread' = [thread EXCEPT ![t] = "free"]
            /\ Retire(t)
    /\ UNCHANGED <<kind, row, queued, client, shutdown>>

(* The finally of target: the abort is forgotten, the follow-up popped, and*)
(* dropped once the shutdown event is set.                                 *)
Cleanup(t) ==
    /\ thread[t] = "cleanup"
    /\ Retire(t)
    /\ queued' = FALSE
    /\ thread' = [thread EXCEPT ![t] = IF queued /\ ~shutdown THEN "followup"
                                                           ELSE "free"]
    /\ UNCHANGED <<lock, kind, row, client, shutdown>>

\* Slip: the follow-up runs on under the lock it takes for its own.
FollowUpUnlocked(t) ==
    /\ thread[t] = "followup"
    /\ lock' = TRUE
    /\ thread' = [thread EXCEPT ![t] = "waiting"]
    /\ UNCHANGED <<kind, row, aborts, queued, client, target, shutdown>>

(* trigger_run of the follow-up: a new run, or RunRejectedError, which is  *)
(* suppressed.                                                             *)
FollowUp(t) ==
    /\ thread[t] = "followup"
    /\ lock' = TRUE
    /\ thread' = [thread EXCEPT ![t] = IF lock THEN "free" ELSE "waiting"]
    /\ UNCHANGED <<kind, row, aborts, queued, client, target, shutdown>>

(* request_abort: the row says "running",                                  *)
RequestAbort(c) ==
    /\ ~shutdown /\ client[c] = "idle"
    /\ \E t \in Threads : row[t] /\ target' = [target EXCEPT ![c] = t]
    /\ client' = [client EXCEPT ![c] = "aborting"]
    /\ UNCHANGED <<lock, thread, kind, row, aborts, queued, shutdown>>

(* and the id is added; the answer is "aborting".                          *)
RecordAbort(c) ==
    /\ client[c] = "aborting"
    /\ aborts' = aborts \cup ({target[c]} \cap Threads)
    /\ client' = [client EXCEPT ![c] = "idle"]
    /\ target' = [target EXCEPT ![c] = NoThread]
    /\ UNCHANGED <<lock, thread, kind, row, queued, shutdown>>

(* main: uvicorn.run has returned, so that no request is under way.        *)
Shutdown ==
    /\ ~shutdown
    /\ \A c \in Clients : client[c] = "idle"
    /\ shutdown' = TRUE
    /\ UNCHANGED <<lock, thread, kind, row, aborts, queued, client, target>>

\* What a thread of a run does on its own, but for the choice of documents.
Advance(t) ==
    \/ CronBegin(t) \/ EnterCollection(t) \/ LockTimeout(t)
    \/ EndDocument(t) \/ Interrupt(t) \/ ReleaseLock(t) \/ Cleanup(t) \/ FollowUp(t)

Answer(c) == Enqueue(c) \/ RecordAbort(c)

RSNext ==
    \/ \E t \in Threads : \/ TriggerRun(t) \/ CronFire(t)
                          \/ Advance(t) \/ StartDocument(t) \/ Finish(t)
    \/ \E c \in Clients : \/ TriggerRefused(c) \/ RequestAbort(c) \/ Answer(c)
    \/ Shutdown

RSSpec == RSInit /\ [][RSNext]_rsVars

(* A thread is scheduled, its waits have timeouts, and every call that a   *)
(* document takes has one.  How many documents a run has is left open.     *)
RSFairSpec ==
    /\ RSSpec
    /\ \A t \in Threads : WF_rsVars(Advance(t))
    /\ \A c \in Clients : WF_rsVars(Answer(c))

\* Moreover every run comes to the end of its documents.
RSFiniteSpec == RSFairSpec /\ \A t \in Threads : WF_rsVars(Finish(t))

-----------------------------------------------------------------------------
RSTypeOK ==
    /\ lock \in BOOLEAN /\ queued \in BOOLEAN /\ shutdown \in BOOLEAN
    /\ thread \in [Threads -> {"free", "firing", "waiting", "working",
                               "document", "closing", "cleanup", "followup"}]
    /\ kind \in [Threads -> {"manual", "cron"}]
    /\ row \in [Threads -> BOOLEAN]
    /\ \A t \in Threads : row[t] <=> thread[t] \in {"working", "document"}
    /\ aborts \subseteq Threads
    /\ client \in [Clients -> {"idle", "queueing", "aborting"}]
    /\ target \in [Clients -> Threads \cup {NoThread}]

(* The job lock has exactly one owner while it is held, and a run that     *)
(* ended has given it back: triggers, firings and follow-ups do not        *)
(* overlap, nor lock the job out (service.py:360-428, locks.py:112-165).   *)
LockHasOneOwner ==
    Cardinality({t \in Threads : Owner(t)}) = IF lock THEN 1 ELSE 0

(* A manual run whose abort was answered "aborting" comes to an end, even  *)
(* if it has documents without end (service.py:468-480).                   *)
AbortEndsManualRun ==
    \A t \in Threads : t \in aborts /\ kind[t] = "manual" ~> t \notin aborts

(* After the shutdown every run, firing and follow-up ends, and none       *)
(* starts for good (service.py:136-149 and 458-472).                       *)
ShutdownDrains == shutdown ~> [](\A t \in Threads : Idle(t))

(* docs/modes.md:167-168: "with queue: true exactly one follow-up run is   *)
(* enqueued".  Only the end of a manual run looks at the queue: an entry   *)
(* behind a run of the scheduler, or made after the run it was refused for *)
(* has looked, stays there until somebody triggers the job again.          *)
QueuedRunIsTaken == queued ~> ~queued \/ shutdown

=============================================================================
