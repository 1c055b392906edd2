------------------------------ MODULE RunLocks ------------------------------
(***************************************************************************)
(* The run serialisation of src/src/engine/locks.py: the non-blocking job  *)
(* lock and the per-collection reader/writer lock with a timeout, taken by *)
(* LockingRunner.begin and LockingRunner.execute around JobRunner.run_job. *)
(*                                                                         *)
(* A slot is a thread that executes runs one after the other (a scheduler  *)
(* worker, or a run-<job> thread of trigger_run).  The locks live in the   *)
(* process and vanish with it; the row a run leaves in the runs table is   *)
(* on disk and outlives it.                                                *)
(***************************************************************************)
EXTENDS Naturals, FiniteSets

CONSTANTS Slots,        \* threads that may execute a run
          Jobs,         \* job ids
          Collections,  \* collection names
          Targets,      \* Targets[j]: the collections job j may name; a
                        \* catalog reload can change it between two runs
          RunModes,     \* the modes runs are started with
          LossyJobs,    \* jobs whose final row update may fail (a bound)
          NoTask,       \* what a thread that executes no run works on
          NoRun,        \* "no running row": active_run_id returns None
          StuckRun      \* a row left "running" by a run that has ended

ASSUME RunLocksAssumption ==
    /\ IsFiniteSet(Slots)
    /\ Targets \in [Jobs -> SUBSET Collections]
    /\ RunModes \subseteq {"full", "append", "upsert"}
    /\ LossyJobs \subseteq Jobs
    /\ NoTask \notin [job : Jobs, coll : Collections, mode : RunModes]
    /\ NoRun \notin Slots
    /\ StuckRun \notin Slots

VARIABLES pc,       \* pc[s]: where the thread s is
          task,     \* task[s]: job, collection and mode of its current run
          listed,   \* listed[s]: its run has a row with status "running"
          named,    \* named[s]: the run a rejected caller was told about
          stuck,    \* stuck[j]: an ended run of j left a row "running"
          jobLock,  \* jobLock[j]: the threading.Lock of job j is held
          readers,  \* readers[c]: _ReadWriteLock._readers
          writer    \* writer[c]: _ReadWriteLock._writer

lockVars == <<jobLock, readers, writer>>
rlVars == <<pc, task, listed, named, stuck, jobLock, readers, writer>>

Tasks == [job : Jobs, coll : Collections, mode : RunModes]

-----------------------------------------------------------------------------
(* The run of slot s, read off its state.                                  *)

\* effective_mode == "full": the run wants the collection for itself.
Exclusive(s) == task[s].mode = "full"

\* Between begin and the outer finally: the run owns its job lock.
InJob(s) == pc[s] \in {"begun", "locked", "running", "closing", "leaving"}

\* Between acquire and release of the collection lock.
InCollection(s) == pc[s] \in {"locked", "running", "closing"}

SharedHolders(c) ==
    {s \in Slots : InCollection(s) /\ task[s].coll = c /\ ~Exclusive(s)}
ExclusiveHolders(c) ==
    {s \in Slots : InCollection(s) /\ task[s].coll = c /\ Exclusive(s)}

\* Slip: a full run waits for other full runs only.
AvailableDespiteReaders(s) == ~writer[task[s].coll]

\* Slip: whoever shares the collection does not wait for the full run.
AvailableDespiteWriter(s) ==
    LET c == task[s].coll IN
    Exclusive(s) => ~writer[c] /\ readers[c] = 0

\* The predicate _ReadWriteLock.acquire waits for.
Available(s) ==
    LET c == task[s].coll IN
    IF Exclusive(s) THEN ~writer[c] /\ readers[c] = 0 ELSE ~writer[c]

\* Slots whose row active_run_id(j) can return.
RunningRows(j) == {s \in Slots : listed[s] /\ task[s].job = j}

\* active_run_id: the newest row of the job with status "running".
ActiveRunIds(j) ==
    IF RunningRows(j) # {} THEN RunningRows(j)
    ELSE {IF stuck[j] THEN StuckRun ELSE NoRun}

-----------------------------------------------------------------------------
RLInit ==
    /\ pc = [s \in Slots |-> "idle"]
    /\ task = [s \in Slots |-> NoTask]
    /\ listed = [s \in Slots |-> FALSE]
    /\ named = [s \in Slots |-> NoRun]
    /\ stuck = [j \in Jobs |-> FALSE]
    /\ jobLock = [j \in Jobs |-> FALSE]
    /\ readers = [c \in Collections |-> 0]
    /\ writer = [c \in Collections |-> FALSE]

\* Slip: the result of acquire(blocking=False) is not looked at.
BeginUnchecked(s) ==
    /\ pc[s] = "idle"
    /\ \E j \in Jobs : \E c \in Targets[j], m \in RunModes :
         /\ jobLock' = [jobLock EXCEPT ![j] = TRUE]
         /\ task' = [task EXCEPT ![s] = [job |-> j, coll |-> c, mode |-> m]]
    /\ pc' = [pc EXCEPT ![s] = "begun"]
    /\ UNCHANGED <<listed, named, stuck, readers, writer>>

(* begin: the job lock is free and is taken. *)
Begin(s) ==
    /\ pc[s] = "idle"
    /\ \E j \in Jobs : \E c \in Targets[j], m \in RunModes :
         /\ ~jobLock[j]
         /\ jobLock' = [jobLock EXCEPT ![j] = TRUE]
         /\ task' = [task EXCEPT ![s] = [job |-> j, coll |-> c, mode |-> m]]
    /\ pc' = [pc EXCEPT ![s] = "begun"]
    /\ UNCHANGED <<listed, named, stuck, readers, writer>>

(* begin: the job lock is held, so acquire(blocking=False) fails. *)
Refuse(s) ==
    /\ pc[s] = "idle"
    /\ \E j \in Jobs : \E c \in Targets[j], m \in RunModes :
         /\ jobLock[j]
         /\ task' = [task EXCEPT ![s] = [job |-> j, coll |-> c, mode |-> m]]
    /\ pc' = [pc EXCEPT ![s] = "refused"]
    /\ UNCHANGED <<listed, named, stuck, lockVars>>

(* begin: only then is the active run looked up, for RunRejectedError. *)
NameActiveRun(s) ==
    /\ pc[s] = "refused"
    /\ \E active \in ActiveRunIds(task[s].job) :
         named' = [named EXCEPT ![s] = active]
    /\ pc' = [pc EXCEPT ![s] = "rejected"]
    /\ UNCHANGED <<task, listed, stuck, lockVars>>

(* The caller has its 409 (or skips the cron firing) and is done. *)
Return(s) ==
    /\ pc[s] = "rejected"
    /\ pc' = [pc EXCEPT ![s] = "idle"]
    /\ named' = [named EXCEPT ![s] = NoRun]
    /\ task' = [task EXCEPT ![s] = NoTask]
    /\ UNCHANGED <<listed, stuck, lockVars>>

(* _ReadWriteLock.acquire succeeds. *)
Acquire(s) ==
    /\ pc[s] = "begun"
    /\ Available(s)
    /\ LET c == task[s].coll IN
       IF Exclusive(s)
       THEN writer' = [writer EXCEPT ![c] = TRUE] /\ UNCHANGED readers
       ELSE readers' = [readers EXCEPT ![c] = @ + 1] /\ UNCHANGED writer
    /\ pc' = [pc EXCEPT ![s] = "locked"]
    /\ UNCHANGED <<task, listed, named, stuck, jobLock>>

\* Slip: the timeout returns past the finally that releases the job lock.
TimeoutReturnsEarly(s) ==
    /\ pc[s] = "begun" /\ ~Available(s)
    /\ pc' = [pc EXCEPT ![s] = "idle"]
    /\ UNCHANGED <<task, listed, named, stuck, lockVars>>

\* Slip: acquire is inside the try whose finally releases the collection.
TimeoutReleases(s) ==
    /\ pc[s] = "begun" /\ ~Available(s)
    /\ pc' = [pc EXCEPT ![s] = "closing"]
    /\ UNCHANGED <<task, listed, named, stuck, lockVars>>

\* Slip: acquire has no timeout.
TimeoutNever(s) == FALSE /\ UNCHANGED rlVars

(* acquire times out: wait_for returns the predicate's last value, FALSE.  *)
(* The row _record_aborted_lock writes is born finished: never "running".  *)
AcquireTimeout(s) ==
    /\ pc[s] = "begun"
    /\ ~Available(s)
    /\ pc' = [pc EXCEPT ![s] = "leaving"]
    /\ UNCHANGED <<task, listed, named, stuck, lockVars>>

(* run_job: create_run makes the row visible as "running". *)
CreateRun(s) ==
    /\ pc[s] = "locked"
    /\ pc' = [pc EXCEPT ![s] = "running"]
    /\ listed' = [listed EXCEPT ![s] = TRUE]
    /\ UNCHANGED <<task, named, stuck, lockVars>>

(* run_job: create_run raises, before any row exists. *)
CreateRunFails(s) ==
    /\ pc[s] = "locked"
    /\ pc' = [pc EXCEPT ![s] = "closing"]
    /\ UNCHANGED <<task, listed, named, stuck, lockVars>>

(* run_job: update_run stores the final status, whatever the run's outcome.*)
FinishRun(s) ==
    /\ pc[s] = "running"
    /\ pc' = [pc EXCEPT ![s] = "closing"]
    /\ listed' = [listed EXCEPT ![s] = FALSE]
    /\ UNCHANGED <<task, named, stuck, lockVars>>

(* run_job: add_event or update_run raises out of the handlers; the locks  *)
(* are released by the two finally blocks, but the row stays "running".    *)
FinishRunUnrecorded(s) ==
    /\ pc[s] = "running"
    /\ task[s].job \in LossyJobs
    /\ pc' = [pc EXCEPT ![s] = "closing"]
    /\ listed' = [listed EXCEPT ![s] = FALSE]
    /\ stuck' = [stuck EXCEPT ![task[s].job] = TRUE]
    /\ UNCHANGED <<task, named, lockVars>>

(* The inner finally of execute: _ReadWriteLock.release. *)
ReleaseCollection(s) ==
    /\ pc[s] = "closing"
    /\ LET c == task[s].coll IN
       IF Exclusive(s)
       THEN writer' = [writer EXCEPT ![c] = FALSE] /\ UNCHANGED readers
       ELSE /\ readers' = [readers EXCEPT ![c] = IF @ > 0 THEN @ - 1 ELSE 0]
            /\ UNCHANGED writer
    /\ pc' = [pc EXCEPT ![s] = "leaving"]
    /\ UNCHANGED <<task, listed, named, stuck, jobLock>>

(* The outer finally of execute: job_lock.release(). *)
ReleaseJob(s) ==
    /\ pc[s] = "leaving"
    /\ jobLock' = [jobLock EXCEPT ![task[s].job] = FALSE]
    /\ pc' = [pc EXCEPT ![s] = "idle"]
    /\ task' = [task EXCEPT ![s] = NoTask]
    /\ UNCHANGED <<listed, named, stuck, readers, writer>>

(* The process dies and starts again: every lock and thread is gone, and   *)
(* reconcile_interrupted_runs closes every row still "running".            *)
Restart ==
    /\ pc' = [s \in Slots |-> "idle"]
    /\ named' = [s \in Slots |-> NoRun]
    /\ listed' = [s \in Slots |-> FALSE]
    /\ stuck' = [j \in Jobs |-> FALSE]
    /\ jobLock' = [j \in Jobs |-> FALSE]
    /\ readers' = [c \in Collections |-> 0]
    /\ writer' = [c \in Collections |-> FALSE]
    /\ task' = [s \in Slots |-> NoTask]

SlotNext(s) ==
    \/ Begin(s) \/ Refuse(s) \/ NameActiveRun(s) \/ Return(s)
    \/ Acquire(s) \/ AcquireTimeout(s)
    \/ CreateRun(s) \/ CreateRunFails(s)
    \/ FinishRun(s) \/ FinishRunUnrecorded(s)
    \/ ReleaseCollection(s) \/ ReleaseJob(s)

RLNext == (\E s \in Slots : SlotNext(s)) \/ Restart

RLSpec == RLInit /\ [][RLNext]_rlVars

(* What a thread in the middle of a run keeps doing.  It is never stuck:   *)
(* acquire has a timeout, every call run_job makes has one, and a thread   *)
(* that is not blocked is scheduled.  Nobody has to start a run.           *)
Proceed(s) ==
    \/ NameActiveRun(s) \/ Return(s)
    \/ Acquire(s) \/ AcquireTimeout(s)
    \/ CreateRun(s) \/ CreateRunFails(s)
    \/ FinishRun(s) \/ FinishRunUnrecorded(s)
    \/ ReleaseCollection(s) \/ ReleaseJob(s)

RLFairSpec == RLSpec /\ \A s \in Slots : WF_rlVars(Proceed(s))

-----------------------------------------------------------------------------
PCs == {"idle", "refused", "rejected", "begun", "locked", "running",
        "closing", "leaving"}

RLTypeOK ==
    /\ pc \in [Slots -> PCs]
    /\ task \in [Slots -> Tasks \cup {NoTask}]
    /\ \A s \in Slots : (task[s] = NoTask) <=> (pc[s] = "idle")
    /\ listed \in [Slots -> BOOLEAN]
    /\ named \in [Slots -> Slots \cup {NoRun, StuckRun}]
    /\ stuck \in [Jobs -> BOOLEAN]
    /\ jobLock \in [Jobs -> BOOLEAN]
    /\ readers \in [Collections -> Nat]
    /\ writer \in [Collections -> BOOLEAN]

(* The job lock serialises the runs of a job: manual triggers, follow-ups  *)
(* and cron firings never overlap (locks.py:112-122, docs/modes.md:161).   *)
JobRunsSerialised ==
    \A s, t \in Slots :
        InJob(s) /\ InJob(t) /\ task[s].job = task[t].job => s = t

(* A full run has its collection for itself: while it is between acquire   *)
(* and release no other run is (locks.py:3-11, docs/modes.md:169-173).     *)
FullRunsExclusive ==
    \A s, t \in Slots :
        /\ InCollection(s) /\ InCollection(t)
        /\ task[s].coll = task[t].coll
        /\ Exclusive(s)
        => s = t

\* The boolean and the counter of a collection's lock are its holders.
CountersMatch ==
    \A c \in Collections :
        /\ readers[c] = Cardinality(SharedHolders(c))
        /\ writer[c] <=> ExclusiveHolders(c) # {}

\* A held job lock has an owner that will release it.
JobLocksOwned ==
    \A j \in Jobs :
        jobLock[j] <=> \E s \in Slots : InJob(s) /\ task[s].job = j

(* The locks agree with the runs that hold them: no path of execute, not   *)
(* an exception, a timeout nor a restart, leaks a lock or frees one that   *)
(* is still in use (locks.py:140-165).                                     *)
LocksMatchHolders == CountersMatch /\ JobLocksOwned

(* Every run that claimed its job lock gives it back: it runs or gives up  *)
(* with aborted_lock, never waiting forever behind others (locks.py:124).  *)
EveryRunEnds ==
    \A s \in Slots : pc[s] = "begun" ~> pc[s] = "idle"

=============================================================================
