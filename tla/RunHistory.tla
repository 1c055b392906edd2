----------------------------- MODULE RunHistory -----------------------------
(***************************************************************************)
(* The runs and run_events tables of the state store                       *)
(* (src/src/state/db.py) under everything that writes them: runs that are  *)
(* created, report progress and events and end (src/src/engine/runner.py), *)
(* locks that time out, the pruning after a run, DELETE /jobs/{id}/runs,   *)
(* and restarts.  Every call is one transaction; one may fail (a full      *)
(* disk, a busy database), and the process may die between any two.        *)
(*                                                                         *)
(* The lock of a job lets one run of it go on at a time.  started_at is    *)
(* read from the wall clock, which may stand still or be set back.         *)
(***************************************************************************)
EXTENDS Integers, FiniteSets, FiniteSetsExt, Functions

CONSTANTS HistoryJobs,  \* the jobs
          RunIds,       \* the ids runs get, which bounds their number
          Stamps,       \* the instants started_at may hold
          Limit,        \* QI_RUN_HISTORY_LIMIT
          MostEvents    \* bound on the events of a run

ASSUME RunHistoryAssumption == Stamps \subseteq Nat /\ Limit \in Nat
                               /\ MostEvents \in Nat

Final == {"success", "failed", "aborted_lock", "interrupted"}
Nobody == "no run"

VARIABLES runs,    \* runs[i]: the row of run i; DOMAIN runs has the rows
          events,  \* events[i]: how many events run i has; DOMAIN likewise
          at,      \* at[j]: the call the current run of job j makes next
          current, \* current[j]: the id of that run
          used,    \* the ids that have been given out
          lost     \* runs whose last update failed, and with it their end

rhVars == <<runs, events, at, current, used, lost>>

RowsOf(j) == {i \in DOMAIN runs : runs[i].job = j}
Without(rs) == /\ runs' = Restrict(runs, DOMAIN runs \ rs)
               /\ events' = Restrict(events, DOMAIN events \ rs)
Put(i, row) == runs' = [k \in DOMAIN runs \cup {i} |-> IF k = i THEN row ELSE runs[k]]
Step(j, to) == at' = [at EXCEPT ![j] = to]

-----------------------------------------------------------------------------
RHInit ==
    /\ runs = <<>> /\ events = <<>>
    /\ at = [j \in HistoryJobs |-> "idle"]
    /\ current = [j \in HistoryJobs |-> Nobody]
    /\ used = {} /\ lost = {}

(* create_run.  When it fails the exception leaves run_job, and there is   *)
(* no row: the run never was.                                              *)
Create(j) ==
    /\ at[j] = "idle"
    /\ \E i \in RunIds \ used, s \in Stamps :
         /\ Put(i, [job |-> j, started |-> s, status |-> "running"])
         /\ current' = [current EXCEPT ![j] = i]
         /\ used' = used \cup {i}
    /\ Step(j, "working")
    /\ UNCHANGED <<events, lost>>

\* _record_aborted_lock: a row that is final from the start, and no pruning.
CreateAborted(j) ==
    /\ at[j] = "idle"
    /\ \E i \in RunIds \ used, s \in Stamps :
         /\ Put(i, [job |-> j, started |-> s, status |-> "aborted_lock"])
         /\ used' = used \cup {i}
    /\ UNCHANGED <<events, at, current, lost>>

\* add_event, for a warning, a failed document or the end of the run.
AddEvent(j) ==
    LET i == current[j]
        soFar == IF i \in DOMAIN events THEN events[i] ELSE 0
    IN
    /\ at[j] = "working" /\ soFar < MostEvents
    /\ events' = [k \in DOMAIN events \cup {i} |->
                     IF k = i THEN soFar + 1 ELSE events[k]]
    /\ UNCHANGED <<runs, at, current, used, lost>>

(* The last update_run, an UPDATE that finds its row or does nothing.      *)
Update(j, status) ==
    IF current[j] \in DOMAIN runs
    THEN runs' = [runs EXCEPT ![current[j]].status = status]
    ELSE UNCHANGED runs

End(j) ==
    /\ at[j] = "working"
    /\ \E status \in {"success", "failed"} : Update(j, status)
    /\ Step(j, "pruning")
    /\ UNCHANGED <<events, current, used, lost>>

\* It fails: the exception leaves run_job, the lock is released.
EndFails(j) ==
    /\ at[j] = "working"
    /\ lost' = lost \cup {current[j]}
    /\ current' = [current EXCEPT ![j] = Nobody]
    /\ Step(j, "idle")
    /\ UNCHANGED <<runs, events, used>>

(* prune_runs: all but the newest Limit rows of the job, whatever their    *)
(* status; rows of one instant come in any order.                          *)
Newer(i, k) == runs[i].started > runs[k].started
Stale(j, rs) == /\ rs \subseteq RowsOf(j)
                /\ Cardinality(rs) = Max({0, Cardinality(RowsOf(j)) - Limit})
                /\ \A i \in rs, k \in RowsOf(j) \ rs : ~Newer(i, k)

Prune(j) ==
    /\ at[j] = "pruning"
    /\ \E rs \in SUBSET DOMAIN runs : Stale(j, rs) /\ Without(rs)
    /\ current' = [current EXCEPT ![j] = Nobody]
    /\ Step(j, "idle")
    /\ UNCHANGED <<used, lost>>

PruneFails(j) ==
    /\ at[j] = "pruning"
    /\ current' = [current EXCEPT ![j] = Nobody]
    /\ Step(j, "idle")
    /\ UNCHANGED <<runs, events, used, lost>>

-----------------------------------------------------------------------------
(* delete_runs: the final rows of a job that started in [since, until),    *)
(* with their events; the check of the status is part of the statements.   *)
Deletable(j, since, until) ==
    {i \in RowsOf(j) : /\ since <= runs[i].started /\ runs[i].started < until
                       /\ runs[i].status # "running"}

DeleteRuns(j) ==
    /\ \E since \in Stamps, until \in Stamps \cup {Max(Stamps) + 1} :
         since <= until /\ Without(Deletable(j, since, until))
    /\ UNCHANGED <<at, current, used, lost>>

(* The process dies and starts again: the runs are gone, and               *)
(* reconcile_interrupted_runs closes the rows they left.                   *)
\* Slip: every row is closed, the finished ones as well.
ReconciledAll == [i \in DOMAIN runs |-> [runs[i] EXCEPT !.status = "interrupted"]]

\* Slip: only the newest row of a job is closed.
ReconciledNewest ==
    [i \in DOMAIN runs |->
        IF /\ runs[i].status = "running"
           /\ \A k \in RowsOf(runs[i].job) : ~Newer(k, i)
        THEN [runs[i] EXCEPT !.status = "interrupted"] ELSE runs[i]]

Reconciled ==
    [i \in DOMAIN runs |-> IF runs[i].status = "running"
                           THEN [runs[i] EXCEPT !.status = "interrupted"]
                           ELSE runs[i]]
RestartEngine ==
    /\ runs' = Reconciled
    /\ at' = [j \in HistoryJobs |-> "idle"]
    /\ current' = [j \in HistoryJobs |-> Nobody]
    /\ lost' = {}
    /\ UNCHANGED <<events, used>>

RHNext ==
    \/ \E j \in HistoryJobs :
         \/ Create(j) \/ CreateAborted(j) \/ AddEvent(j)
         \/ End(j) \/ EndFails(j) \/ Prune(j) \/ PruneFails(j)
         \/ DeleteRuns(j)
    \/ RestartEngine
RHSpec == RHInit /\ [][RHNext]_rhVars

-----------------------------------------------------------------------------
RHTypeOK ==
    /\ DOMAIN runs \subseteq used /\ used \subseteq RunIds
    /\ runs \in [DOMAIN runs -> [job : HistoryJobs, started : Stamps,
                                 status : Final \cup {"running"}]]
    /\ at \in [HistoryJobs -> {"idle", "working", "pruning"}]
    /\ current \in [HistoryJobs -> used \cup {Nobody}]
    /\ \A j \in HistoryJobs : at[j] # "idle" => current[j] \in used

(* The row of a run at work is there and says "running", whatever is       *)
(* pruned after runs of other jobs, deleted through the API or read from a *)
(* clock that was set back: its progress and its end have a row to go to   *)
(* (db.py:457-461, runner.py:113-133).                                     *)
LiveRunIsListed ==
    \A j \in HistoryJobs : at[j] = "working" =>
        current[j] \in RowsOf(j) /\ runs[current[j]].status = "running"

(* A row that says "running" is that of a run at work, or of one whose     *)
(* end could not be written in this life of the process; a restart leaves  *)
(* none (db.py:416-424).                                                   *)
RunningIsAlive ==
    \A i \in DOMAIN runs : runs[i].status = "running" =>
        i \in lost \/ \E j \in HistoryJobs : at[j] = "working" /\ current[j] = i

(* The rows that say "running" are those of the runs at work, and of those *)
(* whose end could not be written in this life of the process: no run is   *)
(* pruned or deleted while it needs its row, no restart leaves one open.   *)
RunningRowsAreLive == LiveRunIsListed /\ RunningIsAlive

(* Every event belongs to a run that has a row: nothing is left behind     *)
(* that no pruning would ever find (db.py:458-460).                        *)
NoOrphanEvents == DOMAIN events \subseteq DOMAIN runs

(* A run that has ended, with whatever status, is never reopened or given  *)
(* another end, over restarts included; it can only be removed             *)
(* (db.py:416-424).                                                        *)
EndsAreFinal ==
    [][\A i \in DOMAIN runs \cap DOMAIN runs' :
          runs[i].status \in Final => runs'[i] = runs[i]]_rhVars
=============================================================================
