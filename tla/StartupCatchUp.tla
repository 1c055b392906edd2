--------------------------- MODULE StartupCatchUp ---------------------------
(***************************************************************************)
(* When one scheduled job gets its turn, over stops and starts of the      *)
(* service: the trigger, which lives in the memory of the process          *)
(* (src/src/scheduler/aps.py), the thread pool that its firings wait for,  *)
(* what a firing is dropped for (src/src/engine/service.py), and the       *)
(* catch-up at the start (src/src/scheduler/startup.py).                   *)
(*                                                                         *)
(* Time is in ticks and passes at any moment: the scheduler may come late  *)
(* to a firing, the firing may wait for a thread of the pool, a run and a  *)
(* stop may take any time.                                                 *)
(***************************************************************************)
EXTENDS Integers

CONSTANTS Interval,     \* of "every"; the longest gap between instants of "cron"
          Instants,     \* the instants that the cron expression names
          Grace,        \* misfire_grace
          LastInstant   \* bound on the clock

ASSUME StartupAssumption ==
    /\ Interval \in Nat \ {0} /\ Grace \in Nat /\ LastInstant \in Nat
    /\ Instants \subseteq Nat
    /\ \A t \in 0..LastInstant + Interval : \E i \in Instants : t <= i /\ i < t + Interval

Never == -1

VARIABLES trigger,  \* "cron" or "every"
          policy,   \* schedule.run_on_startup
          clock,
          up,       \* the process is there
          firing,   \* the next firing, while it is
          pending,  \* the time of a firing that waits for a thread, or Never
          running,  \* "none", a run by a "firing", or by something "else"
          held,     \* the job is paused
          success,  \* finished_at of the newest row that says success
          lastTurn  \* history: when a run ended last, a firing was given up as
                    \* too late, or a resume ended a pause or passed one over

suVars == <<trigger, policy, clock, up, firing, pending, running, held, success,
            lastTurn>>
settings == <<trigger, policy>>

-----------------------------------------------------------------------------
SUInit ==
    /\ trigger \in {"cron", "every"} /\ policy \in {"never", "if_missed", "always"}
    /\ clock = 0 /\ up = FALSE /\ firing = 0 /\ pending = Never
    /\ running = "none" /\ held = FALSE
    /\ success = Never /\ lastTurn = 0

\* The first instant from t on, as a set of one.
FirstFrom(t) == {i \in Instants : t <= i /\ \A k \in Instants : t <= k => i <= k}

\* get_next_fire_time: an interval trigger stays on the grid of its first firing.
OnGrid(n) == (n - firing) % Interval = 0
FiringFrom(t) ==
    IF trigger = "cron" THEN FirstFrom(t)
    ELSE IF firing >= t THEN {firing} ELSE {n \in t..t + Interval - 1 : OnGrid(n)}

\* The last firing that is due, as a set of one.
LastDue ==
    IF trigger = "cron"
    THEN {i \in Instants : i <= clock /\ \A k \in Instants : k <= clock => k <= i}
    ELSE {n \in firing..clock : clock < n + Interval /\ OnGrid(n)}

(* nominal_interval_seconds: of a cron trigger, between its next firing    *)
(* and the one after it.                                                   *)
NominalInterval ==
    IF trigger = "every" THEN {Interval}
    ELSE UNION {{second - first : second \in FirstFrom(first + 1)} :
                    first \in FirstFrom(clock)}

(* jobs_to_run_on_startup, _MISSED_FACTOR being 1.5.                       *)
\* Slip: a job that never succeeded has missed nothing.
OverdueIfEver(nominal) == success # Never /\ 2 * (clock - success) > 3 * nominal
Overdue(nominal) == success = Never \/ 2 * (clock - success) > 3 * nominal

\* The trigger is made anew, an interval counts from now on; _paused is empty.
Boot ==
    /\ ~up /\ up' = TRUE
    /\ firing' \in IF trigger = "cron" THEN FirstFrom(clock) ELSE {clock + Interval}
    /\ held' = FALSE
    /\ \E nominal \in NominalInterval :
         running' = IF policy = "always" \/ (policy = "if_missed" /\ Overdue(nominal))
                    THEN "else" ELSE "none"
    /\ UNCHANGED <<settings, clock, pending, success, lastTurn>>

(* The scheduler finds one or more firings due and hands on the last of    *)
(* them (coalesce), unless one of the job is with the pool (max_instances).*)
ComeDue ==
    /\ up /\ ~held /\ firing <= clock
    /\ firing' \in FiringFrom(clock + 1)
    /\ IF pending # Never \/ running = "firing" THEN UNCHANGED pending
       ELSE pending' \in LastDue
    /\ UNCHANGED <<settings, clock, up, running, held, success, lastTurn>>

\* A thread of the pool takes the firing, later than misfire_grace allows.
MissFiring ==
    /\ up /\ pending # Never /\ clock - pending > Grace
    /\ pending' = Never /\ lastTurn' = clock
    /\ UNCHANGED <<settings, clock, up, firing, running, held, success>>

\* _cron_execute returns at once: the job is paused, or its lock is held.
SkipFiring ==
    /\ up /\ pending # Never /\ clock - pending <= Grace
    /\ held \/ running # "none"
    /\ pending' = Never
    /\ UNCHANGED <<settings, clock, up, firing, running, held, success, lastTurn>>

FireTrigger ==
    /\ up /\ pending # Never /\ clock - pending <= Grace
    /\ ~held /\ running = "none"
    /\ pending' = Never /\ running' = "firing"
    /\ UNCHANGED <<settings, clock, up, firing, held, success, lastTurn>>

\* Through the API or a tool, paused or not.
RunByHand ==
    /\ up /\ running = "none" /\ running' = "else"
    /\ UNCHANGED <<settings, clock, up, firing, pending, held, success, lastTurn>>

\* A run ends well or not; a dry run counts as well.
EndRun ==
    /\ up /\ running # "none" /\ running' = "none"
    /\ success' \in {clock, success} /\ lastTurn' = clock
    /\ UNCHANGED <<settings, clock, up, firing, pending, held>>

\* A paused trigger has no next firing; resumed, paused or not, it gets the next
\* from now on, and a firing that the scheduler has not come to is passed over.
Pause ==
    /\ up /\ held' = TRUE
    /\ UNCHANGED <<settings, clock, up, firing, pending, running, success, lastTurn>>
Resume ==
    /\ up /\ held' = FALSE
    /\ firing' \in FiringFrom(clock)
    /\ lastTurn' = IF held \/ firing < clock THEN clock ELSE lastTurn
    /\ UNCHANGED <<settings, clock, up, pending, running, success>>

\* DELETE /v1/jobs/{job_id}/runs, or the retention of the last runs.
ForgetRuns ==
    /\ up /\ success' = Never
    /\ UNCHANGED <<settings, clock, up, firing, pending, running, held, lastTurn>>

Halt ==
    /\ up /\ up' = FALSE
    /\ pending' = Never /\ running' = "none"
    /\ UNCHANGED <<settings, clock, firing, held, success, lastTurn>>

ClockTicks ==
    /\ clock < LastInstant /\ clock' = clock + 1
    /\ UNCHANGED <<settings, up, firing, pending, running, held, success, lastTurn>>

SUNext == \/ Boot \/ ComeDue \/ MissFiring \/ SkipFiring \/ FireTrigger
          \/ RunByHand \/ EndRun \/ Pause \/ Resume \/ ForgetRuns \/ Halt \/ ClockTicks
SUSpec == SUInit /\ [][SUNext]_suVars

-----------------------------------------------------------------------------
\* Nothing is due to the job, it does not run, and it is not paused.
Waits == up /\ ~held /\ running = "none" /\ pending = Never /\ clock <= firing

(* A job that only waits for its next firing had its last turn, the end of *)
(* a run, a firing given up as too late or a resume from a pause or over a *)
(* firing that was due, no longer ago than two and a half of its longest   *)
(* intervals, however often and at whatever moments the process was        *)
(* restarted: a start resets an interval trigger, so that without the      *)
(* catch-up a process that never lives for an interval would never run the *)
(* job (startup.py:12-14 and 60-74, service.py:115-124).                   *)
RestartsDoNotStarve ==
    Waits /\ policy # "never" => 2 * (clock - lastTurn) <= 5 * Interval
=============================================================================
