--------------------------- MODULE CatalogReload ---------------------------
(***************************************************************************)
(* How edits of jobs.yaml, connections.yaml and secrets.yaml reach the     *)
(* running service: the start, the polling thread and POST /config/reload  *)
(* (src/src/engine/service.py), the registry of connections, the loader's  *)
(* verdict on a catalog and the scheduler it is diffed into, while jobs    *)
(* are paused and resumed through the API.                                 *)
(*                                                                         *)
(* A file is at a version, 1..LastVersion[f]; its stat and its content are *)
(* functions of the version.  Only the step that applies a catalog and the *)
(* loop that pauses jobs again hold _config_lock; everything is read       *)
(* outside it, so two reloads may overtake each other.                     *)
(***************************************************************************)
EXTENDS Integers, FiniteSets

CONSTANTS JobIds,       \* the ids a catalog may declare
          Requests,     \* the API threads
          LastVersion,  \* LastVersion[f]: the last version of file f
          Catalog,      \* Catalog[v]: the jobs of version v of jobs.yaml
          Connections,  \* Connections[v]: the names that resolve, and ok
          Secrets,      \* Secrets[v]: the jobs whose secrets have a value
          Unparsable,   \* a jobs.yaml that is missing or no catalog at all
          Manual,       \* the schedule of a job without one, or disabled
          Unbuildable   \* the schedules that pass for valid but name an unknown
                        \* time zone, or that no trigger can be made of otherwise

Files == {"jobs", "connections", "secrets"}
Threads == Requests \cup {"poll"}
CatalogJobs(v) == IF Catalog[v] = Unparsable THEN <<>> ELSE Catalog[v]

ASSUME CatalogReloadAssumption ==
    /\ "poll" \notin Requests
    /\ LastVersion \in [Files -> Nat \ {0}]
    /\ DOMAIN Catalog = 1..LastVersion["jobs"]
    /\ \A v \in DOMAIN Catalog : Catalog[v] # Unparsable =>
         /\ DOMAIN Catalog[v] \subseteq JobIds
         /\ \A j \in DOMAIN Catalog[v] :
              DOMAIN Catalog[v][j] = {"schedule", "connection", "secret", "faulty"}
    /\ DOMAIN Connections = 1..LastVersion["connections"]
    /\ DOMAIN Secrets = 1..LastVersion["secrets"]

VARIABLES disk,      \* disk[f]: the version of file f
          seen,      \* seen[f]: the version the poll last took the stat of
          registry,  \* the connections in force, and the version they are of
          jobs,      \* _jobs: the catalog in force
          paused,    \* _paused
          live,      \* the scheduler's jobs: definition, trigger, paused, and
                     \* whether the trigger has counted off some of its time
          loaded,    \* _last_load: the versions it read, its verdict
          pc,        \* what each thread does next
          hand,      \* what each thread has read so far
          mishaps    \* history: which races have been lost

crVars == <<disk, seen, registry, jobs, paused, live, loaded, pc, hand, mishaps>>

Nothing == [initial |-> FALSE, restat |-> FALSE, connections |-> 0,
            names |-> {}, jobs |-> 0, secrets |-> 0,
            size |-> 0, begun |-> {}, visited |-> {}, at |-> {}]

\* _config_lock is held exactly by a thread in the pausing loop.
\* Slip: reload_config takes no lock.
NoLock == TRUE

LockFree == \A t \in Threads : pc[t] \notin {"pausing", "pausing one"}
Starting == [Nothing EXCEPT !.initial = TRUE]
Started == ~hand["poll"].initial \/ pc["poll"] = "first stat"

Goto(t, label) == pc' = [pc EXCEPT ![t] = label]
Keep(t, what) == hand' = [hand EXCEPT ![t] = what]
Note(what) == mishaps' = mishaps \cup what

\* An exception: a request answers 500, the polling thread is gone for good.
Dies(t) == Goto(t, IF t = "poll" THEN "dead" ELSE "idle") /\ Keep(t, Nothing)

-----------------------------------------------------------------------------
(* The loader's verdict on a version, given the connections and secrets it *)
(* was checked against; a job with a problem is left out of the result.    *)
\* Slip: target.connection is not checked.
RejectedLocally(v, names, s) ==
    {j \in DOMAIN CatalogJobs(v) :
        \/ CatalogJobs(v)[j].faulty
        \/ CatalogJobs(v)[j].secret /\ j \notin Secrets[s]}

Rejected(v, names, s) ==
    {j \in DOMAIN CatalogJobs(v) :
        \/ CatalogJobs(v)[j].faulty
        \/ CatalogJobs(v)[j].connection \notin names
        \/ CatalogJobs(v)[j].secret /\ j \notin Secrets[s]}
Ok(v, names, s) == Catalog[v] # Unparsable /\ Rejected(v, names, s) = {}
Accepted(v, names, s) ==
    [j \in DOMAIN CatalogJobs(v) \ Rejected(v, names, s) |-> CatalogJobs(v)[j]]

\* apply_catalog.  The trigger of a live job is the schedule in _applied.
Scheduled(js) == {j \in DOMAIN js : js[j].schedule # Manual}
Unmoved(js, j) == j \in DOMAIN live /\ live[j].trigger = js[j].schedule
Added(def) == [def |-> def, trigger |-> def.schedule, paused |-> FALSE,
               counted |-> FALSE]
\* Slips: the definition is not handed on; a trigger is always built anew.
DiffedByIdOnly(js) ==
    [j \in Scheduled(js) |-> IF j \in DOMAIN live THEN live[j] ELSE Added(js[j])]
DiffedAnew(js) == [j \in Scheduled(js) |-> Added(js[j])]

Diffed(js) ==
    [j \in Scheduled(js) |->
        IF Unmoved(js, j) THEN [live[j] EXCEPT !.def = js[j]] ELSE Added(js[j])]

\* The first trigger that cannot be built ends it: the jobs that are no longer
\* to be scheduled are gone, and of the others those before it in the file have
\* been seen to.
Refused(js) == {j \in Scheduled(js) : ~Unmoved(js, j) /\ js[j].schedule \in Unbuildable}
HalfDiffed(js, before) ==
    [j \in before \cup (Scheduled(js) \cap DOMAIN live) |->
        IF j \in before THEN Diffed(js)[j] ELSE live[j]]

\* An interval trigger counts from the moment it is made.
TimePasses ==
    /\ live' = [j \in DOMAIN live |-> [live[j] EXCEPT !.counted = TRUE]]
    /\ live' # live
    /\ UNCHANGED <<disk, seen, registry, jobs, paused, loaded, pc, hand, mishaps>>

SetPaused(j, value) ==
    live' = [i \in DOMAIN live |->
                IF i = j THEN [live[i] EXCEPT !.paused = value] ELSE live[i]]

-----------------------------------------------------------------------------
\* The state in which startup() calls registry.reload(initial=True).
CRInit ==
    /\ disk \in [Files -> {1}]
    /\ seen = [f \in Files |-> 0]
    /\ registry = [names |-> {}, version |-> 0, ok |-> FALSE]
    /\ jobs = <<>> /\ paused = {} /\ live = <<>>
    /\ loaded = [jobs |-> 0, secrets |-> 0, ok |-> FALSE]
    /\ pc = [t \in Threads |-> IF t = "poll" THEN "registry" ELSE "idle"]
    /\ hand = [t \in Threads |->
                 IF t = "poll" THEN Starting ELSE Nothing]
    /\ mishaps = {}

\* Somebody saves one of the files.
Edit(f) ==
    /\ disk[f] < LastVersion[f]
    /\ disk' = [disk EXCEPT ![f] = @ + 1]
    /\ UNCHANGED <<seen, registry, jobs, paused, live, loaded, pc, hand, mishaps>>

(* ConnectionRegistry.reload: read the file, then replace the set.         *)
ReadConnections(t) ==
    /\ pc[t] = "registry"
    /\ Keep(t, [hand[t] EXCEPT !.connections = disk["connections"]])
    /\ Goto(t, "install")
    /\ UNCHANGED <<disk, seen, registry, jobs, paused, live, loaded, mishaps>>

InstallConnections(t) ==
    LET new == Connections[hand[t].connections] IN
    /\ pc[t] = "install"
    /\ registry' = [names |-> IF new.ok \/ hand[t].initial \/ registry.names = {}
                              THEN new.names ELSE registry.names,
                    version |-> hand[t].connections, ok |-> new.ok]
    /\ Goto(t, "names")
    /\ UNCHANGED <<disk, seen, jobs, paused, live, loaded, hand, mishaps>>

(* reload_config, as load_catalog runs before the lock is taken: the names *)
(* are an argument, then the file is read, then the secrets looked up.     *)
ReadNames(t) ==
    /\ pc[t] = "names"
    /\ Keep(t, [hand[t] EXCEPT !.names = registry.names])
    /\ Goto(t, "read")
    /\ UNCHANGED <<disk, seen, registry, jobs, paused, live, loaded, mishaps>>

ReadJobs(t) ==
    /\ pc[t] = "read"
    /\ Keep(t, [hand[t] EXCEPT !.jobs = disk["jobs"]])
    /\ Goto(t, "validate")
    /\ UNCHANGED <<disk, seen, registry, jobs, paused, live, loaded, mishaps>>

Validate(t) ==
    /\ pc[t] = "validate"
    /\ Keep(t, [hand[t] EXCEPT !.secrets = disk["secrets"]])
    /\ Goto(t, "apply")
    /\ UNCHANGED <<disk, seen, registry, jobs, paused, live, loaded, mishaps>>

\* Where a reload goes on when reload_config has returned.
After(t) == IF t # "poll" THEN "idle"
            ELSE IF hand[t].initial THEN "first stat"
            ELSE IF hand[t].restat THEN "stat again" ELSE "wait"

\* What it still needs to know there.
Left(t) == IF After(t) \in {"idle", "wait"} THEN Nothing
           ELSE [hand[t] EXCEPT !.size = 0, !.begun = {}, !.visited = {}, !.at = {},
                                !.names = {}]

\* What was read is older than what another thread has applied since.
Overtaken(t) == \/ hand[t].jobs < loaded.jobs \/ hand[t].secrets < loaded.secrets
                \/ hand[t].names # registry.names

Record(t) ==
    loaded' = [jobs |-> hand[t].jobs, secrets |-> hand[t].secrets,
               ok |-> Ok(hand[t].jobs, hand[t].names, hand[t].secrets)]

(* The catalog replaces the one in force when it is valid, at the start,   *)
(* or when none is in force; the paused jobs are then paused once more.    *)
Applies(t) == \/ Ok(hand[t].jobs, hand[t].names, hand[t].secrets)
              \/ hand[t].initial \/ jobs = <<>>

Accepts(t) == Accepted(hand[t].jobs, hand[t].names, hand[t].secrets)
Late(t) == IF Overtaken(t) THEN {"overtaken"} ELSE {}

Apply(t) ==
    LET new == Accepts(t)
        still == paused \cap DOMAIN new
    IN
    /\ pc[t] = "apply" /\ LockFree /\ Applies(t) /\ Refused(new) = {}
    /\ jobs' = new
    /\ paused' = still
    /\ live' = Diffed(new)
    /\ Keep(t, [hand[t] EXCEPT !.size = Cardinality(still), !.begun = still,
                               !.visited = {}, !.at = {}])
    /\ Goto(t, "pausing")
    /\ Note(Late(t))
    /\ UNCHANGED <<disk, seen, registry, loaded>>

\* The catalog is in force by then, its verdict is never recorded, and no job is
\* paused again.
ApplyRaises(t) ==
    LET new == Accepts(t) IN
    /\ pc[t] = "apply" /\ LockFree /\ Applies(t) /\ ~hand[t].initial
    /\ Refused(new) # {}
    /\ jobs' = new
    /\ paused' = paused \cap DOMAIN new
    /\ \E before \in SUBSET (Scheduled(new) \ Refused(new)) :
         live' = HalfDiffed(new, before)
    /\ Dies(t) /\ Note(Late(t) \cup {"raised"})
    /\ UNCHANGED <<disk, seen, registry, loaded>>

\* orphan_summary is read last; it raises when the database does.
Ends(t, races) ==
    \/ Goto(t, After(t)) /\ Keep(t, Left(t)) /\ Note(races)
    \/ ~hand[t].initial /\ Dies(t) /\ Note(races \cup {"raised"})

KeepPrevious(t) ==
    /\ pc[t] = "apply" /\ LockFree /\ ~Applies(t)
    /\ Record(t)
    /\ Ends(t, Late(t))
    /\ UNCHANGED <<disk, seen, registry, jobs, paused, live>>

\* Raised by the first reload of all, either ends the process, and its next
\* start begins from nothing.
StartFails(t) ==
    /\ hand[t].initial
    /\ pc[t] = "pausing" \/ (pc[t] = "apply" /\ Refused(Accepts(t)) # {})
    /\ registry' = [names |-> {}, version |-> 0, ok |-> FALSE]
    /\ jobs' = <<>> /\ paused' = {} /\ live' = <<>>
    /\ loaded' = [jobs |-> 0, secrets |-> 0, ok |-> FALSE]
    /\ Goto(t, "registry") /\ Keep(t, Starting)
    /\ Note({"raised"})
    /\ UNCHANGED <<disk, seen>>

(* for paused_id in self._paused.  The set's iterator raises when the size *)
(* differs from the size it began with; an element that came meanwhile may *)
(* or may not be met.                                                      *)
PickPaused(t) ==
    /\ pc[t] = "pausing" /\ Cardinality(paused) = hand[t].size
    /\ \E j \in paused \ hand[t].visited :
         Keep(t, [hand[t] EXCEPT !.at = {j}, !.visited = @ \cup {j}])
    /\ Goto(t, "pausing one")
    /\ UNCHANGED <<disk, seen, registry, jobs, paused, live, loaded, mishaps>>

PauseAgain(t) ==
    /\ pc[t] = "pausing one"
    /\ \E j \in hand[t].at :
         /\ SetPaused(j, TRUE)
         /\ Note(IF j \in paused THEN {} ELSE {"crossed"})
    /\ Goto(t, "pausing")
    /\ UNCHANGED <<disk, seen, registry, jobs, paused, loaded, hand>>

\* Slip: the reload is over as soon as one job has been paused again.
EndReloadEarly(t) ==
    /\ pc[t] = "pausing"
    /\ Record(t)
    /\ Ends(t, {})
    /\ UNCHANGED <<disk, seen, registry, jobs, paused, live>>

EndReload(t) ==
    /\ pc[t] = "pausing" /\ Cardinality(paused) = hand[t].size
    /\ hand[t].begun \cap paused \subseteq hand[t].visited
    /\ Record(t)
    /\ Ends(t, IF paused \subseteq hand[t].visited THEN {} ELSE {"crossed"})
    /\ UNCHANGED <<disk, seen, registry, jobs, paused, live>>

\* RuntimeError: the set has changed its size.
LoopRaises(t) ==
    /\ pc[t] = "pausing" /\ Cardinality(paused) # hand[t].size
    /\ Dies(t) /\ Note({"raised"})
    /\ UNCHANGED <<disk, seen, registry, jobs, paused, live, loaded>>

Reload(t) ==
    \/ ReadConnections(t) \/ InstallConnections(t)
    \/ ReadNames(t) \/ ReadJobs(t) \/ Validate(t)
    \/ Apply(t) \/ ApplyRaises(t) \/ KeepPrevious(t) \/ StartFails(t)
    \/ PickPaused(t) \/ PauseAgain(t) \/ EndReload(t) \/ LoopRaises(t)

-----------------------------------------------------------------------------
(* _poll_config.  The first stats are taken when the thread starts, after  *)
(* the initial reload.                                                     *)
FirstStat ==
    /\ pc["poll"] = "first stat"
    /\ seen' = disk
    /\ Keep("poll", Nothing)
    /\ Goto("poll", "wait")
    /\ Note(IF disk = [jobs |-> hand["poll"].jobs, secrets |-> hand["poll"].secrets,
                       connections |-> hand["poll"].connections]
            THEN {} ELSE {"hidden"})
    /\ UNCHANGED <<disk, registry, jobs, paused, live, loaded>>

\* Slip: a change of secrets.yaml is remembered, but no reload made for it.
NoticedOnly(f, label, again) ==
    /\ disk[f] # seen[f]
    /\ seen' = [seen EXCEPT ![f] = disk[f]]
    /\ Keep("poll", [Nothing EXCEPT !.restat = again])
    /\ Goto("poll", IF f = "secrets" THEN "wait" ELSE label)
    /\ UNCHANGED <<disk, registry, jobs, paused, live, loaded, mishaps>>

\* f has changed since its last stat: remember that, and reload.
Noticed(f, label, again) ==
    /\ disk[f] # seen[f]
    /\ seen' = [seen EXCEPT ![f] = disk[f]]
    /\ Keep("poll", [Nothing EXCEPT !.restat = again])
    /\ Goto("poll", label)
    /\ UNCHANGED <<disk, registry, jobs, paused, live, loaded, mishaps>>

(* A round of the loop takes one stat after the other and stops at the     *)
(* first file that has changed; a round that finds none changes nothing.   *)
Current(f) == disk[f] = seen[f]
PollConnections ==
    /\ pc["poll"] = "wait"
    /\ Noticed("connections", "registry", TRUE)
PollSecrets ==
    /\ pc["poll"] = "wait" /\ Current("connections")
    /\ Noticed("secrets", "names", TRUE)
PollJobs ==
    /\ pc["poll"] = "wait" /\ Current("connections") /\ Current("secrets")
    /\ Noticed("jobs", "names", FALSE)

\* last_jobs is taken anew after a reload that another file caused.
StatAgain ==
    /\ pc["poll"] = "stat again"
    /\ seen' = [seen EXCEPT !["jobs"] = disk["jobs"]]
    /\ Goto("poll", "wait") /\ Keep("poll", Nothing)
    /\ Note(IF disk["jobs"] = hand["poll"].jobs THEN {} ELSE {"hidden"})
    /\ UNCHANGED <<disk, registry, jobs, paused, live, loaded>>

Poll == FirstStat \/ PollConnections \/ PollSecrets \/ PollJobs \/ StatAgain

-----------------------------------------------------------------------------
(* The API, served once startup() has returned.                            *)
Unserved == <<disk, seen, registry, jobs, loaded>>

\* reload_config, not reload_connections: connections.yaml is not read.
PostReload(r) ==
    /\ pc[r] = "idle" /\ Started
    /\ Goto(r, "names") /\ Keep(r, Nothing)
    /\ UNCHANGED <<Unserved, paused, live, mishaps>>

\* pause_job and resume_job: get_job under the lock, the rest without it.
PostSwitch(r, j, label) ==
    /\ pc[r] = "idle" /\ Started /\ LockFree
    /\ j \in DOMAIN jobs
    /\ Keep(r, [Nothing EXCEPT !.at = {j}])
    /\ Goto(r, label)
    /\ UNCHANGED <<Unserved, paused, live, mishaps>>

AddPaused(r) ==
    /\ pc[r] = "pause"
    /\ paused' = paused \cup hand[r].at
    /\ Goto(r, "pause trigger")
    /\ UNCHANGED <<Unserved, live, hand, mishaps>>

DiscardPaused(r) ==
    /\ pc[r] = "resume"
    /\ paused' = paused \ hand[r].at
    /\ Goto(r, "resume trigger")
    /\ UNCHANGED <<Unserved, live, hand, mishaps>>

\* The set and the trigger are two calls; others may change the set between.
PauseTrigger(r) ==
    /\ pc[r] = "pause trigger"
    /\ \E j \in hand[r].at : SetPaused(j, TRUE)
    /\ Keep(r, Nothing) /\ Goto(r, "idle")
    /\ Note(IF hand[r].at \subseteq paused THEN {} ELSE {"crossed"})
    /\ UNCHANGED <<Unserved, paused>>

ResumeTrigger(r) ==
    /\ pc[r] = "resume trigger"
    /\ \E j \in hand[r].at : SetPaused(j, FALSE)
    /\ Keep(r, Nothing) /\ Goto(r, "idle")
    /\ Note(IF hand[r].at \cap paused = {} THEN {} ELSE {"crossed"})
    /\ UNCHANGED <<Unserved, paused>>

Request(r) ==
    \/ PostReload(r)
    \/ \E j \in JobIds : PostSwitch(r, j, "pause") \/ PostSwitch(r, j, "resume")
    \/ AddPaused(r) \/ DiscardPaused(r) \/ PauseTrigger(r) \/ ResumeTrigger(r)

CRNext ==
    \/ \E f \in Files : Edit(f)
    \/ TimePasses
    \/ \E t \in Threads : Reload(t)
    \/ Poll
    \/ \E r \in Requests : Request(r)

CRSpec == CRInit /\ [][CRNext]_crVars

(* The polling thread is a loop with a timer; a reload that was begun goes *)
(* on to its end.  The lock is held for a few calls at a time: the poll,   *)
(* which finds it free again and again however many requests come, gets it *)
(* in the end (strong fairness).                                           *)
CRFairSpec ==
    /\ CRSpec
    /\ WF_crVars(Poll) /\ SF_crVars(Reload("poll"))
    /\ \A r \in Requests : WF_crVars(Reload(r))

-----------------------------------------------------------------------------
CRTypeOK ==
    /\ disk \in [Files -> Nat] /\ seen \in [Files -> Nat]
    /\ registry.version \in 0..LastVersion["connections"]
    /\ DOMAIN jobs \subseteq JobIds /\ paused \subseteq JobIds
    /\ DOMAIN live \subseteq JobIds
    /\ loaded.jobs \in 0..LastVersion["jobs"] /\ loaded.ok \in BOOLEAN
    /\ \A t \in Threads : /\ hand[t].jobs \in 0..LastVersion["jobs"]
                           /\ hand[t].at \subseteq JobIds
    /\ mishaps \subseteq {"hidden", "overtaken", "raised", "crossed"}
    \* _config_lock has one owner.
    /\ \A t, u \in Threads :
         {pc[t], pc[u]} \subseteq {"pausing", "pausing one"} => t = u

\* No reload and no request is under way.
Quiet == /\ \A r \in Requests : pc[r] = "idle"
         /\ pc["poll"] \in {"wait", "dead"}

\* A trigger can be built for every job of the catalog that needs one.
Buildable(js) == \A j \in Scheduled(js) : js[j].schedule \notin Unbuildable

(* Whatever reloads ran, raised or overtook each other, no job fires that  *)
(* the catalog in force does not schedule; and if a trigger can be built   *)
(* for each of its schedules, the scheduler has exactly its jobs, each     *)
(* firing with its present definition on its present schedule, even after  *)
(* catalogs of which some could not be (aps.py:79-117).                    *)
ScheduleFollowsCatalog ==
    /\ DOMAIN live \subseteq Scheduled(jobs)
    /\ Buildable(jobs) =>
         /\ DOMAIN live = Scheduled(jobs)
         /\ \A j \in DOMAIN live : /\ live[j].def = jobs[j]
                                   /\ live[j].trigger = jobs[j].schedule

(* Once nothing is under way, only the trigger of a job that the engine    *)
(* reports as paused is paused, over any number of reloads that            *)
(* reschedule, drop or bring back the job; and the trigger of a paused job *)
(* fires only if a reload has raised, in the diff or in the loop, before   *)
(* it had paused the job again (docs/jobs-yaml.md:18-21).  Excepted is a   *)
(* pause or resume that has crossed another, or the loop of a reload.      *)
PausedTriggersRest ==
    Quiet /\ "crossed" \notin mishaps =>
        \A j \in DOMAIN live :
            /\ live[j].paused => j \in paused
            /\ j \in paused => live[j].paused \/ "raised" \in mishaps

(* A job of the catalog in force whose connection is gone is reported: the *)
(* last catalog or the last connections file read is in error              *)
(* (service.py:157-184, config_error).                                     *)
LostConnectionIsReported ==
    Quiet /\ mishaps \cap {"overtaken", "raised"} = {} =>
        \A j \in DOMAIN jobs :
            jobs[j].connection \in registry.names \/ ~loaded.ok

(* A reload that finds the schedule of a job as it was scheduled last,     *)
(* whatever else of the catalog was edited, leaves its timer where it is:  *)
(* the interval does not start over, and a paused trigger stays paused     *)
(* until the job is resumed (README.md:227-229, aps.py:49-51).             *)
UnchangedScheduleKeepsTrigger ==
    [][\A j \in DOMAIN live \cap DOMAIN live' :
          live[j].trigger = live'[j].trigger =>
              /\ live[j].counted => live'[j].counted
              /\ live[j].paused /\ ~live'[j].paused =>
                   \E r \in Requests : pc[r] = "resume trigger" /\ j \in hand[r].at]_crVars

(* Once the files rest, what was last read of all three is what is on      *)
(* disk, unless an edit landed between the reading of a reload and the     *)
(* stat after it, an older reading was applied over it, an exception has   *)
(* ended the polling thread, or one ends every start (README.md:223).      *)
EditsAreRead ==
    <>[](\/ mishaps \cap {"hidden", "overtaken"} # {}
         \/ pc["poll"] = "dead" \/ ~Started
         \/ /\ loaded.jobs = disk["jobs"] /\ loaded.secrets = disk["secrets"]
            /\ registry.version = disk["connections"])
=============================================================================
