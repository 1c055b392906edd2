-------------------------- MODULE GenerationSweep --------------------------
(***************************************************************************)
(* What concurrent runs of different jobs do to the points of a shared     *)
(* collection, under the locks of RunLocks: the per-document replacement,  *)
(* the deletion of vanished sources, the generation sweep and the          *)
(* recreation of the collection (src/src/engine/runner.py and              *)
(* src/src/store/qdrant_writer.py), and the catalog reload that changes    *)
(* which jobs serve the collection while runs wait for it.                 *)
(*                                                                         *)
(* A document stands for all its chunks.  A point's ingest_run is a uuid4: *)
(* only "is it the generation of a run still holding the collection" can   *)
(* be told, so a generation is the slot of such a run, or Past.            *)
(***************************************************************************)
EXTENDS RunLocks

CONSTANTS Docs,        \* the sources of a job
          Past,        \* the ingest_run of any run that is over
          NoPoint,     \* the document has no point in the collection
          Off,         \* the job is not (or not enabled) in the catalog
          MaxReloads   \* bound on the number of catalog reloads

ASSUME GenerationSweepAssumption ==
    /\ Past \notin Slots /\ NoPoint \notin Slots /\ Past # NoPoint
    /\ Off \notin Collections /\ Docs # {}
    /\ MaxReloads \in Nat

VARIABLES index,    \* index[c][j][d]: ingest_run of d's points of job j in c
          phase,    \* phase[s]: how far run_job of slot s has come
          doc,      \* doc[s]: the document being replaced
          written,  \* written[s]: the documents the run has upserted
          options,  \* options[s]: full_scope, force, siblings at the start
          catalog,  \* catalog[j]: the collection job j serves, or Off
          reloads   \* number of catalog reloads so far

dataVars == <<index, phase, doc, written, options>>
gsVars == <<pc, task, listed, named, stuck, jobLock, readers, writer,
            index, phase, doc, written, options, catalog, reloads>>

Generations == Slots \cup {Past}
Options == [scope : {"job", "collection"}, force : BOOLEAN,
            siblings : SUBSET Jobs]
NoOptions == [scope |-> "job", force |-> FALSE, siblings |-> {}]

\* sibling_job_ids: the other jobs that serve collection c right now.
Siblings(j, c) == {k \in Jobs \ {j} : catalog[k] = c}

\* The index once Qdrant has deleted the points of c that Gone selects.
IndexWithout(c, Gone) ==
    [index EXCEPT ![c] = [j \in Jobs |-> [d \in Docs |->
        IF <<j, d>> \in Gone THEN NoPoint ELSE index[c][j][d]]]]

\* Slip: the sweep filters on the generation only.
InCollectionScope(s) == Jobs \X Docs

\* What sweep_stale filters: the job's points, or all of the collection.
InScope(s) ==
    (IF options[s].scope = "collection" THEN Jobs ELSE {task[s].job}) \X Docs

\* The runs S are over: their generation can no longer be told from others.
Retired(S) ==
    [c \in Collections |-> [j \in Jobs |-> [d \in Docs |->
        IF index[c][j][d] \in S THEN Past ELSE index[c][j][d]]]]

-----------------------------------------------------------------------------
GSInit ==
    /\ RLInit
    /\ index = [c \in Collections |-> [j \in Jobs |-> [d \in Docs |-> NoPoint]]]
    /\ phase = [s \in Slots |-> "start"]
    /\ doc = [s \in Slots |-> CHOOSE d \in Docs : TRUE]
    /\ written = [s \in Slots |-> {}]
    /\ options = [s \in Slots |-> NoOptions]
    /\ catalog \in [Jobs -> Collections \cup {Off}]
    /\ \A j \in Jobs : catalog[j] # Off => catalog[j] \in Targets[j]
    /\ reloads = 0

(* trigger_run / run_sync: the job of the catalog is claimed, and the      *)
(* siblings are read here, before the wait for the collection lock.        *)
StartRun(s) ==
    /\ Begin(s)
    /\ catalog[task'[s].job] = task'[s].coll
    /\ \E scope \in {"job", "collection"}, force \in BOOLEAN :
         /\ task'[s].mode # "full" => scope = "job" /\ ~force
         /\ options' = [options EXCEPT ![s] =
              [scope |-> scope, force |-> force,
               siblings |-> IF scope = "job" THEN {}
                            ELSE Siblings(task'[s].job, task'[s].coll)]]
    /\ UNCHANGED <<index, phase, doc, written, catalog, reloads>>

\* The steps of RunLocks that touch neither points nor options.
LockStep(s) ==
    /\ \/ Refuse(s) \/ NameActiveRun(s) \/ Return(s)
       \/ Acquire(s) \/ CreateRun(s) \/ CreateRunFails(s)
       \/ FinishRun(s) \/ FinishRunUnrecorded(s)
    /\ UNCHANGED <<dataVars, catalog, reloads>>

(* _execute refuses a collection-scope run that has siblings, unforced. *)
RefuseSiblings(s) ==
    /\ pc[s] = "running" /\ phase[s] = "start"
    /\ Exclusive(s) /\ options[s].scope = "collection"
    /\ options[s].siblings # {} /\ ~options[s].force
    /\ phase' = [phase EXCEPT ![s] = "over"]
    /\ UNCHANGED <<rlVars, index, doc, written, options, catalog, reloads>>

(* recreate_collection: the collection is deleted and created again. *)
Recreate(s) ==
    /\ pc[s] = "running" /\ phase[s] = "start"
    /\ Exclusive(s) /\ options[s].scope = "collection"
    /\ options[s].siblings = {} \/ options[s].force
    /\ index' = IndexWithout(task[s].coll, Jobs \X Docs)
    /\ phase' = [phase EXCEPT ![s] = "index"]
    /\ UNCHANGED <<rlVars, doc, written, options, catalog, reloads>>

(* Every other run only ensures that the collection exists. *)
Ensure(s) ==
    /\ pc[s] = "running" /\ phase[s] = "start"
    /\ ~(Exclusive(s) /\ options[s].scope = "collection")
    /\ phase' = [phase EXCEPT ![s] = "index"]
    /\ UNCHANGED <<rlVars, index, doc, written, options, catalog, reloads>>

(* _index_document: delete_by_source, filtered on job and source. *)
DeleteBySource(s) ==
    /\ pc[s] = "running" /\ phase[s] = "index"
    /\ \E d \in Docs \ written[s] :
         /\ doc' = [doc EXCEPT ![s] = d]
         /\ index' = IndexWithout(task[s].coll, {<<task[s].job, d>>})
    /\ phase' = [phase EXCEPT ![s] = "replace"]
    /\ UNCHANGED <<rlVars, written, options, catalog, reloads>>

(* _index_document: upsert_points, stamped with the run's own id. *)
UpsertPoints(s) ==
    /\ pc[s] = "running" /\ phase[s] = "replace"
    /\ index' = [index EXCEPT ![task[s].coll][task[s].job][doc[s]] = s]
    /\ written' = [written EXCEPT ![s] = @ \cup {doc[s]}]
    /\ phase' = [phase EXCEPT ![s] = "index"]
    /\ UNCHANGED <<rlVars, doc, options, catalog, reloads>>

(* _delete_vanished: one source the scan has not seen is deleted. *)
DeleteVanished(s) ==
    /\ pc[s] = "running" /\ phase[s] \in {"index", "cleaning"}
    /\ task[s].mode = "upsert"
    /\ \E d \in Docs \ written[s] :
         index' = IndexWithout(task[s].coll, {<<task[s].job, d>>})
    /\ phase' = [phase EXCEPT ![s] = "cleaning"]
    /\ UNCHANGED <<rlVars, doc, written, options, catalog, reloads>>

(* sweep_stale: every point in scope of another generation is deleted. *)
SweepStale(s) ==
    /\ pc[s] = "running" /\ phase[s] = "index"
    /\ Exclusive(s)
    /\ index' = IndexWithout(task[s].coll,
                    {p \in InScope(s) : index[task[s].coll][p[1]][p[2]] # s})
    /\ phase' = [phase EXCEPT ![s] = "swept"]
    /\ UNCHANGED <<rlVars, doc, written, options, catalog, reloads>>

(* The run lets go of the collection; from here its id is one of the past. *)
LeaveCollection(s) ==
    /\ ReleaseCollection(s)
    /\ index' = Retired({s})
    /\ phase' = [phase EXCEPT ![s] = "start"]
    /\ written' = [written EXCEPT ![s] = {}]
    /\ UNCHANGED <<doc, options, catalog, reloads>>

LeaveJob(s) ==
    /\ AcquireTimeout(s) \/ ReleaseJob(s)
    /\ options' = [options EXCEPT ![s] = NoOptions]
    /\ UNCHANGED <<index, phase, doc, written, catalog, reloads>>

GSRestart ==
    /\ Restart
    /\ index' = Retired(Slots)
    /\ phase' = [s \in Slots |-> "start"]
    /\ written' = [s \in Slots |-> {}]
    /\ options' = [s \in Slots |-> NoOptions]
    /\ UNCHANGED <<doc, catalog, reloads>>

(* reload_config applies a catalog in which one job changed its target. *)
ReloadCatalog ==
    /\ reloads < MaxReloads
    /\ reloads' = reloads + 1
    /\ \E j \in Jobs : \E c \in Targets[j] \cup {Off} :
         catalog' = [catalog EXCEPT ![j] = c]
    /\ UNCHANGED <<rlVars, dataVars>>

GSSlotNext(s) ==
    \/ StartRun(s) \/ LockStep(s)
    \/ RefuseSiblings(s) \/ Recreate(s) \/ Ensure(s)
    \/ DeleteBySource(s) \/ UpsertPoints(s) \/ DeleteVanished(s)
    \/ SweepStale(s) \/ LeaveCollection(s) \/ LeaveJob(s)

GSNext == (\E s \in Slots : GSSlotNext(s)) \/ GSRestart \/ ReloadCatalog

GSSpec == GSInit /\ [][GSNext]_gsVars

-----------------------------------------------------------------------------
GSTypeOK ==
    /\ index \in [Collections -> [Jobs -> [Docs -> Generations \cup {NoPoint}]]]
    /\ phase \in [Slots -> {"start", "index", "replace", "cleaning",
                            "swept", "over"}]
    /\ doc \in [Slots -> Docs]
    /\ written \in [Slots -> SUBSET Docs]
    /\ options \in [Slots -> Options]
    /\ catalog \in [Jobs -> Collections \cup {Off}]
    /\ reloads \in 0..MaxReloads

(* A document a run has indexed stays indexed, under that run's id, for as *)
(* long as the run works: no sweep, recreation or deletion of another run  *)
(* takes it.  locks.py:3-11 calls this a correctness requirement.          *)
WrittenPointsSurvive ==
    \A s \in Slots : \A d \in written[s] :
        index[task[s].coll][task[s].job][d] = s

(* After its sweep a full run leaves only its own generation in its scope, *)
(* until it gives the collection back: nobody wrote in between             *)
(* (runner.py:258-260, docs/modes.md:37-39).                               *)
SweptScopeIsPure ==
    \A s \in Slots : phase[s] = "swept" =>
        \A j \in Jobs, d \in Docs :
            <<j, d>> \in InScope(s)
            => index[task[s].coll][j][d] \in {s, NoPoint}

(* A run never removes or overwrites a point of another job, unless it is  *)
(* a full run of the whole collection (docs/modes.md:10-11).               *)
OtherJobsUntouchedStep ==
    \A c \in Collections, j \in Jobs, d \in Docs :
         /\ index[c][j][d] # NoPoint
         /\ index'[c][j][d] # index[c][j][d]
         => \/ index'[c][j][d] = Past
            \/ \E s \in Slots :
                 /\ pc[s] = "running" /\ task[s].coll = c
                 /\ \/ task[s].job = j
                    \/ Exclusive(s) /\ options[s].scope = "collection"

OtherJobsUntouched == [][OtherJobsUntouchedStep]_gsVars

(* docs/modes.md:25: a collection-scope run is refused when other active   *)
(* jobs serve the collection, unless it is forced, for it "would    *)
(* drop data of" theirs.  The siblings are read before the wait for the    *)
(* collection lock: a job that the catalog gained while the run waited is  *)
(* not among them, and what it has indexed in the meantime is dropped.     *)
UnforcedRecreateDropsNoSibling ==
    [][\A s \in Slots :
         /\ phase[s] = "start" /\ phase'[s] = "index"
         /\ Exclusive(s) /\ options[s].scope = "collection"
         /\ ~options[s].force
         => \A j \in Siblings(task[s].job, task[s].coll), d \in Docs :
              index[task[s].coll][j][d] = NoPoint]_gsVars
=============================================================================
