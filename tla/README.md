# qdrant-ingest in TLA+

This directory is a verification development for the ingestion service in `src/`.
It holds TLA+ models of the parts of the service whose correctness depends on
interleavings, crashes and stale state, TLC configurations that check them on
small instances, and TLAPS proofs of the safety results for every value
of the constants. File references below are relative to the repository's own
`src/` (for example `engine/runner.py`) or to its root (`docs/modes.md`).

- [The system](#the-system)
- [What makes it hard](#what-makes-it-hard)
- [The modules](#the-modules)
- [What the runs check](#what-the-runs-check)
- [Divergences](#divergences)
- [What is proved](#what-is-proved)
- [Modelling decisions](#modelling-decisions)
- [What is not modelled](#what-is-not-modelled)
- [Plan](#plan)

## The system

The service keeps Qdrant collections in step with trees of files. A *job* of the
catalog names a source (a local directory, or an rclone remote that is first
synchronised into a cache), a target collection, an embedding model and a
default mode. A *run* of a job scans the tree, decides per file whether it has
changed, extracts text, embeds it and replaces the document's points.

| Component | State it keeps | Operations | Interacts with |
|---|---|---|---|
| Run locks (`engine/locks.py`) | one lock per job, one reader/writer lock per collection | `begin`, `execute`, `run`, `active_run_id` | called by the engine; calls the job runner and the state store |
| Job runner (`engine/runner.py`, `guards.py`, `modes.py`) | nothing between runs; within one: the scan, the seen sources, counters | `run_job` and the phases below it | scan, rclone, extraction, embeddings, Qdrant writer, state store |
| Engine (`engine/service.py`) | catalog in force, queue of follow-ups, abort requests, run threads, paused jobs, shutdown event | trigger, `run_sync`, abort, queue, reload, poll, pause, orphans, health | locks, scheduler, registry, state store |
| State store (`state/db.py`) | SQLite: documents, runs, events | one transaction per statement; reconcile, prune, delete | every component that records anything |
| Qdrant writer (`store/`) | none; the points live in Qdrant | ensure, recreate, upsert, delete by source, sweep, facet | job runner, orphan deletion |
| Embeddings client and limiter (`embed/`) | semaphore, token bucket | `embed_all`, `slot` | job runner; shared by all jobs |
| Extraction (`extract/`) | none | `process_file` | job runner, Tika |
| Scan and filters (`sources/local.py`, `filters.py`) | none | `scan_tree`, `rclone_filter_args` | job runner, rclone |
| Rclone (`sources/rclone.py`) | cache directories named by label | `sync_job` | job runner |
| Catalog (`catalog/`) | parsed `jobs.yaml`, secrets, secret store | load, validate, encrypt | engine, connections |
| Connections (`connections/`) | resolved connections, one writer each | `reload`, `writer`, `ping` | engine, job runner |
| Scheduler (`scheduler/`) | APScheduler's table, paused jobs | `apply_catalog`, pause, resume, startup catch-up | engine (fires `_cron_execute`) |
| Chunkers (`chunk/`) | none | pure functions | extraction, job runner |
| API, metrics, MCP (`api/`, `mcp_app/`) | OIDC key cache | requests | engine |

Three kinds of thread meet in one process: a thread per manual run, the pool of
the scheduler, and the request threads of the API. They share the locks, the
queue, the abort set, the SQLite file and, through Qdrant, the points.

The state is in three stores that no transaction spans: the file tree (written
by others), the SQLite file and the Qdrant collection. A document is "indexed"
when the three agree, and a run touches them one call at a time.

What makes each part correct, in a sentence:

- *Locks*: runs of one job never overlap, a full run is alone in its
  collection, every path gives back what it took, and nobody waits forever.
- *Sweep*: a run deletes only what is stale, its own, and nobody else's work.
- *Runner*: a file that a later run would skip really is in the collection, as
  its row says; a run that ends well leaves tree, rows and points equal.
- *Deletion of vanished sources*: points go before rows, and only for sources
  that are really gone and past the guards.
- *Engine*: triggers, firings and follow-ups share one lock without a leak, an
  abort is obeyed, and a shutdown drains.
- *Catalog and scheduler*: an edit of any of three files takes effect in the end,
  the scheduler has the schedules of the catalog in force whenever triggers can be built
  for them, a reload leaves the timer of an unchanged schedule alone, jobs that are
  accepted can run beside each other, and restarts starve no job.
- *Caches* (secrets, signing keys): what is answered was true during the call.
- *Limiter*: the rate holds over every stretch of time, and nobody waits forever.
- *History*: a row says "running" exactly while its run does, ends are final.
- *Synchronisation and filters*: a document is given up only if its file is gone from
  the source, and both readers of a plain pattern mean the same files; where an inner `**/`
  makes them differ, the fetch is the narrower one per pattern.
- *Chunkers*: every word is in a chunk, every chunk within the budget.
- *Orphans*: rows, by which leftovers are found, go after points.

## What makes it hard

`PROJECT.json` lists the hazards, each at its line. They fall into six groups.

1. **Two stores, no transaction.** `_index_document` deletes the old points,
   writes the new ones and then commits the row. `recreate_collection` and
   the deletion of the rows are two calls. A crash may fall between any two.
2. **Facts read before a wait, used after it.** The siblings of a job are read
   when the run is triggered and used once it has the collection lock. A file is
   statted in the scan, hashed later, and opened again for extraction.
3. **Deletion by exclusion.** The generation sweep deletes everything whose
   `ingest_run` is not the run's own. Anything that slips into the collection
   meanwhile, by a hole in the locking, is lost.
4. **Hand-over between threads.** A job lock is taken on one thread and released
   on another; the follow-up queue is filled by a trigger that was refused and
   emptied by the run it was refused for, after that run has let go of the lock.
5. **Stat, read, remember.** The configuration poll, the secret store and the key
   cache each take a signature or a time first, read later, and file what they read
   under what they took. Others write and fill the same cache meanwhile.
6. **Arithmetic at a border.** The token bucket after an idle period, the guard's
   ratio, windows shorter than their overlap, one and a half intervals.

## The modules

The first group models how runs work on the data.

| Module | Models | State and actions, and what they are in the code |
|---|---|---|
| `RunLocks` | `engine/locks.py` | `jobLock`, `readers`, `writer` are the three lock fields. A slot is a thread that executes runs one after the other. `Begin`, `Refuse` and `NameActiveRun` are `begin`; `Acquire`, `AcquireTimeout`, `CreateRun`, `CreateRunFails`, `FinishRun`, `FinishRunUnrecorded`, `ReleaseCollection` and `ReleaseJob` are the exits and steps of `execute`, in its order; `Restart` is a crash followed by `reconcile_interrupted_runs`. |
| `CollectionAccess` | what `_ReadWriteLock` promises | Two sets of runs per collection, those that share it and the one that is alone. Abstract: no counters, no waiting. |
| `RunLocksRefinement` | | The refinement mapping from `RunLocks` to `CollectionAccess`. |
| `GenerationSweep` | the runs of several jobs in shared collections | Extends `RunLocks`. `index[c][j][d]` is the `ingest_run` of document `d`'s points. `StartRun` reads the siblings, `Recreate`, `Ensure`, `DeleteBySource`, `UpsertPoints`, `DeleteVanished` and `SweepStale` are the calls of `_execute`; `ReloadCatalog` changes who serves a collection. |
| `JobRunner` | `engine/runner.py` for one job | `tree`, `rows` and `points` are the three stores. `pc` is the next call. The three stages of change detection are `SkipSameStat`, `SkipSameContent` and `SkipSameText`; `Hash`, `Extract`, `Embed`, `DeleteBySource`, `UpsertPoints` and `SaveRow` are the path of a changed document; `Attach`, `DeleteStalePoints` and `DeleteStaleRow` are `_index_embedded`; `EndScan` to `Sweep` are the destructive phases. `Abandon` ends the run after any call. |
| `RunService` | triggers, queue, abort, shutdown of one job in `engine/service.py` | `thread[t]` is where a run is; `client[c]` a request between its two steps. `TriggerRun` to `FollowUp` are `trigger_run` and its `target`, `CronFire` and `CronBegin` are `_cron_execute` and `run_sync`, `RequestAbort` and `RecordAbort` the two halves of `request_abort`. |

The second group are the parts around them. They share no state with each other
and meet the first group through values only.

| Module | Models | State and actions, and what they are in the code |
|---|---|---|
| `CatalogReload` | `reload_config`, `_poll_config`, `pause_job` and `resume_job` in `engine/service.py`, the registry, `scheduler/aps.py` | `disk` and `seen` are versions of the three files on disk and in the poll's stats; `registry`, `jobs`, `paused` and `live` (the scheduler's table) are what is in force. The polling thread, the initial load and each request have a `pc`: `ReadConnections` to `EndReload` are the steps of a reload, `PollConnections`, `PollSecrets`, `PollJobs` and `StatAgain` those of a poll, `AddPaused`/`PauseTrigger` and `DiscardPaused`/`ResumeTrigger` the two halves of pause and resume. `LoopRaises` is a set that changes while `reload_config` iterates over it; `ApplyRaises` is `apply_catalog` ended by a trigger that cannot be built, and `StartFails` the same, or `orphan_summary`, in the start. `Dies` is what becomes of the thread. A live job has its definition, its trigger, whether it is paused, and whether its timer has counted (`TimePasses`). |
| `CatalogRules` | the rules between jobs in `catalog/loader.py` | `listing` is the file, job by job (`List`); `DuplicateIds`, `DuplicateLabels`, `OtherModels` and `OtherConnections` are the positions with a problem, `AcceptedJobs` what a start makes of the file. |
| `SecretStore` | `catalog/secret_store.py`, `catalog/secrets.py` | `cached` is the pair of signature and values, `lookup[l]` a lookup between `TakeStat`, `TakeLock`, `Hit` or `ReadFile` and `Remember`; `Replace` renames a new file over the old one. |
| `EmbedLimiter` | `embed/limiter.py`, the retries of `embed/client.py` | `allowance` and `elapsed` are the bucket, `stage` and `sleep` each thread: `EnterSlot` is the semaphore, `TakeToken` one round of `_take_token`, `Answer`, `Retry` and `GiveUp` the attempts of a batch, `Tick` time. `calls` is history: when the last batches were let through. |
| `RunHistory` | the runs and run_events tables in `state/db.py` | `Create`, `CreateAborted`, `AddEvent`, `Update`, `End`, `EndFails`, `Prune`, `PruneFails`, `DeleteRuns` and `RestartEngine` are the transactions and their failures. |
| `OidcKeys` | the key cache of `mcp_app/oidc.py` | `keys` and `age` are the cache, `fetcher` is `_jwks_lock`, `token[r]` a validation between its awaits: `ReceiveToken`, `Discover`, `UseFetched` or `Fetch`, `Publish`, `StoreKeys` or `FetchFails`, `Respond`. |
| `SourceSync` | `sources/rclone.py`, then the scan and the vanished files | `remote`, `cache` and `indexed` are the source, the directory and the rows. `StartSync` to `SyncFails` are `execute_sync` with rclone copying and deleting file by file, `ScanAndIndex` and `DropVanished` what the run makes of it. |
| `Filters` | `sources/filters.py` | No steps: `Scanned` is `path_matches`, `Fetched` what rclone makes of `rclone_filter_args`. Matching is a recursive function over the positions of a pattern: from where in the path the rest of it matches. `Readings` are the patterns without groups that rclone takes one for, `RcloneRefuses` those it ends over, `Directory` those with a `/` at the end. |
| `Chunking` | `chunk/` | The four chunkers as loops over blocks of words or rows: `PackParagraph`, `WindowParagraph`, `PackSlide`, `KeepSection`, `WindowSection`, `GroupRows`, and `Return` for what follows the loop. A chunk is a range of words and the heading it repeats. |
| `StartupCatchUp` | `scheduler/startup.py`, the triggers and the thread pool of `scheduler/aps.py`, `_cron_execute`, pause and resume for one job | `firing` is the next firing and lives as long as the process, `pending` one that waits for a thread. `Boot` makes the trigger anew and may begin a catch-up run. `ComeDue` is the scheduler's round, `MissFiring` a firing later than `misfire_grace`, `SkipFiring` one that finds the job paused or its lock held, `FireTrigger` one that runs. `RunByHand`, `EndRun`, `Pause`, `Resume` and `Halt` are what they say, `ForgetRuns` takes the row with the last success. |
| `OrphanDeletion` | `delete_orphan` in `engine/service.py` | `recorded` and `stored` are the rows and points of one job. `CheckCatalog`, `ListCollections`, `DeletePoints` or `DeletePointsFails` and `DeleteRows` are the request; `Rewrite`, `Upsert` and `Commit` a run that goes on; `ReloadJobs` and `ReloadConnections` the catalog and the registry. |
| `PartsTypes` | | The types of the parts of the second group that keep a lock, a bucket or a table. |
| `MCParts` | | The second group side by side, for TLC. |

`MC...` modules hold constants for TLC (histories of files, versions of a catalog,
patterns), `..._proofs` modules the TLAPS proofs: `RunLocks_proofs` (with the
refinement), `GenerationSweep_proofs`, `JobRunner_proofs`, `RunService_proofs`,
`RunHistory_proofs`, `EmbedLimiter_proofs`, `Chunking_proofs`, and `Parts_proofs`
for the secret store, the key cache, the reloads, the startup catch-up, the deletion of
orphans, the rules of the catalog, the syncs and the filters.

`GenerationSweep` is composed with `RunLocks` by extension: each of its actions
is an action of the lock manager together with what it does to the points, and
`LockRefinement` in `GenerationSweep_proofs` shows that nothing else happens to
the locks. `JobRunner` and `RunService` stand each on one result of the layer
below: `JobRunner` has one run at a time because `JobRunsSerialised` holds and no
foreign run touches the job's points because `OtherJobsUntouched` holds (a forced
collection-scope run of a sibling is the exception, and drops everything);
`RunService` keeps of `execute` only that it ends, which is `EveryRunEnds`.
`CatalogReload` takes the verdict on a catalog for given, which is `CatalogRules`;
`SourceSync` takes from `JobRunner` what a run that deletes does to rows, and
`RunHistory` from `RunLocks` that one run of a job goes on at a time.

A name is that of the function or field in the code where there is one. Where a
module is extended together with others its operators are prefixed (`RL`, `GS`,
`JR`, `RS`, `CR`, `CL`, `SS`, `EL`, `RH`, `OK`, `SY`, `FI`, `CH`, `SU`, `OD`)
for `Init`, `Next`, `Spec` and `TypeOK`, and have names of their own otherwise.

Each module also has a few operators marked *Slip*. They are a plausible mistake
in the operation they stand next to (a lock that ignores its readers, a sweep
that forgets its job filter, a row saved before the points). No specification
uses them. Substituted for the operation they make TLC violate one property
each, which shows that the property depends on the code and not on the shape of
the model; the table of substitutions is `mutants` in `PROJECT.json`.

## What the runs check

All commands are of the form `tlc -config X.cfg M`.

### Runs that pass

**`locks`** (`MCRunLocks`, `RunLocks_locks.cfg`). Three threads, three jobs, one
collection, full and upsert runs, crashes at any time. 193,244 states.

- `JobRunsSerialised`, `FullRunsExclusive`: mutual exclusion.
- `LocksMatchHolders`: the counters and booleans are the runs that hold them; no
  exit of `execute` leaks a lock or releases one it does not hold.
- `ImplementsCollectionAccess`: the refinement.
- `EveryRunEnds`: who has claimed the job gives it back.

Three threads are what the interesting cases need: one writer waiting while two
readers take turns (a writer can starve, and only the timeout ends its wait).
One collection suffices because locks of different collections share no state;
the proofs have any number.

**`sweep`** (`MCGenerationSweep`, `GenerationSweep_sweep.cfg`). Two jobs with two
documents each share a collection, in every mode and scope, with one reload of
the catalog. Two documents, so that a run can have written one and not the other
when somebody sweeps.

- `WrittenPointsSurvive`: nobody takes a point that a run still at work wrote.
- `SweptScopeIsPure`: after its sweep a full run leaves its own generation only.
- `OtherJobsUntouched`: only a full run of collection scope touches other jobs.

**`runner_fresh`** (`MCJobRunner`, `JobRunner_fresh.cfg`). One document, of one of two
kinds. A file goes through seven versions: written, touched, saved with the same text,
shortened, removed, back unreadable, grown too large; with two sets of job
parameters and one loss of the state volume. Or a message with two attachments goes
through three: one attachment is rewritten and the other removed, then that one comes
back and the first is blank. The document may change, and skip versions, between any two
calls of a run, and the run may end after any call; all modes and options. The action
constraint `OneHistory` keeps the two histories apart, and leaves parameters and
losses to the first. 1.29 million states.

- `IndexedRowsTruthful`: a file that would be skipped as indexed has exactly the
  points its row speaks of.
- `CaughtUp`: after a clean, undisturbed run tree, rows and points agree.
- `AttachmentsFollowFile`: once a message is re-indexed with its attachments,
  their rows and points are the current ones.

**`runner_vanish`** (`JobRunner_vanish.cfg`). Two files that shrink and vanish, both scopes,
the facet limited to one source. 3.7 million states.

- `SourceIsWhole`: a source never mixes chunks of two texts or two generations.
- `UpsertDropsOnlyVanished`: an upsert run gives up a row only after its points,
  only if the file was missing from a scan that found something, or if it is an
  attachment the file no longer has.
- `DryRunTouchesNothing`.

**`service_drain`** (`MCRunService`, `RunService_drain.cfg`). Three threads, two
requests at a time, a schedule. Three threads give a run at work, a cron
firing and a follow-up at once; two requests race for the queue.
Deadlock is not checked, because the process does stop after a shutdown.

- `LockHasOneOwner`: triggers, firings and follow-ups never own the job lock
  together, and it is held only while somebody does.
- `AbortEndsManualRun`, `ShutdownDrains`: liveness.

**`parts`** (`MCParts`, `MCParts_parts.cfg`). The eleven modules of the second group. In
each behaviour one of them moves and the others stay as they begin: they share no
variable, so nothing is lost by not interleaving them, and the states add up instead of
multiplying. 1,017,407 states. Deadlock is not checked: bounded histories end.

| Part | Instance | Properties |
|---|---|---|
| `CatalogReload` | two jobs, two versions of each of the three files, one request at a time beside the poll. In the first catalog one job is in an unknown time zone, and is left out until its secret is stored, beside one that is scheduled. The second catalog drops the former and reschedules the latter on a connection that may not be there yet | `ScheduleFollowsCatalog`, `PausedTriggersRest`, `LostConnectionIsReported`, `UnchangedScheduleKeepsTrigger`, `ReloadsCatchUp` (liveness) |
| `CatalogRules` | all files of up to three of thirteen jobs, which differ in every field a rule compares | `AcceptedJobsRunTogether` |
| `SecretStore` | two lookups, five versions of the file: none, one secret, a new value beside one that cannot be decrypted, no YAML, another key | `LookupsAreFresh` |
| `EmbedLimiter` | three threads, two of them in slots, two batches each, half a token a tick, a bucket of two tokens, one retry; three ticks of history | `RateIsKept`, `BatchesCatchUp` (liveness) |
| `RunHistory` | two jobs, three runs, two instants, a limit of one | `RunningRowsAreLive`, `EndsAreFinal` |
| `OidcKeys` | two requests, two key sets with nothing in common, lifetime 2, timeout 1 | `WithdrawnKeysExpire`, `RejectedKeyWasMissing` |
| `SourceSync` | one job, three paths, so that one of two and two of three may vanish at a guard of 50 %, two changes of the source | `DroppedOnlyIfGone` |
| `Filters` | includes and excludes are none, one of 38 patterns or one of two lists of two, all paths of up to four characters over `d x /` and `d/d/x`. Six of the patterns are of rclone's dialect only: `{d,x}`, `d/[dx]`, `{x`, `d/`, `***` and the empty one | `PlainPatternsAgree` |
| `Chunking` | all texts of up to three blocks with headings of 0 to 2 and bodies of 0 to 3 words, budgets of 1 to 3, every overlap | `NothingLost`, `ChunksFit` |
| `StartupCatchUp` | an interval of three ticks, cron instants 1 or 3 ticks apart (0, 1, 4, 7, 8, 9, 12...), a grace of one tick, nine ticks, every policy and both kinds of trigger | `RestartsDoNotStarve` |
| `OrphanDeletion` | two documents, two requests | `RowsGoLast` |

- `ScheduleFollowsCatalog`: nothing fires that the catalog in force does not schedule; and
  if a trigger can be built for each of its schedules, the scheduler has exactly its
  jobs, with their present definitions and schedules, whatever reloads overtook each other
  or raised before. The first half is all that is left when a time zone is unknown:
  `ApplyRaises` leaves any part of the new jobs unscheduled or on their old schedules.
- `PausedTriggersRest`: once nothing is under way, a trigger is paused only if its job is; and
  one of a paused job fires only if a reload has raised, in the diff or in the loop, before it
  paused the job again. Set aside are pauses and resumes that crossed each other or a loop.
- `LostConnectionIsReported`: a job in force whose connection is gone is reported, unless a
  reload was overtaken or raised.
- `UnchangedScheduleKeepsTrigger`: a reload that finds the schedule of a job unchanged
  leaves its trigger where it is. An interval that has begun to count (`counted`) does not
  start over, and no paused trigger is resumed.
- `ReloadsCatchUp`: an edit is read in the end. The ways to miss one are named in the
  property: an edit between the reading of a reload and the stat after it, an older reading
  applied over a newer one, the polling thread dead of an exception, a start that never
  completes because it raises each time. `mishaps` and `pc` record them, and the
  model reaches each: the property says there is no fifth.
- `AcceptedJobsRunTogether`: each rule compares with the first claim only, which may be
  that of a job that is left out; what is left never conflicts all the same.
- `LookupsAreFresh`, `WithdrawnKeysExpire`, `RejectedKeyWasMissing`: what a cache answers
  was true at some moment of the call, or is no older than it may be.
- `RateIsKept`: over any stretch, no more batches than the bucket holds and the stretch
  refills. `BatchesCatchUp`: no path through a slot keeps it.
- `RunningRowsAreLive`: the rows that say "running" are those of the runs at work, and of
  those whose end could not be written in this life of the process.
- `DroppedOnlyIfGone`: a run that has synchronised gives up only what was missing
  from the source at some moment of that run.
- `PlainPatternsAgree`: without an inner `**/`, and without what only rclone gives a meaning to
  (`{a,b}`, `[ab]`, `***`, a `/` at the end, an empty segment or pattern), the scan and rclone
  mean the same files. The patterns it excepts are among the instance's, and for each of
  them the two sets differ.
- `NothingLost`: no word or row between two chunks, in reading order. `ChunksFit`: a
  chunk keeps to the budget and is as full as it may be, and one that begins inside a
  block has the heading, and as much overlap as the heading leaves room for.
- `RestartsDoNotStarve`: a job that waits for its next firing, neither running nor paused nor
  with a firing due, had its last turn at most two and a half of its longest intervals
  ago. A turn is the end of a run, a firing given up as too late, or a resume that ended a
  pause or passed over a firing that was due. The code does not promise more: a firing
  may wait for the pool for any time, a run may take any time, a skipped firing is one of a
  job that runs or is paused. What restarts alone could do is what the bound excludes.
- `RowsGoLast`: the rows of a removed job go after its points, so that a deletion that
  failed can be repeated; not so when its connection did not resolve, or a run of the
  job wrote meanwhile.

### Bounds

Runs, crashes, requests, restarts and, in the limiter, time are unbounded. Bounded are the
histories that others write: `Last` versions of a file, `LastParams`, `StateLosses`,
`MaxReloads`, `LastVersion` of a configuration file, `LastSecrets`, `LastKeySet`,
`LastChange` of a source, `RunIds`, `Batches`, and the clock of the catch-up
(`LastInstant`, three of its intervals). The hazards are about
what lies between a reading and its use, and two versions are enough for a reading to be
old; three where a new value can hide an old one. `RunIds` is three because a limit of
one is passed by the second run of a job and the third must survive. `Window` is
the time after which `calls` forgets: a violation of the rate within a longer stretch
that shows in none of its shorter ones is what the proof excludes.

### Fairness

- `RLFairSpec`: weak fairness of what a thread in the middle of a run does.
  Nothing it waits for is unbounded: the collection lock is acquired with
  `lock_timeout` (`locks.py:40-57`), and the HTTP, subprocess and database calls
  of a run have timeouts. Starting a run is not fair, nor is a crash.
- `RSFairSpec`: weak fairness of a thread's own steps and of an answer that is
  under way. *Not* fair are the start of a document and the end of the file list
  (`Finish`), so that `AbortEndsManualRun` and `ShutdownDrains` hold for a
  run with documents without end: it is the abort check that ends it.
- `RSFiniteSpec`, used by `service_queue` only, adds that every run ends. The
  counterexample is thus not one of a run that never ends.
- `CRFairSpec`: weak fairness of the poll, which wakes every
  `jobs_reload_interval` seconds and waits for nothing, and of a reload a request has
  begun. Strong fairness of the poll's own reload, because it needs `_config_lock`, which
  requests take and give back again and again; a Python lock that is free again
  and again is got in the end. Edits and requests are not fair.
- `ELFairness`: weak fairness of time and strong fairness of each thread, whose
  next step needs the semaphore or a token that others may take first; each holds
  them for a bounded time (the call has a timeout and a bounded number of
  attempts). In `MCParts` the same conditions are restricted to the part that moves.

## Divergences

Six runs end in a violation: TLC shows a behaviour of the code that a document or
comment of the repository excludes. The quotations are in `findings`.

| Run | The code | The text |
|---|---|---|
| `sweep_siblings` | The siblings are computed before the wait for the collection lock (`service.py:411`). A job that a reload adds meanwhile loses its freshly indexed points to an unforced recreate. | `docs/modes.md:25` |
| `runner_recreate` | After a crash between `recreate_collection` and the deletion of the rows, every file is skipped and none is in the collection (`runner.py:196`). | `docs/modes.md:45` |
| `runner_mail` | The row of a message is committed before its attachments are indexed; a failure in between loses the attachments (`runner.py:552`). | `docs/operations.md:118` |
| `service_queue` | The queue is looked at when a manual run ends, and then only. An entry behind a scheduled run, or made a moment late, stays there (`service.py:379`). | `docs/modes.md:167-168` |
| `sync_label` | The directory of a sync is named after the label, and labels are unique per collection only: two jobs of different collections delete, scan and index each other's files (`rclone.py:272`). | `README.md:60` |
| `filter_patterns` | The scan lets every `**/` match nothing, rclone only the leading one: of `d/**/x` the file `d/x` is never fetched (`filters.py:72`). | `filters.py:3-5` |

### Known divergences

These follow from the same models or from reading the code. They have no run.

Runs and rows:

- a vector-count mismatch commits a `failed_embed` row with the new stat, which
  stage 1 skips from then on (`runner.py:495`; `runner.py:5-7`);
- a run killed after `delete_by_source`, and the file put back to its old bytes:
  stage 2 accepts the old row (`runner.py:513`, `docs/operations.md:125`);
- `append` rewrites documents beyond the facet's limit (`runner.py:217`, `docs/modes.md:73`);
- `append` skips a changed file whose extraction has failed before
  (`runner.py:233`, `docs/modes.md:151`);
- a job that is pointed at another collection keeps its rows: `job_params_sha`
  (`modes.py:39-58`) does not contain the target, so every file is skipped and the new
  collection stays empty until a forced run. `JobRunner` has one collection, and
  `IndexedRowsTruthful` says nothing of such an edit;
- the guard's ratio is one of sources, not of files: attachments that a re-indexed or failing
  file no longer reports count as missing beside those of vanished files (`guards.py:36`). The
  ratio is not in `JobRunner`, and `runner_vanish` has no attachments: what it checks of
  the guard is the empty tree;
- runs with `skip_sync` scan what earlier failing syncs left; over several of them more
  files may be given up than the guard allows one run (`rclone.py:226`).

Engine and history:

- a refused trigger is told about no run while the active one waits for the
  collection lock (`locks.py:121`, `docs/modes.md:165-167`);
- a scheduled run asks about the shutdown only; its abort is answered with 202 and
  ignored (`service.py:451`, `README.md:246`);
- a follow-up that loses the race for the job lock is dropped
  (`service.py:423`, `docs/modes.md:167-168`);
- `schedule.timezone` is checked nowhere (`_validate_schedule`, `loader.py:83-90`, parses the
  cron without it and skips `every`; the schema takes any string), nor is whether an `every` or a
  `misfire_grace` is one APScheduler accepts. `build_trigger` or `add_job` (`aps.py:105-116`) then
  raises inside `reload_config`, after `_jobs` was replaced (`service.py:175`): removed jobs are
  gone, some of the others scheduled, no paused job is paused again (180-181), the verdict is
  not recorded (182). A request answers 500; `_poll_config` (196-229) has no `try`, so its
  thread is gone and later edits are not read; the next start raises and the service does not
  come up. The texts have a job with an error reported and the rest left alone
  (`docs/jobs-yaml.md:23-26`, `docs/operations.md:129`, `README.md:223-226`);
- `orphan_summary` (`service.py:185`), which only logs, ends the polling thread in the same
  way when the database raises, and a paused set that changes under the loop does too;
- a firing is dropped when the job is paused or its lock is held (`service.py:459-463`), or
  when the two threads of the pool come to it later than `misfire_grace`
  (`aps.py:55-62`): nothing but the next firing, or a start, makes up for it;
- `POST /config/reload` does not read `connections.yaml`; the next poll does
  (`rest.py:211`, `docs/connections.md:8-9`);
- rows of runs that timed out on a lock are pruned at the end of a later run only;
  pruning or a deletion may take a job's last success, after which the next
  start runs it (`db.py:426`);
- a nightly window that was slept through is caught up only when the last success is more
  than 36 hours old by then, and a dry run counts as a success
  (`startup.py:66`, `docs/jobs-yaml.md:166-168`);
- a job put back into `jobs.yaml` after `delete_orphan` has checked loses its points and
  rows, and a run that goes on may commit a row between the two deletions, which
  then claims points that are gone (`service.py:632`);
- points that have no row are never listed as an orphan's, as the list is made of rows
  (`db.py:291`, `docs/operations.md:136-139`).

Data:

- the retries of a batch go on inside its slot without taking tokens: the limiter paces
  batches, not requests (`client.py:84`, `limiter.py:3-7`);
- the two secrets of a remote are looked up one after the other and may be of two versions;
- an oversized markdown section that is only a heading is in no chunk when another
  section has one (`markdown.py:47-54`); slides are merged up to the budget
  (`slide.py:1-3`), `docs/operations.md:101` has "one chunk per slide";
- braces, brackets, a trailing slash, three stars and an empty pattern are passed on to rclone
  as they are (`filters.py:71-76`), which reads them as an alternation, a class, a directory
  with all there is in it, an error and nothing; the scan's regex escapes the characters
  (`filters.py:41`) and knows no directories. `include: ["*.{a,b}"]` fetches files that are
  never scanned, `exclude: ["d/"]` leaves out files that are expected (`filters.py:3-5`). Hence
  `Simple` in `PlainPatternsAgree`;
- a pattern with an empty segment is read differently by its two readers: the file `x` is
  matched by `//x` in the scan and not by rclone, by `**//x` the other way round
  (`filters.py:21` strips every leading slash, `filters.py:72-76` one prefix or none;
  `filters.py:3-5`);
- a scanned PDF that yields no text loses its embedded attachments as well
  (`extract/router.py`).

## What is proved

The proofs hold for any number of threads, jobs, collections, documents and
reloads, and texts of any length. They assume the named assumptions of the modules:
the constants are sets of the stated kind, the special values (`NoTask`, `Past`,
`NoPoint`...) are none of the ordinary ones, and the set of threads is finite, which
the cardinality of the readers needs. Three properties are proved under premises besides:
`RowsAreTruthful` and `RunsCatchUp` (with the invariant behind them) on the histories and
the scopes, and `SyncedDropsAreGone` on the labels. Each premise is one that the code does not enforce, and without which it
goes wrong: a divergence or a known divergence of the section above shows how.

**`RunLocks_proofs`.** The inductive invariant is

    RLInv == RLTypeOK /\ JobRunsSerialised /\ FullRunsExclusive /\ LocksMatchHolders

Neither exclusion property is inductive alone. The code decides by its counters, not by
who holds what, so `FullRunsExclusive` needs `LocksMatchHolders` to turn "the
counter is zero" into "there is no reader"; `LocksMatchHolders` in turn
needs the two exclusions, or the release of one writer would free the lock of
another. `CollectionStep` and `JobStep` are the two halves of the step, one for
each lock.

`LocksImplementAccess` is the refinement: an `Acquire` is an `Enter` or `EnterAlone`, a `ReleaseCollection` is a `Leave`, a
`Restart` empties everything, and every other action leaves the holders as they are.
It uses `RLInv` at each step.

**`GenerationSweep_proofs`.** `LockRefinement` gives every step of the sweep model
as a step of the lock manager, so that the lock invariant is inherited rather than
proved again. `GSInv` adds the type and that a run writes only while it holds its
collection (`DataWhileHolding`). The heart is `OthersPointsStay`: a run that
writes or deletes under the shared lock touches its own job's points only, and
one that deletes more is alone. From it follow

- `ForeignSweepsSpareRuns`: `WrittenPointsSurvive`,
- `SweepLeavesOwnGeneration`: `SweptScopeIsPure`,
- `JobsKeepApart`: the action property `OtherJobsUntouched`.

`SweepImplementsAccess` takes the refinement of the locks along: the whole composition,
with recreates, sweeps, crashes and reloads, still implements `CollectionAccess`.

**`JobRunner_proofs`.** For any set of files and attachments, any history of
versions and any options. The inductive invariant is

    JRInv == JRTypeOK /\ RunInv /\ DocInv /\ SeenInv /\ GoneFirst /\ SourceIsWhole

`SourceIsWhole` alone says nothing of the moment before an upsert: `GoneFirst` adds
that the points of the document at hand are gone by then, so that replacing points by
number replaces all of them. `DocInv` says which document that is (one of a scanned
file the run is not through with, and in `stale` and `vanishrow` one whose row may
go), `RunInv` which mode and options lead to which call, and `SeenInv` that the
seen sources are those of the scanned files the run is through with. From it follow

- `SourcesStayWhole`: `SourceIsWhole`,
- `DryRunsTouchNothing`: the action property `DryRunTouchesNothing`, by `RunInv`
  (a dry run is never at a call that writes),
- `UpsertsDropOnlyVanished`: the action property `UpsertDropsOnlyVanished`. Points
  gone before the row is `GoneFirst`; that a vanished file was not in the scan
  is `SeenInv` with nothing left to do.

The steps of the proof are grouped as the code is: a file that is passed over
(`Passed`), a call on the document at hand (`Working`), and the phases around them.
`NoRow \notin Row` is an assumption the proof of the last theorem needs: a row that
is written is a row.

`AttachmentsFollow` (`AttachmentsFollowFile`) needs little more: `AttachInv` says of
the attachments the loop is through with what `Kept` says of each, and `RunPlace`
that the points an upsert wrote are there when the row is saved.

Truthful rows need to know *when* the parts of a row were read. A row is made of a stat, a
hash and a text that are taken in this order, each from whatever version the file had then
(`ReadInOrder`), none of them newer than what the run can have seen (`VersionBound`,
`ParamBound`). `Alive` says that a row may yet let its file be passed over, at the version the
file has or at a later one, by any of the three stages. The invariant is

    HistoryInv == JRInv /\ PlaceInv /\ WrittenInv /\ HistInv

- `HistInv`: a row that is alive under the job's parameters has its points (`RowTruthful`);
  and while a document is being replaced, its old row is dead (`Dead`, in `ReadingInv`). This
  is the crux: the points go first and the row is rewritten last, and a run that is cut
  short between the two leaves the old row behind, which is harmless only because
  no stage will ever accept it. `ReadingKills` and `GoneKills` prove that: the
  run came as far as this because it read bytes and a text other than the row's,
  and what was replaced does not come back (`NothingReturns`).
- `WrittenInv`: a file the run has decided about has the row of what it read
  (`UpToDate`), points of "this" generation are only those of files of the scan
  (`OldPoints`), and a full run finds no row and what it indexes outlives its sweep
  (`FullWrites`).
- `PlaceInv`: what the run goes by is what was there when it began (`RunOptions`), and
  what has been done by the call it is at (`RunPlace`).

From it follow `RowsAreTruthful` (`IndexedRowsTruthful`) and `RunsCatchUp`
(`CaughtUp`). Both have two premises. `NothingReturns`: of two versions with the same
bytes, or the same text, those between them have them too; a file put back to its old
bytes after a killed run breaks the property (`runner.py:358`). `Scopes` without
"collection": a forced run drops the collection before the rows of it, and
`runner_recreate` is what comes of a crash between the two. `NothingReturns` is
true of the constants of `runner_fresh`, on which TLC checks the properties and has
checked each part of the invariant.

**`RunService_proofs`.** `RunServiceInvariant` is inductive as the type, the boolean of
the lock and its owner taken together; `OneOwnerOfTheJob` is `LockHasOneOwner`.

**`RunHistory_proofs`.** `RHInv` is the type, the two halves of `RunningRowsAreLive` and
`NoOrphanEvents`. Pruning is the hard step: that the row of a run at work is spared
follows from its being "running", which is `LiveRunIsListed`, and what stays of the events
from the rows that stay. `RunningRowsLive`, `EventsHaveRuns` (no event outlives its
row) and `EndsStay` (`EndsAreFinal`) follow.

**`EmbedLimiter_proofs`.** `RateIsKept` compares two calls and says nothing of the bucket.
`Budget` does: for every call still remembered, what has been let through since, and what is
left in the bucket with what will be refilled for the time elapsed, is at most a bucket and what
the time since refills. `RateHolds` is its consequence, for any number of threads, any
concurrency, rate, bucket and window.

**`Chunking_proofs`.** For texts of any length, blocks and headings of any size, and any
budget and overlap. `UnitsUpTo` is a recursive function, and that it satisfies its
equation is itself to be proved: by the least number at which it would not, as the
induction theorems of the library are out of reach. Windows are a function of the
window's number; that they cover the block, stay inside it and overlap as they should
(`Windows`) rests on a lemma on division (`WindowCount`).

- `NothingIsLost` (`NothingLost`), by `CHInv`: the property says already that each unit
  behind the loop is in a chunk, waits in the buffer, or is of a heading that is
  swallowed. To it come the types and `Behind`, that every chunk begins before what
  waits: without it the next flush could come out of reading order.
- `EveryChunkFits` (`ChunksFit`), by `FitInv`: the chunks so far fit (`AllFit`) and what
  waits will (`Waits`): it is a number of whole blocks, over the budget only as one slide,
  and the first of them is one that the chunk before had no room for. That last part is
  why no two neighbouring chunks of whole blocks could have been one; windows do not disturb
  it, as each of them is shorter than its block.

**`Parts_proofs`.**

- `LookupsFresh`: a signature that was taken is that of a version between the call and now, and
  what is filed under a signature is the content of that version or of a later one
  (`SeenFrom`, `CachedFrom`). That is what makes it harmless that the
  stat is taken before the lock.
- `WithdrawnExpire` and `RejectionJustified`: `CachedLate` ties the age of the cache to
  the time since its keys were withdrawn, `Seen` says of each request what was published
  since it came.
- `SchedulesFollow` (`ScheduleFollowsCatalog`): what one diff makes of each job (`DiffOfOne`), and
  what a diff that is cut short leaves of it (`HalfDiffFollows`): nothing outside the
  catalog, which is all that is claimed until a catalog without an unbuildable schedule
  is applied; then `DiffFollows` says that whatever was left over is put right, since a job
  is kept only if its trigger is that of its present schedule.
- `TriggersStay` (`UnchangedScheduleKeepsTrigger`): of each action, that it keeps `counted` where
  it keeps the trigger (`DiffKeeps`); only `TimePasses` and a new trigger change it, and only
  a resume that is under way ends a pause.
- `LostConnectionsShow` (`LostConnectionIsReported`): `LostInv` says that the catalog in
  force goes by the connections in force, unless the polling thread has replaced
  these and is on the way to a catalog that it will apply or refuse, or the last reload was
  refused, which is the report. As in the property, a reload that was overtaken by an older
  one or ended by an exception, wherever it was raised, is set aside (`mishaps`).
- `PausedRest` (`PausedTriggersRest`): a job whose trigger and paused flag differ is *on its
  way* (`Accounted`): some thread is at a step that will make them equal. An exception takes
  threads off their way, but never one that would resume a trigger, as that is not a
  reload's: it leaves the one direction, a paused job that fires, and records itself.
- `NoStarvation` (`RestartsDoNotStarve`): `SUInv` says that while the job has nothing pending, is
  not paused and does not run, the next firing, not the present moment, is at most
  two and a half intervals after the last turn. One of them comes from the trigger, the rest
  from the test at the start, and no success is newer than the last turn. A firing that
  is handed to the pool suspends the claim; each way in which it comes out of the pool
  restores it, by being a turn, by beginning a run, whose end is one, or by finding one that
  goes on or a pause, whose end is one.
- `RowsStayForRetry` (`RowsGoLast`): a request that nobody disturbed has found what is
  still there, and after its deletion of points there are no points or no rows.
- `AcceptedAgreeAlways` (`AcceptedJobsRunTogether`): a job that is accepted agrees with the
  first claim of its collection, and so do two of them with each other. That a first claim
  exists is the well-foundedness of positions, which makes it hold for a file of any length.
- `SyncedDropsAreGone` (`DroppedOnlyIfGone`): a path that is in none of the places where a
  sync leaves it was missing from the source (`Covered`): before the transfer it is to be
  copied or there already, and only what was missing is removed. It assumes
  `OwnDirectories`, that no two jobs have one label; without that it fails, which is what
  `sync_label` shows.
- `PartsTyped` (`PartsTypeOK`), from a theorem for each of the four parts. `ReloadTypes`: a
  reload that may apply a catalog has read a version of it, and a thread enters the
  loop under `_config_lock` only when no other is in it (`CRTypes`). `KeyCacheTypes`:
  the owner of `_jwks_lock` is just the request between its fetch and the answer
  or the failure (`OKLock`). `LimiterTypes`: an embedder that is in a batch has one left, and the
  bucket is never overdrawn (`ELTypes`). The types of the runs table are a part of `RHInv`.

- `PatternsAgree` (`PlainPatternsAgree`): for lists of any length, plain patterns and paths of any
  length, any characters. That rclone takes such a pattern as it stands, neither as a group nor as
  a directory, is `ReadAsItStands`, and that turning it into rclone's form does not change
  that is `SimpleStaysSimple`. `MatchedFrom` is a recursive function over the positions of a pattern, and
  that it is what its equation says is proved first, by induction from the end
  (`MatchedFromDefined`). `RestMatchesAlone` says that the rest of a pattern matches alone as it
  does after `**/`, which is why stripping the prefix is right for rclone, whose patterns
  may begin at any segment; `TwoReadings` concludes that both readers evaluate
  the same pattern and differ only in which `**/` may stand for nothing. In
  a plain pattern that is the same set. `FirstRuleDecides` is the order of the rules:
  the least rule that applies is an exclude, an include or the last, as `path_matches`
  would have it.
- `InnerPatternsOneWay` (`NarrowerFetch`): where an inner `**/` of otherwise simple patterns makes
  the two sets differ, it is in one direction.
  What may stand for nothing at more places matches more (`MoreCrossedMoreMatched`), so an
  inner `**/` of an include costs files at the fetch, one of an exclude fetches files that
  the scan ignores, never the reverse. No run keeps this one.

Model-checked only: all liveness, which depends on fairness, and the divergences. Every
invariant and action property of a passing run is a theorem.

## Modelling decisions

- **Versions of a file.** A version is the pair (size, mtime), and no two have the
  same one: that is the bet of stage 1, and the model makes it as well. Versions
  only go forward. Two versions may have equal bytes and two contents equal text, which is
  what stages 2 and 3 are for. In the histories of the passing runs an edit
  does not return to bytes that another edit replaced: that case is among the known
  divergences above.
- **Reads at their own time.** The scan takes the stats at once, the hash reads the
  file later and the extraction later still, and the file may change before each.
- **Every run may end after any call.** `Abandon` stands for an exception, a crash, an
  abort and a failed synchronisation alike; they differ in the status of the run's
  row, which no property of `JobRunner` looks at.
- **Sources.** A source is a file, or a file and the name of an attachment. In the code it is a
  string with a `!` in between, so that a file with a `!` in its own name can be
  taken for an attachment, and two attachments of one name are one document. The model
  has neither; both are listed as hazards.
- **Chunks.** A text is a number of chunks, and a point is its number, text, parameters
  and generation. Upserting replaces points of equal number, as the uuid5 ids do.
- **Generations.** `ingest_run` is a uuid, and all a filter asks is whether it is the
  run's own. A generation is hence the run's slot (or "this") until the run is over,
  and "past" afterwards.
- **Transactions.** A method of the state store is one step: each is one SQLite
  transaction (`BEGIN IMMEDIATE`).
- **Qdrant** applies a call whole or not at all, and is read-your-writes (the writer
  waits for each); a document is upserted in one call.
- **Stat and content.** In `CatalogReload` and `SecretStore` the stat and the content of a
  file are functions of its version; writers rename a new file over the old one, so that
  no reader sees half of one.
- **Awaits.** The key cache runs on one event loop: a step of `OidcKeys` is what lies
  between two awaits. The secret store is used by threads, and a step is what lies between
  two system calls.
- **Time.** The limiter and the key cache count ticks since an event, up to a horizon
  beyond which nothing depends on them; the catch-up counts ticks from a
  beginning, and a tick may pass at any moment: the scheduler may be late for a firing, and a firing
  may wait for a thread of the pool beyond `misfire_grace`. Of an interval's timer a reload
  sees in `CatalogReload` only whether it has counted. Jitter is left out. The timeout of
  httpx bounds each phase and each read of a request (`oidc.py:125`), not the whole of it; `Timeout`
  of `OidcKeys` bounds the whole, so that a provider that answers byte by byte may hold
  up a key for longer than `WithdrawnKeysExpire` says. A limiter whose rate is not positive never waits for a
  token and is not modelled.
- **Exceptions** of a reload are those of the diff, of the loop over a set that changes, and of
  `orphan_summary` (`Ends`); the loader turns its own into problems of a catalog.
- **Groups** in a pattern are not nested and hold no star beside one outside; a class
  is of plain characters, each written out, without `^` and ranges.
- **rclone** lists both sides, then copies and deletes in any order, stops with an error
  after `--max-delete` deletions, and may fail or be killed between any two of them.
- **Problems of one job** (schema, cron, secrets, paths) are one flag in
  `CatalogRules`; in `CatalogReload` a job may need a connection and a secret that are there
  or not, and be faulty by itself.

## What is not modelled

- **Read-only views**: health, dependency probes, documents, preview, the summaries and
  metrics, and the MCP tools over them. They change nothing.
- **Field validation** by pydantic (`catalog/schema.py`, `connections/schema.py`) and
  `config.py`: declarative, one flag of a job.
- **Formats and media types** (`extract/`): they decide only which outcome extraction has.
  What splits a text into blocks is in the same sense left to the instance of `Chunking`.
- **Cryptography and token validation**: a secret can be decrypted or not, a token names a
  key that is published or not.
- **The checks of `ensure_collection`** (dimension, distance, model) and the payload
  indexes: they refuse a run before it has written anything.
- **Migrations** of the state database, which run once, before anything else does.
- **Retries inside HTTP clients** other than that of the embeddings: they end in a success
  or an error, which the models have.
- **Progress reports, counters, logging, wording.**
- **Source strings.** Files with a `!` in their names, and attachments of equal names.

## Plan

Done: the locks, the sweep, the runner and the service with their proofs; the eleven parts
around them, with proofs of every safety property the runs check of them. What would
add most from here:

1. A run of `JobRunner` with a restored file and one with source strings, for the hazards
   at `runner.py:513` and `runner.py:649`.
2. The composition of `OrphanDeletion` with `JobRunner`: what a returned job makes of
   rows and points that a deletion took from under it.
3. Runs of their own for the known divergences of the engine.
