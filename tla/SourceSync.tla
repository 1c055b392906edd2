----------------------------- MODULE SourceSync -----------------------------
(***************************************************************************)
(* From a remote source to the rows of a job: the sync of a run            *)
(* (src/src/sources/rclone.py), the scan of the directory it leaves        *)
(* (src/src/sources/local.py) and the rows a run that deletes gives up.    *)
(*                                                                         *)
(* The jobs serve different collections, so no lock keeps their runs       *)
(* apart.  rclone is a process of its own: it lists both sides, copies and *)
(* deletes in an order of its own, stops with an error after the allowed   *)
(* number of deletions, and may fail or be killed at any time.             *)
(***************************************************************************)
EXTENDS Integers, FiniteSets, FiniteSetsExt

CONSTANTS Syncers,     \* the jobs
          Paths,       \* the relative paths their sources may hold
          Label,       \* Label[j]: source.label, which names the directory
          DeletePct,   \* safety.max_delete_ratio, in percent
          SkipSync,    \* whether runs may be triggered with skip_sync
          LastChange   \* bound on the changes of the sources

ASSUME SourceSyncAssumption ==
    /\ DOMAIN Label = Syncers /\ DeletePct \in 0..100
    /\ SkipSync \in BOOLEAN /\ LastChange \in Nat

VARIABLES remote,   \* remote[j]: the files job j's source holds
          changes,  \* how often a source has changed
          dirs,     \* dirs[d][p]: whose source file p of directory d is from
          indexed,  \* indexed[j][p]: the same of the rows of job j
          sync,     \* sync[j]: the run of job j
          missed    \* missed[j]: paths not in the source at some time of it

syVars == <<remote, changes, dirs, indexed, sync, missed>>

NoSync == [at |-> "idle", limit |-> 0, copy |-> {}, delete |-> {},
           synced |-> FALSE, seen |-> {}]

\* cache_dir / label
Dest(j) == Label[j]
Landing(j) == dirs[Dest(j)]
At(j, where) == sync[j].at = where
Now(j, what) == sync' = [sync EXCEPT ![j] = what]
Placed(f, ps, j) == [p \in DOMAIN f \cup ps |-> IF p \in ps THEN j ELSE f[p]]
Less(f, ps) == [p \in DOMAIN f \ ps |-> f[p]]

SYInit ==
    /\ remote \in [Syncers -> SUBSET Paths] /\ changes = 0
    /\ dirs = [d \in {Label[j] : j \in Syncers} |-> <<>>]
    /\ indexed = [j \in Syncers |-> <<>>]
    /\ sync = [j \in Syncers |-> NoSync]
    /\ missed = [j \in Syncers |-> {}]

(* count_files of the directory decides what rclone may delete.            *)
DeleteLimit(n) ==
    IF n = 0 THEN Cardinality(Paths)
    ELSE Max({1, (DeletePct * n + 99) \div 100})

StartSync(j) ==
    /\ At(j, "idle")
    /\ Now(j, [NoSync EXCEPT !.at = "listing", !.synced = TRUE,
                             !.limit = DeleteLimit(Cardinality(DOMAIN Landing(j)))])
    /\ missed' = [missed EXCEPT ![j] = Paths \ remote[j]]
    /\ UNCHANGED <<remote, changes, dirs, indexed>>

\* A run with skip_sync scans what is there.
StartWithoutSync(j) ==
    /\ SkipSync /\ At(j, "idle")
    /\ Now(j, [NoSync EXCEPT !.at = "scan"])
    /\ missed' = [missed EXCEPT ![j] = Paths \ remote[j]]
    /\ UNCHANGED <<remote, changes, dirs, indexed>>

(* rclone: what differs between source and directory at the time it looks. *)
ListBoth(j) ==
    /\ At(j, "listing")
    /\ Now(j, [sync[j] EXCEPT !.at = "transfer",
                 !.copy = {p \in remote[j] : p \notin DOMAIN Landing(j)
                                             \/ Landing(j)[p] # j},
                 !.delete = DOMAIN Landing(j) \ remote[j]])
    /\ UNCHANGED <<remote, changes, dirs, indexed, missed>>

CopyFile(j, p) ==
    /\ At(j, "transfer") /\ p \in sync[j].copy /\ p \in remote[j]
    /\ dirs' = [dirs EXCEPT ![Dest(j)] = Placed(@, {p}, j)]
    /\ Now(j, [sync[j] EXCEPT !.copy = @ \ {p}])
    /\ UNCHANGED <<remote, changes, indexed, missed>>

RemoveFile(j, p) ==
    /\ At(j, "transfer") /\ p \in sync[j].delete /\ sync[j].limit > 0
    /\ dirs' = [dirs EXCEPT ![Dest(j)] = Less(@, {p})]
    /\ Now(j, [sync[j] EXCEPT !.delete = @ \ {p}, !.limit = @ - 1])
    /\ UNCHANGED <<remote, changes, indexed, missed>>

SyncOk(j) ==
    /\ At(j, "transfer") /\ sync[j].copy = {} /\ sync[j].delete = {}
    /\ Now(j, [sync[j] EXCEPT !.at = "scan"])
    /\ UNCHANGED <<remote, changes, dirs, indexed, missed>>

\* Slip: the result of the sync is not looked at.
SyncFailsUnseen(j) ==
    /\ sync[j].at \in {"listing", "transfer"}
    /\ Now(j, [sync[j] EXCEPT !.at = "scan"])
    /\ UNCHANGED <<remote, changes, dirs, indexed, missed>>

(* Another exit code than zero, no binary, the timeout: SyncResult.ok is   *)
(* false, and the run ends before the scan.                                *)
SyncFails(j) ==
    /\ sync[j].at \in {"listing", "transfer"}
    /\ Now(j, NoSync)
    /\ UNCHANGED <<remote, changes, dirs, indexed, missed>>

(* scan_tree, and the rows of what it found.                               *)
ScanAndIndex(j) ==
    /\ At(j, "scan")
    /\ indexed' = [indexed EXCEPT ![j] =
                     [p \in DOMAIN @ \cup DOMAIN Landing(j) |->
                        IF p \in DOMAIN Landing(j) THEN Landing(j)[p] ELSE @[p]]]
    /\ Now(j, [sync[j] EXCEPT !.at = "vanished", !.seen = DOMAIN Landing(j)])
    /\ UNCHANGED <<remote, changes, dirs, missed>>

(* The guards between a scan and the deletion of what it did not find.     *)
Guarded(j, vanished) ==
    \/ sync[j].seen = {}
    \/ 100 * Cardinality(vanished) > DeletePct * Cardinality(DOMAIN indexed[j])

DropVanished(j) ==
    LET vanished == DOMAIN indexed[j] \ sync[j].seen IN
    /\ At(j, "vanished")
    /\ indexed' = IF Guarded(j, vanished) THEN indexed
                  ELSE [indexed EXCEPT ![j] = Less(@, vanished)]
    /\ Now(j, NoSync)
    /\ UNCHANGED <<remote, changes, dirs, missed>>

-----------------------------------------------------------------------------
ChangeSource(j) ==
    /\ changes < LastChange
    /\ \E files \in SUBSET Paths \ {remote[j]} :
         /\ remote' = [remote EXCEPT ![j] = files]
         /\ missed' = [missed EXCEPT ![j] = @ \cup (Paths \ files)]
    /\ changes' = changes + 1
    /\ UNCHANGED <<dirs, indexed, sync>>

\* The cache volume is lost with the process: runs are over, directories empty.
LoseCache ==
    /\ dirs' = [d \in DOMAIN dirs |-> <<>>]
    /\ sync' = [j \in Syncers |-> NoSync]
    /\ UNCHANGED <<remote, changes, indexed, missed>>

SYNext ==
    \/ LoseCache
    \/ \E j \in Syncers :
         \/ StartSync(j) \/ StartWithoutSync(j) \/ ListBoth(j)
         \/ \E p \in Paths : CopyFile(j, p) \/ RemoveFile(j, p)
         \/ SyncOk(j) \/ SyncFails(j) \/ ScanAndIndex(j) \/ DropVanished(j)
         \/ ChangeSource(j)
SYSpec == SYInit /\ [][SYNext]_syVars

-----------------------------------------------------------------------------
(* A run that has synchronised gives up a document only when its file was  *)
(* missing from the source at some moment of that run: not because a       *)
(* transfer stopped half way, the cache was lost, or earlier syncs had     *)
(* deleted as much as they may (rclone.py:3-5 and 181-183;                 *)
(* docs/modes.md:137-139).                                                 *)
DroppedOnlyIfGone ==
    [][\A j \in Syncers : \A p \in DOMAIN indexed[j] :
          p \notin DOMAIN indexed'[j] /\ sync[j].synced => p \in missed[j]]_syVars

(* README.md:60: a sync "copies the source into a per-job cache            *)
(* directory".  It is named after the label, and jobs of different         *)
(* collections may have the same one: each deletes the other's files, and  *)
(* indexes those it finds there in its own collection.                     *)
OwnFilesOnly ==
    \A j \in Syncers : \A p \in DOMAIN indexed[j] : indexed[j][p] = j
=============================================================================
