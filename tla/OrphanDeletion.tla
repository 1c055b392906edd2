--------------------------- MODULE OrphanDeletion ---------------------------
(***************************************************************************)
(* DELETE /v1/orphans/{job_id} (src/src/engine/service.py) while the job   *)
(* leaves the catalog and returns, runs of it go on, and its connection    *)
(* comes and goes.  The job's documents have a row, points, or both.       *)
(***************************************************************************)
EXTENDS Integers

CONSTANTS OrphanDocs,  \* the documents of the job
          Cleaners     \* the requests that delete it

VARIABLES listed,    \* the job is in the catalog
          resolves,  \* its connection is among those of the registry
          recorded,  \* the documents with a row
          stored,    \* the documents with points
          indexer,   \* what a run of the job does next, and to which document
          clean      \* what each request does next, and what it has read

odVars == <<listed, resolves, recorded, stored, indexer, clean>>

Idle == [step |-> "idle", found |-> FALSE, reaches |-> TRUE, alone |-> TRUE]
\* What a request takes from the rows and the registry.
Found == [step |-> "points", found |-> recorded # {}, reaches |-> resolves, alone |-> TRUE]
\* A run has written: the deletions under way are not alone any more.
Disturbed == [c \in Cleaners |-> [clean[c] EXCEPT !.alone = FALSE]]

-----------------------------------------------------------------------------
ODInit ==
    /\ listed \in BOOLEAN /\ resolves = TRUE
    /\ recorded = OrphanDocs /\ stored = OrphanDocs
    /\ indexer = [step |-> "idle", docs |-> {}]
    /\ clean = [c \in Cleaners |-> Idle]

ReloadJobs == listed' = ~listed
              /\ UNCHANGED <<resolves, recorded, stored, indexer, clean>>
ReloadConnections == resolves' = ~resolves
                     /\ UNCHANGED <<listed, recorded, stored, indexer, clean>>

(* A run of the job: started while it is in the catalog, it outlives it.   *)
BeginIndexing ==
    /\ indexer.step = "idle" /\ listed
    /\ indexer' = [step |-> "next", docs |-> {}]
    /\ UNCHANGED <<listed, resolves, recorded, stored, clean>>

Rewrite(d) ==
    /\ indexer.step = "next"
    /\ stored' = stored \ {d}
    /\ indexer' = [step |-> "upsert", docs |-> {d}]
    /\ clean' = Disturbed
    /\ UNCHANGED <<listed, resolves, recorded>>

Upsert ==
    /\ indexer.step = "upsert"
    /\ stored' = stored \cup indexer.docs
    /\ indexer' = [indexer EXCEPT !.step = "commit"]
    /\ clean' = Disturbed
    /\ UNCHANGED <<listed, resolves, recorded>>

Commit ==
    /\ indexer.step = "commit"
    /\ recorded' = recorded \cup indexer.docs
    /\ indexer' = [step |-> "next", docs |-> {}]
    /\ clean' = Disturbed
    /\ UNCHANGED <<listed, resolves, stored>>

\* It ends, or dies between two calls.
EndIndexing ==
    /\ indexer.step # "idle"
    /\ indexer' = [step |-> "idle", docs |-> {}]
    /\ UNCHANGED <<listed, resolves, recorded, stored, clean>>

-----------------------------------------------------------------------------
(* The request: 409 for a job in the catalog; then the collections its     *)
(* rows name, and the writers of the connections that resolve; the points; *)
(* the rows.                                                               *)
CheckCatalog(c) ==
    /\ clean[c].step = "idle" /\ ~listed
    /\ clean' = [clean EXCEPT ![c].step = "list"]
    /\ UNCHANGED <<listed, resolves, recorded, stored, indexer>>

\* Slip: the rows go as soon as they have been read.
ListAndForget(c) ==
    /\ clean[c].step = "list"
    /\ clean' = [clean EXCEPT ![c] = Found]
    /\ recorded' = {}
    /\ UNCHANGED <<listed, resolves, stored, indexer>>

ListCollections(c) ==
    /\ clean[c].step = "list"
    /\ clean' = [clean EXCEPT ![c] = Found]
    /\ UNCHANGED <<listed, resolves, recorded, stored, indexer>>

DeletePoints(c) ==
    /\ clean[c].step = "points"
    /\ stored' = IF clean[c].found /\ clean[c].reaches THEN {} ELSE stored
    /\ clean' = [clean EXCEPT ![c].step = "rows"]
    /\ UNCHANGED <<listed, resolves, recorded, indexer>>

\* Qdrant does not answer, or the connection has gone since; the collections
\* before that have been dealt with.
DeletePointsFails(c) ==
    /\ clean[c].step = "points"
    /\ stored' \in IF clean[c].found /\ clean[c].reaches THEN SUBSET stored ELSE {stored}
    /\ clean' = [clean EXCEPT ![c] = Idle]
    /\ UNCHANGED <<listed, resolves, recorded, indexer>>

DeleteRows(c) ==
    /\ clean[c].step = "rows"
    /\ recorded' = {}
    /\ clean' = [clean EXCEPT ![c] = Idle]
    /\ UNCHANGED <<listed, resolves, stored, indexer>>

Delete(c) == CheckCatalog(c) \/ ListCollections(c) \/ DeletePoints(c)
             \/ DeletePointsFails(c) \/ DeleteRows(c)

ODNext ==
    \/ ReloadJobs \/ ReloadConnections
    \/ BeginIndexing \/ Upsert \/ Commit \/ EndIndexing
    \/ \E d \in OrphanDocs : Rewrite(d)
    \/ \E c \in Cleaners : Delete(c)
ODSpec == ODInit /\ [][ODNext]_odVars

-----------------------------------------------------------------------------
(* The rows, by which alone the leftovers of a job are found, go only when *)
(* its points are gone: a deletion that fails halfway can be repeated.     *)
(* The exceptions are a connection that did not resolve and a run of the   *)
(* job that wrote meanwhile (service.py:636-650, docs/operations.md:143).  *)
RowsGoLast ==
    [][recorded # {} /\ recorded' = {} =>
        stored = {} \/ \E c \in Cleaners : clean[c].step = "rows"
                          /\ (~clean[c].reaches \/ ~clean[c].alone)]_odVars
=============================================================================
