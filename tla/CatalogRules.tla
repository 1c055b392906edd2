---------------------------- MODULE CatalogRules ----------------------------
(***************************************************************************)
(* The loader's verdict on the jobs of a jobs.yaml, one by one and against *)
(* each other (src/src/catalog/loader.py), and the jobs a start accepts of *)
(* a file that has problems.  CatalogReload takes that verdict for given.  *)
(*                                                                         *)
(* A job is what the rules tell apart; broken stands for the problems it   *)
(* has by itself: schema, cron, secrets, a local path outside the mount,   *)
(* an unknown connection, a system collection.  A broken job that is no    *)
(* valid JobConfig at all never meets the rules between jobs: schema is    *)
(* FALSE then.                                                             *)
(***************************************************************************)
EXTENDS Integers, Sequences

CONSTANTS JobMenu,      \* the jobs a file may list
          LongestList,  \* how many it may list at most
          NoModel       \* neither the job nor the defaults name a model

VARIABLE listing  \* the jobs of the file, in order
clVars == listing

Enabled == {i \in DOMAIN listing : listing[i].schema /\ listing[i].enabled}
Valid == {i \in DOMAIN listing : listing[i].schema}
SameCollection(i, k) == listing[i].collection = listing[k].collection

\* The job that claims the collection of job i first, of those in S.
FirstIn(S, i) ==
    CHOOSE k \in S : SameCollection(i, k) /\ \A n \in S : SameCollection(i, n) => k <= n

\* The ids of jobs with a problem of their own.
OwnProblems ==
    {listing[i].id : i \in {k \in DOMAIN listing :
        \/ listing[k].broken \/ ~listing[k].schema
        \/ listing[k].enabled /\ listing[k].model = NoModel}}

DuplicateIds ==
    {listing[i].id : i \in {k \in Valid : \E n \in Valid :
        n < k /\ listing[n].id = listing[k].id}}

DuplicateLabels ==
    {listing[i].id : i \in {k \in Enabled : \E n \in Enabled :
        n < k /\ SameCollection(n, k) /\ listing[n].label = listing[k].label}}

\* Slip: a job is compared with the one listed right before it.
ModelsOfNeighbours ==
    {listing[i].id : i \in {k \in Enabled :
        /\ k - 1 \in Enabled /\ SameCollection(k - 1, k)
        /\ listing[k - 1].model # listing[k].model}}

\* One model per collection, set by the first job that has one.
OtherModels ==
    LET modelled == {i \in Enabled : listing[i].model # NoModel} IN
    {listing[i].id : i \in {k \in modelled :
        listing[FirstIn(modelled, k)].model # listing[k].model}}

OtherConnections ==
    {listing[i].id : i \in {k \in Enabled :
        listing[FirstIn(Enabled, k)].connection # listing[k].connection}}

Problems == OwnProblems \cup DuplicateIds \cup DuplicateLabels
                        \cup OtherModels \cup OtherConnections

\* The jobs a start registers: those whose id no problem names.
AcceptedJobs == {i \in Valid : listing[i].id \notin Problems}

CLInit == listing = <<>>
List == /\ Len(listing) < LongestList
        /\ \E job \in JobMenu : listing' = Append(listing, job)
CLSpec == CLInit /\ [][List]_clVars

-----------------------------------------------------------------------------
\* What the locks, the registry and the collections rely on.
MayRunTogether(i, k) ==
    /\ listing[i].id # listing[k].id
    /\ listing[i].enabled /\ listing[k].enabled /\ SameCollection(i, k) =>
         /\ listing[i].label # listing[k].label
         /\ listing[i].model = listing[k].model
         /\ listing[i].connection = listing[k].connection

(* Whatever subset of a faulty file a start accepts, its jobs can run      *)
(* beside each other: ids are unique, and the enabled jobs of a collection *)
(* have different labels, one model and one connection, although each rule *)
(* compares with the first claim only, which may be that of a job that is  *)
(* dropped (loader.py:228-230, 369-374).  A file without any such conflict *)
(* is accepted as it is.                                                   *)
AcceptedJobsRunTogether ==
    /\ \A i, k \in AcceptedJobs : i # k => MayRunTogether(i, k)
    /\ (/\ OwnProblems = {} /\ Valid = DOMAIN listing
        /\ \A i, k \in DOMAIN listing : i # k => MayRunTogether(i, k))
       => AcceptedJobs = DOMAIN listing
=============================================================================
