-------------------------- MODULE RunLocks_proofs --------------------------
(***************************************************************************)
(* RunLocks is correct for every number of threads, jobs and collections.  *)
(* The inductive invariant RLInv says that the lock's boolean and counter  *)
(* are exactly the runs inside the collection and that the job lock is     *)
(* held exactly when a run of the job is between begin and release.  And   *)
(* the lock manager implements CollectionAccess: every step of RunLocks,   *)
(* seen on the holder sets, is a step of CollectionAccess or a stutter;    *)
(* RLInv ties the counters of the lock to those sets.                      *)
(***************************************************************************)
EXTENDS RunLocksRefinement, FiniteSetTheorems, TLAPS

\* The inductive invariant.
RLInv == RLTypeOK /\ JobRunsSerialised /\ FullRunsExclusive /\ LocksMatchHolders

(* The runs inside a collection are finitely many.                         *)
LEMMA HoldersFinite ==
    ASSUME NEW c \in Collections
    PROVE  /\ IsFiniteSet(SharedHolders(c))
           /\ Cardinality(SharedHolders(c)) \in Nat
           /\ Cardinality(SharedHolders(c)) = 0 <=> SharedHolders(c) = {}
<1>1. SharedHolders(c) \subseteq Slots BY DEF SharedHolders
<1>2. IsFiniteSet(SharedHolders(c)) BY <1>1, FS_Subset, RunLocksAssumption
<1> QED BY <1>2, FS_CardinalityType, FS_EmptySet

(* Nothing is held in the initial state.                                   *)
LEMMA RLInitInv == RLInit => RLInv
<1> SUFFICES ASSUME RLInit PROVE RLInv OBVIOUS
<1> USE DEF RLInit
<1>1. \A s \in Slots : ~InJob(s) /\ ~InCollection(s)
  BY DEF InJob, InCollection
<1>2. \A c \in Collections : SharedHolders(c) = {} /\ ExclusiveHolders(c) = {}
  BY <1>1 DEF SharedHolders, ExclusiveHolders
<1>3. RLTypeOK BY RunLocksAssumption DEF RLTypeOK, PCs, Tasks
<1>4. LocksMatchHolders
  BY <1>1, <1>2, FS_EmptySet DEF LocksMatchHolders, CountersMatch, JobLocksOwned
<1> QED BY <1>1, <1>3, <1>4
        DEF RLInv, JobRunsSerialised, FullRunsExclusive

(* A thread that is not idle has a task.                                   *)
LEMMA BusyHasTask ==
    ASSUME RLTypeOK, NEW s \in Slots, pc[s] # "idle"
    PROVE  /\ task[s] \in Tasks
           /\ task[s].job \in Jobs
           /\ task[s].coll \in Collections
<1>1. task[s] \in Tasks BY DEF RLTypeOK
<1> QED BY <1>1 DEF Tasks

(* Every step keeps the types.                                             *)
LEMMA RLTypeStep == RLTypeOK /\ [RLNext]_rlVars => RLTypeOK'
<1> SUFFICES ASSUME RLTypeOK, [RLNext]_rlVars PROVE RLTypeOK' OBVIOUS
<1> USE RunLocksAssumption DEF RLTypeOK, PCs, lockVars
<1>1. ASSUME NEW s \in Slots, Begin(s) PROVE RLTypeOK'
  BY <1>1 DEF Begin, Tasks
<1>2. ASSUME NEW s \in Slots, Refuse(s) PROVE RLTypeOK'
  BY <1>2 DEF Refuse, Tasks
<1>3. ASSUME NEW s \in Slots, NameActiveRun(s) PROVE RLTypeOK'
  <2>1. ActiveRunIds(task[s].job) \subseteq Slots \cup {NoRun, StuckRun}
    BY DEF ActiveRunIds, RunningRows
  <2> QED BY <1>3, <2>1 DEF NameActiveRun
<1>4. ASSUME NEW s \in Slots, Return(s) PROVE RLTypeOK'
  BY <1>4 DEF Return
<1>5. ASSUME NEW s \in Slots, Acquire(s) PROVE RLTypeOK'
  <2>1. task[s].coll \in Collections BY <1>5, BusyHasTask DEF Acquire
  <2>2. \A n \in Nat : n + 1 \in Nat OBVIOUS
  <2>3. readers' \in [Collections -> Nat] /\ writer' \in [Collections -> BOOLEAN]
    <3>1. CASE Exclusive(s) BY <1>5, <2>1, <3>1 DEF Acquire
    <3>2. CASE ~Exclusive(s) BY <1>5, <2>1, <2>2, <3>2 DEF Acquire
    <3> QED BY <3>1, <3>2
  <2> QED BY <1>5, <2>3 DEF Acquire
<1>6. ASSUME NEW s \in Slots, AcquireTimeout(s) PROVE RLTypeOK'
  BY <1>6 DEF AcquireTimeout
<1>7. ASSUME NEW s \in Slots,
             CreateRun(s) \/ CreateRunFails(s) \/ FinishRun(s)
      PROVE RLTypeOK'
  BY <1>7 DEF CreateRun, CreateRunFails, FinishRun
<1>8. ASSUME NEW s \in Slots, FinishRunUnrecorded(s) PROVE RLTypeOK'
  BY <1>8 DEF FinishRunUnrecorded
<1>9. ASSUME NEW s \in Slots, ReleaseCollection(s) PROVE RLTypeOK'
  <2>1. \A n \in Nat : (IF n > 0 THEN n - 1 ELSE 0) \in Nat OBVIOUS
  <2>2. readers' \in [Collections -> Nat] /\ writer' \in [Collections -> BOOLEAN]
    <3>1. CASE Exclusive(s) BY <1>9, <3>1 DEF ReleaseCollection
    <3>2. CASE ~Exclusive(s) BY <1>9, <2>1, <3>2 DEF ReleaseCollection
    <3> QED BY <3>1, <3>2
  <2> QED BY <1>9, <2>2 DEF ReleaseCollection
<1>10. ASSUME NEW s \in Slots, ReleaseJob(s) PROVE RLTypeOK'
  BY <1>10 DEF ReleaseJob
<1>11. CASE Restart BY <1>11 DEF Restart
<1>12. CASE UNCHANGED rlVars BY <1>12 DEF rlVars
<1> QED BY <1>1, <1>2, <1>3, <1>4, <1>5, <1>6, <1>7, <1>8, <1>9, <1>10,
           <1>11, <1>12 DEF RLNext, SlotNext

\* Only slot s moves: what every action of a slot does to the others.
OthersStay(s) ==
    \A t \in Slots \ {s} : pc'[t] = pc[t] /\ task'[t] = task[t]

LEMMA SlotStep ==
    ASSUME RLTypeOK, NEW s \in Slots, SlotNext(s)
    PROVE  OthersStay(s)
BY DEF OthersStay, RLTypeOK, SlotNext, Begin, Refuse, NameActiveRun, Return,
       Acquire, AcquireTimeout, CreateRun, CreateRunFails, FinishRun,
       FinishRunUnrecorded, ReleaseCollection, ReleaseJob

(* A step that neither enters nor leaves a collection keeps its holders.   *)
LEMMA HoldersStay ==
    ASSUME NEW s \in Slots, OthersStay(s),
           InCollection(s)' <=> InCollection(s),
           InCollection(s) => task'[s] = task[s]
    PROVE  \A c \in Collections :
              /\ SharedHolders(c)' = SharedHolders(c)
              /\ ExclusiveHolders(c)' = ExclusiveHolders(c)
<1>1. \A t \in Slots : InCollection(t)' <=> InCollection(t)
  BY DEF OthersStay, InCollection
<1>2. \A t \in Slots : InCollection(t) => task'[t] = task[t]
  BY DEF OthersStay
<1> QED BY <1>1, <1>2 DEF SharedHolders, ExclusiveHolders, Exclusive

(* The counters and the exclusiveness of full runs are preserved.          *)
LEMMA CollectionStep ==
    ASSUME RLInv, [RLNext]_rlVars
    PROVE  FullRunsExclusive' /\ CountersMatch'
<1> USE DEF RLInv, LocksMatchHolders
<1>1. ASSUME NEW s \in Slots, OthersStay(s),
             InCollection(s)' <=> InCollection(s),
             InCollection(s) => task'[s] = task[s],
             UNCHANGED <<readers, writer>>
      PROVE  FullRunsExclusive' /\ CountersMatch'
  <2>1. \A t \in Slots : InCollection(t)' <=> InCollection(t)
    BY <1>1 DEF OthersStay, InCollection
  <2>2. \A t \in Slots : InCollection(t) => task'[t] = task[t]
    BY <1>1 DEF OthersStay
  <2>3. FullRunsExclusive' BY <2>1, <2>2 DEF FullRunsExclusive, Exclusive
  <2> QED BY <1>1, <2>3, HoldersStay DEF CountersMatch
<1>2. ASSUME NEW s \in Slots,
             Begin(s) \/ Refuse(s) \/ NameActiveRun(s) \/ Return(s)
             \/ AcquireTimeout(s) \/ ReleaseJob(s)
      PROVE  FullRunsExclusive' /\ CountersMatch'
  <2>1. OthersStay(s) BY <1>2, SlotStep DEF SlotNext
  <2>2. ~InCollection(s) /\ ~InCollection(s)' /\ UNCHANGED <<readers, writer>>
    BY <1>2 DEF RLTypeOK, lockVars, InCollection, Begin, Refuse, NameActiveRun,
                Return, AcquireTimeout, ReleaseJob
  <2> QED BY <2>1, <2>2, <1>1
<1>3. ASSUME NEW s \in Slots,
             CreateRun(s) \/ CreateRunFails(s) \/ FinishRun(s)
             \/ FinishRunUnrecorded(s)
      PROVE  FullRunsExclusive' /\ CountersMatch'
  <2>1. OthersStay(s) BY <1>3, SlotStep DEF SlotNext
  <2>2. /\ InCollection(s) /\ InCollection(s)' /\ task' = task
        /\ UNCHANGED <<readers, writer>>
    BY <1>3 DEF RLTypeOK, lockVars, InCollection, CreateRun, CreateRunFails,
                FinishRun, FinishRunUnrecorded
  <2> QED BY <2>1, <2>2, <1>1
<1>4. ASSUME NEW s \in Slots, Acquire(s)
      PROVE  FullRunsExclusive' /\ CountersMatch'
  <2> DEFINE c == task[s].coll
  <2>1. OthersStay(s) BY <1>4, SlotStep DEF SlotNext
  <2>2. /\ ~InCollection(s) /\ InCollection(s)' /\ task' = task
    BY <1>4 DEF Acquire, RLTypeOK, InCollection
  <2>3. \A t \in Slots : InCollection(t)' <=> (InCollection(t) \/ t = s)
    BY <2>1, <2>2 DEF OthersStay, InCollection
  <2>4. c \in Collections BY <1>4, BusyHasTask DEF Acquire
  <2>5. \A t \in Slots : InCollection(t) /\ task[t].coll = c => ~Exclusive(t)
    <3>1. ~writer[c] BY <1>4 DEF Acquire, Available
    <3>2. ExclusiveHolders(c) = {} BY <2>4, <3>1 DEF CountersMatch
    <3> QED BY <3>2 DEF ExclusiveHolders
  <2>6. CASE Exclusive(s)
    <3>1. \A t \in Slots : ~(InCollection(t) /\ task[t].coll = c)
      <4>1. readers[c] = 0 BY <1>4, <2>6 DEF Acquire, Available
      <4>2. SharedHolders(c) = {}
        BY <2>4, <4>1, HoldersFinite DEF CountersMatch
      <4> QED BY <2>5, <4>2 DEF SharedHolders
    <3>2. FullRunsExclusive'
      BY <2>2, <2>3, <3>1 DEF FullRunsExclusive, Exclusive
    <3>3. ASSUME NEW d \in Collections
          PROVE  /\ SharedHolders(d)' = SharedHolders(d)
                 /\ ExclusiveHolders(d)' =
                       IF d = c THEN {s} ELSE ExclusiveHolders(d)
      BY <2>2, <2>3, <2>6, <3>1 DEF SharedHolders, ExclusiveHolders, Exclusive
    <3>4. readers' = readers /\ writer' = [writer EXCEPT ![c] = TRUE]
      BY <1>4, <2>6 DEF Acquire
    <3> QED BY <2>4, <3>2, <3>3, <3>4 DEF CountersMatch, RLTypeOK
  <2>7. CASE ~Exclusive(s)
    <3>1. FullRunsExclusive'
      BY <2>2, <2>3, <2>5, <2>7 DEF FullRunsExclusive, Exclusive
    <3>2. ASSUME NEW d \in Collections
          PROVE  /\ ExclusiveHolders(d)' = ExclusiveHolders(d)
                 /\ SharedHolders(d)' = IF d = c THEN SharedHolders(d) \cup {s}
                                        ELSE SharedHolders(d)
      BY <2>2, <2>3, <2>7 DEF SharedHolders, ExclusiveHolders, Exclusive
    <3>3. s \notin SharedHolders(c) BY <2>2 DEF SharedHolders
    <3>4. Cardinality(SharedHolders(c) \cup {s}) = Cardinality(SharedHolders(c)) + 1
      BY <2>4, <3>3, HoldersFinite, FS_AddElement
    <3>5. /\ writer' = writer
          /\ \A d \in Collections :
               readers'[d] = IF d = c THEN readers[d] + 1 ELSE readers[d]
      BY <1>4, <2>4, <2>7 DEF Acquire, RLTypeOK
    <3> QED BY <3>1, <3>2, <3>4, <3>5 DEF CountersMatch
  <2> QED BY <2>6, <2>7
<1>5. ASSUME NEW s \in Slots, ReleaseCollection(s)
      PROVE  FullRunsExclusive' /\ CountersMatch'
  <2> DEFINE c == task[s].coll
  <2>1. OthersStay(s) BY <1>5, SlotStep DEF SlotNext
  <2>2. /\ InCollection(s) /\ ~InCollection(s)' /\ task' = task
    BY <1>5 DEF ReleaseCollection, RLTypeOK, InCollection
  <2>3. \A t \in Slots : InCollection(t)' <=> (InCollection(t) /\ t # s)
    BY <2>1, <2>2 DEF OthersStay, InCollection
  <2>4. c \in Collections BY <1>5, BusyHasTask DEF ReleaseCollection
  <2>5. FullRunsExclusive'
    BY <2>2, <2>3 DEF FullRunsExclusive, Exclusive
  <2>6. CASE Exclusive(s)
    <3>1. ExclusiveHolders(c) = {s}
      BY <2>2, <2>6 DEF ExclusiveHolders, FullRunsExclusive
    <3>2. ASSUME NEW d \in Collections
          PROVE  /\ SharedHolders(d)' = SharedHolders(d)
                 /\ ExclusiveHolders(d)' =
                       IF d = c THEN {} ELSE ExclusiveHolders(d)
      BY <2>2, <2>3, <2>6, <3>1 DEF SharedHolders, ExclusiveHolders, Exclusive
    <3>3. readers' = readers /\ writer' = [writer EXCEPT ![c] = FALSE]
      BY <1>5, <2>6 DEF ReleaseCollection
    <3> QED BY <2>4, <2>5, <3>2, <3>3 DEF CountersMatch, RLTypeOK
  <2>7. CASE ~Exclusive(s)
    <3>1. s \in SharedHolders(c) BY <2>2, <2>7 DEF SharedHolders
    <3>2. ASSUME NEW d \in Collections
          PROVE  /\ ExclusiveHolders(d)' = ExclusiveHolders(d)
                 /\ SharedHolders(d)' = IF d = c THEN SharedHolders(d) \ {s}
                                        ELSE SharedHolders(d)
      BY <2>2, <2>3, <2>7 DEF SharedHolders, ExclusiveHolders, Exclusive
    <3>3. Cardinality(SharedHolders(c) \ {s}) = Cardinality(SharedHolders(c)) - 1
      BY <2>4, <3>1, HoldersFinite, FS_RemoveElement
    <3>4. readers[c] \in Nat /\ readers[c] # 0
      BY <2>4, <3>1, HoldersFinite DEF CountersMatch
    <3>5. /\ writer' = writer
          /\ \A d \in Collections :
               readers'[d] = IF d = c THEN readers[d] - 1 ELSE readers[d]
      BY <1>5, <2>4, <2>7, <3>4 DEF ReleaseCollection, RLTypeOK
    <3> QED BY <2>5, <3>2, <3>3, <3>5 DEF CountersMatch
  <2> QED BY <2>6, <2>7
<1>6. CASE Restart
  <2>1. \A s \in Slots : ~InCollection(s)'
    BY <1>6 DEF Restart, InCollection
  <2>2. \A c \in Collections : SharedHolders(c)' = {} /\ ExclusiveHolders(c)' = {}
    BY <2>1 DEF SharedHolders, ExclusiveHolders
  <2>3. CountersMatch' BY <1>6, <2>2, FS_EmptySet DEF Restart, CountersMatch
  <2> QED BY <2>1, <2>3 DEF FullRunsExclusive
<1>7. CASE UNCHANGED rlVars
  BY <1>7 DEF rlVars, FullRunsExclusive, CountersMatch, SharedHolders,
              ExclusiveHolders, InCollection, Exclusive
<1> QED BY <1>2, <1>3, <1>4, <1>5, <1>6, <1>7 DEF RLNext, SlotNext

(* One run at a time holds the lock of a job, and a held lock has an owner.*)
LEMMA JobStep ==
    ASSUME RLInv, [RLNext]_rlVars
    PROVE  JobRunsSerialised' /\ JobLocksOwned'
<1> USE DEF RLInv, LocksMatchHolders
<1>1. ASSUME NEW s \in Slots, OthersStay(s), UNCHANGED jobLock,
             InJob(s)' <=> InJob(s), InJob(s) => task'[s] = task[s]
      PROVE  JobRunsSerialised' /\ JobLocksOwned'
  <2>1. \A t \in Slots : InJob(t)' <=> InJob(t)
    BY <1>1 DEF OthersStay, InJob
  <2>2. \A t \in Slots : InJob(t) => task'[t] = task[t]
    BY <1>1 DEF OthersStay
  <2> QED BY <1>1, <2>1, <2>2 DEF JobRunsSerialised, JobLocksOwned
<1>2. ASSUME NEW s \in Slots, Refuse(s) \/ NameActiveRun(s) \/ Return(s)
      PROVE  JobRunsSerialised' /\ JobLocksOwned'
  <2>1. OthersStay(s) BY <1>2, SlotStep DEF SlotNext
  <2>2. ~InJob(s) /\ ~InJob(s)' /\ UNCHANGED jobLock
    BY <1>2 DEF RLTypeOK, lockVars, InJob, Refuse, NameActiveRun, Return
  <2> QED BY <2>1, <2>2, <1>1
<1>3. ASSUME NEW s \in Slots,
             Acquire(s) \/ AcquireTimeout(s) \/ CreateRun(s)
             \/ CreateRunFails(s) \/ FinishRun(s) \/ FinishRunUnrecorded(s)
             \/ ReleaseCollection(s)
      PROVE  JobRunsSerialised' /\ JobLocksOwned'
  <2>1. OthersStay(s) BY <1>3, SlotStep DEF SlotNext
  <2>2. InJob(s) /\ InJob(s)' /\ task' = task /\ UNCHANGED jobLock
    BY <1>3 DEF RLTypeOK, lockVars, InJob, Acquire, AcquireTimeout, CreateRun,
                CreateRunFails, FinishRun, FinishRunUnrecorded,
                ReleaseCollection
  <2> QED BY <2>1, <2>2, <1>1
<1>4. ASSUME NEW s \in Slots, Begin(s)
      PROVE  JobRunsSerialised' /\ JobLocksOwned'
  <2>1. OthersStay(s) BY <1>4, SlotStep DEF SlotNext
  <2>2. PICK j \in Jobs :
           /\ ~jobLock[j]
           /\ jobLock' = [jobLock EXCEPT ![j] = TRUE]
           /\ \E c \in Targets[j], m \in RunModes :
                task' = [task EXCEPT ![s] = [job |-> j, coll |-> c, mode |-> m]]
    BY <1>4 DEF Begin
  <2>3. ~InJob(s) /\ InJob(s)' /\ task'[s].job = j
    BY <1>4, <2>2 DEF Begin, InJob, RLTypeOK
  <2>4. \A t \in Slots : InJob(t) => task[t].job # j
    BY <2>2 DEF JobLocksOwned
  <2>5. \A t \in Slots \ {s} : (InJob(t)' <=> InJob(t)) /\ task'[t] = task[t]
    BY <2>1 DEF OthersStay, InJob
  <2>6. JobRunsSerialised'
    BY <2>3, <2>4, <2>5 DEF JobRunsSerialised
  <2>7. \A k \in Jobs : jobLock'[k] <=> (k = j \/ jobLock[k])
    BY <2>2 DEF RLTypeOK
  <2> QED BY <2>3, <2>5, <2>6, <2>7 DEF JobLocksOwned
<1>5. ASSUME NEW s \in Slots, ReleaseJob(s)
      PROVE  JobRunsSerialised' /\ JobLocksOwned'
  <2>1. OthersStay(s) BY <1>5, SlotStep DEF SlotNext
  <2>2. InJob(s) /\ ~InJob(s)'
    BY <1>5 DEF ReleaseJob, InJob, RLTypeOK
  <2>3. \A t \in Slots \ {s} : (InJob(t)' <=> InJob(t)) /\ task'[t] = task[t]
    BY <2>1 DEF OthersStay, InJob
  <2>4. JobRunsSerialised' BY <2>2, <2>3 DEF JobRunsSerialised
  <2>5. task[s].job \in Jobs BY <1>5, BusyHasTask DEF ReleaseJob
  <2>6. \A k \in Jobs : jobLock'[k] <=> (k # task[s].job /\ jobLock[k])
    BY <1>5, <2>5 DEF ReleaseJob, RLTypeOK
  <2> QED BY <2>2, <2>3, <2>4, <2>6 DEF JobLocksOwned, JobRunsSerialised
<1>6. CASE Restart
  <2>1. \A s \in Slots : ~InJob(s)' BY <1>6 DEF Restart, InJob
  <2> QED BY <1>6, <2>1 DEF Restart, JobRunsSerialised, JobLocksOwned
<1>7. CASE UNCHANGED rlVars
  BY <1>7 DEF rlVars, JobRunsSerialised, JobLocksOwned, InJob
<1> QED BY <1>2, <1>3, <1>4, <1>5, <1>6, <1>7 DEF RLNext, SlotNext

(* RLInv is inductive.                                                     *)
LEMMA RLInvStep == RLInv /\ [RLNext]_rlVars => RLInv'
BY RLTypeStep, CollectionStep, JobStep DEF RLInv, LocksMatchHolders

(* RLInv holds in every state of every behaviour.                          *)
THEOREM RunLocksInvariant == RLSpec => []RLInv
BY RLInitInv, RLInvStep, PTL DEF RLSpec

(* The variables keep their types (the state run_job and the locks build). *)
THEOREM RunLocksTypes == RLSpec => []RLTypeOK
BY RunLocksInvariant, PTL DEF RLInv

(* Two runs of one job never overlap (locks.py:112-122).                   *)
THEOREM RunsOfAJobSerialised == RLSpec => []JobRunsSerialised
BY RunLocksInvariant, PTL DEF RLInv

(* A full run is alone in its collection (locks.py:132-165).               *)
THEOREM FullRunsAlone == RLSpec => []FullRunsExclusive
BY RunLocksInvariant, PTL DEF RLInv

(* No lock leaks and none is freed while it is held (locks.py:140-165).    *)
THEOREM NoLockLeaks == RLSpec => []LocksMatchHolders
BY RunLocksInvariant, PTL DEF RLInv

-----------------------------------------------------------------------------
(* A step that neither enters nor leaves is a stutter of CollectionAccess. *)
LEMMA HoldersStutter ==
    ASSUME \A c \in Collections : /\ SharedHolders(c)' = SharedHolders(c)
                                  /\ ExclusiveHolders(c)' = ExclusiveHolders(c)
    PROVE  UNCHANGED Access!accessVars
BY DEF Access!accessVars

(* acquire is Enter or EnterAlone.                                         *)
LEMMA AcquireEnters ==
    ASSUME RLInv, NEW s \in Slots, Acquire(s)
    PROVE  Access!AccessNext
<1> DEFINE c == task[s].coll
<1> USE DEF RLInv, LocksMatchHolders
<1>1. OthersStay(s) BY SlotStep DEF SlotNext
<1>2. /\ ~InCollection(s) /\ InCollection(s)' /\ task' = task
  BY DEF Acquire, RLTypeOK, InCollection
<1>3. \A t \in Slots : InCollection(t)' <=> (InCollection(t) \/ t = s)
  BY <1>1, <1>2 DEF OthersStay, InCollection
<1>4. c \in Collections BY BusyHasTask DEF Acquire
<1>5. ExclusiveHolders(c) = {}
  <2>1. ~writer[c] BY DEF Acquire, Available
  <2> QED BY <1>4, <2>1 DEF CountersMatch
<1>6. Access!Outside(s)
  BY <1>2 DEF Access!Outside, SharedHolders, ExclusiveHolders
<1>7. CASE Exclusive(s)
  <2>1. readers[c] = 0 BY <1>7 DEF Acquire, Available
  <2>2. SharedHolders(c) = {} BY <1>4, <2>1, HoldersFinite DEF CountersMatch
  <2>3. ASSUME NEW d \in Collections
        PROVE  /\ SharedHolders(d)' = SharedHolders(d)
               /\ ExclusiveHolders(d)' =
                     IF d = c THEN {s} ELSE ExclusiveHolders(d)
    BY <1>2, <1>3, <1>5, <1>7 DEF SharedHolders, ExclusiveHolders, Exclusive
  <2>4. Access!EnterAlone(s, c)
    BY <1>4, <1>5, <1>6, <2>2, <2>3 DEF Access!EnterAlone
  <2> QED BY <1>4, <2>4 DEF Access!AccessNext
<1>8. CASE ~Exclusive(s)
  <2>1. ASSUME NEW d \in Collections
        PROVE  /\ ExclusiveHolders(d)' = ExclusiveHolders(d)
               /\ SharedHolders(d)' = IF d = c THEN SharedHolders(d) \cup {s}
                                      ELSE SharedHolders(d)
    BY <1>2, <1>3, <1>8 DEF SharedHolders, ExclusiveHolders, Exclusive
  <2>2. Access!Enter(s, c) BY <1>4, <1>5, <1>6, <2>1 DEF Access!Enter
  <2> QED BY <1>4, <2>2 DEF Access!AccessNext
<1> QED BY <1>7, <1>8

(* release is Leave.                                                       *)
LEMMA ReleaseLeaves ==
    ASSUME RLInv, NEW s \in Slots, ReleaseCollection(s)
    PROVE  Access!AccessNext
<1> DEFINE c == task[s].coll
<1> USE DEF RLInv
<1>1. OthersStay(s) BY SlotStep DEF SlotNext
<1>2. /\ InCollection(s) /\ ~InCollection(s)' /\ task' = task
  BY DEF ReleaseCollection, RLTypeOK, InCollection
<1>3. \A t \in Slots : InCollection(t)' <=> (InCollection(t) /\ t # s)
  BY <1>1, <1>2 DEF OthersStay, InCollection
<1>4. c \in Collections BY BusyHasTask DEF ReleaseCollection
<1>5. s \in SharedHolders(c) \cup ExclusiveHolders(c)
  BY <1>2 DEF SharedHolders, ExclusiveHolders
<1>6. ASSUME NEW d \in Collections
      PROVE  /\ SharedHolders(d)' = IF d = c THEN SharedHolders(d) \ {s}
                                    ELSE SharedHolders(d)
             /\ ExclusiveHolders(d)' = IF d = c THEN ExclusiveHolders(d) \ {s}
                                       ELSE ExclusiveHolders(d)
  BY <1>2, <1>3 DEF SharedHolders, ExclusiveHolders, Exclusive
<1>7. Access!Leave(s, c) BY <1>4, <1>5, <1>6 DEF Access!Leave
<1> QED BY <1>4, <1>7 DEF Access!AccessNext

(* Every step of the lock manager is a step of CollectionAccess.           *)
LEMMA AccessStep ==
    ASSUME RLInv, [RLNext]_rlVars
    PROVE  [Access!AccessNext]_(Access!accessVars)
<1>1. ASSUME NEW s \in Slots,
             Begin(s) \/ Refuse(s) \/ NameActiveRun(s) \/ Return(s)
             \/ AcquireTimeout(s) \/ ReleaseJob(s)
      PROVE  UNCHANGED Access!accessVars
  <2>1. OthersStay(s) BY <1>1, SlotStep DEF SlotNext, RLInv
  <2>2. ~InCollection(s) /\ ~InCollection(s)'
    BY <1>1 DEF RLInv, RLTypeOK, InCollection, Begin, Refuse, NameActiveRun,
                Return, AcquireTimeout, ReleaseJob
  <2> QED BY <2>1, <2>2, HoldersStay, HoldersStutter
<1>2. ASSUME NEW s \in Slots,
             CreateRun(s) \/ CreateRunFails(s) \/ FinishRun(s)
             \/ FinishRunUnrecorded(s)
      PROVE  UNCHANGED Access!accessVars
  <2>1. OthersStay(s) BY <1>2, SlotStep DEF SlotNext, RLInv
  <2>2. InCollection(s) /\ InCollection(s)' /\ task' = task
    BY <1>2 DEF RLInv, RLTypeOK, InCollection, CreateRun, CreateRunFails,
                FinishRun, FinishRunUnrecorded
  <2> QED BY <2>1, <2>2, HoldersStay, HoldersStutter
<1>3. CASE Restart
  <2>1. \A s \in Slots : ~InCollection(s)' BY <1>3 DEF Restart, InCollection
  <2>2. \A c \in Collections : SharedHolders(c)' = {} /\ ExclusiveHolders(c)' = {}
    BY <2>1 DEF SharedHolders, ExclusiveHolders
  <2> QED BY <2>2 DEF Access!AccessNext, Access!Empty
<1>4. CASE UNCHANGED rlVars
  <2>1. \A c \in Collections : /\ SharedHolders(c)' = SharedHolders(c)
                               /\ ExclusiveHolders(c)' = ExclusiveHolders(c)
    BY <1>4 DEF rlVars, SharedHolders, ExclusiveHolders, InCollection, Exclusive
  <2> QED BY <2>1, HoldersStutter
<1> QED BY <1>1, <1>2, <1>3, <1>4, AcquireEnters, ReleaseLeaves
        DEF RLNext, SlotNext

(* RunLocks implements CollectionAccess (locks.py:40-65).                  *)
THEOREM LocksImplementAccess == RLSpec => ImplementsCollectionAccess
<1>1. RLInit => Access!AccessInit
  BY DEF RLInit, Access!AccessInit, SharedHolders, ExclusiveHolders, InCollection
<1>2. RLInv /\ [RLNext]_rlVars => [Access!AccessNext]_(Access!accessVars)
  BY AccessStep
<1> QED BY <1>1, <1>2, RunLocksInvariant, PTL
        DEF RLSpec, ImplementsCollectionAccess, Access!AccessSpec
=============================================================================
