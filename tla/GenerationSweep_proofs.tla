----------------------- MODULE GenerationSweep_proofs -----------------------
(***************************************************************************)
(* The generation sweep is safe for all numbers of threads, jobs,          *)
(* collections and documents.  The locks are used through RLInv alone:     *)
(* every step of GenerationSweep is, on the lock variables, a step of      *)
(* RunLocks, so what is proved of RunLocks holds here.                     *)
(***************************************************************************)
EXTENDS GenerationSweep, RunLocks_proofs

\* A run has data of its own only while it holds its collection.
DataWhileHolding ==
    \A s \in Slots :
        /\ phase[s] # "start" => pc[s] \in {"running", "closing"}
        /\ phase[s] = "start" => written[s] = {}
        /\ phase[s] = "swept" => Exclusive(s)

\* The inductive invariant.
GSInv ==
    /\ RLInv /\ GSTypeOK /\ DataWhileHolding
    /\ WrittenPointsSurvive /\ SweptScopeIsPure

\* The steps in which a run touches points.
DataStep(s) ==
    \/ RefuseSiblings(s) \/ Recreate(s) \/ Ensure(s)
    \/ DeleteBySource(s) \/ UpsertPoints(s) \/ DeleteVanished(s)
    \/ SweepStale(s)

-----------------------------------------------------------------------------
(* Every step is a step of the lock manager or leaves it alone.            *)
LEMMA LockRefinement == [GSNext]_gsVars => [RLNext]_rlVars
BY DEF GSNext, GSSlotNext, StartRun, LockStep, RefuseSiblings, Recreate, Ensure,
       DeleteBySource, UpsertPoints, DeleteVanished, SweepStale,
       LeaveCollection, LeaveJob, GSRestart, ReloadCatalog, RLNext, SlotNext,
       gsVars, rlVars

(* The locks of GenerationSweep are those of RunLocks.                     *)
LEMMA SweepUsesLocks == GSSpec => RLSpec
BY LockRefinement, PTL DEF GSSpec, RLSpec, GSInit

(* Runs that sweep, recreate, crash and see reloads enter and leave their  *)
(* collections as CollectionAccess lets them (locks.py:40-65).             *)
THEOREM SweepImplementsAccess == GSSpec => ImplementsCollectionAccess
BY SweepUsesLocks, LocksImplementAccess, PTL

(* Deleting points gives an index again.                                   *)
LEMMA IndexWithoutType ==
    ASSUME GSTypeOK, NEW c \in Collections, NEW Gone
    PROVE  /\ IndexWithout(c, Gone) \in
                [Collections -> [Jobs -> [Docs -> Generations \cup {NoPoint}]]]
           /\ \A b \in Collections, j \in Jobs, d \in Docs :
                IndexWithout(c, Gone)[b][j][d] =
                    IF b = c /\ <<j, d>> \in Gone THEN NoPoint ELSE index[b][j][d]
BY DEF IndexWithout, GSTypeOK

(* A run in progress has a job and a collection.                           *)
LEMMA RunningTask ==
    ASSUME RLInv, NEW s \in Slots, pc[s] = "running"
    PROVE  /\ task[s].job \in Jobs /\ task[s].coll \in Collections
           /\ InJob(s) /\ InCollection(s)
BY BusyHasTask DEF RLInv, InJob, InCollection

(* What a run does to the points of others: nothing, unless it is a full   *)
(* run of the whole collection.                                            *)
LEMMA DataFrame ==
    ASSUME GSInv, NEW s \in Slots, DataStep(s)
    PROVE  /\ pc[s] = "running" /\ UNCHANGED rlVars /\ UNCHANGED options
           /\ \A t \in Slots \ {s} : phase'[t] = phase[t] /\ written'[t] = written[t]
           /\ index' \in
                [Collections -> [Jobs -> [Docs -> Generations \cup {NoPoint}]]]
           /\ \A c \in Collections, j \in Jobs, d \in Docs :
                index'[c][j][d] # index[c][j][d] =>
                  /\ c = task[s].coll
                  /\ \/ j = task[s].job
                     \/ Exclusive(s) /\ options[s].scope = "collection"
<1> DEFINE TypeKept == index' \in
                [Collections -> [Jobs -> [Docs -> Generations \cup {NoPoint}]]]
<1> DEFINE FrameKept == \A c \in Collections, j \in Jobs, d \in Docs :
                index'[c][j][d] # index[c][j][d] =>
                  /\ c = task[s].coll
                  /\ \/ j = task[s].job
                     \/ Exclusive(s) /\ options[s].scope = "collection"
<1>0. GSTypeOK /\ RLInv BY DEF GSInv
<1> DEFINE c0 == task[s].coll
<1> DEFINE j0 == task[s].job
<1>1. pc[s] = "running" /\ UNCHANGED rlVars /\ UNCHANGED options
  BY DEF DataStep, RefuseSiblings, Recreate, Ensure, DeleteBySource,
         UpsertPoints, DeleteVanished, SweepStale
<1>2. \A t \in Slots \ {s} : phase'[t] = phase[t] /\ written'[t] = written[t]
  BY <1>0 DEF GSTypeOK, DataStep, RefuseSiblings, Recreate, Ensure,
         DeleteBySource, UpsertPoints, DeleteVanished, SweepStale
<1>3. c0 \in Collections /\ j0 \in Jobs BY <1>0, <1>1, RunningTask
<1>4. ASSUME RefuseSiblings(s) \/ Ensure(s) PROVE TypeKept /\ FrameKept
  BY <1>0, <1>4 DEF GSTypeOK, RefuseSiblings, Ensure
<1>5. ASSUME NEW Gone, index' = IndexWithout(c0, Gone),
             \/ Gone \subseteq {j0} \X Docs
             \/ Exclusive(s) /\ options[s].scope = "collection"
      PROVE  TypeKept /\ FrameKept
  <2>1. TypeKept BY <1>0, <1>3, <1>5, IndexWithoutType
  <2>2. ASSUME NEW c \in Collections, NEW j \in Jobs, NEW d \in Docs,
               index'[c][j][d] # index[c][j][d]
        PROVE  c = c0 /\ <<j, d>> \in Gone
    BY <1>0, <1>3, <1>5, <2>2, IndexWithoutType
  <2>3. \A j \in Jobs, d \in Docs : <<j, d>> \in Gone =>
           j = j0 \/ (Exclusive(s) /\ options[s].scope = "collection")
    BY <1>5
  <2>4. FrameKept BY <2>2, <2>3
  <2> QED BY <2>1, <2>4
<1>6. ASSUME Recreate(s) PROVE TypeKept /\ FrameKept
  <2>1. index' = IndexWithout(c0, Jobs \X Docs) BY <1>6 DEF Recreate
  <2>2. Exclusive(s) /\ options[s].scope = "collection"
    BY <1>6 DEF Recreate
  <2> QED BY <1>5, <2>1, <2>2
<1>7. ASSUME DeleteBySource(s) \/ DeleteVanished(s) PROVE TypeKept /\ FrameKept
  <2>1. PICK d \in Docs : index' = IndexWithout(c0, {<<j0, d>>})
    BY <1>7 DEF DeleteBySource, DeleteVanished
  <2>2. {<<j0, d>>} \subseteq {j0} \X Docs OBVIOUS
  <2> QED BY <1>5, <2>1, <2>2
<1>8. ASSUME SweepStale(s) PROVE TypeKept /\ FrameKept
  <2> DEFINE Gone == {p \in InScope(s) : index[c0][p[1]][p[2]] # s}
  <2>1. index' = IndexWithout(c0, Gone) /\ Exclusive(s) BY <1>8 DEF SweepStale
  <2>2. Gone \subseteq {j0} \X Docs \/ options[s].scope = "collection"
    BY DEF InScope
  <2> HIDE DEF Gone
  <2> QED BY <1>5, <2>1, <2>2
<1>9. ASSUME UpsertPoints(s) PROVE TypeKept /\ FrameKept
  <2>1. index' = [index EXCEPT ![c0][j0][doc[s]] = s]
    BY <1>9 DEF UpsertPoints
  <2>2. doc[s] \in Docs BY <1>0 DEF GSTypeOK
  <2>3. TypeKept BY <1>0, <1>3, <2>1, <2>2 DEF GSTypeOK, Generations
  <2>4. \A c \in Collections, j \in Jobs, d \in Docs :
           index'[c][j][d] # index[c][j][d] => c = c0 /\ j = j0
    BY <1>0, <1>3, <2>1, <2>2 DEF GSTypeOK
  <2> QED BY <2>3, <2>4
<1>10. TypeKept /\ FrameKept
  BY <1>4, <1>6, <1>7, <1>8, <1>9 DEF DataStep
<1> QED BY <1>1, <1>2, <1>10

(* No two runs that hold a collection can touch the same points.           *)
LEMMA Disjoint ==
    ASSUME RLInv, NEW s \in Slots, NEW t \in Slots \ {s},
           InJob(s), InJob(t), InCollection(s), InCollection(t),
           task[s].coll = task[t].coll
    PROVE  task[s].job # task[t].job /\ ~Exclusive(s) /\ ~Exclusive(t)
BY DEF RLInv, JobRunsSerialised, FullRunsExclusive

(* A run that has data holds its job and its collection.                   *)
LEMMA BusyHolds ==
    ASSUME GSInv, NEW s \in Slots, phase[s] # "start"
    PROVE  InJob(s) /\ InCollection(s) /\ task[s].job \in Jobs
           /\ task[s].coll \in Collections
<1>1. pc[s] \in {"running", "closing"} BY DEF GSInv, DataWhileHolding
<1>2. RLTypeOK BY DEF GSInv, RLInv
<1> QED BY <1>1, <1>2, BusyHasTask DEF InJob, InCollection

(* What run s does leaves the points of every other run t as they are.     *)
LEMMA OthersPointsStay ==
    ASSUME GSInv, NEW s \in Slots, DataStep(s), NEW t \in Slots \ {s},
           phase[t] # "start"
    PROVE  /\ \A j \in Jobs, d \in Docs :
                j = task[t].job \/ Exclusive(t) =>
                  index'[task[t].coll][j][d] = index[task[t].coll][j][d]
<1>1. InJob(t) /\ InCollection(t) /\ task[t].coll \in Collections BY BusyHolds
<1>2. InJob(s) /\ InCollection(s) BY DataFrame, RunningTask DEF GSInv
<1>3. task[s].coll = task[t].coll
        => task[s].job # task[t].job /\ ~Exclusive(s) /\ ~Exclusive(t)
  BY <1>1, <1>2, Disjoint DEF GSInv
<1> QED BY <1>1, <1>3, DataFrame

(* A run's own step keeps its earlier documents indexed.                   *)
LEMMA OwnPointsStay ==
    ASSUME GSInv, NEW s \in Slots, DataStep(s)
    PROVE  \A d \in written'[s] : index'[task[s].coll][task[s].job][d] = s
<1> DEFINE c0 == task[s].coll
<1> DEFINE j0 == task[s].job
<1>0. GSTypeOK /\ RLInv /\ WrittenPointsSurvive /\ DataWhileHolding BY DEF GSInv
<1>1. c0 \in Collections /\ j0 \in Jobs BY <1>0, DataFrame, RunningTask
<1>2. \A d \in written[s] : d \in Docs /\ index[c0][j0][d] = s
  BY <1>0 DEF WrittenPointsSurvive, GSTypeOK
<1>3. ASSUME RefuseSiblings(s) \/ Ensure(s)
      PROVE  \A d \in written'[s] : index'[c0][j0][d] = s
  BY <1>2, <1>3 DEF RefuseSiblings, Ensure
<1>4. ASSUME Recreate(s)
      PROVE  \A d \in written'[s] : index'[c0][j0][d] = s
  BY <1>0, <1>4 DEF Recreate, DataWhileHolding
<1>5. ASSUME DeleteBySource(s) \/ DeleteVanished(s)
      PROVE  \A d \in written'[s] : index'[c0][j0][d] = s
  <2>1. PICK e \in Docs \ written[s] : index' = IndexWithout(c0, {<<j0, e>>})
    BY <1>5 DEF DeleteBySource, DeleteVanished
  <2>2. written' = written BY <1>5 DEF DeleteBySource, DeleteVanished
  <2> DEFINE Gone == {<<j0, e>>}
  <2>3. \A d \in written[s] : <<j0, d>> \notin Gone BY <2>1
  <2>4. index' = IndexWithout(c0, Gone) BY <2>1
  <2> HIDE DEF Gone
  <2>5. \A d \in Docs : index'[c0][j0][d] =
           IF <<j0, d>> \in Gone THEN NoPoint ELSE index[c0][j0][d]
    BY <1>0, <1>1, <2>4, IndexWithoutType
  <2> QED BY <1>2, <2>2, <2>3, <2>5
<1>6. ASSUME SweepStale(s)
      PROVE  \A d \in written'[s] : index'[c0][j0][d] = s
  <2> DEFINE Gone == {p \in InScope(s) : index[c0][p[1]][p[2]] # s}
  <2>1. index' = IndexWithout(c0, Gone) /\ written' = written
    BY <1>6 DEF SweepStale
  <2>2. \A d \in written[s] : <<j0, d>> \notin Gone BY <1>2
  <2> HIDE DEF Gone
  <2>3. \A d \in Docs : index'[c0][j0][d] =
           IF <<j0, d>> \in Gone THEN NoPoint ELSE index[c0][j0][d]
    BY <1>0, <1>1, <2>1, IndexWithoutType
  <2> QED BY <1>2, <2>1, <2>2, <2>3
<1>7. ASSUME UpsertPoints(s)
      PROVE  \A d \in written'[s] : index'[c0][j0][d] = s
  <2>1. /\ index' = [index EXCEPT ![c0][j0][doc[s]] = s]
        /\ written'[s] = written[s] \cup {doc[s]}
    BY <1>0, <1>7 DEF UpsertPoints, GSTypeOK
  <2>2. doc[s] \in Docs BY <1>0 DEF GSTypeOK
  <2>3. \A d \in Docs : index'[c0][j0][d] =
           IF d = doc[s] THEN s ELSE index[c0][j0][d]
    BY <1>0, <1>1, <2>1, <2>2 DEF GSTypeOK
  <2> QED BY <1>2, <2>1, <2>2, <2>3
<1> QED BY <1>3, <1>4, <1>5, <1>6, <1>7 DEF DataStep

(* A run that has swept does not write any more, and its sweep leaves only *)
(* its own points in scope.                                                *)
LEMMA OwnSweep ==
    ASSUME GSInv, NEW s \in Slots, DataStep(s), phase'[s] = "swept"
    PROVE  /\ Exclusive(s)
           /\ \A j \in Jobs, d \in Docs : <<j, d>> \in InScope(s)
                => index'[task[s].coll][j][d] \in {s, NoPoint}
<1> DEFINE c0 == task[s].coll
<1>0. GSTypeOK /\ RLInv BY DEF GSInv
<1>1. c0 \in Collections BY <1>0, DataFrame, RunningTask
<1>2. SweepStale(s)
  BY <1>0 DEF DataStep, RefuseSiblings, Recreate, Ensure, DeleteBySource,
              UpsertPoints, DeleteVanished, GSTypeOK
<1> DEFINE Gone == {p \in InScope(s) : index[c0][p[1]][p[2]] # s}
<1>3. index' = IndexWithout(c0, Gone) /\ Exclusive(s) BY <1>2 DEF SweepStale
<1>4. \A j \in Jobs, d \in Docs :
         <<j, d>> \in InScope(s) => <<j, d>> \in Gone \/ index[c0][j][d] = s
  OBVIOUS
<1> HIDE DEF Gone
<1> QED BY <1>0, <1>1, <1>3, <1>4, IndexWithoutType

-----------------------------------------------------------------------------
(* The points and phases keep their types.                                 *)
LEMMA GSTypeStep == GSInv /\ [GSNext]_gsVars => GSTypeOK'
<1> SUFFICES ASSUME GSInv, [GSNext]_gsVars PROVE GSTypeOK' OBVIOUS
<1>0. GSTypeOK /\ RLInv BY DEF GSInv
<1>1. ASSUME NEW s \in Slots, DataStep(s) PROVE GSTypeOK'
  <2>1. index' \in [Collections -> [Jobs -> [Docs -> Generations \cup {NoPoint}]]]
    BY <1>1, DataFrame
  <2>2. /\ phase' \in [Slots -> {"start", "index", "replace", "cleaning",
                                  "swept", "over"}]
        /\ UNCHANGED <<options, catalog, reloads>>
    BY <1>0, <1>1 DEF GSTypeOK, DataStep, RefuseSiblings, Recreate, Ensure,
          DeleteBySource, UpsertPoints, DeleteVanished, SweepStale
  <2>3. doc' \in [Slots -> Docs] /\ written' \in [Slots -> SUBSET Docs]
    <3>1. CASE DeleteBySource(s) BY <1>0, <3>1 DEF GSTypeOK, DeleteBySource
    <3>2. CASE UpsertPoints(s) BY <1>0, <3>2 DEF GSTypeOK, UpsertPoints
    <3>3. CASE UNCHANGED <<doc, written>> BY <1>0, <3>3 DEF GSTypeOK
    <3> QED BY <1>1, <3>1, <3>2, <3>3
        DEF DataStep, RefuseSiblings, Recreate, Ensure, DeleteVanished, SweepStale
  <2> QED BY <1>0, <2>1, <2>2, <2>3 DEF GSTypeOK
<1>2. ASSUME NEW S, index' = Retired(S)
      PROVE  index' \in [Collections -> [Jobs -> [Docs -> Generations \cup {NoPoint}]]]
  BY <1>0, <1>2 DEF GSTypeOK, Retired, Generations
<1>3. ASSUME NEW s \in Slots, LeaveCollection(s) PROVE GSTypeOK'
  BY <1>0, <1>2, <1>3 DEF GSTypeOK, LeaveCollection
<1>4. CASE GSRestart
  BY <1>0, <1>2, <1>4 DEF GSTypeOK, GSRestart, Options, NoOptions
<1>5. ASSUME NEW s \in Slots, LeaveJob(s) PROVE GSTypeOK'
  BY <1>0, <1>5 DEF GSTypeOK, LeaveJob, Options, NoOptions
<1>6. ASSUME NEW s \in Slots, LockStep(s) PROVE GSTypeOK'
  BY <1>0, <1>6 DEF GSTypeOK, LockStep, dataVars
<1>7. ASSUME NEW s \in Slots, StartRun(s) PROVE GSTypeOK'
  <2>1. PICK o \in Options : options' = [options EXCEPT ![s] = o]
    <3>1. PICK scope \in {"job", "collection"}, force \in BOOLEAN :
             options' = [options EXCEPT ![s] =
               [scope |-> scope, force |-> force,
                siblings |-> IF scope = "job" THEN {}
                             ELSE Siblings(task'[s].job, task'[s].coll)]]
      BY <1>7 DEF StartRun
    <3>2. Siblings(task'[s].job, task'[s].coll) \in SUBSET Jobs BY DEF Siblings
    <3> DEFINE o == [scope |-> scope, force |-> force,
                     siblings |-> IF scope = "job" THEN {}
                                  ELSE Siblings(task'[s].job, task'[s].coll)]
    <3>3. o \in Options BY <3>2 DEF Options
    <3> QED BY <3>1, <3>3
  <2> QED BY <1>0, <1>7, <2>1 DEF GSTypeOK, StartRun
<1>8. CASE ReloadCatalog
  <2>0. PICK j \in Jobs : \E c \in Targets[j] \cup {Off} :
           catalog' = [catalog EXCEPT ![j] = c]
    BY <1>8 DEF ReloadCatalog
  <2>1. PICK c \in Targets[j] \cup {Off} : catalog' = [catalog EXCEPT ![j] = c]
    BY <2>0
  <2>2. c \in Collections \cup {Off} BY RunLocksAssumption
  <2>3. catalog' \in [Jobs -> Collections \cup {Off}]
    BY <1>0, <2>1, <2>2 DEF GSTypeOK
  <2>4. reloads' \in 0..MaxReloads
    BY <1>0, <1>8, GenerationSweepAssumption DEF GSTypeOK, ReloadCatalog
  <2> QED BY <1>0, <1>8, <2>3, <2>4 DEF GSTypeOK, ReloadCatalog, dataVars
<1>9. CASE UNCHANGED gsVars BY <1>0, <1>9 DEF GSTypeOK, gsVars
<1> QED BY <1>1, <1>3, <1>4, <1>5, <1>6, <1>7, <1>8, <1>9
        DEF GSNext, GSSlotNext, DataStep

(* Points, phases and written documents go together with the locks.        *)
LEMMA GSDataStep ==
    GSInv /\ [GSNext]_gsVars
      => DataWhileHolding' /\ WrittenPointsSurvive' /\ SweptScopeIsPure'
<1> DEFINE Goal == DataWhileHolding' /\ WrittenPointsSurvive' /\ SweptScopeIsPure'
<1> SUFFICES ASSUME GSInv, [GSNext]_gsVars PROVE Goal OBVIOUS
<1>0. /\ GSTypeOK /\ RLInv /\ RLTypeOK /\ DataWhileHolding
      /\ WrittenPointsSurvive /\ SweptScopeIsPure
  BY DEF GSInv, RLInv
<1>1. ASSUME NEW s \in Slots, DataStep(s) PROVE Goal
  <2>1. /\ pc[s] = "running" /\ UNCHANGED <<rlVars, options>>
        /\ \A t \in Slots \ {s} : phase'[t] = phase[t] /\ written'[t] = written[t]
    BY <1>1, DataFrame
  <2>2. UNCHANGED <<pc, task>> BY <2>1 DEF rlVars
  <2>3. phase'[s] # "start"
    BY <1>0, <1>1 DEF DataStep, RefuseSiblings, Recreate, Ensure, GSTypeOK,
           DeleteBySource, UpsertPoints, DeleteVanished, SweepStale
  <2>4. phase'[s] = "swept" => Exclusive(s) BY <1>1, OwnSweep
  <2>5. DataWhileHolding'
    BY <1>0, <2>1, <2>2, <2>3, <2>4 DEF DataWhileHolding, Exclusive
  <2>6. WrittenPointsSurvive'
    <3> SUFFICES ASSUME NEW t \in Slots, NEW d \in written'[t]
                 PROVE  index'[task[t].coll][task[t].job][d] = t
      BY <2>2 DEF WrittenPointsSurvive
    <3>1. CASE t = s BY <1>1, <3>1, OwnPointsStay
    <3>2. CASE t # s
      <4>1. d \in written[t] /\ d \in Docs BY <1>0, <2>1, <3>2 DEF GSTypeOK
      <4>2. phase[t] # "start" BY <1>0, <4>1 DEF DataWhileHolding
      <4>3. task[t].job \in Jobs BY <4>2, BusyHolds
      <4>4. index[task[t].coll][task[t].job][d] = t
        BY <1>0, <4>1 DEF WrittenPointsSurvive
      <4> QED BY <1>1, <3>2, <4>1, <4>2, <4>3, <4>4, OthersPointsStay
    <3> QED BY <3>1, <3>2
  <2>7. SweptScopeIsPure'
    <3> SUFFICES ASSUME NEW t \in Slots, phase'[t] = "swept",
                        NEW j \in Jobs, NEW d \in Docs, <<j, d>> \in InScope(t)
                 PROVE  index'[task[t].coll][j][d] \in {t, NoPoint}
      BY <2>1, <2>2 DEF SweptScopeIsPure, InScope
    <3>1. CASE t = s BY <1>1, <3>1, OwnSweep
    <3>2. CASE t # s
      <4>1. phase[t] = "swept" BY <2>1, <3>2
      <4>2. Exclusive(t) BY <1>0, <4>1 DEF DataWhileHolding
      <4>3. index[task[t].coll][j][d] \in {t, NoPoint}
        BY <1>0, <4>1 DEF SweptScopeIsPure
      <4> QED BY <1>1, <3>2, <4>1, <4>2, <4>3, OthersPointsStay
    <3> QED BY <3>1, <3>2
  <2> QED BY <2>5, <2>6, <2>7
<1>2. ASSUME NEW S \in SUBSET Slots, index' = Retired(S),
             \A t \in Slots \ S : /\ phase'[t] = phase[t] /\ written'[t] = written[t]
                                 /\ task'[t] = task[t] /\ options'[t] = options[t],
             \A t \in Slots \cap S : phase'[t] = "start" /\ written'[t] = {}
      PROVE  WrittenPointsSurvive' /\ SweptScopeIsPure'
  <2>1. ASSUME NEW c \in Collections, NEW j \in Jobs, NEW d \in Docs
        PROVE  index'[c][j][d] = IF index[c][j][d] \in S THEN Past
                                 ELSE index[c][j][d]
    BY <1>2 DEF Retired
  <2>2. \A t \in Slots : phase[t] # "start" =>
           task[t].job \in Jobs /\ task[t].coll \in Collections
    BY BusyHolds
  <2>3. WrittenPointsSurvive'
    <3> SUFFICES ASSUME NEW t \in Slots, NEW d \in written'[t]
                 PROVE  index'[task'[t].coll][task'[t].job][d] = t
      BY DEF WrittenPointsSurvive
    <3>1. t \notin S /\ d \in written[t] /\ d \in Docs /\ task'[t] = task[t]
      BY <1>0, <1>2 DEF GSTypeOK
    <3>2. phase[t] # "start" BY <1>0, <3>1 DEF DataWhileHolding
    <3>3. index[task[t].coll][task[t].job][d] = t
      BY <1>0, <3>1 DEF WrittenPointsSurvive
    <3> QED BY <2>1, <2>2, <3>1, <3>2, <3>3
  <2>4. SweptScopeIsPure'
    <3> SUFFICES ASSUME NEW t \in Slots, phase'[t] = "swept",
                        NEW j \in Jobs, NEW d \in Docs, <<j, d>> \in InScope(t)'
                 PROVE  index'[task'[t].coll][j][d] \in {t, NoPoint}
      BY DEF SweptScopeIsPure
    <3>1. t \notin S /\ phase[t] = "swept" /\ task'[t] = task[t]
          /\ options'[t] = options[t]
      BY <1>2
    <3>2. index[task[t].coll][j][d] \in {t, NoPoint}
      BY <1>0, <3>1 DEF SweptScopeIsPure, InScope
    <3>3. task[t].coll \in Collections BY <2>2, <3>1
    \* Only the run itself stamps its id, and it is not retired.
    <3>4. index[task[t].coll][j][d] \notin S
      BY <1>2, <3>1, <3>2, GenerationSweepAssumption
    <3> QED BY <2>1, <3>1, <3>2, <3>3, <3>4
  <2> QED BY <2>3, <2>4
<1>3. ASSUME NEW s \in Slots, LeaveCollection(s) PROVE Goal
  <2>1. /\ index' = Retired({s}) /\ task' = task /\ options' = options
        /\ phase' = [phase EXCEPT ![s] = "start"]
        /\ written' = [written EXCEPT ![s] = {}]
        /\ pc' = [pc EXCEPT ![s] = "leaving"]
    BY <1>3 DEF LeaveCollection, ReleaseCollection
  <2>2. \A t \in Slots \ {s} : /\ phase'[t] = phase[t] /\ written'[t] = written[t]
                               /\ task'[t] = task[t] /\ options'[t] = options[t]
                               /\ pc'[t] = pc[t]
    BY <1>0, <2>1 DEF GSTypeOK, RLTypeOK
  <2>3. phase'[s] = "start" /\ written'[s] = {}
    BY <1>0, <2>1 DEF GSTypeOK
  <2>4. WrittenPointsSurvive' /\ SweptScopeIsPure'
    BY <1>2, <2>1, <2>2, <2>3
  <2>5. DataWhileHolding'
    BY <1>0, <2>1, <2>2, <2>3 DEF DataWhileHolding, Exclusive
  <2> QED BY <2>4, <2>5
<1>4. CASE GSRestart
  <2>1. index' = Retired(Slots) BY <1>4 DEF GSRestart
  <2>2. \A t \in Slots : phase'[t] = "start" /\ written'[t] = {}
    BY <1>4 DEF GSRestart
  <2>3. WrittenPointsSurvive' /\ SweptScopeIsPure' BY <1>2, <2>1, <2>2
  <2> QED BY <2>2, <2>3 DEF DataWhileHolding
<1>5. ASSUME UNCHANGED <<index, phase, written>>,
             \A t \in Slots : phase[t] # "start" =>
                /\ task'[t] = task[t] /\ options'[t] = options[t]
                /\ pc'[t] \in {"running", "closing"}
      PROVE  Goal
  <2>1. DataWhileHolding' BY <1>0, <1>5 DEF DataWhileHolding, Exclusive
  <2>2. WrittenPointsSurvive'
    BY <1>0, <1>5 DEF WrittenPointsSurvive, DataWhileHolding
  <2>3. SweptScopeIsPure' BY <1>0, <1>5 DEF SweptScopeIsPure, InScope
  <2> QED BY <2>1, <2>2, <2>3
<1>6. ASSUME NEW s \in Slots, StartRun(s) \/ LeaveJob(s) PROVE Goal
  <2>1. phase[s] = "start"
    BY <1>0, <1>6 DEF DataWhileHolding, StartRun, Begin, LeaveJob,
                      AcquireTimeout, ReleaseJob
  <2>2. OthersStay(s)
    BY <1>0, <1>6, SlotStep DEF StartRun, LeaveJob, SlotNext
  <2>3. \A t \in Slots \ {s} : options'[t] = options[t]
    BY <1>0, <1>6 DEF GSTypeOK, StartRun, LeaveJob
  <2>4. UNCHANGED <<index, phase, written>>
    BY <1>6 DEF StartRun, LeaveJob
  <2> QED BY <1>0, <1>5, <2>1, <2>2, <2>3, <2>4
      DEF OthersStay, DataWhileHolding
<1>7. ASSUME NEW s \in Slots, LockStep(s) PROVE Goal
  <2>1. OthersStay(s)
    BY <1>0, <1>7, SlotStep DEF LockStep, SlotNext
  <2>2. UNCHANGED <<index, phase, written, options>>
    BY <1>7 DEF LockStep, dataVars
  <2>3. phase[s] # "start" => task'[s] = task[s] /\ pc'[s] = "closing"
    BY <1>0, <1>7
    DEF DataWhileHolding, LockStep, Refuse, NameActiveRun, Return, Acquire,
        CreateRun, CreateRunFails, FinishRun, FinishRunUnrecorded, RLTypeOK
  <2> QED BY <1>0, <1>5, <2>1, <2>2, <2>3 DEF OthersStay, DataWhileHolding
<1>8. CASE ReloadCatalog
  BY <1>0, <1>5, <1>8 DEF ReloadCatalog, dataVars, rlVars, DataWhileHolding
<1>9. CASE UNCHANGED gsVars
  BY <1>0, <1>5, <1>9 DEF gsVars, DataWhileHolding
<1> QED BY <1>1, <1>3, <1>4, <1>6, <1>7, <1>8, <1>9
        DEF GSNext, GSSlotNext, DataStep

(* GSInv holds initially.                                                  *)
LEMMA GSInitInv == GSInit => GSInv
<1> SUFFICES ASSUME GSInit PROVE GSInv OBVIOUS
<1>1. RLInv BY RLInitInv DEF GSInit
<1>2. (CHOOSE d \in Docs : TRUE) \in Docs BY GenerationSweepAssumption
<1>3. GSTypeOK
  BY <1>2, GenerationSweepAssumption
  DEF GSInit, GSTypeOK, Options, NoOptions
<1> QED BY <1>1, <1>3
        DEF GSInv, GSInit, DataWhileHolding, WrittenPointsSurvive, SweptScopeIsPure

(* GSInv is inductive.                                                     *)
LEMMA GSInvStep == GSInv /\ [GSNext]_gsVars => GSInv'
BY GSTypeStep, GSDataStep, LockRefinement, RLInvStep DEF GSInv

(* GSInv holds in every state of every behaviour.                          *)
THEOREM SweepInvariant == GSSpec => []GSInv
BY GSInitInv, GSInvStep, PTL DEF GSSpec

(* What a working run has indexed, no other run removes: the correctness   *)
(* requirement of locks.py:3-11.                                           *)
THEOREM ForeignSweepsSpareRuns == GSSpec => []WrittenPointsSurvive
BY SweepInvariant, PTL DEF GSInv

(* After a sweep only the run's own generation is left in its scope        *)
(* (runner.py:258-260).                                                    *)
THEOREM SweepLeavesOwnGeneration == GSSpec => []SweptScopeIsPure
BY SweepInvariant, PTL DEF GSInv

(* Only its own runs change a job's points, but for a full run of the      *)
(* whole collection (docs/modes.md:10-11).                                 *)
THEOREM JobsKeepApart == GSSpec => OtherJobsUntouched
<1>1. ASSUME GSInv, [GSNext]_gsVars PROVE [OtherJobsUntouchedStep]_gsVars
  <2>1. ASSUME NEW s \in Slots, DataStep(s) PROVE OtherJobsUntouchedStep
    <3>1. /\ pc[s] = "running"
          /\ \A c \in Collections, j \in Jobs, d \in Docs :
               index'[c][j][d] # index[c][j][d] =>
                 /\ c = task[s].coll
                 /\ \/ j = task[s].job
                    \/ Exclusive(s) /\ options[s].scope = "collection"
      BY <1>1, <2>1, DataFrame
    <3> QED BY <3>1 DEF OtherJobsUntouchedStep
  <2>2. ASSUME NEW S, index' = Retired(S) PROVE OtherJobsUntouchedStep
    BY <2>2 DEF OtherJobsUntouchedStep, Retired
  <2>3. ASSUME NEW s \in Slots, LeaveCollection(s) PROVE OtherJobsUntouchedStep
    BY <2>2, <2>3 DEF LeaveCollection
  <2>4. CASE GSRestart BY <2>2, <2>4 DEF GSRestart
  <2>5. ASSUME NEW s \in Slots, StartRun(s) \/ LockStep(s) \/ LeaveJob(s)
        PROVE  OtherJobsUntouchedStep
    BY <2>5 DEF OtherJobsUntouchedStep, StartRun, LockStep, LeaveJob, dataVars
  <2>6. CASE ReloadCatalog
    BY <2>6 DEF OtherJobsUntouchedStep, ReloadCatalog, dataVars
  <2> QED BY <1>1, <2>1, <2>3, <2>4, <2>5, <2>6
          DEF GSNext, GSSlotNext, DataStep
<1> QED BY <1>1, SweepInvariant, PTL DEF GSSpec, OtherJobsUntouched
=============================================================================
