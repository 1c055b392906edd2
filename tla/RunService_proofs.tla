-------------------------- MODULE RunService_proofs --------------------------
(***************************************************************************)
(* The job lock never has two owners and never none while it is held, for  *)
(* every number of threads and requests, with and without a schedule.      *)
(***************************************************************************)
EXTENDS RunService, FiniteSetTheorems, TLAPS

\* LockHasOneOwner without cardinalities.
OneOwner ==
    /\ \A s, t \in Threads : Owner(s) /\ Owner(t) => s = t
    /\ lock <=> \E t \in Threads : Owner(t)

RSInv == RSTypeOK /\ OneOwner

(* At the start the lock is free and no thread runs.                       *)
LEMMA RSInitInv == RSInit => RSInv
<1> SUFFICES ASSUME RSInit PROVE RSInv OBVIOUS
<1>1. RSTypeOK
  BY RunServiceAssumption DEF RSInit, RSTypeOK
<1>2. \A t \in Threads : ~Owner(t)
  BY DEF RSInit, Owner
<1>3. ~lock BY DEF RSInit
<1> QED BY <1>1, <1>2, <1>3 DEF RSInv, OneOwner

\* A run moves on without touching the lock or changing owners.
Unmoved(t) ==
    /\ thread' \in [Threads -> {"free", "firing", "waiting", "working",
                                "document", "closing", "cleanup", "followup"}]
    /\ lock' = lock
    /\ Owner(t)' = Owner(t)
    /\ \A u \in Threads \ {t} : thread'[u] = thread[u]

\* Free lock, taken by t.
Taken(t) ==
    /\ ~lock /\ lock' = TRUE /\ Owner(t)'
    /\ \A u \in Threads \ {t} : thread'[u] = thread[u]

(* A step that leaves the lock and the owners alone keeps the invariant.   *)
LEMMA UnmovedKeeps ==
    ASSUME OneOwner, NEW t \in Threads, Unmoved(t)
    PROVE  OneOwner'
<1>1. \A u \in Threads : Owner(u)' = Owner(u) BY DEF Unmoved, Owner
<1>2. lock' = lock BY DEF Unmoved
<1> QED BY <1>1, <1>2 DEF OneOwner

(* Who takes the free lock is its only owner.                              *)
LEMMA TakenKeeps ==
    ASSUME OneOwner, NEW t \in Threads, Taken(t)
    PROVE  OneOwner'
<1>1. \A u \in Threads \ {t} : ~Owner(u) BY DEF OneOwner, Taken
<1>2. \A u \in Threads \ {t} : ~Owner(u)' BY <1>1 DEF Taken, Owner
<1>3. Owner(t)' /\ lock' = TRUE BY DEF Taken
<1> QED BY <1>2, <1>3 DEF OneOwner

(* Every step keeps the types.                                             *)
LEMMA RSTypeStep == RSTypeOK /\ [RSNext]_rsVars => RSTypeOK'
<1> SUFFICES ASSUME RSTypeOK, [RSNext]_rsVars PROVE RSTypeOK' OBVIOUS
<1> USE RunServiceAssumption DEF RSTypeOK
<1>1. ASSUME NEW t \in Threads, TriggerRun(t) PROVE RSTypeOK'
  BY <1>1 DEF TriggerRun, Idle
<1>2. ASSUME NEW t \in Threads, CronFire(t) PROVE RSTypeOK'
  BY <1>2 DEF CronFire, Idle
<1>3. ASSUME NEW t \in Threads, CronBegin(t) PROVE RSTypeOK'
  BY <1>3 DEF CronBegin
<1>4. ASSUME NEW t \in Threads, EnterCollection(t) PROVE RSTypeOK'
  BY <1>4 DEF EnterCollection
<1>5. ASSUME NEW t \in Threads, LockTimeout(t) PROVE RSTypeOK'
  BY <1>5 DEF LockTimeout
<1>6. ASSUME NEW t \in Threads, StartDocument(t) PROVE RSTypeOK'
  BY <1>6 DEF StartDocument
<1>7. ASSUME NEW t \in Threads, EndDocument(t) PROVE RSTypeOK'
  BY <1>7 DEF EndDocument
<1>8. ASSUME NEW t \in Threads, Interrupt(t) \/ Finish(t) PROVE RSTypeOK'
  <2>1. /\ thread' = [thread EXCEPT ![t] = "closing"]
        /\ row' = [row EXCEPT ![t] = FALSE]
        /\ UNCHANGED <<lock, kind, aborts, queued, client, target, shutdown>>
    BY <1>8 DEF Interrupt, Finish, EndRow
  <2> QED BY <2>1
<1>9. ASSUME NEW t \in Threads, ReleaseLock(t) PROVE RSTypeOK'
  <2>1. /\ lock' = FALSE
        /\ UNCHANGED <<kind, row, queued, client, shutdown>>
    BY <1>9 DEF ReleaseLock
  <2>2. CASE kind[t] = "manual"
    <3>1. thread' = [thread EXCEPT ![t] = "cleanup"] /\ UNCHANGED <<aborts, target>>
      BY <1>9, <2>2 DEF ReleaseLock
    <3>2. thread[t] = "closing" BY <1>9 DEF ReleaseLock
    <3> QED BY <2>1, <3>1, <3>2
  <2>3. CASE kind[t] # "manual"
    <3>1. thread' = [thread EXCEPT ![t] = "free"] /\ Retire(t)
      BY <1>9, <2>3 DEF ReleaseLock
    <3>2. thread[t] = "closing" BY <1>9 DEF ReleaseLock
    <3>3. aborts' \subseteq Threads /\ target' \in [Clients -> Threads \cup {NoThread}]
      BY <3>1 DEF Retire
    <3> QED BY <2>1, <3>1, <3>2, <3>3
  <2> QED BY <2>2, <2>3
<1>10. ASSUME NEW t \in Threads, Cleanup(t) PROVE RSTypeOK'
  <2>1. aborts' \subseteq Threads /\ target' \in [Clients -> Threads \cup {NoThread}]
    BY <1>10 DEF Cleanup, Retire
  <2> QED BY <1>10, <2>1 DEF Cleanup
<1>11. ASSUME NEW t \in Threads, FollowUp(t) PROVE RSTypeOK'
  BY <1>11 DEF FollowUp
<1>12. ASSUME NEW c \in Clients, TriggerRefused(c) PROVE RSTypeOK'
  BY <1>12 DEF TriggerRefused
<1>13. ASSUME NEW c \in Clients, RequestAbort(c) PROVE RSTypeOK'
  BY <1>13 DEF RequestAbort
<1>14. ASSUME NEW c \in Clients, Answer(c) PROVE RSTypeOK'
  BY <1>14 DEF Answer, Enqueue, RecordAbort
<1>15. ASSUME Shutdown PROVE RSTypeOK'
  BY <1>15 DEF Shutdown
<1>16. CASE UNCHANGED rsVars
  BY <1>16 DEF rsVars
<1> QED BY <1>1, <1>2, <1>3, <1>4, <1>5, <1>6, <1>7, <1>8, <1>9, <1>10, <1>11,
           <1>12, <1>13, <1>14, <1>15, <1>16 DEF RSNext, Advance

(* Every step keeps the owner of the lock unique.                          *)
LEMMA OneOwnerStep == RSTypeOK /\ OneOwner /\ [RSNext]_rsVars => OneOwner'
<1> SUFFICES ASSUME RSTypeOK, OneOwner, [RSNext]_rsVars PROVE OneOwner' OBVIOUS
<1>0. thread \in [Threads -> {"free", "firing", "waiting", "working",
                              "document", "closing", "cleanup", "followup"}]
      /\ lock \in BOOLEAN
  BY DEF RSTypeOK
<1>1. ASSUME NEW t \in Threads, TriggerRun(t) PROVE OneOwner'
  <2>1. Taken(t) BY <1>0, <1>1 DEF TriggerRun, Taken, Owner
  <2> QED BY <2>1, TakenKeeps
<1>2. ASSUME NEW t \in Threads,
             \/ CronFire(t) \/ EnterCollection(t) \/ LockTimeout(t)
             \/ StartDocument(t) \/ EndDocument(t)
             \/ Interrupt(t) \/ Finish(t) \/ Cleanup(t)
      PROVE OneOwner'
  <2>1. Unmoved(t)
    BY <1>0, <1>2 DEF CronFire, EnterCollection, LockTimeout, StartDocument,
       EndDocument, Interrupt, Finish, EndRow, Cleanup, Unmoved, Owner, Idle
  <2> QED BY <2>1, UnmovedKeeps
<1>3. ASSUME NEW t \in Threads, CronBegin(t) \/ FollowUp(t) PROVE OneOwner'
  <2>1. CASE lock
    <3>1. lock' = lock
      <4>1. lock = TRUE BY <1>0, <2>1
      <4> QED BY <1>3, <4>1 DEF CronBegin, FollowUp
    <3>2. thread' = [thread EXCEPT ![t] = "free"] /\ ~Owner(t)
      BY <1>3, <2>1 DEF CronBegin, FollowUp, Owner
    <3>3. Unmoved(t) BY <1>0, <3>1, <3>2 DEF Unmoved, Owner
    <3> QED BY <3>3, UnmovedKeeps
  <2>2. CASE ~lock
    <3>1. Taken(t)
      BY <1>0, <1>3, <2>2 DEF CronBegin, FollowUp, Taken, Owner
    <3> QED BY <3>1, TakenKeeps
  <2> QED BY <2>1, <2>2
<1>4. ASSUME NEW t \in Threads, ReleaseLock(t) PROVE OneOwner'
  <2>1. Owner(t) BY <1>4 DEF ReleaseLock, Owner
  <2>2. \A u \in Threads \ {t} : ~Owner(u) BY <2>1 DEF OneOwner
  <2>3. \A u \in Threads \ {t} : thread'[u] = thread[u]
    BY <1>0, <1>4 DEF ReleaseLock
  <2>4. \A u \in Threads \ {t} : ~Owner(u)' BY <2>2, <2>3 DEF Owner
  <2>5. ~Owner(t)' /\ lock' = FALSE BY <1>0, <1>4 DEF ReleaseLock, Owner
  <2> QED BY <2>4, <2>5 DEF OneOwner
<1>5. CASE UNCHANGED <<lock, thread>>
  BY <1>5 DEF OneOwner, Owner
<1>6. ASSUME NEW c \in Clients, TriggerRefused(c) \/ RequestAbort(c) \/ Answer(c)
      PROVE UNCHANGED <<lock, thread>>
  BY <1>6 DEF TriggerRefused, RequestAbort, Answer, Enqueue, RecordAbort
<1>7. Shutdown \/ UNCHANGED rsVars => UNCHANGED <<lock, thread>>
  BY DEF Shutdown, rsVars
<1> QED BY <1>1, <1>2, <1>3, <1>4, <1>5, <1>6, <1>7 DEF RSNext, Advance

(* One owner while the lock is held, none while it is free, as a number.   *)
LEMMA OwnersCounted == OneOwner => LockHasOneOwner
<1> SUFFICES ASSUME OneOwner PROVE LockHasOneOwner OBVIOUS
<1> DEFINE owners == {t \in Threads : Owner(t)}
<1>1. CASE lock
  <2>1. PICK t \in Threads : Owner(t) BY <1>1 DEF OneOwner
  <2>2. owners = {t} BY <2>1 DEF OneOwner
  <2> QED BY <1>1, <2>2, FS_Singleton DEF LockHasOneOwner
<1>2. CASE ~lock
  <2>1. owners = {} BY <1>2 DEF OneOwner
  <2> QED BY <1>2, <2>1, FS_EmptySet DEF LockHasOneOwner
<1> QED BY <1>1, <1>2

(* RSInv holds in every state of every behaviour.                          *)
THEOREM RunServiceInvariant == RSSpec => []RSInv
<1>1. RSInv /\ [RSNext]_rsVars => RSInv'
  BY RSTypeStep, OneOwnerStep DEF RSInv
<1> QED BY <1>1, RSInitInv, PTL DEF RSSpec

(* The engine's bookkeeping keeps its types; a row says "running" exactly  *)
(* while its run is inside the collection (service.py:83-100).             *)
THEOREM RunServiceTypes == RSSpec => []RSTypeOK
BY RunServiceInvariant, PTL DEF RSInv

(* Manual triggers, firings of the scheduler and follow-ups never own the  *)
(* job lock together, and none of them ends without giving it back         *)
(* (service.py:360-428, locks.py:112-165).                                 *)
THEOREM OneOwnerOfTheJob == RSSpec => []LockHasOneOwner
BY RunServiceInvariant, OwnersCounted, PTL DEF RSInv
=============================================================================
