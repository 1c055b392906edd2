-------------------------- MODULE RunHistory_proofs --------------------------
(***************************************************************************)
(* The runs table tells the truth about the runs at work, whatever is      *)
(* pruned, deleted or left behind by a crash, for any number of jobs and   *)
(* runs, any clock and any history limit.                                  *)
(***************************************************************************)
EXTENDS RunHistory, TLAPS

Rows == [job : HistoryJobs, started : Stamps, status : Final \cup {"running"}]

(* An end finds its row because the row of a run at work is never removed, *)
(* an event has a row for the same reason: the four parts need each other. *)
RHInv == RHTypeOK /\ LiveRunIsListed /\ RunningIsAlive /\ NoOrphanEvents

LEMMA RHInitInv == RHInit => RHInv
  BY DEF RHInit, RHInv, RHTypeOK, LiveRunIsListed, RunningIsAlive, NoOrphanEvents

-----------------------------------------------------------------------------
(* What the operators do to the table.                                     *)

\* A new row leaves the others alone.
LEMMA PutRow ==
    ASSUME NEW i \in RunIds, NEW row \in Rows, RHTypeOK, i \notin used, Put(i, row)
    PROVE  /\ DOMAIN runs' = DOMAIN runs \cup {i}
           /\ runs' \in [DOMAIN runs' -> Rows]
           /\ runs'[i] = row
           /\ \A k \in DOMAIN runs : runs'[k] = runs[k]
  BY DEF Put, RHTypeOK, Rows

\* A removal leaves the others alone.
LEMMA WithoutRows ==
    ASSUME NEW rs, RHTypeOK, NoOrphanEvents, Without(rs)
    PROVE  /\ DOMAIN runs' = DOMAIN runs \ rs
           /\ runs' \in [DOMAIN runs' -> Rows]
           /\ \A k \in DOMAIN runs' : runs'[k] = runs[k]
           /\ DOMAIN events' \subseteq DOMAIN runs'
  BY DEF Without, Restrict, RHTypeOK, NoOrphanEvents, Rows

\* The end of a run is written into its row, and nowhere else.
LEMMA UpdateRow ==
    ASSUME RHTypeOK, LiveRunIsListed, NEW j \in HistoryJobs, at[j] = "working",
           NEW status \in {"success", "failed"}, Update(j, status)
    PROVE  /\ current[j] \in DOMAIN runs
           /\ DOMAIN runs' = DOMAIN runs
           /\ runs' \in [DOMAIN runs' -> Rows]
           /\ runs[current[j]].job = j /\ runs[current[j]].status = "running"
           /\ runs'[current[j]].job = j /\ runs'[current[j]].status = status
           /\ \A k \in DOMAIN runs \ {current[j]} : runs'[k] = runs[k]
<1>1. /\ current[j] \in DOMAIN runs
      /\ runs[current[j]].job = j /\ runs[current[j]].status = "running"
  BY DEF LiveRunIsListed, RowsOf
<1>2. runs' = [runs EXCEPT ![current[j]].status = status]
  BY <1>1 DEF Update
<1>3. runs[current[j]] \in Rows BY <1>1 DEF RHTypeOK, Rows
<1>4. status \in Final \cup {"running"} BY DEF Final
<1> QED BY <1>1, <1>2, <1>3, <1>4 DEF RHTypeOK, Rows

\* A restart closes the rows that are open, and no others.
LEMMA ReconciledRows ==
    ASSUME RHTypeOK, runs' = Reconciled
    PROVE  /\ DOMAIN runs' = DOMAIN runs
           /\ runs' \in [DOMAIN runs' -> Rows]
           /\ \A i \in DOMAIN runs : /\ runs'[i].status # "running"
                                     /\ runs[i].status # "running" => runs'[i] = runs[i]
<1>1. DOMAIN runs' = DOMAIN runs BY DEF Reconciled
<1>2. ASSUME NEW i \in DOMAIN runs
      PROVE  /\ runs'[i] \in Rows /\ runs'[i].status # "running"
             /\ runs[i].status # "running" => runs'[i] = runs[i]
  <2>1. runs[i] \in Rows BY DEF RHTypeOK, Rows
  <2>2. CASE runs[i].status = "running"
    <3>1. runs'[i] = [runs[i] EXCEPT !.status = "interrupted"] BY <2>2 DEF Reconciled
    <3> QED BY <2>1, <2>2, <3>1 DEF Rows, Final
  <2>3. CASE runs[i].status # "running"
    <3>1. runs'[i] = runs[i] BY <2>3 DEF Reconciled
    <3> QED BY <2>1, <2>3, <3>1
  <2> QED BY <2>2, <2>3
<1>3. runs' = [i \in DOMAIN runs |-> runs'[i]] BY DEF Reconciled
<1> QED BY <1>1, <1>2, <1>3

-----------------------------------------------------------------------------
(* The calls of a run.                                                     *)

LEMMA CreateStep ==
    ASSUME RHInv, NEW j \in HistoryJobs, Create(j) \/ CreateAborted(j)
    PROVE  RHInv'
<1> USE DEF RHInv
<1>1. CASE Create(j)
  <2>1. PICK i \in RunIds \ used, s \in Stamps :
          /\ Put(i, [job |-> j, started |-> s, status |-> "running"])
          /\ current' = [current EXCEPT ![j] = i] /\ used' = used \cup {i}
    BY <1>1 DEF Create
  <2> DEFINE row == [job |-> j, started |-> s, status |-> "running"]
  <2>2. row \in Rows BY DEF Rows
  <2>3. /\ DOMAIN runs' = DOMAIN runs \cup {i} /\ runs' \in [DOMAIN runs' -> Rows]
        /\ runs'[i] = row /\ \A k \in DOMAIN runs : runs'[k] = runs[k]
    BY <2>1, <2>2, PutRow
  <2>4. /\ at[j] = "idle" /\ at' = [at EXCEPT ![j] = "working"]
        /\ UNCHANGED <<events, lost>>
    BY <1>1 DEF Create, Step
  <2>5. /\ at'[j] = "working" /\ current'[j] = i
        /\ \A k \in HistoryJobs \ {j} : at'[k] = at[k] /\ current'[k] = current[k]
    BY <2>1, <2>4 DEF RHTypeOK
  <2>6. RHTypeOK'
    <3>1. /\ at' \in [HistoryJobs -> {"idle", "working", "pruning"}]
          /\ current' \in [HistoryJobs -> used' \cup {Nobody}]
      BY <2>1, <2>4 DEF RHTypeOK
    <3>2. \A k \in HistoryJobs : at'[k] # "idle" => current'[k] \in used'
      BY <2>1, <2>5 DEF RHTypeOK
    <3>3. DOMAIN runs' \subseteq used' /\ used' \subseteq RunIds
      BY <2>1, <2>3 DEF RHTypeOK
    <3> QED BY <2>3, <3>1, <3>2, <3>3 DEF RHTypeOK, Rows
  <2>7. LiveRunIsListed'
    <3>1. i \in RowsOf(j)' /\ runs'[i].status = "running"
      BY <2>3 DEF RowsOf
    <3>2. ASSUME NEW k \in HistoryJobs \ {j}, at[k] = "working"
          PROVE  current[k] \in RowsOf(k)' /\ runs'[current[k]].status = "running"
      BY <2>3, <3>2 DEF LiveRunIsListed, RowsOf
    <3> QED BY <2>5, <3>1, <3>2 DEF LiveRunIsListed
  <2>8. RunningIsAlive'
    <3> SUFFICES ASSUME NEW k \in DOMAIN runs', runs'[k].status = "running"
                 PROVE  k \in lost' \/ \E u \in HistoryJobs : at'[u] = "working" /\ current'[u] = k
      BY DEF RunningIsAlive
    <3>1. CASE k = i BY <2>5, <3>1
    <3>2. CASE k # i
      <4>1. k \in DOMAIN runs /\ runs[k].status = "running" BY <2>3, <3>2
      <4>2. k \in lost \/ \E u \in HistoryJobs \ {j} : at[u] = "working" /\ current[u] = k
        BY <2>4, <4>1 DEF RunningIsAlive
      <4> QED BY <2>4, <2>5, <4>2
    <3> QED BY <3>1, <3>2
  <2>9. NoOrphanEvents' BY <2>3, <2>4 DEF NoOrphanEvents
  <2> QED BY <2>6, <2>7, <2>8, <2>9
<1>2. CASE CreateAborted(j)
  <2>1. PICK i \in RunIds \ used, s \in Stamps :
          /\ Put(i, [job |-> j, started |-> s, status |-> "aborted_lock"])
          /\ used' = used \cup {i}
    BY <1>2 DEF CreateAborted
  <2> DEFINE row == [job |-> j, started |-> s, status |-> "aborted_lock"]
  <2>2. row \in Rows BY DEF Rows, Final
  <2>3. /\ DOMAIN runs' = DOMAIN runs \cup {i} /\ runs' \in [DOMAIN runs' -> Rows]
        /\ runs'[i] = row /\ \A k \in DOMAIN runs : runs'[k] = runs[k]
    BY <2>1, <2>2, PutRow
  <2>4. UNCHANGED <<at, current, events, lost>> BY <1>2 DEF CreateAborted
  <2>5. RHTypeOK' BY <2>1, <2>3, <2>4 DEF RHTypeOK, Rows
  <2>6. LiveRunIsListed'
    BY <2>1, <2>3, <2>4 DEF RHTypeOK, LiveRunIsListed, RowsOf
  <2>7. RunningIsAlive'
    BY <2>1, <2>3, <2>4 DEF RHTypeOK, RunningIsAlive
  <2>8. NoOrphanEvents' BY <2>3, <2>4 DEF NoOrphanEvents
  <2> QED BY <2>5, <2>6, <2>7, <2>8
<1> QED BY <1>1, <1>2

LEMMA AddEventStep ==
    ASSUME RHInv, NEW j \in HistoryJobs, AddEvent(j)
    PROVE  RHInv'
<1>1. /\ at[j] = "working" /\ DOMAIN events' = DOMAIN events \cup {current[j]}
      /\ UNCHANGED <<runs, at, current, used, lost>>
  BY DEF AddEvent
<1>2. current[j] \in DOMAIN runs BY <1>1 DEF RHInv, LiveRunIsListed, RowsOf
<1>3. NoOrphanEvents' BY <1>1, <1>2 DEF RHInv, NoOrphanEvents
<1>4. RHTypeOK' BY <1>1 DEF RHInv, RHTypeOK
<1>5. LiveRunIsListed' BY <1>1 DEF RHInv, LiveRunIsListed, RowsOf
<1>6. RunningIsAlive' BY <1>1 DEF RHInv, RunningIsAlive
<1> QED BY <1>3, <1>4, <1>5, <1>6 DEF RHInv

LEMMA EndStep ==
    ASSUME RHInv, NEW j \in HistoryJobs, End(j) \/ EndFails(j)
    PROVE  RHInv'
<1> USE DEF RHInv
<1>1. CASE End(j)
  <2>1. PICK status \in {"success", "failed"} : Update(j, status)
    BY <1>1 DEF End
  <2>2. at[j] = "working" /\ at' = [at EXCEPT ![j] = "pruning"]
        /\ UNCHANGED <<events, current, used, lost>>
    BY <1>1 DEF End, Step
  <2>3. /\ current[j] \in DOMAIN runs
        /\ DOMAIN runs' = DOMAIN runs
        /\ runs' \in [DOMAIN runs' -> Rows]
        /\ runs[current[j]].job = j
        /\ runs'[current[j]].job = j /\ runs'[current[j]].status = status
        /\ \A k \in DOMAIN runs \ {current[j]} : runs'[k] = runs[k]
    BY <2>1, <2>2, UpdateRow
  <2>4. RHTypeOK' BY <2>2, <2>3 DEF RHTypeOK, Rows
  <2>5. LiveRunIsListed'
    <3> SUFFICES ASSUME NEW k \in HistoryJobs, at'[k] = "working"
                 PROVE  current'[k] \in RowsOf(k)' /\ runs'[current'[k]].status = "running"
      BY DEF LiveRunIsListed
    <3>1. k # j /\ at[k] = "working" BY <2>2 DEF RHTypeOK
    <3>2. current[k] \in DOMAIN runs /\ runs[current[k]].job = k
          /\ runs[current[k]].status = "running"
      BY <3>1 DEF LiveRunIsListed, RowsOf
    <3>3. current[k] # current[j] BY <2>3, <3>1, <3>2
    <3> QED BY <2>2, <2>3, <3>2, <3>3 DEF RowsOf
  <2>6. RunningIsAlive'
    <3> SUFFICES ASSUME NEW i \in DOMAIN runs', runs'[i].status = "running"
                 PROVE  i \in lost' \/ \E k \in HistoryJobs : at'[k] = "working" /\ current'[k] = i
      BY DEF RunningIsAlive
    <3>1. i # current[j] BY <2>1, <2>3
    <3>2. runs[i].status = "running" BY <2>3, <3>1
    <3>3. i \in lost \/ \E k \in HistoryJobs \ {j} : at[k] = "working" /\ current[k] = i
      BY <2>3, <3>1, <3>2 DEF RunningIsAlive
    <3> QED BY <2>2, <3>3 DEF RHTypeOK
  <2>7. NoOrphanEvents' BY <2>2, <2>3 DEF NoOrphanEvents
  <2> QED BY <2>4, <2>5, <2>6, <2>7
<1>2. CASE EndFails(j)
  <2>1. /\ at[j] = "working" /\ at' = [at EXCEPT ![j] = "idle"]
        /\ current' = [current EXCEPT ![j] = Nobody]
        /\ lost' = lost \cup {current[j]}
        /\ UNCHANGED <<runs, events, used>>
    BY <1>2 DEF EndFails, Step
  <2>2. RHTypeOK' BY <2>1 DEF RHTypeOK
  <2>3. LiveRunIsListed' BY <2>1 DEF RHTypeOK, LiveRunIsListed, RowsOf
  <2>4. RunningIsAlive'
    <3> SUFFICES ASSUME NEW i \in DOMAIN runs, runs[i].status = "running"
                 PROVE  i \in lost' \/ \E k \in HistoryJobs : at'[k] = "working" /\ current'[k] = i
      BY <2>1 DEF RunningIsAlive
    <3>1. CASE i \in lost BY <2>1, <3>1
    <3>2. CASE \E k \in HistoryJobs : at[k] = "working" /\ current[k] = i
      <4>1. PICK k \in HistoryJobs : at[k] = "working" /\ current[k] = i BY <3>2
      <4>2. CASE k = j BY <2>1, <4>1, <4>2
      <4>3. CASE k # j
        <5>1. at'[k] = "working" /\ current'[k] = i BY <2>1, <4>1, <4>3 DEF RHTypeOK
        <5> QED BY <5>1
      <4> QED BY <4>2, <4>3
    <3> QED BY <3>1, <3>2 DEF RunningIsAlive
  <2>5. NoOrphanEvents' BY <2>1 DEF NoOrphanEvents
  <2> QED BY <2>2, <2>3, <2>4, <2>5
<1> QED BY <1>1, <1>2

-----------------------------------------------------------------------------
(* Removals and the restart.                                               *)

\* Rows that are not those of runs at work may be removed.
LEMMA RemovalStep ==
    ASSUME RHInv, NEW rs, Without(rs), UNCHANGED <<used, lost>>,
           \A k \in HistoryJobs : at[k] = "working" => current[k] \notin rs,
           at' \in [HistoryJobs -> {"idle", "working", "pruning"}],
           current' \in [HistoryJobs -> used \cup {Nobody}],
           \A k \in HistoryJobs : at'[k] # "idle" => current'[k] = current[k],
           \A k \in HistoryJobs : at'[k] = at[k] \/ (at[k] = "pruning" /\ at'[k] = "idle")
    PROVE  RHInv'
<1> USE DEF RHInv
<1>1. /\ DOMAIN runs' = DOMAIN runs \ rs /\ runs' \in [DOMAIN runs' -> Rows]
      /\ \A k \in DOMAIN runs' : runs'[k] = runs[k]
      /\ DOMAIN events' \subseteq DOMAIN runs'
  BY WithoutRows
<1>2. RHTypeOK' BY <1>1 DEF RHTypeOK, Rows
<1>3. LiveRunIsListed'
  <2> SUFFICES ASSUME NEW k \in HistoryJobs, at'[k] = "working"
               PROVE  current'[k] \in RowsOf(k)' /\ runs'[current'[k]].status = "running"
    BY DEF LiveRunIsListed
  <2>1. at[k] = "working" /\ current'[k] = current[k] OBVIOUS
  <2>2. current[k] \in DOMAIN runs' /\ runs[current[k]].job = k
        /\ runs[current[k]].status = "running"
    BY <1>1, <2>1 DEF LiveRunIsListed, RowsOf
  <2> QED BY <1>1, <2>1, <2>2 DEF RowsOf
<1>4. RunningIsAlive'
  <2> SUFFICES ASSUME NEW i \in DOMAIN runs', runs'[i].status = "running"
               PROVE  i \in lost' \/ \E k \in HistoryJobs : at'[k] = "working" /\ current'[k] = i
    BY DEF RunningIsAlive
  <2>1. i \in DOMAIN runs /\ runs[i].status = "running" BY <1>1
  <2>2. CASE i \in lost BY <2>2
  <2>3. CASE \E k \in HistoryJobs : at[k] = "working" /\ current[k] = i
    <3>1. PICK k \in HistoryJobs : at[k] = "working" /\ current[k] = i BY <2>3
    <3>2. at'[k] = "working" BY <3>1
    <3>3. current'[k] = i BY <3>1, <3>2
    <3> QED BY <3>2, <3>3
  <2> QED BY <2>1, <2>2, <2>3 DEF RunningIsAlive
<1>5. NoOrphanEvents' BY <1>1 DEF NoOrphanEvents
<1> QED BY <1>2, <1>3, <1>4, <1>5

LEMMA PruneStep ==
    ASSUME RHInv, NEW j \in HistoryJobs, Prune(j) \/ PruneFails(j)
    PROVE  RHInv'
<1>1. /\ at[j] = "pruning" /\ at' = [at EXCEPT ![j] = "idle"]
      /\ current' = [current EXCEPT ![j] = Nobody]
      /\ UNCHANGED <<used, lost>>
  BY DEF Prune, PruneFails, Step
<1>2. /\ at' \in [HistoryJobs -> {"idle", "working", "pruning"}]
      /\ current' \in [HistoryJobs -> used \cup {Nobody}]
      /\ \A k \in HistoryJobs : at'[k] = at[k] \/ (at[k] = "pruning" /\ at'[k] = "idle")
      /\ \A k \in HistoryJobs : at'[k] # "idle" => current'[k] = current[k]
  <2>1. \A k \in HistoryJobs : at'[k] # "idle" => k # j
    BY <1>1 DEF RHInv, RHTypeOK
  <2>2. ASSUME NEW k \in HistoryJobs, k # j PROVE current'[k] = current[k]
    BY <1>1, <2>2
  <2> QED BY <1>1, <2>1, <2>2 DEF RHInv, RHTypeOK
<1>3. CASE Prune(j)
  <2>1. PICK rs \in SUBSET DOMAIN runs : Stale(j, rs) /\ Without(rs)
    BY <1>3 DEF Prune
  <2>2. rs \subseteq RowsOf(j) BY <2>1 DEF Stale
  <2>3. \A k \in HistoryJobs : at[k] = "working" => current[k] \notin rs
    BY <1>1, <2>2 DEF RHInv, LiveRunIsListed, RowsOf
  <2> QED BY <1>1, <1>2, <2>1, <2>3, RemovalStep
<1>4. CASE PruneFails(j)
  <2>1. UNCHANGED <<runs, events>> BY <1>4 DEF PruneFails
  <2>2. RHTypeOK' BY <1>1, <1>2, <2>1 DEF RHInv, RHTypeOK
  <2>3. LiveRunIsListed' BY <1>2, <2>1 DEF RHInv, LiveRunIsListed, RowsOf
  <2>4. RunningIsAlive' 
    <3> SUFFICES ASSUME NEW i \in DOMAIN runs, runs[i].status = "running"
                 PROVE  i \in lost \/ \E k \in HistoryJobs : at'[k] = "working" /\ current'[k] = i
      BY <1>1, <2>1 DEF RunningIsAlive
    <3>1. i \in lost \/ \E k \in HistoryJobs : at[k] = "working" /\ current[k] = i
      BY DEF RHInv, RunningIsAlive
    <3> QED BY <1>2, <3>1
  <2>5. NoOrphanEvents' BY <2>1 DEF RHInv, NoOrphanEvents
  <2> QED BY <2>2, <2>3, <2>4, <2>5 DEF RHInv
<1> QED BY <1>3, <1>4

LEMMA DeleteRunsStep ==
    ASSUME RHInv, NEW j \in HistoryJobs, DeleteRuns(j)
    PROVE  RHInv'
<1>1. UNCHANGED <<at, current, used, lost>> BY DEF DeleteRuns
<1>2. PICK rs : /\ Without(rs)
                /\ \A i \in rs : i \in DOMAIN runs /\ runs[i].status # "running"
  BY DEF DeleteRuns, Deletable, RowsOf
<1>3. \A k \in HistoryJobs : at[k] = "working" => current[k] \notin rs
  BY <1>2 DEF RHInv, LiveRunIsListed
<1> QED BY <1>1, <1>2, <1>3, RemovalStep DEF RHInv, RHTypeOK

LEMMA RestartStep == RHInv /\ RestartEngine => RHInv'
<1> SUFFICES ASSUME RHInv, RestartEngine PROVE RHInv' OBVIOUS
<1>1. /\ runs' = Reconciled /\ lost' = {} /\ UNCHANGED <<events, used>>
      /\ at' = [j \in HistoryJobs |-> "idle"]
      /\ current' = [j \in HistoryJobs |-> Nobody]
  BY DEF RestartEngine
<1>2. /\ DOMAIN runs' = DOMAIN runs /\ runs' \in [DOMAIN runs' -> Rows]
      /\ \A i \in DOMAIN runs : runs'[i].status # "running"
  BY <1>1, ReconciledRows DEF RHInv
<1>3. RHTypeOK' BY <1>1, <1>2 DEF RHInv, RHTypeOK, Rows
<1>4. LiveRunIsListed' BY <1>1 DEF LiveRunIsListed
<1>5. RunningIsAlive' BY <1>2 DEF RunningIsAlive
<1>6. NoOrphanEvents' BY <1>1, <1>2 DEF RHInv, NoOrphanEvents
<1> QED BY <1>3, <1>4, <1>5, <1>6 DEF RHInv

LEMMA RHStep == RHInv /\ [RHNext]_rhVars => RHInv'
<1> SUFFICES ASSUME RHInv, [RHNext]_rhVars PROVE RHInv' OBVIOUS
<1>1. ASSUME NEW j \in HistoryJobs, Create(j) \/ CreateAborted(j) PROVE RHInv'
  BY <1>1, CreateStep
<1>2. ASSUME NEW j \in HistoryJobs, AddEvent(j) PROVE RHInv' BY <1>2, AddEventStep
<1>3. ASSUME NEW j \in HistoryJobs, End(j) \/ EndFails(j) PROVE RHInv' BY <1>3, EndStep
<1>4. ASSUME NEW j \in HistoryJobs, Prune(j) \/ PruneFails(j) PROVE RHInv'
  BY <1>4, PruneStep
<1>5. ASSUME NEW j \in HistoryJobs, DeleteRuns(j) PROVE RHInv' BY <1>5, DeleteRunsStep
<1>6. CASE RestartEngine BY <1>6, RestartStep
<1>7. CASE UNCHANGED rhVars
  BY <1>7 DEF rhVars, RHInv, RHTypeOK, LiveRunIsListed, RunningIsAlive, NoOrphanEvents, RowsOf
<1> QED BY <1>1, <1>2, <1>3, <1>4, <1>5, <1>6, <1>7 DEF RHNext

LEMMA RHAlways == RHSpec => []RHInv
<1> QED BY RHInitInv, RHStep, PTL DEF RHSpec

-----------------------------------------------------------------------------
(* The rows that say "running" are those of the runs at work, for any      *)
(* history limit and any clock, and of those whose end could not be        *)
(* written since the last start (db.py:416-440 and 457-461).               *)
THEOREM RunningRowsLive == RHSpec => []RunningRowsAreLive
<1>1. RHInv => RunningRowsAreLive BY DEF RHInv, RunningRowsAreLive
<1> QED BY RHAlways, <1>1, PTL

(* No event is left without its run (db.py:437-439, 492-493).              *)
THEOREM EventsHaveRuns == RHSpec => []NoOrphanEvents
<1>1. RHInv => NoOrphanEvents BY DEF RHInv
<1> QED BY RHAlways, <1>1, PTL

\* What a step may do to a row that is final.
FinalRowsStay ==
    \A i \in DOMAIN runs \cap DOMAIN runs' : runs[i].status \in Final => runs'[i] = runs[i]

LEMMA FinalStep == RHInv /\ [RHNext]_rhVars => FinalRowsStay
<1> SUFFICES ASSUME RHInv, [RHNext]_rhVars PROVE FinalRowsStay OBVIOUS
<1>1. "running" \notin Final BY DEF Final
<1>2. ASSUME NEW j \in HistoryJobs, Create(j) PROVE FinalRowsStay
  <2>1. PICK i \in RunIds \ used, s \in Stamps :
          Put(i, [job |-> j, started |-> s, status |-> "running"])
    BY <1>2 DEF Create
  <2> QED BY <2>1 DEF Put, FinalRowsStay, RHInv, RHTypeOK
<1>3. ASSUME NEW j \in HistoryJobs, CreateAborted(j) PROVE FinalRowsStay
  <2>1. PICK i \in RunIds \ used, s \in Stamps :
          Put(i, [job |-> j, started |-> s, status |-> "aborted_lock"])
    BY <1>3 DEF CreateAborted
  <2> QED BY <2>1 DEF Put, FinalRowsStay, RHInv, RHTypeOK
<1>4. ASSUME NEW j \in HistoryJobs, End(j) PROVE FinalRowsStay
  <2>1. PICK status \in {"success", "failed"} : Update(j, status) BY <1>4 DEF End
  <2>2. at[j] = "working" BY <1>4 DEF End
  <2>3. /\ runs[current[j]].status = "running"
        /\ \A k \in DOMAIN runs \ {current[j]} : runs'[k] = runs[k]
    BY <2>1, <2>2, UpdateRow DEF RHInv
  <2> QED BY <1>1, <2>3 DEF FinalRowsStay
<1>5. ASSUME NEW rs, Without(rs) PROVE FinalRowsStay
  BY <1>5 DEF Without, Restrict, FinalRowsStay
<1>6. ASSUME NEW j \in HistoryJobs, Prune(j) \/ DeleteRuns(j) PROVE FinalRowsStay
  BY <1>5, <1>6 DEF Prune, DeleteRuns
<1>7. CASE RestartEngine
  <2>1. \A i \in DOMAIN runs : runs[i].status # "running" => runs'[i] = runs[i]
    BY <1>7, ReconciledRows DEF RestartEngine, RHInv
  <2> QED BY <1>1, <2>1 DEF FinalRowsStay
<1>8. CASE UNCHANGED runs BY <1>8 DEF FinalRowsStay
<1>9. ASSUME NEW j \in HistoryJobs, AddEvent(j) \/ EndFails(j) \/ PruneFails(j)
      PROVE  UNCHANGED runs
  BY <1>9 DEF AddEvent, EndFails, PruneFails
<1> QED BY <1>2, <1>3, <1>4, <1>6, <1>7, <1>8, <1>9 DEF RHNext, rhVars

(* A run that has ended keeps its end for as long as its row exists        *)
(* (runner.py:127-132, db.py:416-424).                                     *)
THEOREM EndsStay == RHSpec => EndsAreFinal
<1>1. RHInv /\ [RHNext]_rhVars => [FinalRowsStay]_rhVars BY FinalStep
<1> QED BY RHAlways, <1>1, PTL DEF RHSpec, EndsAreFinal, FinalRowsStay
=============================================================================
