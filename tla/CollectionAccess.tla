-------------------------- MODULE CollectionAccess --------------------------
(***************************************************************************)
(* What the per-collection lock of src/src/engine/locks.py promises, with  *)
(* no counters, threads or timeouts: who is inside a collection.  A run is *)
(* inside with others, or alone.  RunLocks is shown to implement it.       *)
(***************************************************************************)
CONSTANTS Slots, Collections

VARIABLES sharing,  \* sharing[c]: the runs inside c that admit others
          alone     \* alone[c]: the runs inside c that must be alone

accessVars == <<sharing, alone>>

AccessInit ==
    /\ sharing = [c \in Collections |-> {}]
    /\ alone = [c \in Collections |-> {}]

Outside(s) == \A c \in Collections : s \notin sharing[c] \cup alone[c]

Enter(s, c) ==
    /\ Outside(s)
    /\ alone[c] = {}
    /\ sharing' = [sharing EXCEPT ![c] = @ \cup {s}]
    /\ UNCHANGED alone

EnterAlone(s, c) ==
    /\ Outside(s)
    /\ alone[c] = {} /\ sharing[c] = {}
    /\ alone' = [alone EXCEPT ![c] = {s}]
    /\ UNCHANGED sharing

Leave(s, c) ==
    /\ s \in sharing[c] \cup alone[c]
    /\ sharing' = [sharing EXCEPT ![c] = @ \ {s}]
    /\ alone' = [alone EXCEPT ![c] = @ \ {s}]

\* The process restarts: nobody is inside anything.
Empty ==
    /\ sharing' = [c \in Collections |-> {}]
    /\ alone' = [c \in Collections |-> {}]

AccessNext ==
    \/ \E s \in Slots, c \in Collections :
         Enter(s, c) \/ EnterAlone(s, c) \/ Leave(s, c)
    \/ Empty

AccessSpec == AccessInit /\ [][AccessNext]_accessVars
=============================================================================
