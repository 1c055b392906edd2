------------------------- MODULE RunLocksRefinement -------------------------
(***************************************************************************)
(* RunLocks implements CollectionAccess: the boolean, the counter and the  *)
(* wait predicates of _ReadWriteLock admit exactly the runs the abstract   *)
(* specification lets into a collection, crashes included.                 *)
(***************************************************************************)
EXTENDS RunLocks

Access == INSTANCE CollectionAccess WITH
    sharing <- [c \in Collections |-> SharedHolders(c)],
    alone <- [c \in Collections |-> ExclusiveHolders(c)]

(* Every behaviour of the lock manager is one of CollectionAccess: a run   *)
(* enters only when the abstract guard, stated over the runs and not over  *)
(* the lock's counters, allows it (locks.py:40-65).                        *)
ImplementsCollectionAccess == Access!AccessSpec
=============================================================================
