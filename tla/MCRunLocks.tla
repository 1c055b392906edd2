----------------------------- MODULE MCRunLocks -----------------------------
(* RunLocks on three threads and three jobs that serve one collection.     *)
EXTENDS RunLocksRefinement, TLC

CONSTANTS t1, t2, t3, j1, j2, j3, c1

SharedTarget == [j \in {j1, j2, j3} |-> {c1}]

MCModes == {"full", "upsert"}
=============================================================================
