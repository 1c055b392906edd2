---------------------------- MODULE MCRunService ----------------------------
(* The runs of one job on three threads, with two requests at a time.      *)
EXTENDS RunService

CONSTANTS t1, t2, t3, r1, r2
=============================================================================
