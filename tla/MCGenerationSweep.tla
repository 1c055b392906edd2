------------------------- MODULE MCGenerationSweep -------------------------
(* Two jobs that share a collection, two documents each.                   *)
EXTENDS GenerationSweep, TLC

CONSTANTS t1, t2, j1, j2, c1, c2

OneCollection == [j \in {j1, j2} |-> {c1}]
MCModes == {"full", "upsert"}
=============================================================================
