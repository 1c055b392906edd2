---------------------------- MODULE MCSourceSync ----------------------------
(* Two jobs of different collections whose sources have one label.         *)
EXTENDS SourceSync

CONSTANTS y1, y2

SharedLabel == [j \in Syncers |-> "share"]
=============================================================================
