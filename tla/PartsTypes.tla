----------------------------- MODULE PartsTypes -----------------------------
(***************************************************************************)
(* The types of the parts that keep a lock, a bucket or a table: what the  *)
(* runs of MCParts check of them together, and the proofs show.            *)
(***************************************************************************)
EXTENDS CatalogReload, EmbedLimiter, RunHistory, OidcKeys

(* The state of every part is well typed, and each lock of it has the one  *)
(* owner its threads' program counters say.                                *)
PartsTypeOK == CRTypeOK /\ ELTypeOK /\ RHTypeOK /\ OKTypeOK
=============================================================================
