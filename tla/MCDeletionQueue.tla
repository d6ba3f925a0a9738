--------------------------- MODULE MCDeletionQueue ---------------------------
(* One alert queued under both of its keys. The configuration gives the      *)
(* alert as a model value.                                                   *)
EXTENDS DeletionQueue
=============================================================================
