----------------------------- MODULE MCScheduler -----------------------------
(* Two windows of history, so that a bootstrap can fail, succeed in part and *)
(* succeed; one request of every kind meddles with it.                       *)
EXTENDS Scheduler
=============================================================================
