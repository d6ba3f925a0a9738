----------------------------- MODULE MCReconcile -----------------------------
(* Three closed windows and the open one, with one slot or two. *)
EXTENDS Reconcile
=============================================================================
