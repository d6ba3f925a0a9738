---------------------------- MODULE MCPageUpdates ----------------------------
(* A page with two filters, one published revision, a socket, two            *)
(* overlapping loads and the polling timer, and one failure of any kind or a *)
(* second page, which is more than a refresh reads.                          *)
EXTENDS PageUpdates
=============================================================================
