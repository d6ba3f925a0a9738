--------------------------- MODULE MCRevisionLock ---------------------------
(* Three reads and three writes: two of a kind can queue behind a third. *)
EXTENDS RevisionLock

CONSTANTS r1, r2, r3, w1, w2, w3

MCReaders == {r1, r2, r3}
MCWriters == {w1, w2, w3}
=============================================================================
