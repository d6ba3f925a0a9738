---------------------------- MODULE MCSyncWorker ----------------------------
(* A refresh of two statements with a statement and a write of the main    *)
(* thread called before it, meanwhile or after it.                         *)
EXTENDS SyncWorker

CONSTANTS t1, s1, m1

MCTransactions == {t1}
MCStatements == {s1}
MCMainWrites == {m1}
=============================================================================
