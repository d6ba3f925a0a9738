---------------------------- MODULE SerialStore ----------------------------
(***************************************************************************)
(* What DatabaseSyncWorker promises: operations on cache.db take effect at *)
(* most once and in the order in which they were called, an operation that *)
(* succeeded has taken effect, and a refresh that was reported as failed   *)
(* never takes effect afterwards.  It may have taken effect before: the    *)
(* answer to a commit can be lost.                                         *)
(***************************************************************************)
EXTENDS Naturals, Sequences

CONSTANTS Transactions, Statements, MainWrites

VARIABLES order,    \* the operations in the order of their calls
          outcome,  \* what the caller of each knows
          log       \* the operations that took effect, oldest first

Ops == Transactions \cup Statements \cup MainWrites

serialVars == <<order, outcome, log>>

SerialInit ==
    /\ order = <<>>
    /\ outcome = [o \in Ops |-> "uncalled"]
    /\ log = <<>>

Place(o) == CHOOSE i \in DOMAIN order : order[i] = o

Logged(o) == \E i \in DOMAIN log : log[i] = o

(* Everything called before o is settled, and nothing called after it has  *)
(* taken effect.                                                           *)
ItsTurn(o) ==
    /\ \A i \in 1 .. Place(o) - 1 : outcome[order[i]] \in {"ok", "failed"}
    /\ \A i \in DOMAIN log : Place(log[i]) < Place(o)

Call(o) ==
    /\ outcome[o] = "uncalled"
    /\ outcome' = [outcome EXCEPT ![o] = "waiting"]
    /\ order' = Append(order, o)
    /\ UNCHANGED log

(* A statement outside a transaction may be given up while its process is  *)
(* still running it; the error of a transaction waits for the process.     *)
TakeEffect(o) ==
    /\ outcome[o] = "waiting" \/ (o \in Statements /\ outcome[o] = "failed")
    /\ ItsTurn(o)
    /\ log' = Append(log, o)
    /\ UNCHANGED order

Succeed(o) ==
    /\ outcome[o] = "waiting"
    /\ outcome' = [outcome EXCEPT ![o] = "ok"]

SerialNext ==
    \E o \in Ops :
        \/ Call(o)
        \/ TakeEffect(o) /\ (Succeed(o) \/ UNCHANGED outcome)
        \/ Logged(o) /\ Succeed(o) /\ UNCHANGED <<order, log>>
        \/ /\ outcome[o] = "waiting"
           /\ outcome' = [outcome EXCEPT ![o] = "failed"]
           /\ UNCHANGED <<order, log>>

SerialSpec == SerialInit /\ [][SerialNext]_serialVars
=============================================================================
