----------------------------- MODULE SyncWorker -----------------------------
(***************************************************************************)
(* DatabaseSyncWorker (server/sync-worker-client.ts), the DatabaseWorker   *)
(* process it talks to (server/database-worker.ts, server/sync-worker.ts), *)
(* and the writes of the main thread that share its operation queue.       *)
(*                                                                         *)
(* An operation is one call of runTransaction (Transactions), of a         *)
(* statement method outside a transaction (Statements) or of runExclusive  *)
(* around a write of the main thread (MainWrites).  A JavaScript turn, an  *)
(* event with the promise reactions it runs, is one atomic step; the       *)
(* worker process runs beside it and handles its messages one by one.      *)
(***************************************************************************)
EXTENDS Naturals, Sequences, FiniteSets

CONSTANTS Transactions, Statements, MainWrites,
          MaxWrites,   \* bound: statements a transaction issues
          None         \* the JavaScript null

Ops == Transactions \cup Statements \cup MainWrites

ASSUME OpsAssumption == /\ Transactions \cap Statements = {}
                        /\ MainWrites \cap (Transactions \cup Statements) = {}
                        /\ None \notin Ops
                        /\ MaxWrites \in Nat

ASSUME NoneAssumption == \A S \in SUBSET (Ops \X (0 .. MaxWrites)) : None # S

VARIABLES
    calls,     \* operationQueue: the operations in the order of their calls
    stage,     \* how far each operation is
    issued,    \* how many statements each transaction has issued
    refused,   \* ghost: the statements whose failure their transaction was told of
    owner,     \* context.worker of each transaction
    worker,    \* this.worker; a process is named after the operation that forked it
    shutdown,  \* the process whose exit workerShutdown stands for, or None
    closed,    \* this.closed
    pending,   \* this.pending: the requests without an answer
    proc,      \* state of each process
    inbox,     \* messages a process has not handled yet
    answers,   \* messages of a process that the client has not handled yet
    dirty,     \* what a process has written in its open transaction, None without one
    store      \* the committed writes of cache.db, oldest first

clientVars == <<calls, stage, issued, refused, owner, worker, shutdown, closed, pending>>
procVars == <<proc, inbox, answers, dirty, store>>
syncVars == <<clientVars, procVars>>

Stages == {"idle", "queued",
           "begin", "body", "publish", "commit", "rollback", "drain",  \* a transaction
           "single",                                                   \* a statement
           "ok", "failed"}

Settled(o) == stage[o] \in {"ok", "failed"}

(* "killed": SIGKILL is sent, the process has not died yet.  "dead": it    *)
(* has, and SQLite with it; "gone": its 'exit' event has been emitted.     *)
ProcStates == {"unborn", "running", "killed", "dead", "gone"}

Alive(g) == proc[g] \in {"running", "killed"}

Requests == [op : Ops, kind : {"begin", "write", "commit", "rollback", "single"},
             n : 0 .. MaxWrites, to : Ops]

Request(o, kind, g) == [op |-> o, kind |-> kind, n |-> 0, to |-> g]

Commits == [op : Ops, writes : SUBSET (Ops \X (0 .. MaxWrites))]

SyncInit ==
    /\ calls = <<>>
    /\ stage = [o \in Ops |-> "idle"]
    /\ issued = [t \in Transactions |-> 0]
    /\ refused = {}
    /\ owner = [t \in Transactions |-> None]
    /\ worker = None
    /\ shutdown = None
    /\ closed = FALSE
    /\ pending = {}
    /\ proc = [g \in Ops |-> "unborn"]
    /\ inbox = [g \in Ops |-> <<>>]
    /\ answers = [g \in Ops |-> <<>>]
    /\ dirty = [g \in Ops |-> None]
    /\ store = <<>>

-----------------------------------------------------------------------------
(* Sending and giving up. *)

Sent(q) ==
    /\ pending' = pending \cup {q}
    /\ inbox' = IF Alive(q.to) THEN [inbox EXCEPT ![q.to] = Append(@, q)] ELSE inbox

(* rejectPending(g) as the operations see it: whoever awaited a request    *)
(* throws; a transaction's own operation may also swallow the error and    *)
(* go on.                                                                  *)
Abandon(g) ==
    [o \in Ops |->
        IF ~\E q \in pending : q.op = o /\ q.to = g THEN stage[o]
        ELSE CASE stage[o] \in {"begin", "commit", "rollback"} -> "drain"
               [] stage[o] = "single" -> "failed"
               [] OTHER -> stage[o]]

(* retireWorker(): no operation may use the worker any more, and the next  *)
(* one waits for its exit.                                                 *)
Retire(stages) ==
    /\ worker' = None
    /\ shutdown' = worker
    /\ pending' = {q \in pending : q.to # worker}
    /\ proc' = [proc EXCEPT ![worker] = IF @ = "running" THEN "killed" ELSE @]
    /\ stage' = stages
    /\ UNCHANGED <<calls, issued, refused, owner, closed, inbox, dirty, store>>

(* The catch of runTransaction, once the operation has begun: the worker   *)
(* rolls back unless it is already retired or gone.                        *)
Abort(t) ==
    IF worker = owner[t]
    THEN /\ Sent(Request(t, "rollback", worker))
         /\ stage' = [stage EXCEPT ![t] = "rollback"]
    ELSE /\ stage' = [stage EXCEPT ![t] = "drain"]
         /\ UNCHANGED <<pending, inbox>>

-----------------------------------------------------------------------------
(* runExclusive, and the operation it starts. *)

Call(o) ==
    /\ stage[o] = "idle"
    /\ stage' = [stage EXCEPT ![o] = "queued"]
    /\ calls' = Append(calls, o)
    /\ UNCHANGED <<issued, refused, owner, worker, shutdown, closed, pending, procVars>>

(* operationQueue has got to o. *)
MyTurn(o) ==
    /\ stage[o] = "queued"
    /\ \A i, j \in DOMAIN calls : (i < j /\ calls[j] = o) => Settled(calls[i])

(* Mutant: the queue does not wait for workerShutdown. *)
AdmittedAtOnce(o) == MyTurn(o)

(* run(): workerShutdown, if there is one, has resolved. *)
Admitted(o) == MyTurn(o) /\ shutdown = None

(* getWorker(): fork a process unless there is one.  The request is sent   *)
(* in the same turn; a message to a dead process is lost.                  *)
Start(o, kind, next) ==
    /\ ~closed
    /\ worker' = IF worker = None THEN o ELSE worker
    /\ proc' = IF worker = None THEN [proc EXCEPT ![o] = "running"] ELSE proc
    /\ pending' = pending \cup {Request(o, kind, worker')}
    /\ inbox' = IF worker # None /\ ~Alive(worker) THEN inbox
                ELSE [inbox EXCEPT ![worker'] = Append(@, Request(o, kind, worker'))]
    /\ stage' = [stage EXCEPT ![o] = next]
    /\ UNCHANGED <<calls, issued, refused, shutdown, closed, answers, dirty, store>>

BeginTransaction(t) ==
    /\ Admitted(t)
    /\ Start(t, "begin", "begin")
    /\ owner' = [owner EXCEPT ![t] = worker']

RunStatement(s) ==
    /\ Admitted(s)
    /\ Start(s, "single", "single")
    /\ UNCHANGED owner

(* Writes of the main thread go through its own connection. *)
MainWrite(m) ==
    /\ Admitted(m)
    /\ ~closed
    /\ store' = Append(store, [op |-> m, writes |-> {<<m, 0>>}])
    /\ stage' = [stage EXCEPT ![m] = "ok"]
    /\ UNCHANGED <<calls, issued, refused, owner, worker, shutdown, closed, pending,
                   proc, inbox, answers, dirty>>

RefuseClosed(o) ==
    /\ Admitted(o)
    /\ closed
    /\ stage' = [stage EXCEPT ![o] = "failed"]
    /\ UNCHANGED <<calls, issued, refused, owner, worker, shutdown, closed, pending, procVars>>

-----------------------------------------------------------------------------
(* Inside runTransaction. *)

(* context.active: no longer set once the catch has run. *)
ContextActive(t) == stage[t] \in {"body", "publish", "commit"}

(* Mutant: the context of a failed transaction still routes its calls to   *)
(* whatever worker there is.                                               *)
IssueWriteAnytime(t) ==
    /\ stage[t] \in {"body", "rollback", "drain", "failed"}
    /\ issued[t] < MaxWrites
    /\ owner[t] # None
    /\ issued' = [issued EXCEPT ![t] = @ + 1]
    /\ IF worker # None
       THEN Sent([op |-> t, kind |-> "write", n |-> issued'[t], to |-> worker])
       ELSE UNCHANGED <<pending, inbox>>
    /\ UNCHANGED <<calls, stage, refused, owner, worker, shutdown, closed, proc, answers, dirty, store>>

(* A statement method called in the operation's async context.  Parallel   *)
(* branches of an operation that has failed may still call one.            *)
IssueWrite(t) ==
    /\ stage[t] \in {"body", "rollback", "drain", "failed"}
    /\ issued[t] < MaxWrites
    /\ owner[t] # None
    /\ issued' = [issued EXCEPT ![t] = @ + 1]
    /\ IF ContextActive(t) /\ worker = owner[t]
       THEN Sent([op |-> t, kind |-> "write", n |-> issued'[t], to |-> worker])
       ELSE UNCHANGED <<pending, inbox>>
    /\ UNCHANGED <<calls, stage, refused, owner, worker, shutdown, closed, proc, answers, dirty, store>>

(* The operation returns once the statements it awaited are answered, and  *)
(* beforeCommit starts to wait for the publication lock.                   *)
OperationReturns(t) ==
    /\ stage[t] = "body"
    /\ ~\E q \in pending : q.op = t
    /\ stage' = [stage EXCEPT ![t] = "publish"]
    /\ UNCHANGED <<calls, issued, refused, owner, worker, shutdown, closed, pending, procVars>>

(* The operation throws (a LAPI request failed, a statement was refused),  *)
(* or beforeCommit does (the publication timed out).  It may as well       *)
(* swallow what was refused and go on, as syncAlertWindow does.            *)
OperationThrows(t) ==
    /\ stage[t] \in {"body", "publish"}
    /\ Abort(t)
    /\ UNCHANGED <<calls, issued, refused, owner, worker, shutdown, closed, proc, answers, dirty, store>>

CommitTransaction(t) ==
    /\ stage[t] = "publish"
    /\ IF worker = owner[t]
       THEN /\ Sent(Request(t, "commit", worker))
            /\ stage' = [stage EXCEPT ![t] = "commit"]
       ELSE Abort(t)
    /\ UNCHANGED <<calls, issued, refused, owner, worker, shutdown, closed, proc, answers, dirty, store>>

(* Mutant: the error is rethrown at once. *)
RethrowAtOnce(t) ==
    /\ stage[t] = "drain"
    /\ stage' = [stage EXCEPT ![t] = "failed"]
    /\ UNCHANGED <<calls, issued, refused, owner, worker, shutdown, closed, pending, procVars>>

(* The error is rethrown only after the retired worker has exited. *)
Rethrow(t) ==
    /\ stage[t] = "drain"
    /\ shutdown = None
    /\ stage' = [stage EXCEPT ![t] = "failed"]
    /\ UNCHANGED <<calls, issued, refused, owner, worker, shutdown, closed, pending, procVars>>

-----------------------------------------------------------------------------
(* Events of the client: an answer, a timer, an error, an exit. *)

(* A request that is no longer pending was given up: its answer is stale.  *)
Answered(g) ==
    /\ answers[g] # <<>>
    /\ answers' = [answers EXCEPT ![g] = Tail(@)]

StaleAnswer(g) ==
    /\ Answered(g)
    /\ Head(answers[g]).request \notin pending
    /\ UNCHANGED <<clientVars, proc, inbox, dirty, store>>

Progress(q, ok) ==
    CASE q.kind = "begin" /\ ok   -> "body"
      [] q.kind = "commit" /\ ok  -> "ok"
      [] q.kind = "single" /\ ok  -> "ok"
      [] q.kind = "single" /\ ~ok -> "failed"
      [] OTHER                    -> stage[q.op]

(* handleMessage() and what the awaiting operation does next. *)
Answer(g) ==
    /\ Answered(g)
    /\ LET q  == Head(answers[g]).request
           ok == Head(answers[g]).ok
           t  == q.op
       IN  /\ q \in pending
           /\ \/ \* a refused statement rejects its promise and no more
                 /\ ok \/ q.kind \in {"single", "write"}
                 /\ q.kind # "rollback"
                 /\ pending' = pending \ {q}
                 /\ stage' = [stage EXCEPT ![t] = Progress(q, ok)]
                 /\ refused' = IF q.kind = "write" /\ ~ok THEN refused \cup {<<t, q.n>>} ELSE refused
                 /\ UNCHANGED <<calls, issued, owner, worker, shutdown, closed,
                                proc, inbox, dirty, store>>
              \/ \* the commit fails: roll back
                 /\ ~ok /\ q.kind = "commit"
                 /\ pending' = (pending \ {q}) \cup {Request(t, "rollback", worker)}
                 /\ inbox' = IF Alive(worker)
                             THEN [inbox EXCEPT ![worker] = Append(@, Request(t, "rollback", worker))]
                             ELSE inbox
                 /\ stage' = [stage EXCEPT ![t] = "rollback"]
                 /\ UNCHANGED <<calls, issued, refused, owner, worker, shutdown, closed, proc, dirty, store>>
              \/ \* begin failed, or the rollback is over either way
                 /\ q.kind = "rollback" \/ (~ok /\ q.kind = "begin")
                 /\ Retire([Abandon(g) EXCEPT ![t] = "drain"])

(* The timer of a request: 'Database maintenance exceeded ... timeout'. *)
Timeout(q) ==
    /\ q \in pending
    /\ q.to = worker
    /\ Retire(Abandon(worker))
    /\ UNCHANGED answers

(* An 'error' event, or postMessage() throwing: the message may not have   *)
(* been delivered, the process may be alive.                               *)
WorkerError ==
    /\ worker # None
    /\ Retire(Abandon(worker))
    /\ UNCHANGED answers

(* Mutant: the exit of the current worker leaves its requests pending. *)
ExitForgetsPending(g) ==
    /\ proc[g] = "dead"
    /\ proc' = [proc EXCEPT ![g] = "gone"]
    /\ shutdown' = IF shutdown = g THEN None ELSE shutdown
    /\ worker' = IF worker = g THEN None ELSE worker
    /\ UNCHANGED <<calls, issued, refused, owner, closed, pending, stage, inbox, answers, dirty, store>>

(* Mutant: the 'exit' of a retired worker is ignored like its messages. *)
ExitOfRetiredIgnored(g) ==
    /\ proc[g] = "dead"
    /\ proc' = [proc EXCEPT ![g] = "gone"]
    /\ IF worker = g
       THEN /\ worker' = None
            /\ pending' = {q \in pending : q.to # g}
            /\ stage' = Abandon(g)
       ELSE UNCHANGED <<worker, pending, stage>>
    /\ UNCHANGED <<calls, issued, refused, owner, shutdown, closed, inbox, answers, dirty, store>>

(* 'exit' is emitted once.  Of the current worker it rejects what is       *)
(* pending; of a retired one it resolves workerShutdown.                   *)
Exit(g) ==
    /\ proc[g] = "dead"
    /\ proc' = [proc EXCEPT ![g] = "gone"]
    /\ shutdown' = IF shutdown = g THEN None ELSE shutdown
    /\ IF worker = g
       THEN /\ worker' = None
            /\ pending' = {q \in pending : q.to # g}
            /\ stage' = Abandon(g)
       ELSE UNCHANGED <<worker, pending, stage>>
    /\ UNCHANGED <<calls, issued, refused, owner, closed, inbox, answers, dirty, store>>

Close ==
    /\ ~closed
    /\ closed' = TRUE
    /\ IF worker = None
       THEN UNCHANGED <<stage, worker, shutdown, pending, proc>>
       ELSE /\ worker' = None
            /\ shutdown' = worker
            /\ pending' = {q \in pending : q.to # worker}
            /\ proc' = [proc EXCEPT ![worker] = IF @ = "running" THEN "killed" ELSE @]
            /\ stage' = Abandon(worker)
    /\ UNCHANGED <<calls, issued, refused, owner, inbox, answers, dirty, store>>

-----------------------------------------------------------------------------
(* The worker process. *)

(* What one message does to the open transaction and to the store: BEGIN,  *)
(* a write inside or outside a transaction, COMMIT, ROLLBACK.              *)
Effect(g, q) ==
    \/ /\ q.kind = "begin" /\ dirty[g] = None
       /\ dirty' = [dirty EXCEPT ![g] = {}]
       /\ UNCHANGED store
    \/ /\ q.kind \in {"write", "single"} /\ dirty[g] # None
       /\ dirty' = [dirty EXCEPT ![g] = @ \cup {<<q.op, q.n>>}]
       /\ UNCHANGED store
    \/ /\ q.kind \in {"write", "single"} /\ dirty[g] = None
       /\ store' = Append(store, [op |-> q.op, writes |-> {<<q.op, q.n>>}])
       /\ UNCHANGED dirty
    \/ /\ q.kind = "commit" /\ dirty[g] # None
       /\ store' = Append(store, [op |-> q.op, writes |-> dirty[g]])
       /\ dirty' = [dirty EXCEPT ![g] = None]
    \/ /\ q.kind = "rollback" /\ dirty[g] # None
       /\ dirty' = [dirty EXCEPT ![g] = None]
       /\ UNCHANGED store

(* One message: it succeeds, or SQLite refuses it and nothing changes, or  *)
(* a statement of several mutations (deleteCachedAlerts) is refused midway *)
(* and what it did stays.  A killed process goes on until the signal       *)
(* reaches it.                                                             *)
Execute(g) ==
    /\ Alive(g)
    /\ inbox[g] # <<>>
    /\ inbox' = [inbox EXCEPT ![g] = Tail(@)]
    /\ LET q == Head(inbox[g]) IN
          \/ /\ Effect(g, q)
             /\ answers' = [answers EXCEPT ![g] = Append(@, [request |-> q, ok |-> TRUE])]
          \/ /\ answers' = [answers EXCEPT ![g] = Append(@, [request |-> q, ok |-> FALSE])]
             /\ \/ UNCHANGED <<dirty, store>>
                \/ q.kind \in {"write", "single"} /\ Effect(g, q)
    /\ UNCHANGED <<clientVars, proc>>

(* Killed, or crashed: SQLite rolls back what was not committed.  Answers  *)
(* already sent may still arrive, before or after the 'exit' event.        *)
Die(g) ==
    /\ Alive(g)
    /\ proc' = [proc EXCEPT ![g] = "dead"]
    /\ inbox' = [inbox EXCEPT ![g] = <<>>]
    /\ dirty' = [dirty EXCEPT ![g] = None]
    /\ UNCHANGED <<clientVars, answers, store>>

-----------------------------------------------------------------------------
TransactionStep(t) ==
    \/ BeginTransaction(t) \/ IssueWrite(t) \/ OperationReturns(t)
    \/ OperationThrows(t) \/ CommitTransaction(t) \/ Rethrow(t)

SyncNext ==
    \/ \E o \in Ops : Call(o) \/ RefuseClosed(o)
    \/ \E t \in Transactions : TransactionStep(t)
    \/ \E s \in Statements : RunStatement(s)
    \/ \E m \in MainWrites : MainWrite(m)
    \/ \E q \in pending : Timeout(q)
    \/ \E g \in Ops : StaleAnswer(g) \/ Answer(g) \/ Exit(g) \/ Execute(g) \/ Die(g)
    \/ WorkerError
    \/ Close

SyncSpec == SyncInit /\ [][SyncNext]_syncVars

(* Promise reactions run, timers fire, a killed process dies and its exit  *)
(* is reported; an operation returns or throws, and the publication lock   *)
(* is granted or times out.  The worker process owes nothing.              *)
SyncFairness ==
    /\ \A o \in Ops : WF_syncVars(RefuseClosed(o))
    /\ \A t \in Transactions :
          /\ WF_syncVars(BeginTransaction(t))
          /\ WF_syncVars(OperationReturns(t) \/ OperationThrows(t) \/ CommitTransaction(t))
          /\ WF_syncVars(Rethrow(t))
    /\ \A s \in Statements : WF_syncVars(RunStatement(s))
    /\ \A m \in MainWrites : WF_syncVars(MainWrite(m))
    /\ WF_syncVars(\E q \in pending : Timeout(q))
    /\ \A g \in Ops : /\ WF_syncVars(proc[g] = "killed" /\ Die(g))
                      /\ WF_syncVars(Exit(g))

FairSyncSpec == SyncSpec /\ SyncFairness

-----------------------------------------------------------------------------
SyncTypeOK ==
    /\ calls \in Seq(Ops)
    /\ stage \in [Ops -> Stages]
    /\ issued \in [Transactions -> 0 .. MaxWrites]
    /\ refused \subseteq Transactions \X (0 .. MaxWrites)
    /\ owner \in [Transactions -> Ops \cup {None}]
    /\ worker \in Ops \cup {None}
    /\ shutdown \in Ops \cup {None}
    /\ closed \in BOOLEAN
    /\ pending \subseteq Requests
    /\ proc \in [Ops -> ProcStates]
    /\ inbox \in [Ops -> Seq(Requests)]
    /\ answers \in [Ops -> Seq([request : Requests, ok : BOOLEAN])]
    /\ dirty \in [Ops -> {None} \cup SUBSET (Ops \X (0 .. MaxWrites))]
    /\ store \in Seq(Commits)

(* "On timeout, kill the owning subprocess and wait for its exit before    *)
(* admitting another writer" (DEVELOPMENT.md): there are never two live    *)
(* worker processes, and the one there is, is the current worker or the    *)
(* one whose exit everybody waits for.                                     *)
SingleWriterProcess ==
    \A g \in Ops : Alive(g) => /\ g = worker \/ g = shutdown
                               /\ \A h \in Ops : Alive(h) => h = g

(* Somebody waits for an answer only of the current worker; the operations *)
(* that own it are the ones whose turn it is; workerShutdown stands for a  *)
(* process whose exit is still to be reported.                             *)
OwnershipIsCurrent ==
    /\ \A q \in pending : q.to = worker
    /\ \A q \in pending : ~Settled(q.op)
    /\ worker # None => shutdown = None /\ proc[worker] \in {"running", "dead"}
    /\ shutdown # None => proc[shutdown] \in {"killed", "dead"}
    /\ closed => worker = None

(* One operation at a time: everything called before an operation under    *)
(* way is settled, everything called after it has not begun.               *)
OneAtATime ==
    \A i, j \in DOMAIN calls :
        (i < j /\ stage[calls[j]] # "queued") => Settled(calls[i])

SyncInv ==
    /\ SyncTypeOK
    /\ OwnershipIsCurrent
    /\ OneAtATime

(* w holds the first n statements of t, but for some of those in lost.     *)
FirstOf(w, t, n, lost) == /\ w \subseteq {t} \X (1 .. n)
                          /\ ({t} \X (1 .. n)) \ lost \subseteq w

(* A refresh reaches cache.db as one commit or not at all, and the commit  *)
(* lacks no statement it issued but those whose failure it was told of: no *)
(* statement gets lost unnoticed, runs after the rollback of its           *)
(* transaction, on the connection of another one, or twice.                *)
CommittedAsTold ==
    /\ \A i, j \in DOMAIN store : i # j => store[i].op # store[j].op
    /\ \A i \in DOMAIN store :
          LET t == store[i].op IN
          t \in Transactions =>
              /\ stage[t] \in {"commit", "drain", "ok", "failed"}
              /\ \E k \in 0 .. issued[t] : FirstOf(store[i].writes, t, k, refused)
              /\ stage[t] \in {"commit", "ok"} => FirstOf(store[i].writes, t, issued[t], refused)

(* Whoever calls runTransaction, a statement method or runExclusive gets   *)
(* an answer, whatever dies, hangs or is closed in between.                *)
EveryOperationSettles ==
    \A o \in Ops : (stage[o] = "queued") ~> Settled(o)

Serial == INSTANCE SerialStore WITH
              order <- calls,
              outcome <- [o \in Ops |-> CASE stage[o] = "idle" -> "uncalled"
                                          [] Settled(o) -> stage[o]
                                          [] OTHER -> "waiting"],
              log <- [i \in DOMAIN store |-> store[i].op]

(* The queue, the shutdown promise and the ownership checks make a store   *)
(* that applies operations one at a time in the order of their calls.      *)
ImplementsSerialStore == Serial!SerialSpec
=============================================================================
