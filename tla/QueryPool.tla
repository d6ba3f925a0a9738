----------------------------- MODULE QueryPool -----------------------------
(***************************************************************************)
(* DatabaseQueryWorker (server/query-worker-client.ts): a queue of read    *)
(* queries in front of a bounded set of processes (server/query-worker.ts, *)
(* server/database-worker.ts), each of which runs one query at a time.     *)
(*                                                                         *)
(* The methods call each other within one JavaScript turn, so they are     *)
(* functions from pool to pool, and an event applies the ones its listener *)
(* calls.  A worker slot and its process are named after the query they    *)
(* were forked for.                                                        *)
(***************************************************************************)
EXTENDS Naturals, Sequences, FiniteSets, SequencesExt

CONSTANTS Queries,
          Abortable,    \* the queries of one request, which share a signal
          MaxWorkers,   \* maxWorkers
          None          \* the JavaScript null

ASSUME PoolAssumption == /\ IsFiniteSet(Queries)
                         /\ Abortable \subseteq Queries
                         /\ MaxWorkers \in Nat \ {0}
                         /\ None \notin Queries

VARIABLES
    pool,      \* fields of the client, and the processes it acts on
    listeners, \* the signal's listeners in the order they were added; one whose
               \* query is settled would be removed, and does nothing
    aborted,   \* the shared signal is aborted
    replies    \* the answer each process has sent, None when there is none

vars == <<pool, listeners, aborted, replies>>

Stages == {"idle", "queued", "running", "answered", "rejected"}

(* "killed": SIGKILL is sent.  "dead": the process has ended; "cut": the   *)
(* client knows, its channel is closed; "gone": 'exit' has been emitted.   *)
ProcStates == {"unborn", "running", "killed", "dead", "cut", "gone"}

Pools == [
    queue    : Seq(Queries),
    stage    : [Queries -> Stages],
    on       : [Queries -> Queries \cup {None}],   \* pending.worker
    workers  : Seq(Queries),                       \* in the order they were added
    current  : [Queries -> Queries \cup {None}],   \* slot.currentId
    retiring : SUBSET Queries,
    closed   : BOOLEAN,
    proc     : [Queries -> ProcStates],
    task     : [Queries -> Queries \cup {None}]]   \* what a process works on

PoolInit ==
    /\ pool = [queue |-> <<>>, stage |-> [q \in Queries |-> "idle"],
               on |-> [q \in Queries |-> None], workers |-> <<>>,
               current |-> [s \in Queries |-> None], retiring |-> {}, closed |-> FALSE,
               proc |-> [s \in Queries |-> "unborn"], task |-> [s \in Queries |-> None]]
    /\ listeners = <<>>
    /\ aborted = FALSE
    /\ replies = [s \in Queries |-> None]

-----------------------------------------------------------------------------
(* dispatch(). *)

(* getIdleWorker(): the place of the first idle worker, 0 without one. *)
Idle(p) == SelectInSeq(p.workers, LAMBDA s : s \notin p.retiring /\ p.current[s] = None)

HasPlace(p) == Idle(p) # 0 \/ Len(p.workers) < MaxWorkers

Terminate(p, s) == [p EXCEPT !.proc[s] = IF @ = "running" THEN "killed" ELSE @]

(* Mutant: a retired slot makes room before its process has ended. *)
RetireAndForget(p, s) ==
    IF s \in p.retiring THEN p
    ELSE [Terminate(p, s) EXCEPT !.retiring = @ \cup {s}, !.current[s] = None,
                                 !.workers = RemoveFirst(@, s)]

(* restartWorker() up to its dispatch(). *)
Retire(p, s) ==
    IF s \in p.retiring THEN p
    ELSE [Terminate(p, s) EXCEPT !.retiring = @ \cup {s}, !.current[s] = None]

Settle(p, q, outcome) ==
    IF p.stage[q] \in {"queued", "running"} THEN [p EXCEPT !.stage[q] = outcome] ELSE p

(* handleWorkerFailure() up to its dispatch(). *)
Fail(p, s) ==
    Retire(IF p.current[s] = None THEN p ELSE Settle(p, p.current[s], "rejected"), s)

(* One round of the loop: the oldest query goes to the first idle worker   *)
(* or to a new one.  postMessage() throws when the channel is closed; a    *)
(* message to a process that has ended unnoticed is lost.                  *)
StartNext(p) ==
    LET q   == Head(p.queue)
        new == Idle(p) = 0
        s   == IF new THEN q ELSE p.workers[Idle(p)]
        p1  == [p EXCEPT !.queue = Tail(@),
                         !.stage[q] = "running",
                         !.on[q] = s,
                         !.current[s] = q,
                         !.workers = IF new THEN Append(@, s) ELSE @,
                         !.proc[s] = IF new THEN "running" ELSE @]
    IN  CASE p1.proc[s] = "cut"  -> Fail(p1, s)
          [] p1.proc[s] = "dead" -> p1
          [] OTHER               -> [p1 EXCEPT !.task[s] = q]

(* The loop, round by round; the dispatch() inside a failing round finds   *)
(* what the next round finds.                                              *)
NextRound(r) == IF HasPlace(r) THEN StartNext(r) ELSE r

Rounds(p) ==
    LET round[i \in 0 .. Len(p.queue)] == IF i = 0 THEN p ELSE NextRound(round[i - 1])
    IN  round

Dispatch(p) == IF p.closed THEN p ELSE Rounds(p)[Len(p.queue)]

-----------------------------------------------------------------------------
(* What callers do. *)

(* execute(). *)
Ask(q) ==
    /\ pool.stage[q] = "idle"
    /\ IF pool.closed \/ (q \in Abortable /\ aborted)
       THEN /\ pool' = [pool EXCEPT !.stage[q] = "rejected"]
            /\ UNCHANGED listeners
       ELSE /\ pool' = Dispatch([pool EXCEPT !.stage[q] = "queued", !.queue = Append(@, q)])
            /\ listeners' = IF q \in Abortable THEN Append(listeners, q) ELSE listeners
    /\ UNCHANGED <<aborted, replies>>

(* Mutant: aborting an executing query leaves its worker at work. *)
AbortQuietly(p, q) ==
    IF p.stage[q] \notin {"queued", "running"} THEN p
    ELSE Dispatch([Settle(p, q, "rejected") EXCEPT !.queue = RemoveFirst(@, q)])

(* abortPending(). *)
AbortPending(p, q) ==
    LET given == [Settle(p, q, "rejected") EXCEPT !.queue = RemoveFirst(@, q)]
    IN  CASE p.stage[q] = "queued" -> Dispatch(given)
          [] p.stage[q] = "running" ->
                Dispatch(IF p.current[p.on[q]] = q THEN Dispatch(Retire(given, p.on[q])) ELSE given)
          [] OTHER -> p

(* The signal runs its listeners in the order they were added. *)
Aborts(p, ls) ==
    LET after[i \in 0 .. Len(ls)] == IF i = 0 THEN p ELSE AbortPending(after[i - 1], ls[i])
    IN  after

Abort ==
    /\ ~aborted
    /\ aborted' = TRUE
    /\ pool' = Aborts(pool, listeners)[Len(listeners)]
    /\ UNCHANGED <<listeners, replies>>

Close ==
    /\ ~pool.closed
    /\ pool' = [pool EXCEPT
                  !.closed = TRUE,
                  !.queue = <<>>,
                  !.workers = <<>>,
                  !.stage = [q \in Queries |-> IF @[q] \in {"queued", "running"}
                                               THEN "rejected" ELSE @[q]],
                  !.proc = [s \in Queries |-> IF @[s] = "running" /\ s \in ToSet(pool.workers)
                                              THEN "killed" ELSE @[s]]]
    /\ UNCHANGED <<listeners, aborted, replies>>

-----------------------------------------------------------------------------
(* Timers. *)

QueueTimeout(q) ==
    /\ pool.stage[q] = "queued"
    /\ pool' = [pool EXCEPT !.stage[q] = "rejected", !.queue = RemoveFirst(@, q)]
    /\ UNCHANGED <<listeners, aborted, replies>>

(* Mutant: the execution timer is only armed once the worker is ready. *)
ExecutionTimeoutWhenReady(q) ==
    /\ pool.stage[q] = "running"
    /\ pool.task[pool.on[q]] = q
    /\ pool' = Dispatch(Retire([pool EXCEPT !.stage[q] = "rejected"], pool.on[q]))
    /\ UNCHANGED <<listeners, aborted, replies>>

ExecutionTimeout(q) ==
    /\ pool.stage[q] = "running"
    /\ pool' = Dispatch(Retire([pool EXCEPT !.stage[q] = "rejected"], pool.on[q]))
    /\ UNCHANGED <<listeners, aborted, replies>>

-----------------------------------------------------------------------------
(* Events of a worker. *)

(* handleWorkerMessage().  A failed query is an answer, too. *)
Answer(s) ==
    /\ replies[s] # None
    /\ replies' = [replies EXCEPT ![s] = None]
    /\ LET q     == replies[s]
           freed == [pool EXCEPT !.current[s] = IF @ = q THEN None ELSE @]
       IN  pool' = CASE s \in pool.retiring          -> pool
                     [] pool.stage[q] # "running"    -> Dispatch(freed)
                     [] pool.on[q] # s               -> pool
                     [] OTHER                        -> Dispatch(Settle(freed, q, "answered"))
    /\ UNCHANGED <<listeners, aborted>>

(* An 'error' event: send() reports that a message was not delivered.      *)
WorkerError(s) ==
    /\ pool.proc[s] \in {"dead", "cut"}
    /\ pool.current[s] # None
    /\ pool' = Dispatch(Fail(pool, s))
    /\ UNCHANGED <<listeners, aborted, replies>>

Disconnect(s) ==
    /\ pool.proc[s] = "dead"
    /\ pool' = [pool EXCEPT !.proc[s] = "cut"]
    /\ UNCHANGED <<listeners, aborted, replies>>

(* Mutant: the exit of a retired worker does not look at the queue. *)
ExitOfRetiredIgnored(s) ==
    /\ pool.proc[s] \in {"dead", "cut"}
    /\ LET p == [pool EXCEPT !.workers = RemoveFirst(@, s), !.proc[s] = "gone"]
       IN  pool' = IF s \in p.retiring THEN p ELSE Dispatch(Fail(p, s))
    /\ UNCHANGED <<listeners, aborted, replies>>

(* 'exit'. *)
Exit(s) ==
    /\ pool.proc[s] \in {"dead", "cut"}
    /\ \E p \in {Fail([pool EXCEPT !.workers = RemoveFirst(@, s), !.proc[s] = "gone"], s)} :
          pool' = Dispatch(p)
    /\ UNCHANGED <<listeners, aborted, replies>>

-----------------------------------------------------------------------------
(* The processes. *)

(* process.on('message'): the result of the query or its error. *)
Execute(s) ==
    /\ pool.proc[s] \in {"running", "killed"}
    /\ pool.task[s] # None
    /\ replies' = [replies EXCEPT ![s] = pool.task[s]]
    /\ pool' = [pool EXCEPT !.task[s] = None]
    /\ UNCHANGED <<listeners, aborted>>

(* SIGKILL takes effect, or the process crashes or cannot be started; an   *)
(* answer on its way may still arrive, before or after its exit.           *)
Die(s) ==
    /\ pool.proc[s] \in {"running", "killed"}
    /\ pool' = [pool EXCEPT !.proc[s] = "dead", !.task[s] = None]
    /\ UNCHANGED <<listeners, aborted, replies>>

Next ==
    \/ \E q \in Queries : Ask(q) \/ QueueTimeout(q) \/ ExecutionTimeout(q)
    \/ \E s \in Queries : \/ Answer(s) \/ WorkerError(s) \/ Disconnect(s) \/ Exit(s)
                          \/ Execute(s) \/ Die(s)
    \/ Abort
    \/ Close

PoolSpec == PoolInit /\ [][Next]_vars

(* Timers fire, SIGKILL ends a process, and its exit is reported.  No      *)
(* worker needs to answer, ever.                                           *)
Fairness ==
    /\ \A q \in Queries : WF_vars(QueueTimeout(q) \/ ExecutionTimeout(q))
    /\ \A s \in Queries : WF_vars(Exit(s) \/ (pool.proc[s] = "killed" /\ Die(s)))

FairPoolSpec == PoolSpec /\ Fairness

-----------------------------------------------------------------------------
(* Properties. *)

(* "Retiring processes count toward capacity until exit, preventing        *)
(* timeout storms from spawning an unbounded number of native SQLite       *)
(* operations" (query-worker-client.ts:284): never more live processes     *)
(* than maxWorkers, however many queries time out, are aborted or crash.   *)
BoundedProcesses ==
    Cardinality({s \in Queries : pool.proc[s] \in {"running", "killed"}}) <= MaxWorkers

(* Between two events no query waits while a worker is idle or one more    *)
(* may be forked: every listener that makes room also dispatches.          *)
WorkConserving ==
    pool.queue # <<>> => ~HasPlace(pool)

(* Client and slots agree on who works for whom.  A query that was given   *)
(* up keeps no worker busy, a running query keeps exactly its own, and     *)
(* each waiting query is in the queue once.                                *)
SlotsMatchQueries ==
    /\ \A q \in Queries :
          pool.stage[q] = "running" => /\ pool.on[q] \in ToSet(pool.workers) \ pool.retiring
                                       /\ pool.current[pool.on[q]] = q
    /\ \A s \in ToSet(pool.workers) :
          pool.current[s] # None => /\ s \notin pool.retiring
                                    /\ pool.stage[pool.current[s]] = "running"
                                    /\ pool.on[pool.current[s]] = s
    /\ IsInjective(pool.queue)
    /\ ToSet(pool.queue) = {q \in Queries : pool.stage[q] = "queued"}

(* When a request is given up, none of its queries is handed to a worker   *)
(* on the way, although abortPending() dispatches after each of them.      *)
AbortStartsNothing ==
    [][aborted # aborted' => \A q \in Abortable : pool'.on[q] = pool.on[q]]_vars

(* Every query is answered or rejected, even if all workers hang.          *)
EveryQuerySettles ==
    \A q \in Queries :
        pool.stage[q] \in {"queued", "running"} ~> pool.stage[q] \in {"answered", "rejected"}
=============================================================================
