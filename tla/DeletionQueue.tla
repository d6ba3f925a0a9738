---------------------------- MODULE DeletionQueue ----------------------------
(* Queued alert deletions: src/server/app/deletion-service.ts and the        *)
(* tables it works on. A request hides an alert at once: it writes a row to  *)
(* the queue (state.db) and a tombstone (cache.db) in one transaction. Runs  *)
(* of a background processor delete the alert's decisions at LAPI, wait      *)
(* until bouncers have noticed, and delete the alert. Refreshes go on        *)
(* meanwhile; only the tombstone keeps them from restoring the alert.        *)
(*                                                                           *)
(* Time passes in ticks. Every timestamp of the code is a clock that counts  *)
(* down to the moment the code compares it with. The decisions of an alert   *)
(* are one unit: present until the last is deleted.                          *)
EXTENDS Integers, FiniteSets

CONSTANTS
    Alerts,            \* alerts of the first configured instance
    Linked,            \* those that carry decisions
    Kinds,             \* the queue keys in use: bare upstream IDs, qualified IDs
    PrimaryIsDefault,  \* is the instance named "default"?
    Lookback,          \* age up to which refreshes fetch alerts
    Delay,             \* bouncer propagation delay
    MaxAge,            \* deletionQueueMaxAge; 0 disables it
    RetryDelay,        \* pause after a failed attempt
    RequestTimeout,    \* bound on a fetched answer that is not stored yet
    Concurrency,       \* rows worked on at a time
    BatchSize,         \* writes that force a flush
    MaxFaults          \* bound on failing flushes while the process is healthy

ASSUME QueueAssumption ==
    /\ IsFiniteSet(Alerts)
    /\ Linked \subseteq Alerts
    /\ Kinds \subseteq {"legacy", "qualified"}
    /\ PrimaryIsDefault \in BOOLEAN
    /\ {Lookback, Delay, RetryDelay, Concurrency, BatchSize} \subseteq Nat \ {0}
    /\ {MaxAge, RequestTimeout, MaxFaults} \subseteq Nat
    /\ MaxAge > 0 => RequestTimeout <= MaxAge

VARIABLES
    rows,         \* pending_alert_deletions in state.db
    tombs,        \* alert_deletion_tombstones in cache.db
    cache,        \* alerts in cache.db
    lapi, bans,   \* alerts and alerts with live decisions at LAPI
    young, calm,  \* left of the lookback; left of the delay since the decisions went
    asked,        \* alerts whose deletion was acknowledged to a user
    stranded,     \* rows whose request failed before it started a run
    answers,      \* LAPI answers a refresh has fetched and not stored
    running, rerun, timer,               \* the state object of the service
    todo, active, writes, writeFailed,   \* locals of the current run
    up, stopped, booted,                 \* the process
    faults                               \* what is left of MaxFaults

history == <<asked, stranded>>
service == <<running, rerun, timer>>
upstream == <<lapi, bans, calm>>
store == <<rows, tombs, cache>>
locals == <<todo, writes, writeFailed>>
process == <<up, stopped, booted>>
vars == <<store, upstream, young, history, answers, service, locals, active,
          process, faults>>

Keys == Alerts \X Kinds
AlertOf(k) == k[1]
Off == -1    \* no timer is armed

Smallest(S) == CHOOSE n \in S : \A m \in S : n <= m
Largest(S) == CHOOSE n \in S : \A m \in S : n >= m

(* A finished row keeps its tombstone at least this long. *)
Retention == Largest({Lookback, 2 * RequestTimeout})

-----------------------------------------------------------------------------
(* Rows and tombstones.                                                      *)

NoRow == [state |-> "none", linked |-> FALSE, marked |-> FALSE,
          wait |-> 0, retry |-> 0, age |-> 0, keep |-> 0]
NewRow(hasDecisions) ==
    [NoRow EXCEPT !.state = "pending", !.linked = hasDecisions, !.age = MaxAge]
Settled(state, left) == [NoRow EXCEPT !.state = state, !.keep = left]

Pending(table) == {k \in Keys : table[k].state = "pending"}
Stored(table) == {k \in Keys : table[k].state # "none"}

(* Mutants: rows never expire; the propagation delay is not waited for. *)
NeverTooOld(row) == FALSE
DueAtOnce(row) == TRUE

TooOld(row) == MaxAge > 0 /\ row.age = 0
Due(row) == row.wait = 0

(* Mutant: only qualified keys are looked up. *)
TombstonedByRef(a) == <<a, "qualified">> \in tombs

(* insertAlert() looks for the qualified key; for the bare one only when the *)
(* instance is named "default".                                              *)
Tombstoned(a) ==
    \/ <<a, "qualified">> \in tombs
    \/ PrimaryIsDefault /\ <<a, "legacy">> \in tombs

(* When a row wants the next run. *)
RowRunAt(row) ==
    LET due == IF row.marked THEN Largest({row.wait, row.retry}) ELSE row.retry
    IN  IF MaxAge > 0 THEN Smallest({due, row.age}) ELSE due
NextRunAt(table) == Smallest({RowRunAt(table[k]) : k \in Pending(table)})

-----------------------------------------------------------------------------
(* Starting and ending a run.                                                *)

Busy == {k \in Keys : active[k] # "idle"}
SetWorker(k, step) == active' = [active EXCEPT ![k] = step]

StartRun(table) ==
    /\ running' = TRUE
    /\ timer' = Off
    /\ stranded' = {}
    /\ todo' = Pending(table)
    /\ writes' = {}
    /\ writeFailed' = FALSE

(* One run at a time: a call during a run asks for another one.              *)
Process(table) ==
    IF running
    THEN rerun' = TRUE /\ UNCHANGED <<running, timer, stranded, locals>>
    ELSE StartRun(table) /\ UNCHANGED rerun

(* Mutant: the timer waits for the last row that is due. *)
ScheduleLast(table) ==
    timer' = IF Pending(table) = {} THEN Off
             ELSE Largest({RowRunAt(table[k]) : k \in Pending(table)})

Schedule(table) == timer' = IF Pending(table) = {} THEN Off ELSE NextRunAt(table)

EndOfRun ==
    /\ running' = FALSE
    /\ rerun' = FALSE
    /\ stranded' = {}
    /\ todo' = {}
    /\ writes' = {}
    /\ writeFailed' = FALSE

(* The finally block around a run.                                           *)
AfterRun(table) ==
    \/ /\ ~stopped /\ rerun
       /\ rerun' = FALSE
       /\ StartRun(table)
    \/ /\ stopped \/ ~rerun
       /\ EndOfRun
       /\ IF stopped THEN UNCHANGED timer ELSE Schedule(table)

-----------------------------------------------------------------------------
(* What users ask for.                                                       *)

(* The transaction: a row unless the key has one, the tombstone, the cache.  *)
Queue(k) ==
    LET known == AlertOf(k) \in cache \cup lapi
        hasDecisions == AlertOf(k) \in Linked /\ known
    IN  /\ rows' = IF rows[k].state = "none"
                   THEN [rows EXCEPT ![k] = NewRow(hasDecisions)] ELSE rows
        /\ tombs' = tombs \cup {k}
        /\ cache' = cache \ {AlertOf(k)}

RequestDeletion(k) ==
    /\ up /\ ~stopped
    /\ Queue(k)
    /\ asked' = asked \cup {AlertOf(k)}
    /\ Process(rows')
    /\ UNCHANGED <<upstream, young, answers, active, process, faults>>

(* A request by bare ID updates duplicate flags after its commit. If that    *)
(* fails the user gets an error, the row stays and nobody starts a run.      *)
RequestFailsLate(k) ==
    /\ up /\ ~stopped /\ k[2] = "legacy"
    /\ Queue(k)
    /\ stranded' = stranded \cup (IF rows[k].state = "none" /\ ~running THEN {k} ELSE {})
    /\ UNCHANGED <<upstream, young, asked, answers, service, locals, active,
                   process, faults>>

-----------------------------------------------------------------------------
(* A run. Nobody else changes a pending row meanwhile, so the snapshot the   *)
(* run works on is the table. The order of the rows is left open.            *)

Note(k, op, left) == writes' = writes \cup {[key |-> k, op |-> op, left |-> left]}

StartRow(k) ==
    /\ running /\ ~writeFailed /\ k \in todo
    /\ Cardinality(Busy) < Concurrency
    /\ Cardinality(writes) < BatchSize
    /\ todo' = todo \ {k}
    /\ \/ /\ TooOld(rows[k])
          /\ Note(k, "expired", Retention)
          /\ UNCHANGED active
       \/ /\ ~TooOld(rows[k]) /\ ~rows[k].marked
          /\ SetWorker(k, "decisions")
          /\ UNCHANGED writes
       \/ /\ ~TooOld(rows[k]) /\ rows[k].marked
          /\ IF Due(rows[k]) THEN SetWorker(k, "alert") ELSE UNCHANGED active
          /\ UNCHANGED writes
    /\ UNCHANGED <<store, upstream, young, history, answers, service,
                   writeFailed, process, faults>>

(* LAPI executes requests. An alert takes its remaining decisions along.     *)
DropDecisions(A) ==
    /\ bans' = bans \ A
    /\ calm' = [a \in Alerts |-> IF a \in A \cap bans THEN Delay ELSE calm[a]]
    /\ UNCHANGED lapi
DropAlerts(A) ==
    /\ lapi' = lapi \ A
    /\ bans' = bans \ A
    /\ UNCHANGED calm

(* The decisions are deleted, or were gone. Without any, the worker goes on  *)
(* to the alert; otherwise the delay begins.                                 *)
DeleteDecisions(k) ==
    /\ active[k] = "decisions"
    /\ IF rows[k].linked
       THEN /\ DropDecisions({AlertOf(k)})
            /\ Note(k, "mark", Delay)
            /\ SetWorker(k, "idle")
       ELSE /\ Note(k, "mark", 0)
            /\ SetWorker(k, "alert")
            /\ UNCHANGED upstream
    /\ UNCHANGED <<store, young, history, answers, service, todo,
                   writeFailed, process, faults>>

(* A failed attempt; after a 401 a successful login asks for another run.    *)
AttemptFails(k) ==
    /\ Note(k, "fail", RetryDelay)
    /\ SetWorker(k, "idle")
    /\ \E login \in BOOLEAN : rerun' = (rerun \/ login)
    /\ UNCHANGED <<store, young, history, answers, running, timer, todo,
                   writeFailed, process, faults>>

(* Mutant: an attempt that failed starts the delay. *)
DecisionsFailMarked(k) ==
    /\ active[k] = "decisions"
    /\ Note(k, "mark", Delay)
    /\ SetWorker(k, "idle")
    /\ UNCHANGED <<store, upstream, young, history, answers, service, todo,
                   writeFailed, process, faults>>

(* LAPI may have executed a request whose answer is an error or lost. A row  *)
(* whose instance is no longer configured fails in the same way.             *)
DecisionsFail(k) ==
    /\ active[k] = "decisions"
    /\ AttemptFails(k)
    /\ \/ rows[k].linked /\ DropDecisions({AlertOf(k)})
       \/ UNCHANGED upstream

DeleteAlert(k) ==
    /\ active[k] = "alert"
    /\ DropAlerts({AlertOf(k)})
    /\ Note(k, "complete", Retention)
    /\ SetWorker(k, "idle")
    /\ UNCHANGED <<store, young, history, answers, service, todo,
                   writeFailed, process, faults>>

(* Mutant: every error counts as already gone. *)
AlertFailsGone(k) ==
    /\ active[k] = "alert"
    /\ Note(k, "complete", Retention)
    /\ SetWorker(k, "idle")
    /\ UNCHANGED <<store, upstream, young, history, answers, service, todo,
                   writeFailed, process, faults>>

AlertFails(k) ==
    /\ active[k] = "alert"
    /\ AttemptFails(k)
    /\ DropAlerts({AlertOf(k)}) \/ UNCHANGED upstream

(* The batch applied to one row. A failure follows the mark of its run.      *)
Written(k) ==
    LET of(op) == {w \in writes : w.key = k /\ w.op = op}
        left(op) == Largest({w.left : w \in of(op)})
        marked == IF of("mark") = {} THEN rows[k]
                  ELSE [rows[k] EXCEPT !.marked = TRUE, !.wait = left("mark"),
                                       !.retry = 0]
    IN  IF of("complete") # {} THEN Settled("complete", left("complete"))
        ELSE IF of("expired") # {} THEN Settled("expired", left("expired"))
        ELSE IF of("fail") # {} THEN [marked EXCEPT !.retry = left("fail")]
        ELSE marked

(* A worker flushes a full batch before its next row; the run flushes the    *)
(* rest when every worker is done.                                           *)
FlushDue ==
    /\ running /\ ~writeFailed /\ writes # {}
    /\ \/ /\ todo # {} /\ Cardinality(Busy) < Concurrency
          /\ Cardinality(writes) >= BatchSize
       \/ todo = {} /\ Busy = {}

Flush ==
    /\ FlushDue /\ ~stopped
    /\ rows' = [k \in Keys |-> Written(k)]
    /\ writes' = {}
    /\ UNCHANGED <<tombs, cache, upstream, young, history, answers, service,
                   todo, writeFailed, active, process, faults>>

FlushFails ==
    /\ FlushDue
    /\ \/ stopped /\ UNCHANGED faults
       \/ ~stopped /\ faults > 0 /\ faults' = faults - 1
    /\ writes' = {}
    /\ writeFailed' = TRUE
    /\ UNCHANGED <<store, upstream, young, history, answers, service, todo,
                   active, process>>

(* Rows that finished long ago go, and with them tombstones without a row.   *)
Purgeable(row) == row.state \in {"complete", "expired"} /\ row.keep = 0
Purge ==
    /\ rows' = [k \in Keys |-> IF Purgeable(rows[k]) THEN NoRow ELSE rows[k]]
    /\ tombs' = IF rows' = rows THEN tombs ELSE tombs \cap Stored(rows')

EndRun ==
    /\ running /\ Busy = {}
    /\ \/ ~writeFailed /\ todo = {} /\ writes = {} /\ ~stopped /\ Purge
       \/ /\ writeFailed \/ (stopped /\ todo = {} /\ writes = {})
          /\ UNCHANGED <<rows, tombs>>
    /\ AfterRun(rows')
    /\ UNCHANGED <<cache, upstream, young, asked, answers, active, process,
                   faults>>

TimerFires ==
    /\ up /\ timer = 0
    /\ StartRun(rows)
    /\ UNCHANGED <<store, upstream, young, asked, answers, rerun, active,
                   process, faults>>

-----------------------------------------------------------------------------
(* Refreshes, as far as they concern deleted alerts.                         *)

Fetch ==
    /\ up /\ booted /\ ~stopped /\ answers = {}
    /\ answers' = {[alerts |-> {a \in lapi : young[a] > 0}, left |-> RequestTimeout]}
    /\ UNCHANGED <<store, upstream, young, history, service, locals, active,
                   process, faults>>

(* Alerts missing from the answer leave the cache: reconciliation removes    *)
(* the ones LAPI lost, retention the old ones.                               *)
PersistFetched(answer) ==
    /\ cache' = {a \in answer.alerts : a \in cache \/ ~Tombstoned(a)}
    /\ answers' = answers \ {answer}
    /\ UNCHANGED <<rows, tombs, upstream, young, history, service, locals,
                   active, process, faults>>

FetchFails ==
    /\ answers # {}
    /\ answers' = {}
    /\ UNCHANGED <<store, upstream, young, history, service, locals, active,
                   process, faults>>

EndFetch == FetchFails \/ \E answer \in answers : PersistFetched(answer)

-----------------------------------------------------------------------------
(* The process and the passage of time.                                      *)

(* Bootstrap logs in at LAPI and works off the queue before it synchronises. *)
Boot ==
    /\ up /\ ~booted /\ ~stopped
    /\ booted' = TRUE
    /\ Process(rows)
    /\ UNCHANGED <<store, upstream, young, asked, answers, active, up,
                   stopped, faults>>

(* stopBackgroundTasks() closes the sync worker: later flushes fail.         *)
Stop ==
    /\ up /\ ~stopped
    /\ stopped' = TRUE
    /\ timer' = Off
    /\ answers' = {}
    /\ UNCHANGED <<store, upstream, young, history, running, rerun, locals,
                   active, up, booted, faults>>

Down ==
    /\ up' = FALSE
    /\ stopped' = FALSE
    /\ booted' = FALSE
    /\ running' = FALSE
    /\ rerun' = FALSE
    /\ timer' = Off
    /\ todo' = {}
    /\ writes' = {}
    /\ writeFailed' = FALSE
    /\ active' = [k \in Keys |-> "idle"]
    /\ answers' = {}
    /\ stranded' = {}
    /\ UNCHANGED <<young, asked, faults>>

(* LAPI may still execute the requests of a process that died.               *)
Crash ==
    /\ up
    /\ Down
    /\ \E late \in SUBSET Busy :
         \/ /\ \A k \in late : active[k] = "decisions" /\ rows[k].linked
            /\ DropDecisions({AlertOf(k) : k \in late})
         \/ /\ \A k \in late : active[k] = "alert"
            /\ DropAlerts({AlertOf(k) : k \in late})
    /\ UNCHANGED store

(* cache.db uses a write-ahead log, so the commit of a request is atomic in  *)
(* each file only, and cache.db commits first.                               *)
CrashDuringRequest(k) ==
    /\ up /\ ~stopped
    /\ Down
    /\ tombs' = tombs \cup {k}
    /\ cache' = cache \ {AlertOf(k)}
    /\ UNCHANGED <<rows, upstream>>

(* The constructor of the database rebuilds the tombstones from the queue.   *)
Restart ==
    /\ ~up
    /\ up' = TRUE
    /\ tombs' = Stored(rows)
    /\ UNCHANGED <<rows, cache, upstream, young, history, answers, service,
                   locals, active, stopped, booted, faults>>

Less(n) == IF n > 0 THEN n - 1 ELSE 0
OlderRow(row) == [row EXCEPT !.wait = Less(@), !.retry = Less(@), !.age = Less(@),
                             !.keep = Less(@)]
Later(S) == {[x EXCEPT !.left = Less(@)] : x \in S}

(* An answer is stored or dropped before its time is up.                     *)
Tick ==
    /\ \A answer \in answers : answer.left > 0
    /\ young' = [a \in Alerts |-> Less(young[a])]
    /\ calm' = [a \in Alerts |-> Less(calm[a])]
    /\ rows' = [k \in Keys |-> OlderRow(rows[k])]
    /\ writes' = Later(writes)
    /\ answers' = Later(answers)
    /\ timer' = IF timer = Off THEN Off ELSE Less(timer)
    /\ UNCHANGED <<tombs, cache, lapi, bans, history, running, rerun, todo,
                   writeFailed, active, process, faults>>

-----------------------------------------------------------------------------
Init ==
    /\ rows = [k \in Keys |-> NoRow]
    /\ tombs = {}
    /\ cache = Alerts
    /\ lapi = Alerts
    /\ bans = Linked
    /\ young = [a \in Alerts |-> Lookback]
    /\ calm = [a \in Alerts |-> 0]
    /\ asked = {}
    /\ stranded = {}
    /\ answers = {}
    /\ running = FALSE
    /\ rerun = FALSE
    /\ timer = Off
    /\ todo = {}
    /\ active = [k \in Keys |-> "idle"]
    /\ writes = {}
    /\ writeFailed = FALSE
    /\ up = TRUE
    /\ stopped = FALSE
    /\ booted = FALSE
    /\ faults = MaxFaults

Work(k) ==
    \/ StartRow(k)
    \/ DeleteDecisions(k)
    \/ DecisionsFail(k)
    \/ DeleteAlert(k)
    \/ AlertFails(k)

Next ==
    \/ \E k \in Keys : RequestDeletion(k) \/ RequestFailsLate(k) \/ CrashDuringRequest(k)
    \/ \E k \in Keys : Work(k)
    \/ Flush \/ FlushFails \/ EndRun \/ TimerFires
    \/ Fetch \/ EndFetch
    \/ Boot \/ Stop \/ Crash \/ Restart
    \/ Tick

QueueSpec == Init /\ [][Next]_vars

(* Every await ends, timers fire and time passes. Nothing is assumed of      *)
(* LAPI's answers, of users, of the login or of whoever restarts the process.*)
FairQueueSpec ==
    /\ QueueSpec
    /\ \A k \in Keys : WF_vars(Work(k))
    /\ WF_vars(Flush \/ FlushFails)
    /\ WF_vars(EndRun)
    /\ WF_vars(TimerFires)
    /\ WF_vars(EndFetch)
    /\ WF_vars(Tick)

-----------------------------------------------------------------------------
(* Properties.                                                               *)

(* The types of the variables, and that a process that is down has no run.   *)
Clock(n) == 0 .. n
Row == [state : {"none", "pending", "complete", "expired"}, linked : BOOLEAN,
        marked : BOOLEAN, wait : Clock(Delay), retry : Clock(RetryDelay),
        age : Clock(MaxAge), keep : Clock(Retention)]
Write == [key : Keys, op : {"mark"}, left : Clock(Delay)]
         \cup [key : Keys, op : {"fail"}, left : Clock(RetryDelay)]
         \cup [key : Keys, op : {"complete", "expired"}, left : Clock(Retention)]
Answer == [alerts : SUBSET Alerts, left : Clock(RequestTimeout)]
QueueTypeOK ==
    /\ rows \in [Keys -> Row]
    /\ {tombs, todo, stranded} \subseteq SUBSET Keys
    /\ {cache, lapi, bans, asked} \subseteq SUBSET Alerts
    /\ young \in [Alerts -> Clock(Lookback)]
    /\ calm \in [Alerts -> Clock(Delay)]
    /\ answers \subseteq Answer
    /\ timer \in Nat \cup {Off}
    /\ active \in [Keys -> {"idle", "decisions", "alert"}]
    /\ writes \subseteq Write
    /\ {running, rerun, writeFailed, up, stopped, booted} \subseteq BOOLEAN
    /\ faults \in 0 .. MaxFaults

(* An alert whose deletion was acknowledged is never shown again, whatever   *)
(* refreshes, retries, expiry, purges and restarts do in between             *)
(* (deletion-service.ts:487-495, database.ts:1248 and 1840-1846).            *)
DeletedStaysHidden == asked \cap cache = {}

(* An alert leaves LAPI only when its decisions are gone for the propagation *)
(* delay, however many attempts, runs and restarts it took                   *)
(* (deletion-service.ts:414-444).                                            *)
DecisionsFirst ==
    [][\A a \in lapi \ lapi' : a \notin bans /\ calm[a] = 0]_vars

(* A row says completed only of an alert that LAPI no longer has             *)
(* (deletion-service.ts:446-449).                                            *)
CompletedMeansDeleted ==
    \A k \in Keys : rows[k].state = "complete" => AlertOf(k) \notin lapi

(* While the process is awake, pending work has a run under way or a timer   *)
(* that fires no later than the earliest row is due, except for rows whose   *)
(* request failed after its commit                                           *)
(* (deletion-service.ts:341-358 and 497-511).                                *)
Awake == up /\ booted /\ ~stopped
WakesInTime ==
    Awake /\ ~running =>
        \A k \in Pending(rows) \ stranded : timer # Off /\ timer <= RowRunAt(rows[k])

(* A queued deletion settles: LAPI has done it or it is too old, even when   *)
(* every attempt fails, unless the process is stopped or dies                *)
(* (deletion-service.ts:378-391).                                            *)
EveryDeletionSettles ==
    \A k \in Keys :
        (k \in Pending(rows) \ stranded /\ Awake) ~> (k \notin Pending(rows) \/ ~Awake)
=============================================================================
