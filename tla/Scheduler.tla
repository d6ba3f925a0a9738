------------------------------ MODULE Scheduler ------------------------------
(* The polling of the primary instance and the recovery of the cache:        *)
(* runSchedulerLoop(), startRefreshScheduler(), ensureBootstrapReady(),       *)
(* scheduleBootstrapRetry() and the history synchronisation they start        *)
(* (src/server/app/sync-service.ts), with the requests that meddle with them: *)
(* the activity tracker, reads in manual mode, the refresh interval setting,  *)
(* the manual refresh of the full history and the manual cache clear.         *)
(*                                                                            *)
(* A loop that schedulerGeneration has superseded does nothing when it        *)
(* resumes, so only the timers and the loops of the current generation are    *)
(* counted. What a refresh does to the data is the subject of Refresh; here   *)
(* it is a span of time during which cacheRefreshPromise is set.              *)
EXTENDS Naturals, FiniteSets

CONSTANTS
    NumWindows,     \* the chunks of the history that a bootstrap reads
    MaxFaults,      \* bound: failed logins, windows, deletion runs and saves
    MaxSettings,    \* bound: changes of the refresh interval
    MaxFulls,       \* bound: manual refreshes of the full history
    MaxClears       \* bound: manual cache clears

ASSUME SchedulerAssumption ==
    /\ NumWindows \in Nat \ {0}
    /\ {MaxFaults, MaxSettings, MaxFulls, MaxClears} \subseteq Nat

VARIABLES
    several,    \* more than one instance is configured
    up,         \* "new", "up", "stopped" (stopBackgroundTasks) or "crashed"
    interval,   \* refreshIntervalMs: 0 (manual) or 1
    inst,       \* the loop of a further instance, see Further
    sched,      \* isSchedulerRunning; pending timers and waiting loops
    retry,      \* bootstrapRetryTimeout is armed
    refresh,    \* what cacheRefreshPromise stands for
    boot,       \* bootstrapPromise: its phase and bootstrapSource
    init,       \* initializationPromise: the windows read so far
    cache,      \* isInitialized, isComplete and the windows whose rows are stored
    pending,    \* historicalInstanceSyncPending is not empty
    setting,    \* the settings request: "none", "saving" or "failed"
    clear,      \* the cache clear request: "none", "clearing" or "cleared"
    lost,       \* rows were cleared from under a history synchronisation
    left        \* what remains of the bounds

vars == <<several, inst, up, interval, sched, retry, refresh, boot, init, cache,
          pending, setting, clear, lost, left>>

Windows == 1..NumWindows
Phases == {"none", "login", "deletions", "init", "joined"}
Sources == {"startup", "bootstrap retry", "request"}
(* The loop of an instance behind the primary one: whether it has an interval *)
(* of its own, whether its timer is armed or its refresh under way, and       *)
(* whether there was a reason for it to end: a global interval that was       *)
(* manual, or a startup that threw.                                           *)
Further == [own : BOOLEAN, at : {"none", "timer", "syncing"}, excused : BOOLEAN]

Idle == [phase |-> "none", source |-> "startup"]
NoInit == [on |-> FALSE, next |-> 1, ok |-> {}]

SchedulerInit ==
    /\ several \in BOOLEAN
    /\ up = "new"
    /\ interval \in {0, 1}
    /\ inst \in {i \in Further : /\ i.at = "none"
                                 /\ i.own => several
                                 /\ i.excused = (interval = 0 /\ ~i.own)}
    /\ sched = [running |-> FALSE, timers |-> 0, loops |-> 0]
    /\ retry = FALSE
    /\ refresh = "none"
    /\ boot = Idle
    /\ init = NoInit
    /\ cache = [init |-> FALSE, complete |-> FALSE, rows |-> {}]
    /\ pending = FALSE
    /\ setting = "none"
    /\ clear = "none"
    /\ lost = FALSE
    /\ left = [faults |-> MaxFaults, settings |-> MaxSettings,
               fulls |-> MaxFulls, clears |-> MaxClears]

Spend(what) == left[what] > 0 /\ left' = [left EXCEPT ![what] = @ - 1]

-----------------------------------------------------------------------------
(* The scheduler as functions of its state. *)

Halted == [running |-> FALSE, timers |-> 0, loops |-> 0]

(* startRefreshScheduler(): whatever ran is superseded. *)
Started == [Halted EXCEPT !.running = interval > 0,
                          !.timers = IF interval > 0 THEN 1 ELSE 0]

(* The end of runSchedulerLoop(): manual mode stops it, otherwise the next   *)
(* timer is armed.                                                           *)
Rearmed(s) ==
    IF interval = 0 THEN [s EXCEPT !.running = FALSE]
    ELSE [s EXCEPT !.timers = @ + 1]

Busy == boot.phase # "none" \/ init.on \/ pending

(* scheduleBootstrapRetry() *)
Retry(always) == retry \/ (up = "up" /\ (always \/ ~cache'.init))

(* A loop that leaves an uninitialised cache to others. *)
LoopOnly(s) ==
    IF Busy \/ ~cache.init \/ refresh # "none"
    THEN sched' = Rearmed(s) /\ UNCHANGED <<retry, refresh>>
    ELSE /\ sched' = [s EXCEPT !.loops = @ + 1]
         /\ refresh' = "delta"
         /\ UNCHANGED retry

(* runSchedulerLoop() up to its first await, entered with the scheduler s. *)
Loop(s) ==
    IF Busy \/ ~cache.init \/ refresh # "none"
    THEN /\ sched' = Rearmed(s)
         /\ retry' = IF Busy THEN retry ELSE Retry(FALSE)
         /\ UNCHANGED refresh
    ELSE /\ sched' = [s EXCEPT !.loops = @ + 1]
         /\ refresh' = "delta"
         /\ UNCHANGED retry

(* finalizeBootstrapRecovery(): starting the scheduler clears the retry too. *)
Finalized == IF up = "up" /\ interval > 0 /\ ~sched.running THEN Started ELSE sched

(* scheduleInstanceRefresh(): nobody arms it again where the interval is     *)
(* manual.                                                                   *)
InstanceScheduled ==
    IF several /\ up = "up" /\ (inst.own \/ interval > 0)
    THEN [inst EXCEPT !.at = "timer"]
    ELSE [inst EXCEPT !.at = "none"]

(* The recovery of the start is over, successful or not: the other instances *)
(* start to poll.                                                            *)
AfterStartup == IF boot.source = "startup" THEN InstanceScheduled ELSE inst

-----------------------------------------------------------------------------
(* ensureBootstrapReady(source) up to its first await. A cache that is ready *)
(* is finalised, a recovery under way is joined, and otherwise one starts,   *)
(* which drops the retry that was armed.                                     *)
Ensure(source, c) ==
    LET ready == c.init /\ ~(~c.complete /\ source = "bootstrap retry")
        stopped == up # "up"
        joins == boot.phase # "none"
    IN  /\ retry' = (retry /\ (stopped \/ (joins /\ ~ready)))
        /\ sched' = IF ready /\ ~stopped THEN Finalized ELSE sched
        /\ boot' = IF stopped \/ ready \/ joins THEN boot
                   ELSE [phase |-> "login", source |-> source]

EndsUnjoined(phase) == /\ boot.phase = phase
                       /\ up # "crashed"
                       /\ boot' = Idle
                       /\ UNCHANGED refresh

(* However the recovery ends, its promise settles for all that joined it. *)
Ends(phase) == /\ boot.phase = phase
               /\ up # "crashed"
               /\ boot' = Idle
               /\ refresh' = IF refresh = "waits" THEN "none" ELSE refresh

(* startBackgroundTasks() *)
Start ==
    /\ up = "new"
    /\ up' = "up"
    /\ sched' = Started
    /\ pending' = several
    /\ boot' = [phase |-> "login", source |-> "startup"]
    /\ UNCHANGED <<several, inst, interval, retry, refresh, init, cache,
                   setting, clear, lost, left>>

Login ==
    /\ boot.phase = "login"
    /\ up = "up"
    /\ boot' = [boot EXCEPT !.phase = "deletions"]
    /\ UNCHANGED <<several, inst, up, interval, sched, retry, refresh, init, cache,
                   pending, setting, clear, lost, left>>

(* Only a cache that is not initialised gets another attempt here. *)
LoginFails ==
    /\ Ends("login")
    /\ up = "up"
    /\ Spend("faults")
    /\ UNCHANGED cache
    /\ retry' = Retry(FALSE)
    /\ inst' = AfterStartup
    /\ UNCHANGED <<several, up, interval, sched, init, pending, setting, clear, lost>>

(* The recovery of a stopped application gives up at its next check. *)
GivesUp ==
    /\ up = "stopped"
    /\ \/ Ends("login")
       \/ Ends("deletions")
    /\ UNCHANGED <<several, inst, up, interval, sched, retry, init, cache, pending,
                   setting, clear, lost, left>>

StartInit ==
    /\ init' = [on |-> TRUE, next |-> 1, ok |-> {}]
    /\ pending' = several

(* processPendingAlertDeletions() is done: initializeCache() starts, or joins *)
(* the synchronisation that a manual refresh of the history has started.      *)
DeletionsDone ==
    /\ boot.phase = "deletions"
    /\ up = "up"
    /\ boot' = [boot EXCEPT !.phase = "init"]
    /\ IF init.on THEN UNCHANGED <<init, pending>> ELSE StartInit
    /\ UNCHANGED <<several, inst, up, interval, sched, retry, refresh, cache,
                   setting, clear, lost, left>>

(* It throws when its writes fail. The recovery ends with the exception: the *)
(* bootstrap retry has no handler for it, and the other callers arm nothing. *)
DeletionsThrow ==
    /\ Ends("deletions")
    /\ Spend("faults")
    /\ inst' = [inst EXCEPT !.excused = @ \/ boot.source = "startup"]
    /\ up' = IF boot.source = "bootstrap retry" THEN "crashed" ELSE up
    /\ UNCHANGED <<several, interval, sched, retry, init, cache, pending,
                   setting, clear, lost>>

(* syncHistory(): a window is read and stored, or it fails. *)
Window ==
    /\ init.on /\ init.next \in Windows
    /\ up # "crashed"
    /\ \/ /\ up = "up"
          /\ init' = [init EXCEPT !.next = @ + 1, !.ok = @ \cup {init.next}]
          /\ cache' = [cache EXCEPT !.rows = @ \cup {init.next}]
          /\ UNCHANGED left
       \/ /\ init' = [init EXCEPT !.next = @ + 1]
          /\ IF up = "up" THEN Spend("faults") ELSE UNCHANGED left
          /\ UNCHANGED cache
    /\ UNCHANGED <<several, inst, up, interval, sched, retry, refresh, boot, pending,
                   setting, clear, lost>>

(* What the caller that waits for initializeCache() does with its summary. A *)
(* manual refresh of the history has nobody that would retry its failures.   *)
AfterInit(state) ==
    LET usable == state \in {"complete", "partial"}
        recovers == boot.phase = "init"
    IN  /\ sched' = IF recovers /\ usable THEN Finalized ELSE sched
        /\ retry' = IF recovers
                    THEN (IF usable THEN FALSE ELSE retry) \/
                         (state # "complete" /\ up = "up" /\ (state = "partial" \/ ~cache'.init))
                    ELSE retry
        /\ boot' = IF recovers THEN Idle ELSE boot
        /\ inst' = IF recovers THEN AfterStartup ELSE inst
        /\ refresh' = IF refresh = "full" \/ (recovers /\ refresh = "waits")
                      THEN "none" ELSE refresh
        /\ init' = NoInit
        /\ pending' = FALSE

InitEndsWithLast ==
    LET state == IF NumWindows \in init.ok THEN "complete"
                 ELSE IF init.ok # {} THEN "partial" ELSE "failed"
    IN  /\ init.on /\ init.next = NumWindows + 1
        /\ up # "crashed"
        /\ cache' = [cache EXCEPT !.init = state # "failed",
                                  !.complete = state = "complete"]
        /\ AfterInit(state)
        /\ UNCHANGED <<several, up, interval, setting, clear, lost, left>>

(* The end of initializeSingleInstanceCache() and its sibling. *)
InitEnds ==
    LET state == IF init.ok = Windows THEN "complete"
                 ELSE IF init.ok # {} THEN "partial" ELSE "failed"
    IN  /\ init.on /\ init.next = NumWindows + 1
        /\ up # "crashed"
        /\ cache' = [cache EXCEPT !.init = state # "failed",
                                  !.complete = state = "complete"]
        /\ AfterInit(state)
        /\ UNCHANGED <<several, up, interval, setting, clear, lost, left>>

(* A write of the finalisation fails: the cache is declared unusable. *)
InitThrows ==
    /\ init.on /\ up # "crashed"
    /\ IF up = "up" THEN Spend("faults") ELSE UNCHANGED left
    /\ cache' = [cache EXCEPT !.init = FALSE, !.complete = FALSE]
    /\ AfterInit("null")
    /\ UNCHANGED <<several, up, interval, setting, clear, lost>>

-----------------------------------------------------------------------------
(* Timers, and the refreshes they and the requests start. *)

TimerFires ==
    /\ sched.timers > 0
    /\ up = "up"
    /\ UNCHANGED cache
    /\ Loop([sched EXCEPT !.timers = @ - 1])
    /\ UNCHANGED <<several, inst, up, interval, boot, init, pending, setting,
                   clear, lost, left>>

(* updateCache() settles; errors of a delta are reported, not thrown. *)
DeltaEnds ==
    /\ refresh = "delta" /\ up # "crashed"
    /\ refresh' = "none"
    /\ sched' = IF sched.loops > 0 THEN Rearmed([sched EXCEPT !.loops = @ - 1]) ELSE sched
    /\ UNCHANGED <<several, inst, up, interval, retry, boot, init, cache, pending,
                   setting, clear, lost, left>>

(* The timer of a further instance: syncInstanceDelta() catches its errors,  *)
(* and the next timer is armed when it settles.                              *)
InstanceTimer ==
    /\ inst.at = "timer" /\ up = "up"
    /\ inst' = [inst EXCEPT !.at = "syncing"]
    /\ UNCHANGED <<several, up, interval, sched, retry, refresh, boot, init, cache,
                   pending, setting, clear, lost, left>>

InstanceSynced ==
    /\ inst.at = "syncing" /\ up # "crashed"
    /\ inst' = InstanceScheduled
    /\ UNCHANGED <<several, up, interval, sched, retry, refresh, boot, init, cache,
                   pending, setting, clear, lost, left>>

RetryFires ==
    /\ retry
    /\ up = "up"
    /\ LET ready == cache.init /\ cache.complete
           joins == boot.phase # "none"
       IN  /\ retry' = FALSE
           /\ sched' = IF ready THEN Finalized ELSE sched
           /\ boot' = IF ready \/ joins THEN boot
                      ELSE [phase |-> "login", source |-> "bootstrap retry"]
    /\ UNCHANGED <<several, inst, up, interval, refresh, init, cache, pending,
                   setting, clear, lost, left>>

WakeUpBesideLoop ==
    /\ up = "up"
    /\ sched.running
    /\ UNCHANGED cache
    /\ Loop([sched EXCEPT !.timers = 0])
    /\ UNCHANGED <<several, inst, up, interval, boot, init, pending, setting,
                   clear, lost, left>>

(* activityTrackerMiddleware(): the first request after an idle time runs    *)
(* the loop at once and supersedes whatever was scheduled or awaited.        *)
WakeUp ==
    /\ up = "up"
    /\ sched.running
    /\ UNCHANGED cache
    /\ Loop([sched EXCEPT !.timers = 0, !.loops = 0])
    /\ UNCHANGED <<several, inst, up, interval, boot, init, pending, setting,
                   clear, lost, left>>

(* A read in manual mode refreshes the cache first (ensurePublishedRevision- *)
(* Read), unless a refresh is under way.                                     *)
OnDemandRefresh ==
    /\ up = "up" /\ interval = 0 /\ refresh = "none"
    /\ IF cache.init
       THEN refresh' = "delta" /\ UNCHANGED <<boot, retry, sched>>
       ELSE refresh' = "waits" /\ Ensure("request", cache)
    /\ UNCHANGED <<several, inst, up, interval, init, cache, pending, setting,
                   clear, lost, left>>

(* prepareReadCache(): a read waits for the recovery unless one runs in the  *)
(* background; it starts one when there is none.                             *)
PrepareReadCache ==
    /\ up = "up" /\ ~cache.init
    /\ boot.phase = "none"
    /\ Ensure("request", cache)
    /\ UNCHANGED <<several, inst, up, interval, refresh, init, cache, pending,
                   setting, clear, lost, left>>

(* refreshFullHistory() *)
FullRefresh ==
    /\ up = "up" /\ refresh = "none"
    /\ Spend("fulls")
    /\ refresh' = "full"
    /\ IF init.on THEN UNCHANGED <<init, pending>> ELSE StartInit
    /\ UNCHANGED <<several, inst, up, interval, sched, retry, boot, cache,
                   setting, clear, lost>>

-----------------------------------------------------------------------------
(* The settings route: the interval changes at once, the scheduler is        *)
(* restarted when the setting is stored.                                     *)
SetInterval ==
    /\ up = "up" /\ setting # "saving"
    /\ Spend("settings")
    /\ interval' \in {0, 1}
    /\ setting' = "saving"
    /\ inst' = [inst EXCEPT !.excused = @ \/ (interval' = 0 /\ ~inst.own)]
    /\ UNCHANGED <<several, up, sched, retry, refresh, boot, init, cache, pending,
                   clear, lost>>

SettingSaved ==
    /\ setting = "saving" /\ up = "up"
    /\ setting' = "none"
    /\ sched' = Started
    /\ retry' = FALSE
    /\ UNCHANGED <<several, inst, up, interval, refresh, boot, init, cache, pending,
                   clear, lost, left>>

SettingFails ==
    /\ setting = "saving" /\ up # "crashed"
    /\ IF up = "up" THEN Spend("faults") ELSE UNCHANGED left
    /\ setting' = "failed"
    /\ UNCHANGED <<several, inst, up, interval, sched, retry, refresh, boot, init, cache,
                   pending, clear, lost>>

(* The cache clear route: the rows go first, then the flags, then it makes   *)
(* sure that a bootstrap runs.                                               *)
ClearData ==
    /\ up = "up" /\ clear = "none"
    /\ Spend("clears")
    /\ clear' = "cleared"
    /\ cache' = [cache EXCEPT !.rows = {}]
    /\ lost' = (lost \/ (init.on /\ init.ok # {}))
    /\ UNCHANGED <<several, inst, up, interval, sched, retry, refresh, boot, init,
                   pending, setting>>

ClearFlags ==
    /\ clear = "cleared" /\ up # "crashed"
    /\ clear' = "none"
    /\ cache' = [cache EXCEPT !.init = FALSE, !.complete = FALSE]
    /\ Ensure("request", cache')
    /\ UNCHANGED <<several, inst, up, interval, refresh, init, pending,
                   setting, lost, left>>

(* stopBackgroundTasks() *)
Stop ==
    /\ up = "up"
    /\ up' = "stopped"
    /\ sched' = Halted
    /\ retry' = FALSE
    /\ pending' = FALSE
    /\ inst' = IF inst.at = "timer" THEN [inst EXCEPT !.at = "none"] ELSE inst
    /\ UNCHANGED <<several, interval, refresh, boot, init, cache,
                   setting, clear, lost, left>>

-----------------------------------------------------------------------------
RecoveryStep == Login \/ LoginFails \/ GivesUp \/ DeletionsDone \/ DeletionsThrow
                \/ Window \/ InitEnds \/ InitThrows
Polling == TimerFires \/ DeltaEnds \/ RetryFires \/ InstanceTimer \/ InstanceSynced
Requests == WakeUp \/ OnDemandRefresh \/ PrepareReadCache \/ FullRefresh
            \/ SetInterval \/ SettingSaved \/ SettingFails \/ ClearData \/ ClearFlags

SchedulerNext == Start \/ RecoveryStep \/ Polling \/ Requests \/ Stop

SchedulerSpec == SchedulerInit /\ [][SchedulerNext]_vars

(* Timers fire, and what is awaited settles: every LAPI request, worker      *)
(* request and deletion run has a timeout. Nobody has to send a request.     *)
FairSchedulerSpec ==
    /\ SchedulerSpec
    /\ WF_vars(Start)
    /\ WF_vars(Login \/ LoginFails \/ GivesUp)
    /\ WF_vars(DeletionsDone \/ DeletionsThrow \/ GivesUp)
    /\ WF_vars(Window \/ InitEnds \/ InitThrows)
    /\ WF_vars(TimerFires)
    /\ WF_vars(DeltaEnds)
    /\ WF_vars(RetryFires)
    /\ WF_vars(SettingSaved \/ SettingFails)
    /\ WF_vars(ClearFlags)

-----------------------------------------------------------------------------
(* Values, and what always goes together. *)
SchedulerInv ==
    /\ up \in {"new", "up", "stopped", "crashed"}
    /\ sched \in [running : BOOLEAN, timers : 0..1, loops : 0..1]
    /\ refresh \in {"none", "delta", "waits", "full"}
    /\ boot \in [phase : Phases, source : Sources]
    /\ init.ok \subseteq Windows
    /\ inst \in Further
    /\ cache.complete => cache.init
    /\ boot.phase = "init" => init.on
    /\ refresh = "waits" => boot.phase # "none" \/ up # "up"

(* The scheduler that runs has exactly one chain: one timer armed or one     *)
(* loop awaiting its refresh, however wake-ups, restarts and the end of a    *)
(* bootstrap interleave; one that does not run has none. And an automatic    *)
(* interval is polled (runSchedulerLoop, startRefreshScheduler,              *)
(* activityTrackerMiddleware) once its setting is stored. A further instance *)
(* is polled from the end of the startup on, whatever became of it and of    *)
(* later refreshes, unless the interval has ever been manual or the startup  *)
(* threw (scheduleInstanceRefresh).                                          *)
PollingChain ==
    /\ sched.timers + sched.loops = IF sched.running THEN 1 ELSE 0
    /\ up = "up" /\ interval = 1 /\ setting = "none" => sched.running
    /\ up = "stopped" => ~sched.running /\ ~retry /\ inst.at # "timer"
    /\ (several /\ up = "up" /\ ~inst.excused) =>
          \/ inst.at # "none"
          \/ boot.phase # "none" /\ boot.source = "startup"

(* The cache calls itself complete only when every window of its history is  *)
(* stored (initializeCache, the cache clear route), except after rows were   *)
(* cleared from under the synchronisation that stores them.                  *)
CompleteIsWhole == cache.complete /\ clear = "none" /\ ~lost => cache.rows = Windows

(* With a single instance and an automatic interval, a cache that is not     *)
(* initialised recovers without any request (scheduleBootstrapRetry,         *)
(* runSchedulerLoop), whichever step of earlier attempts failed.             *)
RecoversAlone ==
    (up = "up" /\ ~several /\ interval = 1 /\ ~cache.init)
        ~> (cache.init \/ up # "up" \/ interval = 0 \/ setting = "failed")
=============================================================================
