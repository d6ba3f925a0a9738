----------------------------- MODULE CachePruning -----------------------------
(* The cleanup of the cache after a change of the filters:                   *)
(* pruneCachedEntriesIfAlertFiltersChanged() at the start of syncHistory(),  *)
(* in src/server/app/sync-service.ts. The filters in force when the cache    *)
(* was last cleaned are remembered in the database as a fingerprint.         *)
EXTENDS AlertFilters

CONSTANTS
    Environments,   \* the environments the process may be started in
    LapiAlerts      \* the alerts of LAPI

PruningConstants ==
    /\ \A e \in Environments : IsEnvironment(e)
    /\ \A a \in LapiAlerts : IsAlert(a)

VARIABLES
    environment,    \* of the process that runs
    fingerprint,    \* in the table meta: empty, or the one configuration
    cached,         \* the alerts in the cache
    phase           \* of the process: "starting", "cleaned", "syncing"

pruningVars == <<environment, fingerprint, cached, phase>>

Filters == FilterConfig(environment)

PruningInit ==
    /\ environment \in Environments
    /\ fingerprint = {}
    /\ cached = {}
    /\ phase = "starting"

(* The process ends, at any moment, and starts in another environment.       *)
StartAgain ==
    /\ environment' \in Environments
    /\ phase' = "starting"
    /\ UNCHANGED <<fingerprint, cached>>

(* A cache without a fingerprint was cleaned by an earlier version.          *)
FiltersUnchanged ==
    /\ phase = "starting"
    /\ fingerprint \in {{}, {Filters}}
    /\ fingerprint' = {Filters}
    /\ phase' = "syncing"
    /\ UNCHANGED <<environment, cached>>

Prune ==
    /\ phase = "starting"
    /\ fingerprint \notin {{}, {Filters}}
    /\ cached' = {a \in cached : KeptInCache(Filters, a)}
    /\ phase' = "cleaned"
    /\ UNCHANGED <<environment, fingerprint>>

(* The fingerprint is stored when the rows have been deleted.                *)
Remember ==
    /\ phase = "cleaned"
    /\ fingerprint' = {Filters}
    /\ phase' = "syncing"
    /\ UNCHANGED <<environment, cached>>

(* A window is synchronized, of the history or of a later refresh.           *)
SyncWindow ==
    /\ phase = "syncing"
    /\ \E window \in SUBSET LapiAlerts :
            cached' = (cached \ window) \cup {a \in window : Fetched(Filters, a)}
    /\ UNCHANGED <<environment, fingerprint, phase>>

PruningNext == StartAgain \/ FiltersUnchanged \/ Prune \/ Remember \/ SyncWindow

PruningSpec == PruningInit /\ [][PruningNext]_pruningVars

-----------------------------------------------------------------------------
(* Whatever the filters were before, and wherever the process ended, the     *)
(* cache of a process that synchronizes holds no alert its own filters would *)
(* not let stay, but for alerts of several origins                           *)
(* (pruneCachedEntriesIfAlertFiltersChanged, syncHistory).                   *)
OnlyAllowed ==
    phase = "syncing" => \A a \in cached : SingleOrigin(a) => KeptInCache(Filters, a)

(* The cleanup removes no alert that the synchronization after it would      *)
(* store again, but for alerts of several origins                            *)
(* (isCachedAlertAllowedByCurrentFilter, getAlertSyncQueries).               *)
MatchingStay ==
    [][Prune => \A a \in cached :
        Fetched(Filters, a) /\ SingleOrigin(a) => a \in cached']_pruningVars
=============================================================================
