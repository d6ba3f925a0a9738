------------------------------ MODULE WindowSync ------------------------------
(* What one synchronization of alert windows does to the cache:              *)
(* syncAlertWindow() and persistChangedAlerts() in                           *)
(* src/server/app/sync-service.ts, the comparison and the writes in          *)
(* src/server/sync-worker.ts and the statements behind them in               *)
(* src/server/database.ts. Every write is a transaction of its own, as in a  *)
(* history sync; LAPI, the user and the process act between them. A record   *)
(* is abstracted to a version of its metadata, which decisions copy from     *)
(* their alert, and to whether a decision has ended.                         *)
EXTENDS Naturals, FiniteSets, Sequences, SequencesExt

CONSTANTS
    Instances,      \* the configured LAPI instances
    Primary,        \* multi_instance_primary_id
    Alerts,         \* upstream IDs of alerts: every instance uses the same ones
    DecisionIds,    \* upstream IDs of decisions
    AlertOf,        \* the alert of a decision
    TimeOf,         \* when an alert was created
    Lookback,       \* the lookback: windows lie in 0..Lookback
    FragmentSize,   \* SYNC_WRITE_DECISION_BATCH_SIZE
    MaxVersion,     \* bound: versions of the metadata of an alert
    MaxChanges,     \* bound: changes in LAPI and deletions by the user
    MaxFaults       \* bound: failures and crashes

ASSUME WindowSyncAssumption ==
    /\ IsFiniteSet(Alerts) /\ IsFiniteSet(DecisionIds)
    /\ Primary \in Instances
    /\ AlertOf \in [DecisionIds -> Alerts]
    /\ TimeOf \in [Alerts -> 0..(Lookback - 1)]
    /\ FragmentSize \in Nat \ {0}
    /\ {Lookback, MaxVersion, MaxChanges, MaxFaults} \subseteq Nat

(* An ID of LAPI has no instance in front of it.                             *)
ASSUME KeysDiffer == \A d, e \in DecisionIds, i \in Instances : d # <<i, e>>

VARIABLES
    lapi,           \* per instance: versions of its alerts (0: absent), its decisions
    alertRows,      \* the table alerts
    decisionRows,   \* the table decisions
    tombs,          \* alert_deletion_tombstones: what the user deleted
    sync,           \* per instance: the synchronization that runs
    report,         \* per instance: what it says it changed, and what it did
    left            \* what remains of the bounds

syncVars == <<lapi, alertRows, decisionRows, tombs, sync, report, left>>

Absent == [a \in Alerts |-> 0]
NoDecisions == [d \in DecisionIds |-> "none"]
DecisionsOf(a) == {d \in DecisionIds : AlertOf[d] = a}

(* What LAPI may hold: decisions of the alerts it has. *)
Contents == {c \in [versions : [Alerts -> 0..1], decisions : [DecisionIds -> {"none", "active"}]] :
                \A d \in DecisionIds : c.decisions[d] # "none" => c.versions[AlertOf[d]] > 0}

NoSync == [phase |-> "idle", todo |-> <<>>, fetched |-> [versions |-> Absent, decisions |-> NoDecisions],
           fragments |-> <<>>, removed |-> {}, bulk |-> FALSE]

(* changed of the window under way and of the windows done before it; and    *)
(* what no variable of the code has: were rows written since the start, and  *)
(* did a window fail, or time out and start over, after it had a change to   *)
(* report.                                                                   *)
NoReport == [window |-> FALSE, summary |-> FALSE, wrote |-> FALSE, dropped |-> FALSE]

WindowSyncInit ==
    /\ lapi \in [Instances -> Contents]
    /\ alertRows = {}
    /\ decisionRows = {}
    /\ tombs = {}
    /\ sync = [i \in Instances |-> NoSync]
    /\ report = [i \in Instances |-> NoReport]
    /\ left = [changes |-> MaxChanges, faults |-> MaxFaults]

Spend(what) == left[what] > 0 /\ left' = [left EXCEPT ![what] = @ - 1]

-----------------------------------------------------------------------------
(* The tables. *)

(* resolveDecisionInternalId(): the upstream ID for the primary instance. *)
DecisionKey(i, d) == IF i = Primary THEN d ELSE <<i, d>>

AlertRowsOf(i, a) == {r \in alertRows : r.instance = i /\ r.alert = a}
DecisionRowsOf(i, a) == {r \in decisionRows : r.instance = i /\ AlertOf[r.decision] = a}
CachedDecisions(i, a) == {r.decision : r \in DecisionRowsOf(i, a)}
CachedEnded(i, d) == \E r \in decisionRows : r.instance = i /\ r.decision = d /\ r.ended

InWindow(a, w) == w.start <= TimeOf[a] /\ TimeOf[a] < w.end
Window(i) == sync[i].todo[1]
Ended(i, d) == sync[i].fetched.decisions[d] = "ended"
Incoming(i, a) == {d \in DecisionsOf(a) : sync[i].fetched.decisions[d] # "none"}
FetchedAlerts(i) == {a \in Alerts : sync[i].fetched.versions[a] > 0}

-----------------------------------------------------------------------------
(* What happens outside. *)
LapiChanges ==
    \E i \in Instances : \E a \in Alerts :
        /\ Spend("changes")
        /\ \/ \E v \in 1..MaxVersion :
                /\ v # lapi[i].versions[a]
                /\ lapi' = [lapi EXCEPT ![i].versions[a] = v]
           \/ /\ lapi[i].versions[a] > 0
              /\ \E d \in DecisionsOf(a), s \in {"none", "active", "ended"} :
                    /\ s # lapi[i].decisions[d]
                    /\ lapi' = [lapi EXCEPT ![i].decisions[d] = s]
           \/ /\ lapi[i].versions[a] > 0
              /\ lapi' = [lapi EXCEPT
                    ![i].versions[a] = 0,
                    ![i].decisions = [d \in DecisionIds |->
                                        IF AlertOf[d] = a THEN "none" ELSE @[d]]]
        /\ UNCHANGED <<alertRows, decisionRows, tombs, sync, report>>

(* The deletion queue: a tombstone first, then the rows. *)
UserDeletes ==
    \E i \in Instances : \E a \in Alerts :
        /\ <<i, a>> \notin tombs
        /\ Spend("changes")
        /\ tombs' = tombs \cup {<<i, a>>}
        /\ alertRows' = alertRows \ AlertRowsOf(i, a)
        /\ decisionRows' = decisionRows \ DecisionRowsOf(i, a)
        /\ UNCHANGED <<lapi, sync, report>>

-----------------------------------------------------------------------------
(* syncHistory() starts with the whole lookback; an empty cache takes the    *)
(* bulk import, which neither compares nor reconciles.                       *)
Start(i) ==
    /\ sync[i].phase = "idle"
    /\ sync' = [sync EXCEPT ![i] = [NoSync EXCEPT
            !.phase = "fetch",
            !.todo = <<[start |-> 0, end |-> Lookback]>>,
            !.bulk = alertRows = {} /\ decisionRows = {}]]
    /\ report' = [report EXCEPT ![i] = NoReport]
    /\ UNCHANGED <<lapi, alertRows, decisionRows, tombs, left>>

(* The next window, or the end. *)
Onward(s) == IF Len(s.todo) = 1 THEN NoSync
             ELSE [s EXCEPT !.phase = "fetch", !.todo = Tail(@), !.fragments = <<>>,
                            !.removed = {}]

(* A window that times out is done in two halves while it can be split. *)
Halves(w) ==
    LET middle == (w.start + w.end) \div 2
    IN  <<[start |-> w.start, end |-> middle], [start |-> middle, end |-> w.end]>>
Splittable(w) == w.end - w.start > 1
SplitUp(s) == [s EXCEPT !.phase = "fetch", !.todo = Halves(@[1]) \o Tail(@),
                        !.fragments = <<>>, !.removed = {}]

(* fetchAlertsForSync(), cut to the exact window. *)
Fetch(i) ==
    /\ sync[i].phase = "fetch"
    /\ LET seen(a) == InWindow(a, Window(i))
       IN  sync' = [sync EXCEPT
            ![i].phase = "compare",
            ![i].fetched = [
                versions |-> [a \in Alerts |-> IF seen(a) THEN lapi[i].versions[a] ELSE 0],
                decisions |-> [d \in DecisionIds |->
                                IF seen(AlertOf[d]) THEN lapi[i].decisions[d] ELSE "none"]]]
    /\ UNCHANGED <<lapi, alertRows, decisionRows, tombs, report, left>>

(* A request or a write fails, or times out: what was written stays, and     *)
(* what the attempt would have reported is dropped.                          *)
WindowFails(i) ==
    /\ sync[i].phase # "idle"
    /\ Spend("faults")
    /\ report' = [report EXCEPT ![i].window = FALSE, ![i].dropped = @ \/ report[i].window]
    /\ \/ sync' = [sync EXCEPT ![i] = Onward(@)]
       \/ Splittable(Window(i)) /\ sync' = [sync EXCEPT ![i] = SplitUp(@)]
    /\ UNCHANGED <<lapi, alertRows, decisionRows, tombs>>

(* An alert that is not cached, or with other metadata, is written in full.  *)
Full(i, a) == \/ sync[i].bulk
              \/ \A r \in AlertRowsOf(i, a) : r.version # sync[i].fetched.versions[a]
AddedIds(i, a) ==
    IF Full(i, a) THEN Incoming(i, a) ELSE Incoming(i, a) \ CachedDecisions(i, a)
Added(i, a) ==
    IF Full(i, a) THEN Incoming(i, a)
    ELSE {d \in Incoming(i, a) : \/ d \notin CachedDecisions(i, a)
                                 \/ Ended(i, d) /\ ~CachedEnded(i, d)}
Removed(i, a) == IF Full(i, a) THEN {} ELSE CachedDecisions(i, a) \ Incoming(i, a)

(* splitAlertMutation(): the first fragment has the alert, the last one of a *)
(* full write deletes the decisions that are not to be kept.                 *)
Chunks(a, ds) ==
    LET seq == SetToSeq(ds)
        n == IF ds = {} THEN 1 ELSE (Len(seq) + FragmentSize - 1) \div FragmentSize
    IN  [k \in 1..n |-> [alert |-> a, first |-> k = 1, last |-> k = n, reconcile |-> FALSE,
            decisions |-> {seq[j] : j \in {x \in DOMAIN seq : (x - 1) \div FragmentSize = k - 1}}]]
Fragments(i, a) ==
    LET chunks == Chunks(a, Added(i, a))
    IN  [k \in DOMAIN chunks |->
            [chunks[k] EXCEPT !.reconcile = chunks[k].last /\ Full(i, a) /\ ~sync[i].bulk]]

(* compareAlertDecisions(), for all alerts at once. *)
Compare(i) ==
    /\ sync[i].phase = "compare"
    /\ LET deltas == {a \in FetchedAlerts(i) :
                        Full(i, a) \/ Added(i, a) # {} \/ Removed(i, a) # {}}
       IN  sync' = [sync EXCEPT
            ![i].phase = "persist",
            ![i].fragments = FlattenSeq([k \in 1..Cardinality(deltas) |->
                                            Fragments(i, SetToSeq(deltas)[k])]),
            ![i].removed = UNION {Removed(i, a) : a \in deltas}]
    /\ UNCHANGED <<lapi, alertRows, decisionRows, tombs, report, left>>

(* A statement reports c, as SQLite counts the rows it changes.              *)
Report(i, c) ==
    report' = [report EXCEPT
        ![i].window = @ \/ c,
        ![i].wrote = @ \/ <<alertRows, decisionRows>>' # <<alertRows, decisionRows>>]

Version(i, a) == sync[i].fetched.versions[a]
NewAlertRow(i, a) == [instance |-> i, alert |-> a, version |-> Version(i, a)]
NewDecisionRow(i, d) == [key |-> DecisionKey(i, d), instance |-> i, decision |-> d,
                         ended |-> Ended(i, d), version |-> Version(i, AlertOf[d])]

(* insertAlert(), insertDecision() and deleteDecisionsByAlertIdExcept(): what *)
(* has a tombstone is not written.                                            *)
PersistTombstoned(i) ==
    LET f == sync[i].fragments[1]
    IN  /\ sync[i].phase = "persist" /\ sync[i].fragments # <<>>
        /\ alertRows' = IF f.first
                        THEN (alertRows \ AlertRowsOf(i, f.alert)) \cup {NewAlertRow(i, f.alert)}
                        ELSE alertRows
        /\ decisionRows' = {r \in decisionRows : ~(r.instance = i /\ r.decision \in f.decisions)}
                            \cup {NewDecisionRow(i, d) : d \in f.decisions}
        /\ sync' = [sync EXCEPT ![i].fragments = Tail(@)]
        /\ Report(i, TRUE)
        /\ UNCHANGED <<lapi, tombs, left>>

PersistFragment(i) ==
    LET f == sync[i].fragments[1]
        refused == <<i, f.alert>> \in tombs
        stale == IF f.reconcile
                 THEN {r \in DecisionRowsOf(i, f.alert) : r.decision \notin Incoming(i, f.alert)}
                 ELSE {}
        rewritten == {r \in decisionRows : r.instance = i /\ r.decision \in f.decisions}
    IN  /\ sync[i].phase = "persist" /\ sync[i].fragments # <<>>
        /\ alertRows' = IF f.first /\ ~refused
                        THEN (alertRows \ AlertRowsOf(i, f.alert)) \cup {NewAlertRow(i, f.alert)}
                        ELSE alertRows
        /\ decisionRows' = (IF refused THEN decisionRows
                            ELSE (decisionRows \ rewritten)
                                    \cup {NewDecisionRow(i, d) : d \in f.decisions}) \ stale
        /\ sync' = [sync EXCEPT ![i].fragments = Tail(@)]
        /\ Report(i, \/ stale # {}
                     \/ ~refused /\ f.first /\ NewAlertRow(i, f.alert) \notin alertRows
                     \/ ~refused /\ \E d \in f.decisions : NewDecisionRow(i, d) \notin decisionRows)
        /\ UNCHANGED <<lapi, tombs, left>>

RemoveDecisionsQuietly(i) ==
    /\ sync[i].phase = "persist" /\ sync[i].fragments = <<>> /\ ~sync[i].bulk
    /\ decisionRows' = {r \in decisionRows : r.key \notin sync[i].removed}
    /\ UNCHANGED alertRows
    /\ sync' = [sync EXCEPT ![i].phase = "prune"]
    /\ Report(i, FALSE)
    /\ UNCHANGED <<lapi, tombs, left>>

(* deleteCachedDecisions() takes the upstream IDs of the delta as the keys   *)
(* of the rows.                                                              *)
RemoveDecisions(i) ==
    /\ sync[i].phase = "persist" /\ sync[i].fragments = <<>> /\ ~sync[i].bulk
    /\ decisionRows' = {r \in decisionRows : r.key \notin sync[i].removed}
    /\ UNCHANGED alertRows
    /\ sync' = [sync EXCEPT ![i].phase = "prune"]
    /\ Report(i, \E r \in decisionRows : r.key \in sync[i].removed)
    /\ UNCHANGED <<lapi, tombs, left>>

Missing(i) == {a \in Alerts : InWindow(a, Window(i)) /\ a \notin FetchedAlerts(i)}

(* deleteAlertsMissingBetween() *)
DeleteMissing(i) ==
    /\ sync[i].phase = "prune"
    /\ alertRows' = {r \in alertRows : ~(r.instance = i /\ r.alert \in Missing(i))}
    /\ decisionRows' = {r \in decisionRows :
                            ~(r.instance = i /\ AlertOf[r.decision] \in Missing(i))}
    /\ sync' = [sync EXCEPT ![i].phase = "done"]
    /\ Report(i, \E a \in Missing(i) : AlertRowsOf(i, a) # {} \/ DecisionRowsOf(i, a) # {})
    /\ UNCHANGED <<lapi, tombs, left>>

BulkDone(i) ==
    /\ sync[i].phase = "persist" /\ sync[i].fragments = <<>> /\ sync[i].bulk
    /\ sync' = [sync EXCEPT ![i].phase = "done"]
    /\ UNCHANGED <<lapi, alertRows, decisionRows, tombs, report, left>>

(* Mutant: the summary is that of the last window. *)
WindowDoneAlone(i) ==
    /\ sync[i].phase = "done"
    /\ sync' = [sync EXCEPT ![i] = Onward(@)]
    /\ report' = [report EXCEPT ![i].window = FALSE, ![i].summary = report[i].window]
    /\ UNCHANGED <<lapi, alertRows, decisionRows, tombs, left>>

(* The summary of the window is returned to the caller and joined with those *)
(* before it: combineWindowSummaries(), syncHistory().                       *)
WindowDone(i) ==
    /\ sync[i].phase = "done"
    /\ sync' = [sync EXCEPT ![i] = Onward(@)]
    /\ report' = [report EXCEPT ![i].window = FALSE, ![i].summary = @ \/ report[i].window]
    /\ UNCHANGED <<lapi, alertRows, decisionRows, tombs, left>>

ProcessDies ==
    /\ Spend("faults")
    /\ sync' = [i \in Instances |-> NoSync]
    /\ report' = [i \in Instances |-> NoReport]
    /\ UNCHANGED <<lapi, alertRows, decisionRows, tombs>>

Write(i) == PersistFragment(i) \/ RemoveDecisions(i) \/ DeleteMissing(i)
Step(i) == Start(i) \/ Fetch(i) \/ WindowFails(i) \/ Compare(i) \/ Write(i)
           \/ BulkDone(i) \/ WindowDone(i)

WindowSyncNext ==
    \/ LapiChanges
    \/ UserDeletes
    \/ ProcessDies
    \/ \E i \in Instances : Step(i)

WindowSyncSpec == WindowSyncInit /\ [][WindowSyncNext]_syncVars

-----------------------------------------------------------------------------
(* Keys are unique, rows of decisions belong to an alert of the cache, and   *)
(* nothing the user deleted is in the cache, whatever a synchronization that *)
(* fetched it before is still to write (insertAlert, insertDecision,         *)
(* deleteAlertsMissingBetween).                                              *)
RowsBelong ==
    /\ \A r, s \in decisionRows : r.key = s.key => r = s
    /\ \A r \in decisionRows : AlertRowsOf(r.instance, AlertOf[r.decision]) # {}
    /\ \A i \in Instances, a \in Alerts :
        /\ Cardinality(AlertRowsOf(i, a)) <= 1
        /\ <<i, a>> \in tombs => AlertRowsOf(i, a) = {} /\ DecisionRowsOf(i, a) = {}

(* When a window is done, the cache holds exactly what LAPI answered for it: *)
(* its alerts with their metadata and their decisions, decisions that have   *)
(* ended as ended; whatever an earlier synchronization that failed or was    *)
(* interrupted left there. The bulk import only adds (syncAlertWindow,       *)
(* compareAlertDecisions, deleteAlertsMissingBetween).                       *)
Mirrors(i, a) ==
    /\ Version(i, a) > 0 => \E r \in AlertRowsOf(i, a) : r.version = Version(i, a)
    /\ Incoming(i, a) \subseteq CachedDecisions(i, a)
    /\ \A d \in Incoming(i, a) : Ended(i, d) => CachedEnded(i, d)
    /\ ~sync[i].bulk => /\ AlertRowsOf(i, a) # {} => Version(i, a) > 0
                        /\ CachedDecisions(i, a) \subseteq Incoming(i, a)
MirrorsLapi ==
    \A i \in Instances : sync[i].phase = "done" =>
        \A a \in Alerts :
            InWindow(a, Window(i)) /\ <<i, a>> \notin tombs => Mirrors(i, a)

(* What a synchronization says it changed decides whether statistics are     *)
(* rebuilt and pages told: through all windows, one that reports no change   *)
(* has left every row as it was, unless a window failed or was split up      *)
(* after a part of it had been written (syncAlertWindow,                     *)
(* persistChangedAlerts, combineWindowSummaries).                            *)
ChangesReported ==
    \A i \in Instances :
        report[i].wrote => report[i].window \/ report[i].summary \/ report[i].dropped

(* "isolates colliding upstream alert, decision, and UUID identities by      *)
(* instance" (server/__tests__/database/identity-and-storage.test.ts:12): a  *)
(* synchronization leaves the rows of the other instances alone.             *)
OthersRows(i) == {r \in decisionRows : r.instance # i}
StaysInInstance ==
    [][\A i \in Instances : Step(i) => OthersRows(i)' = OthersRows(i)]_syncVars
=============================================================================
