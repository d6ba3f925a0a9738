--------------------------- MODULE DuplicateFlags ---------------------------
(* The flags that hide duplicate decisions. A group is what the lists show   *)
(* one row of: the active decisions of one instance, value and simulation    *)
(* mode. The flags are stored with the rows and brought up to date later, by *)
(* the connection that changed the group: the main thread's or the writer    *)
(* process's, each with its own memory of what it still has to do, and one   *)
(* marker in the database for what a connection that dies leaves behind.     *)
(* Models refreshDecisionDuplicateFlags() and what calls it.                 *)
EXTENDS Integers

CONSTANTS Decisions,   \* rows of the table, by the number that ranks equals
          MaxDecision, \* bound of these numbers
          LapiInstances, Keys,
          InstanceOf,  \* instance of a decision
          KeyOf,       \* its value and simulation mode
          Horizon,     \* bound: last moment of time
          Bulk,        \* deletions by reference: changes and their refresh apart
          History,     \* loading of history: changes without a transaction
          Faults       \* SQLite may refuse a batch, a refresh or a commit

DuplicateConstants ==
    /\ MaxDecision \in Nat /\ Decisions \subseteq 0 .. MaxDecision
    /\ InstanceOf \in [Decisions -> LapiInstances] /\ KeyOf \in [Decisions -> Keys]
    /\ Horizon \in Nat
    /\ Bulk \in BOOLEAN /\ History \in BOOLEAN /\ Faults \in BOOLEAN

VARIABLES
    now,
    disk,        \* decisions and meta, as the connection that writes sees them
    saved,       \* what a rollback restores while a transaction is open
    mem,         \* fields of the CrowdsecDatabase of each connection
    queue,       \* who holds the operation queue of the writer process
    interrupted  \* a connection has died or thrown away what it remembered

vars == <<now, disk, saved, mem, queue, interrupted>>

Connections == {"main", "worker"}
Times == 0 .. Horizon
Never == -1
Tables == [stored : SUBSET Decisions, stop : [Decisions -> Times],
           flag : [Decisions -> BOOLEAN],
           at : Times \cup {Never}, dirty : BOOLEAN]
Fields == [up : BOOLEAN, keys : SUBSET Keys, init : BOOLEAN, dirty : BOOLEAN,
           owns : BOOLEAN, last : Times \cup {Never}]
InTransaction == queue \in {"transaction", "refreshed"}

TypeOK ==
    /\ now \in Times /\ disk \in Tables /\ saved \in Tables
    /\ mem \in [Connections -> Fields]
    /\ queue \in {"free", "deletion", "transaction", "refreshed"}
    /\ interrupted \in BOOLEAN

-----------------------------------------------------------------------------
(* Ranks within a group. *)

Alike(d, e) == InstanceOf[d] = InstanceOf[e] /\ KeyOf[d] = KeyOf[e]
(* ORDER BY stop_at DESC, id DESC. *)
Before(t, d, e) == t.stop[d] > t.stop[e] \/ (t.stop[d] = t.stop[e] /\ d > e)
Active(t, time) == {d \in t.stored : t.stop[d] > time}
(* Rank above 1. *)
Outranked(t, d, time) == \E e \in Active(t, time) : Alike(d, e) /\ Before(t, e, d)
Recomputed(t, K, time) ==
    [d \in Decisions |-> IF d \in t.stored /\ KeyOf[d] \in K
                         THEN d \in Active(t, time) /\ Outranked(t, d, time)
                         ELSE t.flag[d]]

(* The stored flags of the groups with this key hide all but the first.      *)
Right(t, k, time) ==
    \A d \in Active(t, time) : KeyOf[d] = k => (t.flag[d] <=> Outranked(t, d, time))
AllRight(t, time) == \A k \in Keys : Right(t, k, time)

-----------------------------------------------------------------------------
(* What a connection remembers. *)

Clean(t) == t.at # Never /\ ~t.dirty
(* loadDecisionDuplicateRefreshState() *)
Load(m, t) == [m EXCEPT !.last = t.at, !.init = Clean(t), !.dirty = ~Clean(t), !.owns = FALSE]
Opened(t) == Load([up |-> TRUE, keys |-> {}, init |-> FALSE, dirty |-> TRUE,
                   owns |-> FALSE, last |-> Never], t)
Current(m, t) == IF ~m.init /\ m.keys = {} THEN Load(m, t) ELSE m

(* markDecisionDuplicateKey(), for each of the keys K. *)
Marked(m, K, t) ==
    IF K = {} THEN m
    ELSE [Current(m, t) EXCEPT !.keys = @ \cup K, !.dirty = TRUE,
                               !.owns = @ \/ ~Current(m, t).dirty]
Marker(m, K, t) == t.dirty \/ (K # {} /\ ~Current(m, t).dirty)

(* A change of the rows: decisions are inserted or updated, which clears     *)
(* their flag, and others are removed.                                       *)
Touched(put, gone) == {KeyOf[d] : d \in put \cup gone}
Changed(t, m, put, gone, new) ==
    [t EXCEPT !.stored = (@ \cup put) \ gone,
              !.stop = [d \in Decisions |-> IF d \in put THEN new[d] ELSE t.stop[d]],
              !.flag = [d \in Decisions |-> d \notin put /\ t.flag[d]],
              !.dirty = Marker(m, Touched(put, gone), t)]

(* refreshDecisionDuplicateFlags(): all groups, or those of the marked keys  *)
(* and of the decisions that expired since this connection's last refresh.   *)
Expired(m, t, time) == IF m.last = Never THEN {}
                       ELSE {KeyOf[d] : d \in {e \in t.stored : m.last < t.stop[e] /\ t.stop[e] <= time}}
Due(m, t, time) ==
    LET due == m.keys \cup Expired(m, t, time)
    IN  IF ~m.init \/ (m.dirty /\ ~m.owns /\ m.keys = {}) \/ (m.dirty /\ due = {})
        THEN Keys ELSE due
Reflagged(t, m, time) ==
    [t EXCEPT !.flag = Recomputed(t, Due(Current(m, t), t, time), time)]
Persisted(t, time) == [t EXCEPT !.at = time, !.dirty = FALSE]
Refreshed(m, time) == [m EXCEPT !.keys = {}, !.dirty = FALSE, !.init = TRUE,
                                !.owns = FALSE, !.last = time]

-----------------------------------------------------------------------------
(* The main thread, under runExclusive(). *)

(* The rows of deleted decisions or alerts go.                               *)
DeleteForUser ==
    /\ queue = "free"
    /\ \E gone \in SUBSET disk.stored :
            /\ disk' = Changed(disk, mem["main"], {}, gone, disk.stop)
            /\ mem' = [mem EXCEPT !["main"] = Marked(@, Touched({}, gone), disk)]
    /\ queue' \in {"deletion"} \cup (IF Bulk THEN {"free"} ELSE {})
    /\ UNCHANGED <<now, saved, interrupted>>

MainMayRefresh == queue = "deletion" \/ (Bulk /\ queue = "free")

RefreshAfterDeletion ==
    /\ MainMayRefresh
    /\ disk' = Persisted(Reflagged(disk, mem["main"], now), now)
    /\ mem' = [mem EXCEPT !["main"] = Refreshed(@, now)]
    /\ queue' = "free"
    /\ UNCHANGED <<now, saved, interrupted>>

(* It throws before its update, or after it while the state is saved.        *)
RefreshThrows ==
    /\ Faults /\ MainMayRefresh
    /\ \/ UNCHANGED <<disk, mem>>
       \/ /\ disk' = Reflagged(disk, mem["main"], now)
          /\ mem' = [mem EXCEPT !["main"] = Refreshed(@, now)]
    /\ queue' = "free"
    /\ UNCHANGED <<now, saved, interrupted>>

(* deleteAlertsByRefs() and queueAlertsForDeletion(): their transaction is   *)
(* rolled back, the fields of the connection are not.                        *)
DeletionThrows ==
    /\ Faults /\ queue = "free"
    /\ \E gone \in SUBSET disk.stored :
            \/ /\ mem' = [mem EXCEPT !["main"] = Marked(@, Touched({}, gone), disk)]
               /\ UNCHANGED interrupted
            \/ /\ mem' = [mem EXCEPT !["main"] =
                              Refreshed(Marked(@, Touched({}, gone), disk), now)]
               /\ interrupted' = TRUE
    /\ UNCHANGED <<now, disk, saved, queue>>

-----------------------------------------------------------------------------
(* The writer process. *)

StartWorker ==
    /\ queue = "free" /\ ~mem["worker"].up
    /\ mem' = [mem EXCEPT !["worker"] = Opened(disk)]
    /\ UNCHANGED <<now, disk, saved, queue, interrupted>>

BeginTransaction ==
    /\ queue = "free" /\ mem["worker"].up
    /\ saved' = disk
    /\ queue' = "transaction"
    /\ UNCHANGED <<now, disk, mem, interrupted>>

WorkerMayWrite ==
    mem["worker"].up /\ (queue = "transaction" \/ (History /\ queue = "free"))

(* persist-alerts, delete-alerts-missing-between, delete-cached-*.           *)
Persist ==
    /\ WorkerMayWrite
    /\ \E put \in SUBSET Decisions, new \in [Decisions -> Times] :
       \E gone \in SUBSET (disk.stored \cup put) :
            /\ disk' = Changed(disk, mem["worker"], put, gone, new)
            /\ mem' = [mem EXCEPT !["worker"] = Marked(@, Touched(put, gone), disk)]
    /\ UNCHANGED <<now, saved, queue, interrupted>>

(* The batch is rolled back, the fields are not.                             *)
PersistThrows ==
    /\ Faults /\ WorkerMayWrite
    /\ \E K \in SUBSET Keys : mem' = [mem EXCEPT !["worker"] = Marked(@, K, disk)]
    /\ UNCHANGED <<now, disk, saved, queue, interrupted>>

(* refresh-duplicate-flags. The caller took the time before it waited for    *)
(* the operation queue.                                                      *)
RefreshFlags ==
    /\ WorkerMayWrite
    /\ \E time \in 0 .. now :
            /\ disk' = Persisted(Reflagged(disk, mem["worker"], time), time)
            /\ mem' = [mem EXCEPT !["worker"] = Refreshed(@, time)]
    /\ queue' = IF queue = "free" THEN "free" ELSE "refreshed"
    /\ UNCHANGED <<now, saved, interrupted>>

RefreshFlagsThrows ==
    /\ Faults /\ History /\ queue = "free" /\ mem["worker"].up
    /\ disk' = Reflagged(disk, mem["worker"], now)
    /\ mem' = [mem EXCEPT !["worker"] = Refreshed(@, now)]
    /\ UNCHANGED <<now, saved, queue, interrupted>>

Commit ==
    /\ queue = "refreshed"
    /\ queue' = "free"
    /\ UNCHANGED <<now, disk, saved, mem, interrupted>>

(* cleanup-old-data: expired decisions, which rank nothing.                  *)
Cleanup ==
    /\ queue = "free" /\ mem["worker"].up
    /\ \E old \in SUBSET {d \in disk.stored : disk.stop[d] < now} :
            disk' = [disk EXCEPT !.stored = @ \ old]
    /\ UNCHANGED <<now, saved, mem, queue, interrupted>>

(* clear-sync-data. *)
ClearSyncData ==
    /\ queue = "free" /\ mem["worker"].up
    /\ disk' = [disk EXCEPT !.stored = {}, !.at = Never, !.dirty = FALSE]
    /\ mem' = [mem EXCEPT !["worker"] =
                    [@ EXCEPT !.keys = {}, !.init = FALSE, !.dirty = TRUE,
                              !.owns = FALSE, !.last = Never]]
    /\ UNCHANGED <<now, saved, queue, interrupted>>

-----------------------------------------------------------------------------
(* Connections end. *)

Restored == IF InTransaction THEN saved ELSE disk
Gone(m) == [m EXCEPT !.up = FALSE, !.keys = {}]

(* retireWorker() after an error, a timeout or an aborted transaction.       *)
WorkerLost ==
    /\ mem["worker"].up
    /\ disk' = Restored
    /\ mem' = [mem EXCEPT !["worker"] = Gone(@)]
    /\ queue' = IF InTransaction THEN "free" ELSE queue
    /\ interrupted' = TRUE
    /\ UNCHANGED <<now, saved>>

(* The server process ends and starts again.                                 *)
Crash ==
    /\ disk' = Restored
    /\ mem' = [mem EXCEPT !["main"] = Opened(Restored), !["worker"] = Gone(@)]
    /\ queue' = "free"
    /\ interrupted' = TRUE
    /\ UNCHANGED <<now, saved>>

Tick ==
    /\ now < Horizon
    /\ now' = now + 1
    /\ UNCHANGED <<disk, saved, mem, queue, interrupted>>

-----------------------------------------------------------------------------
(* An empty database, or one of an earlier release, whose rank version       *)
(* counts as a marker.                                                       *)
DuplicateInit ==
    /\ now = 0
    /\ disk \in Tables /\ ~Clean(disk)
    /\ saved = disk
    /\ mem = [c \in Connections |-> IF c = "main" THEN Opened(disk) ELSE Gone(Opened(disk))]
    /\ queue = "free"
    /\ interrupted = FALSE

MainStep == DeleteForUser \/ RefreshAfterDeletion \/ RefreshThrows \/ DeletionThrows
WorkerStep == \/ StartWorker \/ BeginTransaction \/ Persist \/ PersistThrows
              \/ RefreshFlags \/ RefreshFlagsThrows \/ Commit \/ Cleanup \/ ClearSyncData
DuplicateNext == MainStep \/ WorkerStep \/ WorkerLost \/ Crash \/ Tick

DuplicateSpec == DuplicateInit /\ [][DuplicateNext]_vars

-----------------------------------------------------------------------------
(* What survives. A group whose flags are out of date is known to a          *)
(* connection that will refresh it, or all connections doubt all groups.     *)
Remembered(k) == \E c \in Connections : mem[c].up /\ k \in mem[c].keys
AllDoubted == ~Clean(disk) /\ \A c \in Connections : mem[c].up => ~mem[c].init
StaleIsRemembered ==
    AllDoubted \/ \A k \in Keys : Right(disk, k, now) \/ Remembered(k)

(* What a restart would take for clean is.                                   *)
MarkerIsTrue == Clean(Restored) => AllRight(Restored, now)

(* Every change is followed by its refresh before another caller's turn.     *)
Disciplined == ~Bulk /\ ~History /\ ~Faults

-----------------------------------------------------------------------------
(* The list of decisions with duplicates hidden. A request has the decisions *)
(* its filters match, the fields they look at, and whether it wants expired  *)
(* decisions, of which the list has those created since the lookback.        *)
Requests == [rows : SUBSET Decisions, fields : SUBSET STRING,
             expired : BOOLEAN, recent : SUBSET Decisions]

(* decisionFiltersCanSplitDuplicateGroup(). *)
GroupFields == {"instance", "ip", "sim"}
CanSplit(r) == ~ (r.fields \subseteq GroupFields \cup (IF r.expired THEN {} ELSE {"status"}))

(* buildDecisionListQuery(): the stored flag, or a rank among the matches.   *)
Listed(t, r, time) ==
    LET rows == r.rows \cap (Active(t, time) \cup (IF r.expired THEN t.stored \cap r.recent ELSE {}))
    IN  IF CanSplit(r)
        THEN {d \in rows : d \in Active(t, time) =>
                                ~ \E e \in rows : Alike(d, e) /\ Before(t, e, d)}
        ELSE {d \in rows : ~t.flag[d]}

(* Filters decide by the fields they look at, which two decisions of a group *)
(* share when the group is made of them.                                     *)
SameField(f, d, e, t, time) ==
    CASE f = "instance" -> InstanceOf[d] = InstanceOf[e]
      [] f \in {"ip", "sim"} -> KeyOf[d] = KeyOf[e]
      [] f = "status" -> (d \in Active(t, time)) = (e \in Active(t, time))
      [] OTHER -> d = e
DecidesByFields(r, t, time) ==
    \A d, e \in Decisions :
        (\A f \in r.fields : SameField(f, d, e, t, time)) => (d \in r.rows <=> e \in r.rows)
=============================================================================
