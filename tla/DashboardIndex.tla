--------------------------- MODULE DashboardIndex ---------------------------
(* The index behind the dashboard: for every scope a copy in memory of the   *)
(* rows it counts. It is brought up to date from a journal that triggers     *)
(* write with every change of a row, or read again from all rows when the    *)
(* journal does not reach back to it. Writers, the readers of the index,     *)
(* pruning, and the resets of the journal run in several processes. Models   *)
(* getDashboardStatsIndex() (src/server/app/query-service.ts) and the        *)
(* journal (src/server/database.ts).                                         *)
EXTENDS Integers, FiniteSets

CONSTANTS
    Records, TableOf,   \* rows of the two tables by their IDs
    Contents, Absent,   \* what the index knows of a row; there is no such row
    Instances, All,
    Shows,      \* Shows[s][t]: contents that the filters of a scope pass at a time
    MaxJournal, \* DASHBOARD_CHANGE_JOURNAL_MAX_ENTRIES
    Builders,   \* bound: computations of an index under way at a time
    NoIndex

Tables == {"alerts", "decisions"}
(* An instance or all of them, without duplicates of active decisions or     *)
(* with them.                                                                *)
Scopes == (Instances \cup {All}) \X BOOLEAN
Rows == [Records -> Contents \cup {Absent}]

Indexes == [version : Nat, epoch : Nat, rev : Nat, at : Nat, rows : Rows]

DashboardConstants ==
    /\ TableOf \in [Records -> Tables]
    /\ Absent \notin Contents
    /\ Shows \in [Scopes -> [Nat -> SUBSET Contents]]
    /\ MaxJournal \in Nat
    /\ NoIndex \notin Indexes

VARIABLES
    now,
    db,        \* committed rows, journal of changes, and what meta says of it
    writer,    \* fields of the writer process
    versions,  \* dashboardStatsScopeVersions and dashboardStatsCacheVersion
    cached,    \* dashboardStatsCaches
    builds,    \* indexes being computed
    lost,      \* a writer has died before it turned the journal on again
    refused    \* a reset that mattered found the database locked

vars == <<now, db, writer, versions, cached, builds, lost, refused>>

Idle == [phase |-> "idle"]
Building == [phase : {"position", "delta", "scan"}, scope : Scopes, version : Nat,
             stale : Indexes \cup {NoIndex}, epoch : Nat, rev : Nat, at : Nat,
             rows : Rows, left : SUBSET Records]

TypeOK ==
    /\ now \in Nat
    /\ db \in [rows : Rows, journal : SUBSET (Nat \X Records), last : Nat,
               epoch : Nat, floor : Nat, tracking : BOOLEAN]
    /\ writer \in [deferred : BOOLEAN, clearing : {"no", "tracked", "untracked"}]
    /\ versions \in [Scopes -> Nat]
    /\ cached \in [Scopes -> Indexes \cup {NoIndex}]
    /\ builds \in [Builders -> Building \cup {Idle}]
    /\ lost \in BOOLEAN /\ refused \in BOOLEAN

-----------------------------------------------------------------------------
(* The columns that the records of the index are made of, and those whose    *)
(* change a trigger writes to the journal.                                   *)

IndexedColumns == [
    alerts |-> {"instance_id", "upstream_id", "created_at", "country", "region",
        "city", "scenario", "kind", "as_name", "source_ip", "source_value",
        "source_range", "latitude", "longitude", "target", "machine_id",
        "machine_alias", "machine", "origins", "simulated", "extra_data"},
    decisions |-> {"instance_id", "upstream_id", "alert_upstream_id", "created_at",
        "stop_at", "value", "country", "region", "city", "scenario", "as_name",
        "target", "type", "origin", "machine", "duration", "is_duplicate",
        "simulated", "extra_data"}]

TrackedColumns == [
    alerts |-> {"instance_id", "upstream_id", "created_at", "country", "region",
        "city", "scenario", "kind", "as_name", "source_ip", "source_value",
        "source_range", "latitude", "longitude", "target", "machine_id",
        "machine_alias", "machine", "origins", "simulated", "extra_data"},
    decisions |-> {"instance_id", "upstream_id", "alert_upstream_id", "created_at",
        "stop_at", "value", "country", "region", "city", "scenario", "as_name",
        "target", "type", "origin", "machine", "duration", "is_duplicate",
        "simulated", "extra_data"}]

Columns ==
    UNION {IndexedColumns[t] \cup TrackedColumns[t] : t \in Tables} \cup {"another"}

-----------------------------------------------------------------------------
(* The journal. The changes of a transaction share a revision here: nobody   *)
(* sees a part of them. AUTOINCREMENT never gives a number twice.            *)

Revisions(d) == {j[1] : j \in d.journal}
(* COALESCE(MAX(revision), 0), or the floor when that is later. *)
Revision(d) ==
    LET all == Revisions(d) \cup {d.floor}
    IN  CHOOSE m \in all : \A n \in all : n <= m
ChangedSince(d, r, rev) == \E j \in d.journal : j[2] = r /\ j[1] > rev
ChangedBetween(d, r, low, high) == \E j \in d.journal : j[2] = r /\ low < j[1] /\ j[1] <= high

(* The triggers, for rows that are inserted, changed or deleted.             *)
Written(d, touched, new) ==
    [d EXCEPT !.rows = [r \in Records |-> IF r \in touched THEN new[r] ELSE @[r]],
              !.journal = IF d.tracking THEN @ \cup ({d.last + 1} \X touched) ELSE @,
              !.last = IF d.tracking /\ touched # {} THEN @ + 1 ELSE @]

Emptied(d) == [d EXCEPT !.epoch = @ + 1, !.floor = 0, !.journal = {}]
(* resetDashboardRecordChanges() does not wait for the database.             *)
Resets(d) == {Emptied(d), d}

(* pruneDashboardRecordChanges() *)
Pruned(d, epoch, through) ==
    IF d.epoch # epoch \/ through <= 0 THEN d
    ELSE [d EXCEPT !.floor = IF through > @ THEN through ELSE @,
                   !.journal = {j \in @ : j[1] > through}]

-----------------------------------------------------------------------------
(* Writers. *)

(* A refresh, a deletion, an update of the flags commits, in whatever        *)
(* process. The trigger of an insert or a delete always writes to the        *)
(* journal; that of an update does for the columns it tracks, while the      *)
(* index sees a change of the columns it is made of.                         *)
Write ==
    /\ \E new \in Rows, replaced \in SUBSET Records, changed \in [Records -> SUBSET Columns] :
        LET tracked == {r \in Records : changed[r] \cap TrackedColumns[TableOf[r]] # {}}
        IN  /\ \A r \in Records \ replaced :
                    new[r] # db.rows[r] => changed[r] \cap IndexedColumns[TableOf[r]] # {}
            /\ db' = [Written(db, replaced \cup tracked, new) EXCEPT !.rows = new]
    /\ UNCHANGED <<now, writer, versions, cached, builds, lost, refused>>

(* beginDeferredSearchIndexUpdates() before the load of an empty cache.      *)
BeginBulk ==
    /\ writer.clearing = "no"
    /\ db' = [Emptied(db) EXCEPT !.tracking = FALSE]
    /\ writer' = [writer EXCEPT !.deferred = TRUE]
    /\ UNCHANGED <<now, versions, cached, builds, lost, refused>>

(* rebuildSearchIndexes(): only the process that turned the journal off      *)
(* turns it on.                                                              *)
EndBulk ==
    /\ writer.clearing = "no" /\ writer.deferred
    /\ db' = [Emptied(db) EXCEPT !.tracking = TRUE]
    /\ writer' = [writer EXCEPT !.deferred = FALSE]
    /\ UNCHANGED <<now, versions, cached, builds, lost, refused>>

(* clearSyncData(), which is no transaction.                                 *)
ClearStart ==
    /\ writer.clearing = "no"
    /\ db' = [db EXCEPT !.tracking = FALSE]
    /\ writer' = [writer EXCEPT !.clearing = IF db.tracking THEN "tracked" ELSE "untracked"]
    /\ UNCHANGED <<now, versions, cached, builds, lost, refused>>

ClearTable ==
    /\ writer.clearing # "no"
    /\ \E t \in Tables :
            db' = Written(db, {r \in Records : TableOf[r] = t}, [r \in Records |-> Absent])
    /\ UNCHANGED <<now, writer, versions, cached, builds, lost, refused>>

(* finally: all tables are empty, or a DELETE failed.                        *)
ClearEnd ==
    /\ writer.clearing # "no"
    /\ IF writer.clearing = "untracked"
       THEN db' = [db EXCEPT !.journal = {}] /\ UNCHANGED refused
       ELSE \E reset \in Resets(db) :
                /\ db' = [reset EXCEPT !.tracking = TRUE]
                /\ refused' = (refused \/ reset = db)
    /\ writer' = [writer EXCEPT !.clearing = "no"]
    /\ UNCHANGED <<now, versions, cached, builds, lost>>

NewWriter == [deferred |-> FALSE, clearing |-> "no"]

(* retireWorker(): an error or a timeout; the next one knows nothing. Or the *)
(* statement that turns the journal on again after a clear fails.            *)
WriterLost ==
    /\ writer' \in {NewWriter, [writer EXCEPT !.clearing = "no"]}
    /\ lost' = (lost \/ ~db.tracking)
    /\ UNCHANGED <<now, db, versions, cached, builds, refused>>

Restart ==
    /\ writer' = NewWriter
    /\ lost' = (lost \/ ~db.tracking)
    /\ versions' = [s \in Scopes |-> 0]
    /\ cached' = [s \in Scopes |-> NoIndex]
    /\ builds' = [b \in Builders |-> Idle]
    /\ UNCHANGED <<now, db, refused>>

-----------------------------------------------------------------------------
(* The main thread. *)

(* An update relies on the journal back to the index it started from.        *)
Updating(b) == builds[b] # Idle /\ builds[b].stale # NoIndex

Affected(i) == {s \in Scopes : s[1] \in {i, All}}

(* invalidateDashboardStatsCache(), for an instance or for all.              *)
Invalidate ==
    \E S \in {Scopes} \cup {Affected(i) : i \in Instances} :
        /\ versions' = [s \in Scopes |-> IF s \in S THEN versions[s] + 1 ELSE versions[s]]
        /\ IF (\A s \in Scopes : cached[s] = NoIndex) \/ Cardinality(db.journal) > MaxJournal
           THEN /\ cached' = [s \in Scopes |-> NoIndex]
                /\ db' \in Resets(db)
                /\ refused' = (refused \/
                        (db' = db /\ \E b \in Builders : Updating(b) /\ builds[b].scope \notin S))
           ELSE UNCHANGED <<cached, db, refused>>
    /\ UNCHANGED <<now, writer, builds, lost>>

(* getDashboardStatsIndex(): nobody computes the same index twice.           *)
StartIndex(b, s) ==
    /\ builds[b] = Idle
    /\ cached[s] # NoIndex => cached[s].version # versions[s]
    /\ \A o \in Builders : builds[o] # Idle =>
            <<builds[o].scope, builds[o].version>> # <<s, versions[s]>>
    /\ builds' = [builds EXCEPT ![b] =
            [phase |-> "position", scope |-> s, version |-> versions[s],
             stale |-> cached[s], epoch |-> 0, rev |-> 0, at |-> 0,
             rows |-> [r \in Records |-> Absent], left |-> {}]]
    /\ UNCHANGED <<now, db, writer, versions, cached, lost, refused>>

(* The next update of the index can start from it.                           *)
Accepted(c) == c.epoch = db.epoch /\ db.floor <= c.rev /\ c.rev <= Revision(db)

(* getDashboardChangePosition(): once before an update, and again before the *)
(* reading of all rows.                                                      *)
ReadPosition(b) ==
    LET m == builds[b]
        at == [m EXCEPT !.epoch = db.epoch, !.rev = Revision(db), !.at = now, !.left = Records]
    IN  /\ m.phase = "position"
        /\ builds' = [builds EXCEPT ![b] =
                IF m.stale = NoIndex THEN [at EXCEPT !.phase = "scan"]
                ELSE IF Accepted(m.stale) THEN [at EXCEPT !.phase = "delta", !.rows = m.stale.rows]
                ELSE [m EXCEPT !.stale = NoIndex]]
        /\ UNCHANGED <<now, db, writer, versions, cached, lost, refused>>

(* A batch of buildDashboardStatsIndex().                                    *)
ReadBatch(b) ==
    LET m == builds[b]
    IN  /\ m.phase = "scan"
        /\ \E batch \in SUBSET m.left :
              builds' = [builds EXCEPT ![b] =
                [m EXCEPT !.rows = [r \in Records |-> IF r \in batch THEN db.rows[r] ELSE @[r]],
                          !.left = @ \ batch]]
        /\ UNCHANGED <<now, db, writer, versions, cached, lost, refused>>

(* One of the two queries of updateDashboardStatsIndex().                    *)
ReadDelta(b, t) ==
    LET m == builds[b]
        read == {r \in m.left : TableOf[r] = t}
    IN  /\ m.phase = "delta"
        /\ builds' = [builds EXCEPT ![b] =
                [m EXCEPT !.rows = [r \in Records |->
                                IF r \in read /\ ChangedBetween(db, r, m.stale.rev, m.rev)
                                THEN db.rows[r] ELSE @[r]],
                          !.left = @ \ read]]
        /\ UNCHANGED <<now, db, writer, versions, cached, lost, refused>>

Filtered(rows, s, time) == [r \in Records |-> IF rows[r] \in Shows[s][time] THEN rows[r] ELSE Absent]

(* The index of a computation that has read all it needs: an update filters  *)
(* by the time it ends, a reading of all rows by the time it began.          *)
Result(m) ==
    LET time == IF m.phase = "delta" THEN now ELSE m.at
    IN  [version |-> m.version, epoch |-> m.epoch, rev |-> m.rev, at |-> time,
         rows |-> Filtered(m.rows, m.scope, time)]

(* The journal is needed by the oldest index of the epoch.                   *)
Through(caches, epoch) ==
    LET revs == {caches[s].rev : s \in {x \in Scopes : caches[x] # NoIndex /\ caches[x].epoch = epoch}}
    IN  CHOOSE m \in revs : \A n \in revs : m <= n

(* storeDashboardStatsCache(), unless the index was invalidated meanwhile.   *)
Store(b) ==
    LET m == builds[b]
        index == Result(m)
        caches == [cached EXCEPT ![m.scope] = index]
    IN  /\ m.phase \in {"delta", "scan"} /\ m.left = {}
        /\ builds' = [builds EXCEPT ![b] = Idle]
        /\ IF m.version = versions[m.scope]
           THEN /\ cached' = caches
                /\ db' \in {db, Pruned(db, index.epoch, Through(caches, index.epoch))}
           ELSE UNCHANGED <<cached, db>>
        /\ UNCHANGED <<now, writer, versions, lost, refused>>

(* A query fails. *)
FailIndex(b) ==
    /\ builds[b] # Idle
    /\ builds' = [builds EXCEPT ![b] = Idle]
    /\ UNCHANGED <<now, db, writer, versions, cached, lost, refused>>

Tick == now' = now + 1 /\ UNCHANGED <<db, writer, versions, cached, builds, lost, refused>>

-----------------------------------------------------------------------------
DashboardInit ==
    /\ now = 0
    /\ db \in [rows : Rows, journal : {{}}, last : {0}, epoch : {1}, floor : {0},
               tracking : {TRUE}]
    /\ writer = NewWriter
    /\ versions = [s \in Scopes |-> 0]
    /\ cached = [s \in Scopes |-> NoIndex]
    /\ builds = [b \in Builders |-> Idle]
    /\ lost = FALSE /\ refused = FALSE

WriterStep == \/ Write \/ BeginBulk \/ EndBulk \/ ClearStart \/ ClearTable \/ ClearEnd
              \/ WriterLost
IndexStep(b) == \/ \E s \in Scopes : StartIndex(b, s)
                \/ ReadPosition(b) \/ ReadBatch(b)
                \/ \E t \in Tables : ReadDelta(b, t)
                \/ Store(b) \/ FailIndex(b)
DashboardNext == WriterStep \/ Restart \/ Invalidate \/ (\E b \in Builders : IndexStep(b)) \/ Tick

DashboardSpec == DashboardInit /\ [][DashboardNext]_vars

-----------------------------------------------------------------------------
(* What an index is good for. The contents that the filters of a scope have  *)
(* let pass all the time: an active duplicate that expires comes into a      *)
(* scope without duplicates, and only its change of flags is journaled.      *)
Lasting(s, time) == {v \in Contents : \A t \in 0 .. time : v \in Shows[s][t]}

Matches(d, v, r, s, time) ==
    /\ v # Absent => v = d.rows[r]
    /\ d.rows[r] \in Lasting(s, time) => v = d.rows[r]

(* The next update repairs every entry that is out of date: the journal      *)
(* still has the change.                                                     *)
Repairable(d, c, s) ==
    \A r \in Records : ChangedSince(d, r, c.rev) \/ Matches(d, c.rows[r], r, s, c.at)

IndexRepairable ==
    db.tracking /\ ~refused =>
        \A s \in Scopes :
            cached[s] # NoIndex /\ cached[s].epoch = db.epoch /\ db.floor <= cached[s].rev
                => Repairable(db, cached[s], s)

(* An index that has seen the whole journal shows the rows as they are.      *)
CaughtUpIsCurrent ==
    db.tracking /\ ~refused =>
        \A s \in Scopes : cached[s] # NoIndex /\ Accepted(cached[s]) =>
            \/ \E j \in db.journal : j[1] > cached[s].rev
            \/ \A r \in Records : Matches(db, cached[s].rows[r], r, s, cached[s].at)

(* Outside a bulk load and a clear, changes are journaled.                   *)
JournalIsOn == db.tracking \/ writer.deferred \/ writer.clearing # "no" \/ lost
=============================================================================
