------------------------------ MODULE Refresh ------------------------------
(***************************************************************************)
(* How refreshes, HTTP handlers and user deletions share cache.db          *)
(* (server/app/sync-service.ts, server/app/allowlists.ts, server/app.ts):  *)
(* PublishedRevisionLock decides who reads and who publishes, the          *)
(* operation queue of DatabaseSyncWorker decides who writes.  The queue is *)
(* taken at the level of SerialStore, which SyncWorker implements.         *)
(*                                                                         *)
(* A refresh is one call of runConsistentDatabaseRefresh: a transaction    *)
(* that holds the queue from its first statement to its commit and the     *)
(* publication lock from before its commit until the in-memory state       *)
(* describes what it committed.                                            *)
(***************************************************************************)
EXTENDS Naturals, Sequences, FiniteSets

CONSTANTS Handlers,     \* GET requests, each reads under the published revision
          Recovering,   \* those of them that find the cache uninitialized
          Sides,        \* refreshes besides the primary one: allowlists, instances
          Deletions,    \* writes of the main thread for a user
          MaxRounds,    \* bound: runs of updateCacheDelta
          MaxBatches,   \* bound: retention batches of one run
          None

ASSUME RefreshAssumption == /\ IsFiniteSet(Handlers) /\ Recovering \subseteq Handlers
                            /\ MaxRounds \in Nat /\ MaxBatches \in Nat \ {0}

Cleanups == {"cleanup"} \X (1 .. MaxRounds) \X (1 .. MaxBatches)
Deltas == {"delta"} \X (1 .. MaxRounds) \X {0}
Delta(k) == <<"delta", k, 0>>

Primary == Cleanups \cup Deltas
Refreshes == Primary \cup Sides

(* What the bootstrap started by request h writes, without the lock. *)
Recovery(h) == <<"recovery", h, 0>>
MainWrites == Deletions \cup {Recovery(h) : h \in Recovering}

(* A name stands for one call. *)
ASSUME CallsAreDistinct == /\ Handlers \cap Refreshes = {}
                           /\ Sides \cap Primary = {}
                           /\ MainWrites \cap Refreshes = {}
                           /\ None \notin Primary

VARIABLES
    readers, writing, waitingReaders, waitingWriters, phase,  \* publishedRevisionLock
    order, outcome, log,   \* operationQueue and what has reached cache.db
    stage,        \* how far each refresh is
    changes,      \* has it changed rows a reader sees, and did its operation say so
    round,        \* how often updateCacheDelta has run
    next,         \* the refresh it calls next or waits for; None: cacheRefreshPromise is null
    lastUpdate,   \* cache.lastUpdate, as the round that set it
    reconciled,   \* the in-memory reconcile state, as the round that last recorded one
    before,       \* reconcileStateBeforeRefresh
    unannounced   \* committed refreshes that publishCacheUpdate has not told clients of

lockVars == <<readers, writing, waitingReaders, waitingWriters, phase>>
queueVars == <<order, outcome, log>>
roundVars == <<round, next, lastUpdate, reconciled, before, unannounced>>
refreshVars == <<lockVars, queueVars, stage, changes, roundVars>>

Lock == INSTANCE RevisionLock WITH Readers <- Handlers, Writers <- Refreshes

Store == INSTANCE SerialStore WITH
            Transactions <- Refreshes, Statements <- {}

Stages == {"idle", "queued", "operation", "publish", "commit", "abort", "done"}

RefreshInit ==
    /\ Lock!LockInit
    /\ Store!SerialInit
    /\ stage = [w \in Refreshes |-> "idle"]
    /\ changes = [w \in Refreshes |-> "none"]
    /\ round = 0
    /\ next = None
    /\ lastUpdate = 0
    /\ reconciled = 0
    /\ before = 0
    /\ unannounced = {}

Logged(o) == \E i \in DOMAIN log : log[i] = o

Settled(o) == outcome[o] \in {"ok", "failed"}

Changed(w) == changes[w] # "none"

To(w, s) == stage' = [stage EXCEPT ![w] = s]

Fail(o) ==
    /\ outcome' = [outcome EXCEPT ![o] = "failed"]
    /\ UNCHANGED <<order, log>>

-----------------------------------------------------------------------------
(* updateCacheDelta and the operations it goes through. *)

(* Retention cleanup of this round that committed: cleanupOldData().       *)
Removed == \E w \in Cleanups : w[2] = round /\ outcome[w] = "ok" /\ Changed(w)

(* Mutant: the batches wait for the next refresh that succeeds. *)
SkipCleanupChanges(silent) == unannounced' = silent

(* publishCleanupChanges(): committed batches are announced even though    *)
(* the refresh that would have announced them failed.                      *)
PublishCleanupChanges(silent) ==
    unannounced' = IF Removed THEN silent \ Primary ELSE silent

(* runCacheRefresh(): one run at a time. *)
StartRound ==
    /\ next = None
    /\ round < MaxRounds
    /\ round' = round + 1
    /\ next' = <<"cleanup", round', 1>>
    /\ UNCHANGED <<lockVars, queueVars, stage, changes, lastUpdate, reconciled, before, unannounced>>

(* The plan for the delta needs a query that can fail. *)
PlanFails ==
    /\ next \in Deltas
    /\ stage[next] = "idle"
    /\ next' = None
    /\ PublishCleanupChanges(unannounced)
    /\ UNCHANGED <<lockVars, queueVars, stage, changes, round, lastUpdate, reconciled, before>>

(* runTransaction() queues the operation; a refresh besides the primary    *)
(* one is called at any time.                                              *)
CallRefresh(w) ==
    /\ w \in Sides \/ w = next
    /\ stage[w] = "idle"
    /\ Store!Call(w)
    /\ To(w, "queued")
    /\ before' = IF w \in Deltas THEN reconciled ELSE before
    /\ UNCHANGED <<lockVars, changes, round, next, lastUpdate, reconciled, unannounced>>

(* Its turn: BEGIN IMMEDIATE, then LAPI requests and statements. *)
BeginOperation(w) ==
    /\ stage[w] = "queued"
    /\ Store!ItsTurn(w)
    /\ To(w, "operation")
    /\ UNCHANGED <<lockVars, queueVars, changes, roundVars>>

(* What an operation can return.  A reconcile window that fails after some *)
(* of its batches were written (a refused statement) is left out of the    *)
(* summary with all it changed, and the delta goes on to its commit:       *)
(* syncAlertWindow() and runPlannedReconcileWindows().                     *)
Results(w) == {"none", "reported"} \cup (IF w \in Deltas THEN {"unreported"} ELSE {})

(* Mutant: commit without the publication lock. *)
FinishWithoutLock(w) ==
    /\ stage[w] = "operation"
    /\ \E c \in Results(w) : changes' = [changes EXCEPT ![w] = c]
    /\ To(w, "commit")
    /\ reconciled' = IF w \in Deltas THEN w[2] ELSE reconciled
    /\ UNCHANGED <<lockVars, queueVars, round, next, lastUpdate, before, unannounced>>

(* The operation succeeds, changing something or not; the delta records    *)
(* its windows in memory and persists them in the same transaction.        *)
(* beforeCommit then asks for the publication lock, unless a cleanup batch *)
(* removed nothing.                                                        *)
FinishOperation(w) ==
    /\ stage[w] = "operation"
    /\ \E c \in Results(w) :
          /\ changes' = [changes EXCEPT ![w] = c]
          /\ IF w \in Cleanups /\ c = "none"
             THEN To(w, "commit") /\ UNCHANGED lockVars
             ELSE To(w, "publish") /\ Lock!AcquireWrite(w)
    /\ reconciled' = IF w \in Deltas THEN w[2] ELSE reconciled
    /\ UNCHANGED <<queueVars, round, next, lastUpdate, before, unannounced>>

OperationFails(w) ==
    /\ stage[w] = "operation"
    /\ To(w, "abort")
    /\ reconciled' \in {reconciled} \cup (IF w \in Deltas THEN {w[2]} ELSE {})
    /\ UNCHANGED <<lockVars, queueVars, changes, round, next, lastUpdate, before, unannounced>>

(* The lock is granted and COMMIT is sent. *)
SendCommit(w) ==
    /\ stage[w] = "publish"
    /\ phase[w] = "holding"
    /\ To(w, "commit")
    /\ UNCHANGED <<lockVars, queueVars, changes, roundVars>>

(* Mutant: a refresh waits for the lock as long as it takes. *)
NoPublicationTimeout(w) == FALSE

(* 'Cache publication waited more than ...ms for readers/writers': the     *)
(* transaction is rolled back.                                             *)
PublicationTimeout(w) ==
    /\ stage[w] = "publish"
    /\ Lock!WriteTimeout(w)
    /\ To(w, "abort")
    /\ UNCHANGED <<queueVars, changes, roundVars>>

(* The worker commits; its answer is still to come. *)
Commit(w) ==
    /\ stage[w] = "commit"
    /\ ~Logged(w)
    /\ Store!TakeEffect(w)
    /\ UNCHANGED outcome
    /\ unannounced' = IF Changed(w) THEN unannounced \cup {w} ELSE unannounced
    /\ UNCHANGED <<lockVars, stage, changes, round, next, lastUpdate, reconciled, before>>

(* The caller's release of the publication lock, if the refresh has it. *)
ReleasePublication(w) ==
    IF phase[w] = "holding" THEN Lock!ReleaseWrite(w) ELSE UNCHANGED lockVars

(* The answer to COMMIT, and what follows it without another await: the    *)
(* cursor advances, the lock is released, clients are told if the delta or *)
(* its cleanup reported a change, or the caller wants it (publishUnchanged *)
(* of a manual refresh).                                                   *)
Committed(w) ==
    /\ stage[w] = "commit"
    /\ Logged(w)
    /\ Store!Succeed(w)
    /\ To(w, "done")
    /\ ReleasePublication(w)
    /\ \/ /\ w \in Cleanups
          /\ next' \in {Delta(round)} \cup
                       {<<"cleanup", round, b>> : b \in {w[3] + 1} \cap (1 .. MaxBatches)}
          /\ UNCHANGED <<lastUpdate, unannounced>>
       \/ /\ w \in Deltas
          /\ next' = None
          /\ lastUpdate' = w[2]
          /\ \E publishUnchanged \in BOOLEAN :
                unannounced' = IF changes[w] = "reported" \/ Removed \/ publishUnchanged
                               THEN unannounced \ Primary ELSE unannounced
       \/ /\ w \in Sides
          /\ unannounced' = unannounced \ {w}
          /\ UNCHANGED <<next, lastUpdate>>
    /\ UNCHANGED <<order, log, changes, round, reconciled, before>>

(* Mutants: the catch forgets the publication lock; the caller forgets the *)
(* reconcile state it saved.                                               *)
RefreshFailsKeepingLock(w) ==
    /\ stage[w] \in {"commit", "abort"}
    /\ Fail(w)
    /\ To(w, "done")
    /\ next' = IF w \in Cleanups THEN Delta(round) ELSE IF w \in Deltas THEN None ELSE next
    /\ reconciled' = IF w \in Deltas THEN before ELSE reconciled
    /\ UNCHANGED <<lockVars, changes, round, lastUpdate, before, unannounced>>
RefreshFailsKeepingState(w) ==
    /\ stage[w] \in {"commit", "abort"}
    /\ Fail(w)
    /\ To(w, "done")
    /\ ReleasePublication(w)
    /\ next' = IF w \in Cleanups THEN Delta(round) ELSE IF w \in Deltas THEN None ELSE next
    /\ UNCHANGED <<changes, round, lastUpdate, reconciled, before, unannounced>>

(* The transaction is over without success: nothing was committed, or the  *)
(* answer to COMMIT was lost.  A delta restores the reconcile state.       *)
RefreshFails(w) ==
    /\ stage[w] \in {"commit", "abort"}
    /\ Fail(w)
    /\ To(w, "done")
    /\ ReleasePublication(w)
    /\ \/ /\ w \in Cleanups
          /\ next' = Delta(round)
          /\ UNCHANGED <<reconciled, unannounced>>
       \/ /\ w \in Deltas
          /\ next' = None
          /\ reconciled' = before
          /\ PublishCleanupChanges(unannounced)
       \/ /\ w \in Sides
          /\ UNCHANGED <<next, reconciled, unannounced>>
    /\ UNCHANGED <<changes, round, lastUpdate, before>>

-----------------------------------------------------------------------------
(* Requests. *)

(* ensurePublishedRevisionRead. *)
StartRequest(h) ==
    /\ Lock!AcquireRead(h)
    /\ UNCHANGED <<queueVars, stage, changes, roundVars>>

(* prepareReadCache() inside the handler: ensureBootstrapReady() writes    *)
(* through the queue while the request holds the published revision.       *)
StartRecovery(h) ==
    /\ h \in Recovering
    /\ phase[h] = "holding"
    /\ Store!Call(Recovery(h))
    /\ UNCHANGED <<lockVars, stage, changes, roundVars>>

FinishRequest(h) ==
    /\ phase[h] = "holding"
    /\ h \in Recovering => Settled(Recovery(h))
    /\ Lock!ReleaseRead(h)
    /\ UNCHANGED <<queueVars, stage, changes, roundVars>>

(* queueAlertsForDeletion() and the other writes for a user. *)
CallDeletion(m) ==
    /\ m \in Deletions
    /\ Store!Call(m)
    /\ UNCHANGED <<lockVars, stage, changes, roundVars>>

(* runExclusive() runs a write of the main thread when its turn comes; it  *)
(* asks for no lock.                                                       *)
RunMainWrite(m) ==
    /\ Store!TakeEffect(m)
    /\ Store!Succeed(m)
    /\ UNCHANGED <<lockVars, stage, changes, roundVars>>

-----------------------------------------------------------------------------
RefreshStep(w) ==
    \/ CallRefresh(w) \/ BeginOperation(w) \/ FinishOperation(w) \/ OperationFails(w)
    \/ SendCommit(w) \/ PublicationTimeout(w) \/ Commit(w) \/ Committed(w) \/ RefreshFails(w)

RefreshNext ==
    \/ StartRound \/ PlanFails
    \/ \E w \in Refreshes : RefreshStep(w)
    \/ \E h \in Handlers : StartRequest(h) \/ StartRecovery(h) \/ FinishRequest(h)
    \/ \E m \in MainWrites : CallDeletion(m) \/ RunMainWrite(m)

RefreshSpec == RefreshInit /\ [][RefreshNext]_refreshVars

(* Every await ends: an operation returns or throws, a transaction is      *)
(* answered or given up (SyncWorker), the publication timer fires, a       *)
(* handler that waits for nothing answers.                                 *)
RefreshFairness ==
    /\ \A w \in Refreshes :
          /\ WF_refreshVars(w \notin Sides /\ CallRefresh(w))
          /\ WF_refreshVars(BeginOperation(w))
          /\ WF_refreshVars(FinishOperation(w) \/ OperationFails(w))
          /\ WF_refreshVars(SendCommit(w))
          /\ WF_refreshVars(PublicationTimeout(w))
          /\ WF_refreshVars(Committed(w) \/ RefreshFails(w))
    /\ \A h \in Handlers : WF_refreshVars(StartRecovery(h)) /\ WF_refreshVars(FinishRequest(h))
    /\ \A m \in MainWrites : WF_refreshVars(RunMainWrite(m))

FairRefreshSpec == RefreshSpec /\ RefreshFairness

-----------------------------------------------------------------------------
RefreshTypeOK ==
    /\ Lock!LockTypeOK
    /\ outcome \in [Refreshes \cup MainWrites -> {"uncalled", "waiting", "ok", "failed"}]
    /\ order \in Seq(Refreshes \cup MainWrites)
    /\ log \in Seq(Refreshes \cup MainWrites)
    /\ stage \in [Refreshes -> Stages]
    /\ changes \in [Refreshes -> {"none", "reported", "unreported"}]
    /\ round \in 0 .. MaxRounds
    /\ next \in Primary \cup {None}
    /\ {lastUpdate, reconciled, before} \subseteq 0 .. MaxRounds
    /\ unannounced \subseteq Refreshes

(* A refresh asks for the publication lock only inside its transaction and *)
(* has given it back, or left the queue, when the transaction is settled,  *)
(* however it ended; only one transaction is open at a time.               *)
LockInsideTransaction ==
    /\ \A w \in Refreshes :
          /\ phase[w] = "waiting" => stage[w] = "publish"
          /\ phase[w] = "holding" => stage[w] \in {"publish", "commit"}
    /\ \A v, w \in Refreshes :
          {stage[v], stage[w]} \subseteq {"operation", "publish", "commit", "abort"} => v = w

RefreshInv == RefreshTypeOK /\ LockInsideTransaction

(* The rows a request reads from a refresh stay what they are while it     *)
(* holds the published revision, from its first query to its last.         *)
Visible == {w \in Refreshes : Changed(w) /\ Logged(w)}

StableRevision ==
    [][\A h \in Handlers :
          (phase[h] = "holding" /\ phase'[h] = "holding") => Visible' = Visible]_refreshVars

(* "Reconciliation metadata and data commit together, and failed refreshes *)
(* retain their previous cursor" (DEVELOPMENT.md): what the next delta     *)
(* starts from has been committed, and so has what the in-memory reconcile *)
(* state says once no delta is under way.                                  *)
CursorBacked ==
    /\ lastUpdate > 0 => Logged(Delta(lastUpdate))
    /\ (reconciled > 0 /\ (next \notin Deltas \/ stage[next] \in {"idle", "queued"}))
          => Logged(Delta(reconciled))

(* When a refresh is over, clients have been told of everything it has     *)
(* committed and reported, retention batches of a failed refresh included. *)
(* Silent until the next announcement stays a commit whose answer was      *)
(* lost, and what a reconcile window wrote before it failed.               *)
NoSilentChange ==
    \A w \in unannounced :
        \/ outcome[w] = "failed" \/ changes[w] = "unreported"
        \/ w \in Sides /\ stage[w] # "done"
        \/ w \in Primary /\ next # None

(* Nobody waits forever: neither a request, nor a refresh, nor a deletion. *)
EverybodySettles ==
    /\ \A h \in Handlers : (phase[h] = "waiting") ~> (phase[h] = "released")
    /\ \A o \in Refreshes \cup MainWrites : (outcome[o] = "waiting") ~> Settled(o)

=============================================================================
