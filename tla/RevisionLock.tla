---------------------------- MODULE RevisionLock ----------------------------
(***************************************************************************)
(* PublishedRevisionLock (server/published-revision-lock.ts): the lock     *)
(* that lets HTTP handlers read one committed cache revision while a       *)
(* refresh waits to commit and publish the next one.                       *)
(*                                                                         *)
(* One element of Readers or Writers is one CALL of acquireRead() or       *)
(* acquireWrite(), together with the release closure it returns.  A        *)
(* promise that is settled is a phase of its call.  JavaScript runs each   *)
(* method to completion, so a method with the drain() it ends in is one    *)
(* atomic step.                                                            *)
(***************************************************************************)
EXTENDS Naturals, Sequences, FiniteSets, SequencesExt

CONSTANTS Readers,  \* the calls of acquireRead()
          Writers   \* the calls of acquireWrite()

ASSUME CallsAssumption == /\ IsFiniteSet(Readers)
                          /\ Readers \cap Writers = {}

VARIABLES
    readers,         \* this.readers: how many reads are granted
    writing,         \* this.writing: is a write granted
    waitingReaders,  \* this.waitingReaders, all granted together, so unordered
    waitingWriters,  \* this.waitingWriters, granted in order
    phase            \* what the caller of each call has seen of it

lockVars == <<readers, writing, waitingReaders, waitingWriters, phase>>

Calls == Readers \cup Writers

Phases == {"idle",      \* not called yet
           "waiting",   \* its promise is pending
           "holding",   \* resolved with a release closure
           "released",  \* the closure has run: its `released` flag is set
           "failed"}    \* rejected by the publication timeout

LockTypeOK ==
    /\ readers \in Nat
    /\ writing \in BOOLEAN
    /\ waitingReaders \in SUBSET Readers
    /\ waitingWriters \in Seq(Writers)
    /\ phase \in [Calls -> Phases]

LockInit ==
    /\ readers = 0
    /\ writing = FALSE
    /\ waitingReaders = {}
    /\ waitingWriters = <<>>
    /\ phase = [c \in Calls |-> "idle"]

-----------------------------------------------------------------------------
(* A call that is granted at once, and one that has to queue. *)

(* Mutants: a read that overtakes waiting refreshes; a write that looks    *)
(* only at the flag.                                                       *)
ReadFreeOvertaking == ~writing
WriteFreeDespiteReaders == ~writing /\ waitingWriters = <<>>

ReadFree == ~writing /\ waitingWriters = <<>>

WriteFree == ~writing /\ readers = 0 /\ waitingWriters = <<>>

AcquireRead(r) ==
    /\ phase[r] = "idle"
    /\ \/ /\ ReadFree
          /\ readers' = readers + 1
          /\ phase' = [phase EXCEPT ![r] = "holding"]
          /\ UNCHANGED waitingReaders
       \/ /\ ~ReadFree
          /\ waitingReaders' = waitingReaders \cup {r}
          /\ phase' = [phase EXCEPT ![r] = "waiting"]
          /\ UNCHANGED readers
    /\ UNCHANGED <<writing, waitingWriters>>

AcquireWrite(w) ==
    /\ phase[w] = "idle"
    /\ \/ /\ WriteFree
          /\ writing' = TRUE
          /\ phase' = [phase EXCEPT ![w] = "holding"]
          /\ UNCHANGED waitingWriters
       \/ /\ ~WriteFree
          /\ waitingWriters' = Append(waitingWriters, w)
          /\ phase' = [phase EXCEPT ![w] = "waiting"]
          /\ UNCHANGED writing
    /\ UNCHANGED <<readers, waitingReaders>>

-----------------------------------------------------------------------------
(* Mutant: the newest writer first. *)
DrainNewestFirst(rd, wr, queue, ph) ==
    \/ /\ ~wr /\ queue # <<>> /\ rd = 0
       /\ readers' = rd
       /\ writing' = TRUE
       /\ waitingWriters' = Front(queue)
       /\ phase' = [ph EXCEPT ![Last(queue)] = "holding"]
       /\ UNCHANGED waitingReaders
    \/ /\ wr \/ queue = <<>> \/ rd > 0
       /\ readers' = IF wr \/ queue # <<>> THEN rd ELSE rd + Cardinality(waitingReaders)
       /\ writing' = wr
       /\ waitingWriters' = queue
       /\ waitingReaders' = IF wr \/ queue # <<>> THEN waitingReaders ELSE {}
       /\ phase' = IF wr \/ queue # <<>> THEN ph
                   ELSE [c \in Calls |-> IF c \in waitingReaders THEN "holding" ELSE ph[c]]

(* drain(), run with the lock already at `rd` readers, `wr` writing, queue *)
(* `queue` and phases `ph`: nothing while a write is granted or the oldest *)
(* writer still waits for readers; else that writer; with no writer        *)
(* waiting, every waiting reader.                                          *)

Drain(rd, wr, queue, ph) ==
    \/ /\ wr \/ (queue # <<>> /\ rd > 0)
       /\ readers' = rd
       /\ writing' = wr
       /\ waitingWriters' = queue
       /\ phase' = ph
       /\ UNCHANGED waitingReaders
    \/ /\ ~wr /\ queue # <<>> /\ rd = 0
       /\ readers' = rd
       /\ writing' = TRUE
       /\ waitingWriters' = Tail(queue)
       /\ phase' = [ph EXCEPT ![Head(queue)] = "holding"]
       /\ UNCHANGED waitingReaders
    \/ /\ ~wr /\ queue = <<>>
       /\ readers' = rd + Cardinality(waitingReaders)
       /\ writing' = wr
       /\ waitingWriters' = queue
       /\ waitingReaders' = {}
       /\ phase' = [c \in Calls |-> IF c \in waitingReaders THEN "holding" ELSE ph[c]]

(* The closure of grantRead().  A second call finds `released` set and     *)
(* returns before it touches the counter.                                  *)
ReleaseRead(r) ==
    \/ /\ phase[r] = "holding"
       /\ Drain(readers - 1, writing, waitingWriters, [phase EXCEPT ![r] = "released"])
    \/ /\ phase[r] = "released"
       /\ UNCHANGED lockVars

(* Mutant: a write is released without drain(). *)
ReleaseWriteSilently(w) ==
    /\ phase[w] = "holding"
    /\ writing' = FALSE
    /\ phase' = [phase EXCEPT ![w] = "released"]
    /\ UNCHANGED <<readers, waitingReaders, waitingWriters>>

(* The closure of grantWrite(), idempotent in the same way. *)
ReleaseWrite(w) ==
    \/ /\ phase[w] = "holding"
       /\ Drain(readers, FALSE, waitingWriters, [phase EXCEPT ![w] = "released"])
    \/ /\ phase[w] = "released"
       /\ UNCHANGED lockVars

(* Mutant: the writer that timed out stays in the queue. *)
WriteTimeoutStaysQueued(w) ==
    /\ phase[w] = "waiting"
    /\ Drain(readers, writing, waitingWriters, [phase EXCEPT ![w] = "failed"])

(* The timer of a writer that is still queued: it leaves the queue, its    *)
(* promise is rejected, and whoever it was holding up is let through.  A   *)
(* grant clears the timer, and a timer that finds its writer gone returns. *)
WriteTimeout(w) ==
    /\ phase[w] = "waiting"
    /\ \E i \in DOMAIN waitingWriters :
          /\ waitingWriters[i] = w
          /\ Drain(readers, writing, RemoveAt(waitingWriters, i), [phase EXCEPT ![w] = "failed"])

LockNext ==
    \/ \E r \in Readers : AcquireRead(r) \/ ReleaseRead(r)
    \/ \E w \in Writers : AcquireWrite(w) \/ ReleaseWrite(w) \/ WriteTimeout(w)

LockSpec == LockInit /\ [][LockNext]_lockVars

(* Every holder releases in a `finally`, and the event loop fires a timer  *)
(* that stays armed.  Nobody is obliged to ask for the lock.               *)
LockFairness ==
    /\ \A r \in Readers : WF_lockVars(phase[r] = "holding" /\ ReleaseRead(r))
    /\ \A w \in Writers : /\ WF_lockVars(phase[w] = "holding" /\ ReleaseWrite(w))
                          /\ WF_lockVars(WriteTimeout(w))

FairLockSpec == LockSpec /\ LockFairness

-----------------------------------------------------------------------------
Holding(S) == {c \in S : phase[c] = "holding"}

Waiting(S) == {c \in S : phase[c] = "waiting"}

(* While a refresh publishes, no handler reads and no second refresh       *)
(* publishes: the guarantee the handlers and runConsistentDatabaseRefresh  *)
(* build on.                                                               *)
MutualExclusion ==
    \A w \in Holding(Writers) : Holding(Calls) = {w}

(* The counter and the flag say who holds the lock, however grants,        *)
(* timeouts and repeated releases interleave.                              *)
WordMatchesHolders ==
    /\ readers = Cardinality(Holding(Readers))
    /\ writing = (Holding(Writers) # {})

(* Both queues hold exactly the calls whose promise is pending, each once: *)
(* a writer whose timeout rolled its transaction back is in no queue and   *)
(* cannot be granted the lock later.                                       *)
QueuesMatchWaiters ==
    /\ waitingReaders = Waiting(Readers)
    /\ ToSet(waitingWriters) = Waiting(Writers)
    /\ \A i, j \in DOMAIN waitingWriters :
          i # j => waitingWriters[i] # waitingWriters[j]

(* drain() is called wherever the lock may have become free: a writer      *)
(* waits only for a holder, a reader only for a writer.                    *)
NoLostWakeup ==
    /\ waitingWriters # <<>> => writing \/ readers > 0
    /\ waitingReaders # {} => writing \/ waitingWriters # <<>>

(* The four facts above hold together and carry each other from step to    *)
(* step: the counter is right only because the queues are, and the queues  *)
(* empty only because no wakeup is lost.                                   *)
LockInv ==
    /\ LockTypeOK
    /\ WordMatchesHolders
    /\ QueuesMatchWaiters
    /\ NoLostWakeup
    /\ MutualExclusion

(* Refreshes get the lock in the order in which they asked for it: a       *)
(* writer is granted only when every one queued before it is settled.      *)
WritersInOrder ==
    [][\A i, j \in DOMAIN waitingWriters :
          (i < j /\ phase'[waitingWriters[j]] = "holding")
              => phase'[waitingWriters[i]] # "waiting"]_lockVars

(* Every call of acquireRead() and acquireWrite() is answered: the timeout *)
(* of a stuck writer also frees the readers behind it.                     *)
EveryCallSettles ==
    \A c \in Calls : (phase[c] = "waiting") ~> (phase[c] # "waiting")

Gate == INSTANCE PublicationGate WITH status <- phase

(* The counter, the flag and the queues keep the promise of PublicationGate: *)
(* among others, a stream of reads cannot keep a refresh from committing.    *)
ImplementsGate == Gate!GateSpec
=============================================================================
