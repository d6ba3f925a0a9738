-------------------------- MODULE SyncServiceProofs --------------------------
(* The polling of instances and the recovery of the cache, for any number of  *)
(* history windows, faults, settings, manual refreshes and cache clears, and  *)
(* the refreshes that the polling starts, on top of the publication lock and  *)
(* the operation queue, for any number of rounds, batches, handlers and main  *)
(* thread writes (sync-service.ts). The facts about the lock are those of     *)
(* RevisionLockProofs, with a refresh for each writer. Then the windows that  *)
(* a refresh reads again, and the notification rules it evaluates at its end  *)
(* (notifications.ts).                                                        *)
EXTENDS Scheduler, Refresh, Reconcile, Notifications, FiniteSetTheorems, SequenceTheorems,
        WellFoundedInduction, TLAPS

-----------------------------------------------------------------------------
(* The inductive invariant, in parts that few actions touch.                 *)

Schedulers == [running : BOOLEAN, timers : 0 .. 1, loops : 0 .. 1]

(* The chain of the scheduler s under interval n, in an application that is  *)
(* in state u, with a settings request in state g.                           *)
Chained(s, n, u, g) ==
    /\ s \in Schedulers
    /\ s.timers + s.loops = IF s.running THEN 1 ELSE 0
    /\ u = "up" /\ n = 1 /\ g = "none" => s.running
    /\ u = "stopped" => ~s.running

ChainOK ==
    /\ up \in {"new", "up", "stopped", "crashed"}
    /\ interval \in {0, 1}
    /\ setting \in {"none", "saving", "failed"}
    /\ Chained(sched, interval, up, setting)

(* The loop i of a further instance, given the recovery b: only a manual     *)
(* interval, or a startup that threw, lets it end.                           *)
Polled(i, n, u, b) ==
    /\ i \in Further
    /\ u = "stopped" => i.at # "timer"
    /\ n = 0 /\ ~i.own => i.excused
    /\ several /\ u = "up" /\ ~i.excused => \/ i.at # "none"
                                            \/ b.phase # "none" /\ b.source = "startup"

Histories == [on : BOOLEAN, next : Nat, ok : SUBSET Windows]

(* What is joined and waited for exists.                                     *)
Joined(b, j, r, u) ==
    /\ b \in [phase : Phases, source : Sources]
    /\ r \in {"none", "delta", "waits", "full"}
    /\ j \in Histories
    /\ b.phase = "init" => j.on
    /\ r = "waits" => b.phase # "none" \/ u # "up"

Rearmable == retry \in BOOLEAN /\ (up = "stopped" => ~retry)

(* What a synchronisation has read is stored, and a cache that calls itself  *)
(* complete has all of it, unless rows went in between.                      *)
Stored(c, j, k, l) ==
    /\ c \in [init : BOOLEAN, complete : BOOLEAN, rows : SUBSET Windows]
    /\ c.complete => c.init
    /\ k \in {"none", "cleared"} /\ l \in BOOLEAN
    /\ ~j.on => j.ok = {}
    /\ ~l => j.ok \subseteq c.rows
    /\ c.complete /\ k = "none" /\ ~l => c.rows = Windows

ServiceInv ==
    /\ several \in BOOLEAN
    /\ ChainOK
    /\ Polled(inst, interval, up, boot)
    /\ Joined(boot, init, refresh, up)
    /\ Rearmable
    /\ Stored(cache, init, clear, lost)

LEMMA InvImplies ==
  ASSUME ServiceInv
  PROVE  SchedulerInv /\ PollingChain /\ CompleteIsWhole
<1>1. SchedulerInv
  BY DEF ServiceInv, ChainOK, Chained, Polled, Joined, Stored, Schedulers, Histories, SchedulerInv
<1>2. PollingChain
  BY DEF ServiceInv, ChainOK, Chained, Polled, Rearmable, PollingChain
<1>3. CompleteIsWhole
  BY DEF ServiceInv, Stored, CompleteIsWhole
<1> QED
  BY <1>1, <1>2, <1>3

LEMMA InitService ==
  ASSUME SchedulerInit
  PROVE  ServiceInv
<1>1. ChainOK
  BY DEF SchedulerInit, ChainOK, Chained, Schedulers
<1>2. Polled(inst, interval, up, boot)
  BY DEF SchedulerInit, Polled
<1>3. Joined(boot, init, refresh, up) /\ Rearmable
  BY DEF SchedulerInit, Joined, Rearmable, Idle, NoInit, Phases, Sources, Histories
<1>4. Stored(cache, init, clear, lost)
  BY DEF SchedulerInit, Stored, NoInit
<1> QED
  BY <1>1, <1>2, <1>3, <1>4 DEF SchedulerInit, ServiceInv

-----------------------------------------------------------------------------
(* The scheduler's functions.                                                *)

LEMMA Starting ==
  ASSUME ChainOK
  PROVE  \A g : Chained(Started, interval, "up", g)
<1> PICK h : h = Halted
  OBVIOUS
<1> PICK s : s = Started
  OBVIOUS
<1>1. h \in Schedulers /\ h.loops = 0
  BY DEF Halted, Schedulers
<1>2. CASE interval = 1
  <2>1. s = [h EXCEPT !.running = TRUE, !.timers = 1]
    <3>1. (interval > 0) = TRUE
      BY <1>2
    <3> QED
      BY <3>1 DEF Started
  <2>2. PICK m : m = [h EXCEPT !.timers = 1]
    OBVIOUS
  <2>3. m \in Schedulers /\ m.timers = 1 /\ m.loops = 0
    BY <1>1, <2>2 DEF Schedulers
  <2>4. s = [m EXCEPT !.running = TRUE]
    BY <2>1, <2>2
  <2>5. s \in Schedulers /\ s.running /\ s.timers = 1 /\ s.loops = 0
    BY <2>3, <2>4 DEF Schedulers
  <2> QED
    BY <2>5 DEF Chained
<1>3. CASE interval = 0
  <2>1. s = [h EXCEPT !.running = FALSE, !.timers = 0]
    <3>1. (interval > 0) = FALSE
      BY <1>3
    <3> QED
      BY <3>1 DEF Started
  <2>2. s \in Schedulers /\ ~s.running /\ s.timers = 0 /\ s.loops = 0
    BY <1>1, <2>1 DEF Schedulers
  <2> QED
    BY <1>3, <2>2 DEF Chained
<1> QED
  BY <1>2, <1>3 DEF ChainOK

LEMMA Finalizing ==
  ASSUME ChainOK
  PROVE  Chained(Finalized, interval, up, setting)
<1>1. CASE up = "up" /\ interval > 0 /\ ~sched.running
  BY <1>1, Starting DEF Finalized
<1>2. CASE ~(up = "up" /\ interval > 0 /\ ~sched.running)
  BY <1>2 DEF ChainOK, Finalized
<1> QED
  BY <1>1, <1>2

(* A loop that has nothing armed and nothing awaited continues the chain.    *)
LEMMA Looping ==
  ASSUME ChainOK, up # "stopped", NEW s \in Schedulers, s.running, s.timers = 0, s.loops = 0
  PROVE  /\ Chained(Rearmed(s), interval, up, setting)
         /\ Chained([s EXCEPT !.loops = @ + 1], interval, up, setting)
<1> PICK r : r = Rearmed(s)
  OBVIOUS
<1> PICK m : m = [s EXCEPT !.loops = @ + 1]
  OBVIOUS
<1>1. m \in Schedulers /\ m.running /\ m.timers = 0 /\ m.loops = 1
  BY DEF Schedulers
<1>2. Chained(m, interval, up, setting)
  BY <1>1 DEF Chained
<1>3. Chained(r, interval, up, setting)
  <2>1. CASE interval = 1
    <3>1. r = [s EXCEPT !.timers = @ + 1]
      BY <2>1 DEF Rearmed
    <3>2. r \in Schedulers /\ r.running /\ r.timers = 1 /\ r.loops = 0
      BY <3>1 DEF Schedulers
    <3> QED
      BY <3>2 DEF Chained
  <2>2. CASE interval = 0
    <3>1. r = [s EXCEPT !.running = FALSE]
      BY <2>2 DEF Rearmed
    <3>2. r \in Schedulers /\ ~r.running /\ r.timers = 0 /\ r.loops = 0
      BY <3>1 DEF Schedulers
    <3> QED
      BY <2>2, <3>2 DEF Chained
  <2> QED
    BY <2>1, <2>2 DEF ChainOK
<1> QED
  BY <1>2, <1>3

-----------------------------------------------------------------------------
(* The recovery and the polling of the other instances.                      *)

LEMMA Scheduling ==
  ASSUME several \in BOOLEAN, interval \in {0, 1}, Polled(inst, interval, up, boot), NEW b
  PROVE  Polled(InstanceScheduled, interval, up, b)
<1>1. inst \in Further
  BY DEF Polled
<1>2. CASE several /\ up = "up" /\ (inst.own \/ interval > 0)
  BY <1>1, <1>2 DEF Polled, InstanceScheduled, Further
<1>3. CASE ~(several /\ up = "up" /\ (inst.own \/ interval > 0))
  BY <1>1, <1>3 DEF Polled, InstanceScheduled, Further
<1> QED
  BY <1>2, <1>3

LEMMA AfterStarting ==
  ASSUME several \in BOOLEAN, interval \in {0, 1}, Polled(inst, interval, up, boot), NEW b
  PROVE  Polled(AfterStartup, interval, up, b)
<1>1. CASE boot.source = "startup"
  BY <1>1, Scheduling DEF AfterStartup
<1>2. CASE boot.source # "startup"
  BY <1>2 DEF Polled, AfterStartup
<1> QED
  BY <1>1, <1>2

(* Whatever part of the state an action leaves alone stays in order.         *)
LEMMA Untouched ==
  ASSUME ServiceInv
  PROVE  /\ UNCHANGED <<up, interval, setting, sched>> => ChainOK'
         /\ UNCHANGED <<several, inst, interval, up, boot>> => Polled(inst, interval, up, boot)'
         /\ UNCHANGED <<boot, init, refresh, up>> => Joined(boot, init, refresh, up)'
         /\ UNCHANGED <<retry, up>> => Rearmable'
         /\ UNCHANGED <<cache, init, clear, lost>> => Stored(cache, init, clear, lost)'
<1>1. UNCHANGED <<up, interval, setting, sched>> => ChainOK'
  BY DEF ServiceInv, ChainOK, Chained
<1>2. UNCHANGED <<several, inst, interval, up, boot>> => Polled(inst, interval, up, boot)'
  BY DEF ServiceInv, Polled
<1>3. UNCHANGED <<boot, init, refresh, up>> => Joined(boot, init, refresh, up)'
  BY DEF ServiceInv, Joined
<1>4. UNCHANGED <<retry, up>> => Rearmable'
  BY DEF ServiceInv, Rearmable
<1>5. UNCHANGED <<cache, init, clear, lost>> => Stored(cache, init, clear, lost)'
  BY DEF ServiceInv, Stored
<1> QED
  BY <1>1, <1>2, <1>3, <1>4, <1>5
(* What waits for the recovery or for the history goes on when it is over.   *)
Boots == [phase : Phases, source : Sources]

LEMMA BootFacts ==
  /\ Idle \in Boots /\ Idle.phase = "none" /\ Idle.source = "startup"
  /\ \A s \in Sources : /\ [phase |-> "login", source |-> s] \in Boots
                        /\ [phase |-> "login", source |-> s].phase = "login"
                        /\ [phase |-> "login", source |-> s].source = s
  /\ \A b \in Boots, ph \in Phases : /\ [b EXCEPT !.phase = ph] \in Boots
                                     /\ [b EXCEPT !.phase = ph].phase = ph
                                     /\ [b EXCEPT !.phase = ph].source = b.source
<1>1. Idle \in Boots /\ Idle.phase = "none" /\ Idle.source = "startup"
  BY DEF Boots, Phases, Sources, Idle
<1>2. ASSUME NEW s \in Sources, NEW b, b = [phase |-> "login", source |-> s]
      PROVE  b \in Boots /\ b.phase = "login" /\ b.source = s
  BY <1>2 DEF Boots, Phases
<1>3. ASSUME NEW b \in Boots, NEW ph \in Phases, NEW c, c = [b EXCEPT !.phase = ph]
      PROVE  c \in Boots /\ c.phase = ph /\ c.source = b.source
  BY <1>3 DEF Boots
<1> QED
  BY <1>1, <1>2, <1>3

LEMMA NewHistory ==
  ASSUME StartInit
  PROVE  init' \in Histories /\ init'.on /\ init'.ok = {}
<1> PICK j : j = [on |-> TRUE, next |-> 1, ok |-> {}]
  OBVIOUS
<1>1. j \in Histories /\ j.on /\ j.ok = {}
  BY DEF Histories
<1> QED
  BY <1>1 DEF StartInit

LEMMA Entering ==
  ASSUME ServiceInv, NEW src \in Sources, NEW c, Ensure(src, c),
         UNCHANGED <<up, interval, setting, several, inst>>
  PROVE  /\ ChainOK' /\ Rearmable' /\ Polled(inst, interval, up, boot)'
         /\ boot' \in Boots
         /\ boot' = boot \/ (boot.phase = "none" /\ boot'.phase = "login")
         /\ up = "up" /\ ~c.init => boot'.phase # "none"
<1>1. ChainOK'
  <2>1. sched' = Finalized \/ sched' = sched
    BY DEF Ensure
  <2>2. Chained(sched', interval, up, setting)
    BY <2>1, Finalizing DEF ServiceInv, ChainOK
  <2> QED
    BY <2>2 DEF ServiceInv, ChainOK
<1>2. Rearmable'
  BY DEF ServiceInv, Rearmable, Ensure
<1>3. boot \in Boots
  BY DEF ServiceInv, Joined, Boots
<1> PICK b : b = [phase |-> "login", source |-> src]
  OBVIOUS
<1>4. b \in Boots /\ b.phase = "login"
  BY BootFacts
<1>5. boot' = boot \/ (boot.phase = "none" /\ boot' = b)
  BY DEF Ensure
<1>6. Polled(inst, interval, up, boot)'
  BY <1>5 DEF ServiceInv, Polled
<1>7. up = "up" /\ ~c.init => boot'.phase # "none"
  BY <1>4 DEF Ensure
<1> QED
  BY <1>1, <1>2, <1>3, <1>4, <1>5, <1>6, <1>7

LEMMA OneLoop ==
  ASSUME ServiceInv, up = "up", NEW s \in Schedulers, s.running, s.timers = 0, s.loops = 0,
         Loop(s), UNCHANGED <<up, interval, setting>>
  PROVE  ChainOK' /\ Rearmable' /\ refresh' \in {refresh, "delta"}
<1>1. sched' = Rearmed(s) \/ sched' = [s EXCEPT !.loops = @ + 1]
  BY DEF Loop
<1>2. ChainOK /\ Chained(sched', interval, up, setting)
  BY <1>1, Looping DEF ServiceInv
<1>3. ChainOK'
  BY <1>2 DEF ChainOK
<1>4. retry' = retry \/ retry' = Retry(FALSE)
  BY DEF Loop
<1>5. Rearmable'
  BY <1>4 DEF ServiceInv, Rearmable, Retry
<1> QED
  BY <1>3, <1>5 DEF Loop

LEMMA AfterInits ==
  ASSUME ServiceInv, NEW st, AfterInit(st), UNCHANGED <<up, interval, setting, several>>
  PROVE  /\ ChainOK' /\ Rearmable'
         /\ Polled(inst, interval, up, boot)' /\ Joined(boot, init, refresh, up)'
         /\ init' = NoInit
<1>1. ChainOK'
  <2>1. sched' = Finalized \/ sched' = sched
    BY DEF AfterInit
  <2>2. Chained(sched', interval, up, setting)
    BY <2>1, Finalizing DEF ServiceInv, ChainOK
  <2> QED
    BY <2>2 DEF ServiceInv, ChainOK
<1>2. Rearmable'
  <2>1. \/ retry' = retry
        \/ retry' \in BOOLEAN /\ (retry' => retry \/ up = "up")
    BY DEF AfterInit, ServiceInv, Rearmable
  <2> QED
    BY <2>1 DEF ServiceInv, Rearmable
<1>3. \/ boot' = Idle /\ inst' = AfterStartup
      \/ boot' = boot /\ inst' = inst /\ boot.phase # "init"
  BY DEF AfterInit
<1>4. Polled(inst, interval, up, boot)'
  <2>1. CASE boot' = boot /\ inst' = inst
    BY <2>1 DEF ServiceInv, Polled
  <2>2. CASE boot' = Idle /\ inst' = AfterStartup
    <3>1. Polled(AfterStartup, interval, up, Idle)
      BY AfterStarting DEF ServiceInv, ChainOK
    <3> QED
      BY <2>2, <3>1 DEF Polled
  <2> QED
    BY <1>3, <2>1, <2>2
<1>5. init' = NoInit /\ NoInit.on = FALSE /\ NoInit \in Histories
  BY DEF AfterInit, NoInit, Histories
<1>6. Joined(boot, init, refresh, up)'
  <2>1. boot' \in Boots /\ boot'.phase # "init"
    BY <1>3, BootFacts DEF ServiceInv, Joined, Boots
  <2>2. refresh' \in {"none", "delta", "waits", "full"}
    BY DEF ServiceInv, Joined, AfterInit
  <2>3. refresh' = "waits" => boot'.phase # "none" \/ up # "up"
    <3>1. CASE boot.phase = "init"
      BY <3>1 DEF AfterInit
    <3>2. CASE boot.phase # "init"
      BY <3>2 DEF AfterInit, ServiceInv, Joined
    <3> QED
      BY <3>1, <3>2
  <2> QED
    BY <1>5, <2>1, <2>2, <2>3 DEF Joined, Boots
<1> QED
  BY <1>1, <1>2, <1>4, <1>5, <1>6

-----------------------------------------------------------------------------
(* Each action.                                                              *)

LEMMA StartKeeps ==
  ASSUME ServiceInv, Start
  PROVE  ServiceInv'
<1>1. Stored(cache, init, clear, lost)'
  BY Untouched DEF Start
<1>2. ChainOK'
  BY Starting DEF ServiceInv, ChainOK, Start
<1>3. Polled(inst, interval, up, boot)'
  BY BootFacts DEF ServiceInv, Polled, Sources, Start
<1>4. Joined(boot, init, refresh, up)'
  BY BootFacts DEF ServiceInv, Joined, Boots, Sources, Start
<1>5. Rearmable'
  BY DEF ServiceInv, Rearmable, Start
<1> QED
  BY <1>1, <1>2, <1>3, <1>4, <1>5 DEF ServiceInv, Start

LEMMA LoginKeeps ==
  ASSUME ServiceInv, Login
  PROVE  ServiceInv'
<1>1. boot \in Boots /\ boot' \in Boots /\ boot'.phase = "deletions" /\ boot'.source = boot.source
  BY BootFacts DEF ServiceInv, Joined, Boots, Phases, Login
<1>2. /\ ChainOK'
      /\ Rearmable'
      /\ Stored(cache, init, clear, lost)'
  BY Untouched DEF Login
<1>3. Polled(inst, interval, up, boot)'
  BY <1>1 DEF ServiceInv, Polled, Login
<1>4. Joined(boot, init, refresh, up)'
  BY <1>1 DEF ServiceInv, Joined, Boots, Login
<1> QED
  BY <1>1, <1>2, <1>3, <1>4 DEF ServiceInv, Login

LEMMA LoginFailsKeeps ==
  ASSUME ServiceInv, LoginFails
  PROVE  ServiceInv'
<1>1. boot' \in Boots /\ boot'.phase = "none" /\ refresh' \in {refresh, "none"} /\ refresh' # "waits"
  BY BootFacts DEF ServiceInv, Joined, LoginFails, Ends
<1>2. /\ ChainOK'
      /\ Stored(cache, init, clear, lost)'
  BY Untouched DEF LoginFails
<1>3. Polled(inst, interval, up, boot)'
  <2>1. Polled(AfterStartup, interval, up, Idle)
    BY AfterStarting DEF ServiceInv, ChainOK
  <2> QED
    BY <2>1 DEF Polled, LoginFails, Ends
<1>4. Joined(boot, init, refresh, up)'
  BY <1>1 DEF ServiceInv, Joined, Boots, LoginFails
<1>5. Rearmable'
  BY DEF ServiceInv, Rearmable, LoginFails, Retry
<1> QED
  BY <1>1, <1>2, <1>3, <1>4, <1>5 DEF ServiceInv, LoginFails

LEMMA GivesUpKeeps ==
  ASSUME ServiceInv, GivesUp
  PROVE  ServiceInv'
<1>1. boot' \in Boots /\ boot'.phase = "none" /\ refresh' \in {refresh, "none"} /\ refresh' # "waits"
  BY BootFacts DEF ServiceInv, Joined, GivesUp, Ends
<1>2. /\ ChainOK'
      /\ Rearmable'
      /\ Stored(cache, init, clear, lost)'
  BY Untouched DEF GivesUp
<1>3. Polled(inst, interval, up, boot)'
  BY DEF ServiceInv, Polled, GivesUp
<1>4. Joined(boot, init, refresh, up)'
  BY <1>1 DEF ServiceInv, Joined, Boots, GivesUp
<1> QED
  BY <1>1, <1>2, <1>3, <1>4 DEF ServiceInv, GivesUp

LEMMA DeletionsThrowKeeps ==
  ASSUME ServiceInv, DeletionsThrow
  PROVE  ServiceInv'
<1>1. boot' \in Boots /\ boot'.phase = "none" /\ refresh' \in {refresh, "none"} /\ refresh' # "waits"
  BY BootFacts DEF ServiceInv, Joined, DeletionsThrow, Ends
<1>2. Stored(cache, init, clear, lost)'
  BY Untouched DEF DeletionsThrow
<1>3. ChainOK'
  BY DEF ServiceInv, ChainOK, Chained, DeletionsThrow
<1>4. Polled(inst, interval, up, boot)'
  <2>1. boot' = Idle /\ inst' = [inst EXCEPT !.excused = @ \/ boot.source = "startup"]
    BY DEF DeletionsThrow, Ends
  <2>2. inst \in Further
    BY DEF ServiceInv, Polled
  <2>3. /\ inst'.own = inst.own /\ inst'.at = inst.at /\ inst' \in Further
        /\ inst'.excused <=> inst.excused \/ boot.source = "startup"
    BY <2>1, <2>2 DEF Further
  <2> QED
    BY <2>3 DEF ServiceInv, Polled, DeletionsThrow
<1>5. Joined(boot, init, refresh, up)'
  BY <1>1 DEF ServiceInv, Joined, Boots, DeletionsThrow
<1>6. Rearmable'
  BY DEF ServiceInv, Rearmable, DeletionsThrow
<1> QED
  BY <1>1, <1>2, <1>3, <1>4, <1>5, <1>6 DEF ServiceInv, DeletionsThrow

LEMMA DeletionsDoneKeeps ==
  ASSUME ServiceInv, DeletionsDone
  PROVE  ServiceInv'
<1>1. init' \in Histories /\ init'.on /\ (init' = init \/ init'.ok = {})
  BY NewHistory DEF ServiceInv, Joined, DeletionsDone

<1>2. boot \in Boots /\ boot' \in Boots /\ boot'.phase = "init" /\ boot'.source = boot.source
  BY BootFacts DEF ServiceInv, Joined, Boots, Phases, DeletionsDone
<1>3. /\ ChainOK'
      /\ Rearmable'
  BY Untouched DEF DeletionsDone
<1>4. Polled(inst, interval, up, boot)'
  BY <1>2 DEF ServiceInv, Polled, DeletionsDone
<1>5. Joined(boot, init, refresh, up)'
  BY <1>1, <1>2 DEF ServiceInv, Joined, Boots, DeletionsDone
<1>6. Stored(cache, init, clear, lost)'
  BY <1>1 DEF ServiceInv, Stored, DeletionsDone
<1> QED
  BY <1>1, <1>2, <1>3, <1>4, <1>5, <1>6 DEF ServiceInv, DeletionsDone

LEMMA WindowKeeps ==
  ASSUME ServiceInv, Window
  PROVE  ServiceInv'
<1>1. /\ init \in Histories /\ init.next \in Windows /\ init.on
      /\ cache \in [init : BOOLEAN, complete : BOOLEAN, rows : SUBSET Windows]
      /\ lost \/ init.ok \subseteq cache.rows
  BY DEF ServiceInv, Joined, Stored, Window
<1>2. \/ init' = [init EXCEPT !.next = @ + 1] /\ cache' = cache
      \/ /\ init' = [init EXCEPT !.next = @ + 1, !.ok = @ \cup {init.next}]
         /\ cache' = [cache EXCEPT !.rows = @ \cup {init.next}]
  BY DEF Window
<1>3. /\ init' \in Histories /\ init'.on
      /\ cache' \in [init : BOOLEAN, complete : BOOLEAN, rows : SUBSET Windows]
      /\ cache'.init = cache.init /\ cache'.complete = cache.complete
      /\ \/ init'.ok = init.ok /\ cache'.rows = cache.rows
         \/ /\ init'.ok = init.ok \cup {init.next}
            /\ cache'.rows = cache.rows \cup {init.next}
  <2>1. CASE init' = [init EXCEPT !.next = @ + 1] /\ cache' = cache
    BY ONLY <1>1, <2>1 DEF Histories
  <2>2. CASE /\ init' = [init EXCEPT !.next = @ + 1, !.ok = @ \cup {init.next}]
             /\ cache' = [cache EXCEPT !.rows = @ \cup {init.next}]
    <3> PICK m : m = [init EXCEPT !.next = @ + 1]
      OBVIOUS
    <3>1. m \in Histories /\ m.on /\ m.ok = init.ok
      BY ONLY <1>1, m = [init EXCEPT !.next = @ + 1] DEF Histories
    <3>2. init' = [m EXCEPT !.ok = @ \cup {init.next}]
      BY <2>2, <3>1
    <3>3. init' \in Histories /\ init'.on /\ init'.ok = init.ok \cup {init.next}
      BY ONLY <1>1, <3>1, <3>2 DEF Histories
    <3>4. /\ cache' \in [init : BOOLEAN, complete : BOOLEAN, rows : SUBSET Windows]
          /\ cache'.init = cache.init /\ cache'.complete = cache.complete
          /\ cache'.rows = cache.rows \cup {init.next}
      BY ONLY <1>1, <2>2
    <3> QED
      BY <3>3, <3>4
  <2> QED
    BY <1>2, <2>1, <2>2
<1>4. /\ ChainOK'
      /\ Polled(inst, interval, up, boot)'
      /\ Rearmable'
  BY Untouched DEF Window
<1>5. Joined(boot, init, refresh, up)'
  BY <1>3 DEF ServiceInv, Joined, Window
<1>6. Stored(cache, init, clear, lost)'
  BY <1>1, <1>3 DEF ServiceInv, Stored, Window
<1> QED
  BY <1>1, <1>2, <1>3, <1>4, <1>5, <1>6 DEF ServiceInv, Window

LEMMA InitEndsKeeps ==
  ASSUME ServiceInv, InitEnds
  PROVE  ServiceInv'
<1>1. PICK st : AfterInit(st)
  BY DEF InitEnds
<1>2. /\ ChainOK' /\ Rearmable' /\ init' = NoInit
      /\ Polled(inst, interval, up, boot)' /\ Joined(boot, init, refresh, up)'
  BY <1>1, AfterInits DEF InitEnds
<1>3. Stored(cache, init, clear, lost)'
  <2>1. NoInit.ok = {}
    BY DEF NoInit
  <2>2. /\ cache \in [init : BOOLEAN, complete : BOOLEAN, rows : SUBSET Windows]
        /\ ~lost => init.ok \subseteq cache.rows
    BY DEF ServiceInv, Stored
  <2>3. /\ cache'.rows = cache.rows
        /\ cache'.complete => cache'.init /\ init.ok = Windows
        /\ cache' \in [init : BOOLEAN, complete : BOOLEAN, rows : SUBSET Windows]
    <3>1. CASE init.ok = Windows
      <4>1. cache' = [cache EXCEPT !.init = TRUE, !.complete = TRUE]
        BY <3>1 DEF InitEnds
      <4> QED
        BY <2>2, <3>1, <4>1
    <3>2. CASE init.ok # Windows
      <4>1. \E i \in BOOLEAN : cache' = [cache EXCEPT !.init = i, !.complete = FALSE]
        BY <3>2 DEF InitEnds
      <4> QED
        BY <2>2, <4>1
    <3> QED
      BY <3>1, <3>2
  <2> QED
    BY <1>2, <2>1, <2>2, <2>3 DEF ServiceInv, Stored, InitEnds
<1> QED
  BY <1>2, <1>3 DEF ServiceInv, InitEnds

LEMMA InitThrowsKeeps ==
  ASSUME ServiceInv, InitThrows
  PROVE  ServiceInv'
<1>1. PICK st : AfterInit(st)
  BY DEF InitThrows
<1>2. /\ ChainOK' /\ Rearmable' /\ init' = NoInit
      /\ Polled(inst, interval, up, boot)' /\ Joined(boot, init, refresh, up)'
  BY <1>1, AfterInits DEF InitThrows
<1>3. Stored(cache, init, clear, lost)'
  <2>1. NoInit.ok = {}
    BY DEF NoInit
  <2>2. /\ cache'.rows = cache.rows /\ ~cache'.complete
        /\ cache' \in [init : BOOLEAN, complete : BOOLEAN, rows : SUBSET Windows]
    BY DEF ServiceInv, Stored, InitThrows
  <2> QED
    BY <1>2, <2>1, <2>2 DEF ServiceInv, Stored, InitThrows
<1> QED
  BY <1>2, <1>3 DEF ServiceInv, InitThrows

LEMMA TimerFiresKeeps ==
  ASSUME ServiceInv, TimerFires
  PROVE  ServiceInv'
<1>1. sched \in Schedulers /\ sched.timers + sched.loops = IF sched.running THEN 1 ELSE 0
  BY DEF ServiceInv, ChainOK, Chained
<1> PICK s : s = [sched EXCEPT !.timers = @ - 1]
  OBVIOUS
<1>2. sched.running /\ (sched.timers > 0 => sched.loops = 0)
  BY <1>1 DEF Schedulers, TimerFires
<1>3. s \in Schedulers /\ s.running /\ s.timers = 0 /\ s.loops = 0
  BY <1>1, <1>2 DEF Schedulers, TimerFires
<1>4. ChainOK' /\ Rearmable' /\ refresh' \in {refresh, "delta"}
  BY <1>3, OneLoop DEF TimerFires
<1>5. /\ Polled(inst, interval, up, boot)'
      /\ Stored(cache, init, clear, lost)'
  BY Untouched DEF TimerFires
<1>6. Joined(boot, init, refresh, up)'
  BY <1>4 DEF ServiceInv, Joined, TimerFires
<1> QED
  BY <1>1, <1>2, <1>3, <1>4, <1>5, <1>6 DEF ServiceInv, TimerFires

LEMMA WakeUpKeeps ==
  ASSUME ServiceInv, WakeUp
  PROVE  ServiceInv'
<1>1. sched \in Schedulers /\ sched.timers + sched.loops = IF sched.running THEN 1 ELSE 0
  BY DEF ServiceInv, ChainOK, Chained
<1> PICK s : s = [sched EXCEPT !.timers = 0, !.loops = 0]
  OBVIOUS
<1>2. sched.running /\ (sched.timers > 0 => sched.loops = 0)
  BY <1>1 DEF Schedulers, WakeUp
<1>3. s \in Schedulers /\ s.running /\ s.timers = 0 /\ s.loops = 0
  <2> PICK m : m = [sched EXCEPT !.timers = 0]
    OBVIOUS
  <2>1. m \in Schedulers /\ m.running /\ m.timers = 0
    BY <1>1, <1>2 DEF Schedulers
  <2>2. s = [m EXCEPT !.loops = 0]
    BY <1>1
  <2> QED
    BY <2>1, <2>2 DEF Schedulers
<1>4. ChainOK' /\ Rearmable' /\ refresh' \in {refresh, "delta"}
  BY <1>3, OneLoop DEF WakeUp
<1>5. /\ Polled(inst, interval, up, boot)'
      /\ Stored(cache, init, clear, lost)'
  BY Untouched DEF WakeUp
<1>6. Joined(boot, init, refresh, up)'
  BY <1>4 DEF ServiceInv, Joined, WakeUp
<1> QED
  BY <1>1, <1>2, <1>3, <1>4, <1>5, <1>6 DEF ServiceInv, WakeUp

LEMMA DeltaEndsKeeps ==
  ASSUME ServiceInv, DeltaEnds
  PROVE  ServiceInv'
<1>1. /\ Polled(inst, interval, up, boot)'
      /\ Rearmable'
      /\ Stored(cache, init, clear, lost)'
  BY Untouched DEF DeltaEnds
<1>2. ChainOK'
  <2>1. CASE sched.loops > 0
    <3>1. sched \in Schedulers /\ sched.timers + sched.loops = IF sched.running THEN 1 ELSE 0
      BY DEF ServiceInv, ChainOK, Chained
    <3> PICK s : s = [sched EXCEPT !.loops = @ - 1]
      OBVIOUS
    <3>2. s \in Schedulers /\ s.running /\ s.timers = 0 /\ s.loops = 0 /\ sched.running
      BY <2>1, <3>1 DEF Schedulers
    <3>3. up # "stopped" /\ sched' = Rearmed(s)
      BY <2>1, <3>2 DEF ServiceInv, ChainOK, Chained, DeltaEnds
    <3>4. Chained(Rearmed(s), interval, up, setting)
      BY <3>2, <3>3, Looping DEF ServiceInv
    <3> QED
      BY <3>3, <3>4 DEF ServiceInv, ChainOK, DeltaEnds
  <2>2. CASE ~(sched.loops > 0)
    BY <2>2, Untouched DEF DeltaEnds
  <2> QED
    BY <2>1, <2>2
<1>3. Joined(boot, init, refresh, up)'
  BY DEF ServiceInv, Joined, DeltaEnds
<1> QED
  BY <1>1, <1>2, <1>3 DEF ServiceInv, DeltaEnds

LEMMA RetryFiresKeeps ==
  ASSUME ServiceInv, RetryFires
  PROVE  ServiceInv'
<1>1. boot' \in Boots /\ (boot' = boot \/ (boot.phase = "none" /\ boot'.phase = "login"))
  BY BootFacts DEF ServiceInv, Joined, Boots, Sources, RetryFires
<1>2. Stored(cache, init, clear, lost)'
  BY Untouched DEF RetryFires
<1>3. ChainOK'
  <2>1. Chained(sched', interval, up, setting)
    BY Finalizing DEF ServiceInv, ChainOK, RetryFires
  <2> QED
    BY <2>1 DEF ServiceInv, ChainOK, RetryFires
<1>4. Polled(inst, interval, up, boot)'
  BY <1>1 DEF ServiceInv, Polled, RetryFires
<1>5. Joined(boot, init, refresh, up)'
  BY <1>1 DEF ServiceInv, Joined, Boots, RetryFires
<1>6. Rearmable'
  BY DEF ServiceInv, Rearmable, RetryFires
<1> QED
  BY <1>1, <1>2, <1>3, <1>4, <1>5, <1>6 DEF ServiceInv, RetryFires

LEMMA InstanceTimerKeeps ==
  ASSUME ServiceInv, InstanceTimer
  PROVE  ServiceInv'
<1>1. /\ ChainOK'
      /\ Joined(boot, init, refresh, up)'
      /\ Rearmable'
      /\ Stored(cache, init, clear, lost)'
  BY Untouched DEF InstanceTimer
<1>2. Polled(inst, interval, up, boot)'
  <2>1. inst \in Further /\ inst' = [inst EXCEPT !.at = "syncing"]
    BY DEF ServiceInv, Polled, InstanceTimer
  <2>2. inst' \in Further /\ inst'.at = "syncing" /\ inst'.own = inst.own /\ inst'.excused = inst.excused
    BY <2>1 DEF Further
  <2> QED
    BY <2>2 DEF ServiceInv, Polled, InstanceTimer
<1> QED
  BY <1>1, <1>2 DEF ServiceInv, InstanceTimer

LEMMA InstanceSyncedKeeps ==
  ASSUME ServiceInv, InstanceSynced
  PROVE  ServiceInv'
<1>1. /\ ChainOK'
      /\ Joined(boot, init, refresh, up)'
      /\ Rearmable'
      /\ Stored(cache, init, clear, lost)'
  BY Untouched DEF InstanceSynced
<1>2. Polled(inst, interval, up, boot)'
  <2>1. Polled(InstanceScheduled, interval, up, boot)
    BY Scheduling DEF ServiceInv, ChainOK
  <2> QED
    BY <2>1 DEF Polled, InstanceSynced
<1> QED
  BY <1>1, <1>2 DEF ServiceInv, InstanceSynced

LEMMA PrepareReadCacheKeeps ==
  ASSUME ServiceInv, PrepareReadCache
  PROVE  ServiceInv'
<1>1. /\ ChainOK' /\ Rearmable' /\ Polled(inst, interval, up, boot)' /\ boot' \in Boots
      /\ boot' = boot \/ (boot.phase = "none" /\ boot'.phase = "login")
      /\ up = "up" /\ ~cache.init => boot'.phase # "none"
  BY Entering DEF Sources, PrepareReadCache
<1>2. Stored(cache, init, clear, lost)'
  BY Untouched DEF PrepareReadCache
<1>3. Joined(boot, init, refresh, up)'
  BY <1>1 DEF ServiceInv, Joined, Boots, PrepareReadCache
<1> QED
  BY <1>1, <1>2, <1>3 DEF ServiceInv, PrepareReadCache

LEMMA OnDemandRefreshKeeps ==
  ASSUME ServiceInv, OnDemandRefresh
  PROVE  ServiceInv'
<1>1. Stored(cache, init, clear, lost)'
  BY Untouched DEF OnDemandRefresh
<1>2. CASE cache.init
  <2>1. ChainOK' /\ Polled(inst, interval, up, boot)' /\ Rearmable'
    BY <1>2, Untouched DEF OnDemandRefresh
  <2>2. Joined(boot, init, refresh, up)'
    BY <1>2 DEF ServiceInv, Joined, OnDemandRefresh
  <2> QED
    BY <1>1, <2>1, <2>2 DEF ServiceInv, OnDemandRefresh
<1>3. CASE ~cache.init
  <2>1. /\ ChainOK' /\ Rearmable' /\ Polled(inst, interval, up, boot)' /\ boot' \in Boots
        /\ boot' = boot \/ (boot.phase = "none" /\ boot'.phase = "login")
        /\ up = "up" /\ ~cache.init => boot'.phase # "none"
    BY <1>3, Entering DEF Sources, OnDemandRefresh
  <2>2. Joined(boot, init, refresh, up)'
    BY <1>3, <2>1 DEF ServiceInv, Joined, Boots, OnDemandRefresh
  <2> QED
    BY <1>1, <2>1, <2>2 DEF ServiceInv, OnDemandRefresh
<1> QED
  BY <1>2, <1>3

LEMMA FullRefreshKeeps ==
  ASSUME ServiceInv, FullRefresh
  PROVE  ServiceInv'
<1>1. init' \in Histories /\ init'.on /\ (init' = init \/ init'.ok = {})
  BY NewHistory DEF ServiceInv, Joined, FullRefresh
<1>2. /\ ChainOK'
      /\ Polled(inst, interval, up, boot)'
      /\ Rearmable'
  BY Untouched DEF FullRefresh
<1>3. Joined(boot, init, refresh, up)'
  BY <1>1 DEF ServiceInv, Joined, FullRefresh
<1>4. Stored(cache, init, clear, lost)'
  BY <1>1 DEF ServiceInv, Stored, FullRefresh
<1> QED
  BY <1>1, <1>2, <1>3, <1>4 DEF ServiceInv, FullRefresh

LEMMA SetIntervalKeeps ==
  ASSUME ServiceInv, SetInterval
  PROVE  ServiceInv'
<1>1. /\ Joined(boot, init, refresh, up)'
      /\ Rearmable'
      /\ Stored(cache, init, clear, lost)'
  BY Untouched DEF SetInterval
<1>2. ChainOK'
  BY DEF ServiceInv, ChainOK, Chained, SetInterval
<1>3. Polled(inst, interval, up, boot)'
  <2>1. inst \in Further /\ inst' = [inst EXCEPT !.excused = @ \/ (interval' = 0 /\ ~inst.own)]
    BY DEF ServiceInv, Polled, SetInterval
  <2>2. /\ inst' \in Further /\ inst'.at = inst.at /\ inst'.own = inst.own
        /\ inst'.excused <=> inst.excused \/ (interval' = 0 /\ ~inst.own)
    BY <2>1 DEF Further
  <2> QED
    BY <2>2 DEF ServiceInv, Polled, SetInterval
<1> QED
  BY <1>1, <1>2, <1>3 DEF ServiceInv, SetInterval

LEMMA SettingSavedKeeps ==
  ASSUME ServiceInv, SettingSaved
  PROVE  ServiceInv'
<1>1. /\ Polled(inst, interval, up, boot)'
      /\ Joined(boot, init, refresh, up)'
      /\ Stored(cache, init, clear, lost)'
  BY Untouched DEF SettingSaved
<1>2. ChainOK'
  <2>1. Chained(Started, interval, "up", "none")
    BY Starting DEF ServiceInv
  <2> QED
    BY <2>1 DEF ServiceInv, ChainOK, SettingSaved
<1>3. Rearmable'
  BY DEF ServiceInv, Rearmable, SettingSaved
<1> QED
  BY <1>1, <1>2, <1>3 DEF ServiceInv, SettingSaved

LEMMA SettingFailsKeeps ==
  ASSUME ServiceInv, SettingFails
  PROVE  ServiceInv'
<1>1. /\ Polled(inst, interval, up, boot)'
      /\ Joined(boot, init, refresh, up)'
      /\ Rearmable'
      /\ Stored(cache, init, clear, lost)'
  BY Untouched DEF SettingFails
<1>2. ChainOK'
  BY DEF ServiceInv, ChainOK, Chained, SettingFails
<1> QED
  BY <1>1, <1>2 DEF ServiceInv, SettingFails

LEMMA ClearDataKeeps ==
  ASSUME ServiceInv, ClearData
  PROVE  ServiceInv'
<1>1. /\ ChainOK'
      /\ Polled(inst, interval, up, boot)'
      /\ Joined(boot, init, refresh, up)'
      /\ Rearmable'
  BY Untouched DEF ClearData
<1>2. Stored(cache, init, clear, lost)'
  <2>1. /\ cache \in [init : BOOLEAN, complete : BOOLEAN, rows : SUBSET Windows]
        /\ cache' = [cache EXCEPT !.rows = {}]
    BY DEF ServiceInv, Stored, ClearData
  <2>2. /\ cache' \in [init : BOOLEAN, complete : BOOLEAN, rows : SUBSET Windows]
        /\ cache'.init = cache.init /\ cache'.complete = cache.complete /\ cache'.rows = {}
    BY <2>1
  <2> QED
    BY <2>2 DEF ServiceInv, Stored, ClearData
<1> QED
  BY <1>1, <1>2 DEF ServiceInv, ClearData

LEMMA ClearFlagsKeeps ==
  ASSUME ServiceInv, ClearFlags
  PROVE  ServiceInv'
<1> PICK c : c = cache'
  OBVIOUS
<1>1. /\ ChainOK' /\ Rearmable' /\ Polled(inst, interval, up, boot)' /\ boot' \in Boots
      /\ boot' = boot \/ (boot.phase = "none" /\ boot'.phase = "login")
      /\ up = "up" /\ ~c.init => boot'.phase # "none"
  BY Entering DEF Sources, ClearFlags
<1>2. Joined(boot, init, refresh, up)'
  BY <1>1 DEF ServiceInv, Joined, Boots, ClearFlags
<1>3. Stored(cache, init, clear, lost)'
  <2>1. /\ cache \in [init : BOOLEAN, complete : BOOLEAN, rows : SUBSET Windows]
        /\ cache' = [cache EXCEPT !.init = FALSE, !.complete = FALSE]
    BY DEF ServiceInv, Stored, ClearFlags
  <2>2. /\ cache' \in [init : BOOLEAN, complete : BOOLEAN, rows : SUBSET Windows]
        /\ ~cache'.complete /\ cache'.rows = cache.rows
    BY <2>1
  <2>3. init' = init /\ clear' = "none" /\ lost' = lost
    BY DEF ClearFlags
  <2>4. ~lost => init.ok \subseteq cache.rows
    BY DEF ServiceInv, Stored
  <2>5. lost \in BOOLEAN
    BY DEF ServiceInv, Stored
  <2>6. ~lost' => init'.ok \subseteq cache'.rows
    BY <2>2, <2>3, <2>4
  <2>9. ~init'.on => init'.ok = {}
    BY <2>3 DEF ServiceInv, Stored
  <2>7. /\ cache'.complete => cache'.init
        /\ cache'.complete /\ clear' = "none" /\ ~lost' => cache'.rows = Windows
    BY <2>2
  <2>8. clear' \in {"none", "cleared"} /\ lost' \in BOOLEAN
    BY <2>3, <2>5
  <2> QED
    BY <2>2, <2>6, <2>7, <2>8, <2>9, Zenon DEF Stored
<1> QED
  BY <1>1, <1>2, <1>3 DEF ServiceInv, ClearFlags

LEMMA StopKeeps ==
  ASSUME ServiceInv, Stop
  PROVE  ServiceInv'
<1>1. Stored(cache, init, clear, lost)'
  BY Untouched DEF Stop
<1>2. ChainOK'
  <2>1. Halted \in Schedulers /\ ~Halted.running /\ Halted.timers = 0 /\ Halted.loops = 0
    BY DEF Halted, Schedulers
  <2> QED
    BY <2>1 DEF ServiceInv, ChainOK, Chained, Stop
<1>3. Polled(inst, interval, up, boot)'
  <2>1. inst \in Further /\ inst' = IF inst.at = "timer" THEN [inst EXCEPT !.at = "none"] ELSE inst
    BY DEF ServiceInv, Polled, Stop
  <2>2. /\ inst' \in Further /\ inst'.at # "timer"
        /\ inst'.own = inst.own /\ inst'.excused = inst.excused
    BY <2>1 DEF Further
  <2> QED
    BY <2>2 DEF ServiceInv, Polled, Stop
<1>4. Joined(boot, init, refresh, up)'
  BY DEF ServiceInv, Joined, Stop
<1>5. Rearmable'
  BY DEF Rearmable, Stop
<1> QED
  BY <1>1, <1>2, <1>3, <1>4, <1>5 DEF ServiceInv, Stop

LEMMA ServiceStep ==
  ASSUME ServiceInv, [SchedulerNext]_vars
  PROVE  ServiceInv'
<1>1. CASE UNCHANGED vars
  BY <1>1, Untouched DEF ServiceInv, vars
<1>2. CASE RecoveryStep
  BY <1>2, LoginKeeps, LoginFailsKeeps, GivesUpKeeps, DeletionsDoneKeeps, DeletionsThrowKeeps,
     WindowKeeps, InitEndsKeeps, InitThrowsKeeps DEF RecoveryStep
<1>3. CASE Polling
  BY <1>3, TimerFiresKeeps, DeltaEndsKeeps, RetryFiresKeeps, InstanceTimerKeeps,
     InstanceSyncedKeeps DEF Polling
<1>4. CASE Requests
  BY <1>4, WakeUpKeeps, OnDemandRefreshKeeps, PrepareReadCacheKeeps, FullRefreshKeeps,
     SetIntervalKeeps, SettingSavedKeeps, SettingFailsKeeps, ClearDataKeeps, ClearFlagsKeeps
     DEF Requests
<1> QED
  BY <1>1, <1>2, <1>3, <1>4, StartKeeps, StopKeeps DEF SchedulerNext

LEMMA ServiceAlways == SchedulerSpec => []ServiceInv
<1> QED
  BY InitService, ServiceStep, PTL DEF SchedulerSpec

(* What the recovery, the loops and the requests rely on goes together: a    *)
(* recovery that reads the history has a synchronisation to wait for, and a  *)
(* read that waits for a recovery has one that runs (sync-service.ts).       *)
THEOREM StateIsOrdered == SchedulerSpec => []SchedulerInv
<1>1. ServiceInv => SchedulerInv
  BY InvImplies
<1> QED
  BY <1>1, ServiceAlways, PTL

(* However wake-ups, settings, recoveries and a stop interleave: the         *)
(* scheduler that runs has one chain, an automatic interval is polled, and a *)
(* further instance is polled once the startup is over (runSchedulerLoop,    *)
(* startRefreshScheduler, scheduleInstanceRefresh).                          *)
THEOREM PollingGoesOn == SchedulerSpec => []PollingChain
<1>1. ServiceInv => PollingChain
  BY InvImplies
<1> QED
  BY <1>1, ServiceAlways, PTL

(* The cache calls itself complete only with every window of its history     *)
(* stored, whichever attempts failed before (initializeCache).               *)
THEOREM CompleteMeansWhole == SchedulerSpec => []CompleteIsWhole
<1>1. ServiceInv => CompleteIsWhole
  BY InvImplies
<1> QED
  BY <1>1, ServiceAlways, PTL

-----------------------------------------------------------------------------
(* Refreshes, requests and writes for users, which share the publication     *)
(* lock and the operation queue (Refresh), for any number of each.           *)

(* The lock the refreshes share, with what is proved about it. *)
LockFacts == INSTANCE RevisionLockProofs WITH Readers <- Handlers, Writers <- Refreshes

(* The call c of the lock becomes p, and others are let in at most. *)
OnlyMoved(c, p) ==
    /\ phase'[c] = p
    /\ \A d \in Handlers \cup Refreshes :
          d # c => \/ phase'[d] = phase[d]
                   \/ phase[d] = "waiting" /\ phase'[d] = "holding"

LEMMA LockAssumed == LockFacts!IsFiniteSet(Handlers) /\ Handlers \cap Refreshes = {}
  BY RefreshAssumption, CallsAreDistinct DEF IsFiniteSet, LockFacts!IsFiniteSet

(* What is proved of each method of the lock, for the calls of the handlers  *)
(* and refreshes.                                                            *)
LEMMA LockStays ==
  ASSUME LockFacts!LockInv, UNCHANGED lockVars
  PROVE  LockFacts!LockInv'
<1>1. UNCHANGED LockFacts!lockVars
  BY DEF lockVars, LockFacts!lockVars
<1> QED
  BY <1>1, LockAssumed, LockFacts!StutterKeeps

LEMMA ReadAsked ==
  ASSUME LockFacts!LockInv, NEW h \in Handlers, Lock!AcquireRead(h)
  PROVE  /\ LockFacts!LockInv'
         /\ phase[h] = "idle" /\ (OnlyMoved(h, "waiting") \/ OnlyMoved(h, "holding"))
<1>1. LockFacts!AcquireRead(h)
  BY DEF Lock!AcquireRead, LockFacts!AcquireRead, Lock!ReadFree, LockFacts!ReadFree
<1>2. LockFacts!LockInv'
  BY <1>1, LockAssumed, LockFacts!AcquireReadKeeps
<1>3. phase[h] = "idle" /\ (LockFacts!Only(h, "waiting") \/ LockFacts!Only(h, "holding"))
  BY <1>1, LockAssumed, LockFacts!ReadAsked
<1> QED
  BY <1>2, <1>3 DEF OnlyMoved, LockFacts!Only, LockFacts!Calls

LEMMA WriteAsked ==
  ASSUME LockFacts!LockInv, NEW w \in Refreshes, Lock!AcquireWrite(w)
  PROVE  /\ LockFacts!LockInv'
         /\ phase[w] = "idle" /\ (OnlyMoved(w, "waiting") \/ OnlyMoved(w, "holding"))
<1>1. LockFacts!AcquireWrite(w)
  BY DEF Lock!AcquireWrite, LockFacts!AcquireWrite, Lock!WriteFree, LockFacts!WriteFree
<1>2. LockFacts!LockInv'
  BY <1>1, LockAssumed, LockFacts!AcquireWriteKeeps
<1>3. phase[w] = "idle" /\ (LockFacts!Only(w, "waiting") \/ LockFacts!Only(w, "holding"))
  BY <1>1, LockAssumed, LockFacts!WriteAsked
<1> QED
  BY <1>2, <1>3 DEF OnlyMoved, LockFacts!Only, LockFacts!Calls

LEMMA ReadGivenBack ==
  ASSUME LockFacts!LockInv, NEW h \in Handlers, phase[h] = "holding", Lock!ReleaseRead(h)
  PROVE  LockFacts!LockInv' /\ OnlyMoved(h, "released")
<1>1. LockFacts!ReleaseRead(h)
  BY DEF Lock!ReleaseRead, LockFacts!ReleaseRead, Lock!Drain, LockFacts!Drain,
         Lock!Calls, LockFacts!Calls, Lock!lockVars, LockFacts!lockVars,
         Lock!Cardinality, LockFacts!Cardinality
<1>2. LockFacts!LockInv'
  BY <1>1, LockAssumed, LockFacts!ReleaseReadKeeps
<1>3. LockFacts!Only(h, "released")
  BY <1>1, LockAssumed, LockFacts!ReadGivenBack
<1> QED
  BY <1>2, <1>3 DEF OnlyMoved, LockFacts!Only, LockFacts!Calls

LEMMA WriteGivenBack ==
  ASSUME LockFacts!LockInv, NEW w \in Refreshes, phase[w] = "holding", Lock!ReleaseWrite(w)
  PROVE  LockFacts!LockInv' /\ OnlyMoved(w, "released")
<1>1. LockFacts!ReleaseWrite(w)
  BY DEF Lock!ReleaseWrite, LockFacts!ReleaseWrite, Lock!Drain, LockFacts!Drain,
         Lock!Calls, LockFacts!Calls, Lock!lockVars, LockFacts!lockVars,
         Lock!Cardinality, LockFacts!Cardinality
<1>2. LockFacts!LockInv'
  BY <1>1, LockAssumed, LockFacts!ReleaseWriteKeeps
<1>3. LockFacts!Only(w, "released")
  BY <1>1, LockAssumed, LockFacts!WriteGivenBack
<1> QED
  BY <1>2, <1>3 DEF OnlyMoved, LockFacts!Only, LockFacts!Calls

LEMMA WriteGivenUp ==
  ASSUME LockFacts!LockInv, NEW w \in Refreshes, Lock!WriteTimeout(w)
  PROVE  /\ LockFacts!LockInv'
         /\ phase[w] = "waiting" /\ OnlyMoved(w, "failed")
<1>1. LockFacts!WriteTimeout(w)
  BY DEF Lock!WriteTimeout, LockFacts!WriteTimeout, Lock!Drain, LockFacts!Drain,
         Lock!Calls, LockFacts!Calls, Lock!RemoveAt, LockFacts!RemoveAt,
         Lock!Cardinality, LockFacts!Cardinality
<1>2. LockFacts!LockInv'
  BY <1>1, LockAssumed, LockFacts!WriteTimeoutKeeps
<1>3. phase[w] = "waiting" /\ LockFacts!Only(w, "failed")
  BY <1>1, LockAssumed, LockFacts!WriteGivenUp
<1> QED
  BY <1>2, <1>3 DEF OnlyMoved, LockFacts!Only, LockFacts!Calls

-----------------------------------------------------------------------------
(* The inductive invariant: the queue, the stage of each refresh, the lock,  *)
(* the round that runs, the cursor, the announcements.                       *)

Operations == Refreshes \cup MainWrites
Over == {"ok", "failed"}

QueueOK ==
    /\ outcome \in [Operations -> {"uncalled", "waiting", "ok", "failed"}]
    /\ order \in Seq(Operations)
    /\ log \in Seq(Operations)
    /\ \A i, j \in DOMAIN order : order[i] = order[j] => i = j
    /\ \A o \in Operations : outcome[o] # "uncalled" <=> \E i \in DOMAIN order : order[i] = o

(* Whatever was called before o is over.                                     *)
InTurn(o) ==
    \A i, j \in DOMAIN order : i < j /\ order[j] = o => outcome[order[i]] \in Over

ChangeReports == {"none", "reported", "unreported"}

StagesOK ==
    /\ stage \in [Refreshes -> Stages]
    /\ changes \in [Refreshes -> ChangeReports]
    /\ \A w \in Refreshes :
          /\ stage[w] = "idle" <=> outcome[w] = "uncalled"
          /\ stage[w] = "done" <=> outcome[w] \in Over
          /\ stage[w] \in {"operation", "publish", "commit", "abort"} => InTurn(w)
          /\ Logged(w) => stage[w] \in {"commit", "done"}

(* The lock is asked for once the operation has succeeded, and given back    *)
(* when the transaction is over; only a batch that removed nothing commits   *)
(* without it.                                                               *)
Locked(w) ==
    /\ stage[w] \in {"idle", "queued", "operation"} => phase[w] = "idle"
    /\ stage[w] = "publish" => phase[w] \in {"waiting", "holding"}
    /\ stage[w] = "commit" => \/ phase[w] = "holding"
                              \/ phase[w] = "idle" /\ changes[w] = "none"
    /\ stage[w] \in {"abort", "done"} => phase[w] \notin {"waiting", "holding"}

LockOK == LockFacts!LockInv /\ \A w \in Refreshes : Locked(w)

RoundOK ==
    /\ round \in 0 .. MaxRounds
    /\ next \in Primary \cup {None}
    /\ next \in Primary => next[2] = round
    /\ next \in Deltas => stage[next] # "done"
    /\ \A w \in Primary : stage[w] \notin {"idle", "done"} => w = next
    /\ \A k \in 1 .. MaxRounds :
          k > round \/ (k = round /\ next \in Cleanups) => stage[Delta(k)] = "idle"

(* A delta that runs can fall back to what the one before it has committed.  *)
CursorOK ==
    /\ lastUpdate \in 0 .. MaxRounds /\ reconciled \in 0 .. MaxRounds
    /\ before \in 0 .. MaxRounds
    /\ lastUpdate > 0 => Logged(Delta(lastUpdate))
    /\ reconciled > 0 /\ (next \notin Deltas \/ stage[next] \in {"idle", "queued"})
          => Logged(Delta(reconciled))
    /\ before > 0 /\ next \in Deltas /\ stage[next] # "idle" => Logged(Delta(before))
    /\ next \in Deltas /\ stage[next] \in {"publish", "commit"} => reconciled = next[2]

(* What clients have not been told of either belongs to the round that runs  *)
(* and makes it announce, or its answer was lost, or it is of a delta whose  *)
(* summary does not have it.                                                 *)
Quiet(w) == outcome[w] = "failed" \/ (changes[w] = "unreported" /\ stage[w] = "done")

AnnounceOK ==
    /\ unannounced \subseteq Refreshes
    /\ \A w \in unannounced :
          \/ Quiet(w)
          \/ w \in Sides /\ stage[w] = "commit"
          \/ /\ w \in Primary /\ next # None
             /\ w[2] = round /\ Changed(w)
             /\ stage[w] = "commit" \/ (w \in Cleanups /\ outcome[w] = "ok")

SharedInv == QueueOK /\ StagesOK /\ LockOK /\ RoundOK /\ CursorOK /\ AnnounceOK

LEMMA Names ==
  /\ Refreshes = Cleanups \cup Deltas \cup Sides /\ Refreshes \subseteq Operations
  /\ Primary = Cleanups \cup Deltas /\ Cleanups \cap Deltas = {}
  /\ Sides \cap Primary = {} /\ None \notin Primary /\ MainWrites \cap Refreshes = {}
  /\ \A w \in Primary : w[2] \in 1 .. MaxRounds
  /\ \A w \in Deltas : w = Delta(w[2])
  /\ \A k \in 1 .. MaxRounds : Delta(k) \in Deltas /\ Delta(k)[2] = k
  /\ \A k \in 1 .. MaxRounds, b \in 1 .. MaxBatches :
        <<"cleanup", k, b>> \in Cleanups /\ <<"cleanup", k, b>>[2] = k
<1>1. \A w \in Cleanups : w[1] = "cleanup" /\ w[2] \in 1 .. MaxRounds
  BY DEF Cleanups
<1>2. \A w \in Deltas : w[1] = "delta" /\ w[2] \in 1 .. MaxRounds /\ w = <<"delta", w[2], 0>>
  BY DEF Deltas
<1>3. Cleanups \cap Deltas = {}
  <2> SUFFICES ASSUME NEW w \in Cleanups \cap Deltas
               PROVE  FALSE
    OBVIOUS
  <2>1. w[1] = "cleanup" /\ w[1] = "delta"
    BY <1>1, <1>2
  <2> QED
    BY <2>1
<1>4. \A k \in 1 .. MaxRounds : Delta(k) \in Deltas /\ Delta(k)[2] = k
  BY DEF Deltas, Delta
<1>5. \A k \in 1 .. MaxRounds, b \in 1 .. MaxBatches :
        <<"cleanup", k, b>> \in Cleanups /\ <<"cleanup", k, b>>[2] = k
  BY DEF Cleanups
<1> QED
  BY <1>1, <1>2, <1>3, <1>4, <1>5, CallsAreDistinct DEF Refreshes, Primary, Operations, Delta

(* What an action leaves alone, its parts keep.                              *)
LEMMA LeftAlone ==
  ASSUME SharedInv
  PROVE  /\ UNCHANGED queueVars => QueueOK'
         /\ UNCHANGED <<queueVars, stage, changes>> => StagesOK'
         /\ UNCHANGED <<lockVars, stage, changes>> => LockOK'
         /\ UNCHANGED <<round, next, stage>> => RoundOK'
         /\ UNCHANGED <<lastUpdate, reconciled, before, next, stage, log>> => CursorOK'
         /\ UNCHANGED <<unannounced, outcome, stage, next, round, changes>> => AnnounceOK'
<1>1. UNCHANGED queueVars => QueueOK'
  BY DEF SharedInv, QueueOK, queueVars
<1>2. UNCHANGED <<queueVars, stage, changes>> => StagesOK'
  BY DEF SharedInv, StagesOK, InTurn, Logged, queueVars
<1>3. UNCHANGED <<lockVars, stage, changes>> => LockOK'
  <2> SUFFICES ASSUME UNCHANGED <<lockVars, stage, changes>>
               PROVE  LockOK'
    OBVIOUS
  <2>1. LockFacts!LockInv'
    BY LockStays DEF SharedInv, LockOK, Locked
  <2>2. phase' = phase
    BY DEF lockVars
  <2> QED
    BY <2>1, <2>2 DEF SharedInv, LockOK, Locked
<1>4. UNCHANGED <<round, next, stage>> => RoundOK'
  BY DEF SharedInv, RoundOK
<1>5. UNCHANGED <<lastUpdate, reconciled, before, next, stage, log>> => CursorOK'
  BY DEF SharedInv, CursorOK, Logged
<1>6. UNCHANGED <<unannounced, outcome, stage, next, round, changes>> => AnnounceOK'
  BY DEF SharedInv, AnnounceOK, Quiet, Changed
<1> QED
  BY <1>1, <1>2, <1>3, <1>4, <1>5, <1>6

-----------------------------------------------------------------------------
(* The queue. *)

LEMMA LogGrows ==
  ASSUME log \in Seq(Operations), NEW o \in Operations, log' = Append(log, o)
  PROVE  /\ log' \in Seq(Operations)
         /\ \A v : Logged(v)' <=> Logged(v) \/ v = o
<1>1. /\ DOMAIN log' = 1 .. Len(log) + 1
      /\ \A i \in DOMAIN log : log'[i] = log[i]
      /\ log'[Len(log) + 1] = o
      /\ DOMAIN log = 1 .. Len(log) /\ Len(log) \in Nat
  OBVIOUS
<1> QED
  BY <1>1 DEF Logged

LEMMA Called ==
  ASSUME QueueOK, NEW o \in Operations, Store!Call(o)
  PROVE  /\ QueueOK'
         /\ outcome' = [outcome EXCEPT ![o] = "waiting"] /\ outcome[o] = "uncalled"
         /\ log' = log
         /\ \A v \in Operations : outcome[v] # "uncalled" /\ InTurn(v) => InTurn(v)'
<1>1. /\ outcome[o] = "uncalled" /\ outcome' = [outcome EXCEPT ![o] = "waiting"]
      /\ order' = Append(order, o) /\ log' = log
  BY DEF Store!Call
<1>2. /\ DOMAIN order' = 1 .. Len(order) + 1
      /\ \A i \in DOMAIN order : order'[i] = order[i]
      /\ order'[Len(order) + 1] = o
      /\ DOMAIN order = 1 .. Len(order) /\ Len(order) \in Nat
      /\ order' \in Seq(Operations)
  BY <1>1 DEF QueueOK
<1>3. \A i \in DOMAIN order : order[i] # o
  BY <1>1 DEF QueueOK
<1>4. outcome' \in [Operations -> {"uncalled", "waiting", "ok", "failed"}]
      /\ \A v \in Operations : outcome'[v] = IF v = o THEN "waiting" ELSE outcome[v]
  BY <1>1 DEF QueueOK
<1>5. \A i, j \in DOMAIN order' : order'[i] = order'[j] => i = j
  BY <1>2, <1>3 DEF QueueOK
<1>6. \A v \in Operations : outcome'[v] # "uncalled" <=> \E i \in DOMAIN order' : order'[i] = v
  <2> SUFFICES ASSUME NEW v \in Operations
               PROVE  outcome'[v] # "uncalled" <=> \E i \in DOMAIN order' : order'[i] = v
    OBVIOUS
  <2>1. CASE v = o
    BY ONLY <1>2, <1>4, <2>1
  <2>2. CASE v # o
    <3>1. outcome'[v] = outcome[v]
      BY ONLY <1>4, <2>2, v \in Operations
    <3>2. outcome[v] # "uncalled" <=> \E i \in DOMAIN order : order[i] = v
      BY <1>1 DEF QueueOK
    <3>3. (\E i \in DOMAIN order : order[i] = v) <=> \E i \in DOMAIN order' : order'[i] = v
      BY ONLY <1>2, <2>2
    <3> QED
      BY ONLY <3>1, <3>2, <3>3
  <2> QED
    BY ONLY <2>1, <2>2
<1>7. ASSUME NEW v \in Operations, outcome[v] # "uncalled", InTurn(v)
      PROVE  InTurn(v)'
  <2> SUFFICES ASSUME NEW i \in DOMAIN order', NEW j \in DOMAIN order', i < j, order'[j] = v
               PROVE  outcome'[order'[i]] \in Over
    BY DEF InTurn, Over
  <2>1. v # o
    BY <1>1, <1>7
  <2>2. j \in DOMAIN order /\ i \in DOMAIN order
    BY <1>2, <2>1
  <2>3. outcome[order[i]] \in Over
    BY <1>2, <1>7, <2>2 DEF InTurn
  <2>4. order[i] \in Operations
    BY <2>2 DEF QueueOK
  <2> QED
    BY <1>2, <1>3, <1>4, <2>2, <2>3, <2>4
<1> QED
  BY <1>1, <1>2, <1>4, <1>5, <1>6, <1>7 DEF QueueOK

LEMMA Turned ==
  ASSUME QueueOK, NEW o \in Operations, outcome[o] # "uncalled", Store!ItsTurn(o)
  PROVE  InTurn(o)
<1>1. PICK k \in DOMAIN order : order[k] = o
  BY DEF QueueOK
<1>2. Store!Place(o) \in DOMAIN order /\ order[Store!Place(o)] = o
  BY <1>1 DEF Store!Place
<1>3. Store!Place(o) = k
  BY <1>1, <1>2 DEF QueueOK
<1>4. \A i \in 1 .. k - 1 : outcome[order[i]] \in Over
  BY <1>3 DEF Store!ItsTurn, Over
<1>5. DOMAIN order = 1 .. Len(order) /\ Len(order) \in Nat
  BY DEF QueueOK
<1> SUFFICES ASSUME NEW i \in DOMAIN order, NEW j \in DOMAIN order, i < j, order[j] = o
             PROVE  outcome[order[i]] \in Over
  BY DEF InTurn
<1>6. j = k
  BY <1>1 DEF QueueOK
<1> QED
  BY <1>4, <1>5, <1>6

LEMMA SettledNow ==
  ASSUME QueueOK, NEW o \in Operations, outcome[o] = "waiting", NEW x \in Over,
         outcome' = [outcome EXCEPT ![o] = x], order' = order, log' \in Seq(Operations)
  PROVE  /\ QueueOK'
         /\ \A v \in Operations : InTurn(v) => InTurn(v)'
<1>1. outcome' \in [Operations -> {"uncalled", "waiting", "ok", "failed"}]
      /\ \A v \in Operations : outcome'[v] = IF v = o THEN x ELSE outcome[v]
  BY DEF QueueOK, Over
<1>2. QueueOK'
  BY <1>1 DEF QueueOK, Over
<1>3. \A i \in DOMAIN order : order[i] \in Operations
  BY DEF QueueOK
<1>4. \A v \in Operations : InTurn(v) => InTurn(v)'
  BY <1>1, <1>3 DEF InTurn
<1> QED
  BY <1>2, <1>4

(* One transaction is open at a time.                                        *)
Working == {"operation", "publish", "commit", "abort"}

LEMMA OneOpen ==
  ASSUME QueueOK, StagesOK, NEW v \in Refreshes, NEW w \in Refreshes,
         stage[v] \in Working, stage[w] \in Working
  PROVE  v = w
<1>1. outcome[v] = "waiting" /\ outcome[w] = "waiting" /\ InTurn(v) /\ InTurn(w)
  BY Names DEF QueueOK, StagesOK, Working, Over
<1>2. PICK i \in DOMAIN order : order[i] = v
  BY <1>1, Names DEF QueueOK
<1>3. PICK j \in DOMAIN order : order[j] = w
  BY <1>1, Names DEF QueueOK
<1>4. ~ (i < j) /\ ~ (j < i)
  BY <1>1, <1>2, <1>3 DEF InTurn, Over
<1>5. i \in Nat /\ j \in Nat
  BY DEF QueueOK
<1> QED
  BY <1>2, <1>3, <1>4, <1>5

LEMMA Staged ==
  ASSUME StagesOK, NEW w \in Refreshes, NEW s \in Stages, To(w, s)
  PROVE  /\ stage' \in [Refreshes -> Stages] /\ stage'[w] = s
         /\ \A v \in Refreshes : v # w => stage'[v] = stage[v]
  BY DEF StagesOK, To

-----------------------------------------------------------------------------
(* Each action keeps it. *)

LEMMA StartsHolding ==
  ASSUME RefreshInit
  PROVE  SharedInv
<1>1. LockFacts!LockInit
  BY DEF RefreshInit, Lock!LockInit, LockFacts!LockInit, Lock!Calls, LockFacts!Calls
<1>2. LockFacts!LockInv
  BY <1>1, LockAssumed, LockFacts!InitHolds
<1>3. phase = [c \in Handlers \cup Refreshes |-> "idle"]
  BY <1>1 DEF LockFacts!LockInit, LockFacts!Calls
<1>4. /\ order = <<>> /\ log = <<>> /\ outcome = [o \in Operations |-> "uncalled"]
      /\ stage = [w \in Refreshes |-> "idle"] /\ changes = [w \in Refreshes |-> "none"]
      /\ round = 0 /\ next = None /\ lastUpdate = 0 /\ reconciled = 0 /\ before = 0
      /\ unannounced = {}
  BY DEF RefreshInit, Store!SerialInit, Store!Ops, Operations
<1>5. QueueOK
  BY <1>4 DEF QueueOK
<1>6. StagesOK
  BY <1>4, Names DEF StagesOK, Stages, Logged, Over, ChangeReports
<1>7. LockOK
  BY <1>2, <1>3, <1>4 DEF LockOK, Locked
<1>8. RoundOK
  <2>1. \A k \in 1 .. MaxRounds : Delta(k) \in Refreshes
    BY Names
  <2>2. Primary \subseteq Refreshes
    BY Names
  <2> QED
    BY <1>4, <2>1, <2>2, Names, RefreshAssumption DEF RoundOK
<1>9. CursorOK /\ AnnounceOK
  BY <1>4, Names, RefreshAssumption DEF CursorOK, AnnounceOK
<1> QED
  BY <1>5, <1>6, <1>7, <1>8, <1>9 DEF SharedInv

LEMMA StartRoundKeeps ==
  ASSUME SharedInv, StartRound
  PROVE  SharedInv'
<1>1. /\ next = None /\ round < MaxRounds /\ round' = round + 1
      /\ next' = <<"cleanup", round + 1, 1>>
      /\ UNCHANGED <<lockVars, queueVars, stage, changes, lastUpdate, reconciled, before, unannounced>>
  BY DEF StartRound
<1>2. /\ round \in 0 .. MaxRounds /\ round' \in 1 .. MaxRounds
      /\ next' \in Cleanups /\ next'[2] = round'
  BY <1>1, Names, RefreshAssumption DEF SharedInv, RoundOK
<1>3. next' \in Primary /\ next' \notin Deltas /\ next \notin Deltas
  BY <1>1, <1>2, Names
<1>4. RoundOK'
  BY <1>1, <1>2, <1>3, Names DEF SharedInv, RoundOK
<1>5. CursorOK'
  BY <1>1, <1>3 DEF SharedInv, CursorOK, Logged, queueVars
<1>6. AnnounceOK'
  <2> SUFFICES ASSUME NEW w \in unannounced
               PROVE  Quiet(w)' \/ (w \in Sides /\ stage'[w] = "commit")
    BY <1>1 DEF SharedInv, AnnounceOK, Quiet, Changed
  <2> QED
    BY <1>1 DEF SharedInv, AnnounceOK, queueVars, Quiet, Changed
<1> QED
  BY <1>1, <1>4, <1>5, <1>6, LeftAlone DEF SharedInv

LEMMA PlanFailsKeeps ==
  ASSUME SharedInv, PlanFails
  PROVE  SharedInv'
<1>1. /\ next \in Deltas /\ stage[next] = "idle" /\ next' = None
      /\ unannounced' = IF Removed THEN unannounced \ Primary ELSE unannounced
      /\ UNCHANGED <<lockVars, queueVars, stage, changes, round, lastUpdate, reconciled, before>>
  BY DEF PlanFails, PublishCleanupChanges
<1>2. RoundOK'
  BY <1>1, Names DEF SharedInv, RoundOK
<1>3. CursorOK'
  BY <1>1, Names DEF SharedInv, CursorOK, Logged, queueVars
<1>4. AnnounceOK'
  <2> SUFFICES ASSUME NEW w \in unannounced'
               PROVE  Quiet(w) \/ (w \in Sides /\ stage[w] = "commit")
    BY <1>1 DEF SharedInv, AnnounceOK, queueVars, Quiet, Changed
  <2>1. w \in unannounced /\ (Removed => w \notin Primary)
    BY <1>1
  <2>2. ASSUME w \in Primary, ~Quiet(w)
        PROVE  FALSE
    <3>1. /\ w[2] = round /\ Changed(w)
          /\ stage[w] = "commit" \/ (w \in Cleanups /\ outcome[w] = "ok")
      BY <2>1, <2>2, Names DEF SharedInv, AnnounceOK, Quiet, Changed
    <3>2. stage[w] # "commit"
      BY <1>1, <2>2 DEF SharedInv, RoundOK
    <3> QED
      BY <2>1, <2>2, <3>1, <3>2 DEF Removed
  <2> QED
    BY <2>1, <2>2 DEF SharedInv, AnnounceOK, Quiet, Changed
<1> QED
  BY <1>1, <1>2, <1>3, <1>4, LeftAlone DEF SharedInv

(* A call of an operation other than the refresh that the round waits for.   *)
LEMMA CalledKeeps ==
  ASSUME SharedInv, NEW o \in MainWrites, Store!Call(o),
         UNCHANGED <<lockVars, stage, changes, roundVars>>
  PROVE  SharedInv'
<1>1. /\ QueueOK' /\ log' = log
      /\ outcome' = [outcome EXCEPT ![o] = "waiting"] /\ outcome[o] = "uncalled"
      /\ \A v \in Operations : outcome[v] # "uncalled" /\ InTurn(v) => InTurn(v)'
  BY Called DEF SharedInv, Operations
<1>2. \A v \in Refreshes : outcome'[v] = outcome[v] /\ v \in Operations
  BY <1>1, Names DEF SharedInv, QueueOK
<1>3. StagesOK'
  BY <1>1, <1>2 DEF SharedInv, StagesOK, Logged
<1>4. AnnounceOK'
  BY <1>2 DEF SharedInv, AnnounceOK, roundVars, Quiet, Changed
<1> QED
  BY <1>1, <1>3, <1>4, LeftAlone DEF SharedInv, roundVars

LEMMA RunMainWriteKeeps ==
  ASSUME SharedInv, NEW m \in MainWrites, RunMainWrite(m)
  PROVE  SharedInv'
<1>1. /\ outcome[m] = "waiting" /\ outcome' = [outcome EXCEPT ![m] = "ok"]
      /\ log' = Append(log, m) /\ order' = order
      /\ UNCHANGED <<lockVars, stage, changes, roundVars>>
  BY DEF RunMainWrite, Store!TakeEffect, Store!Succeed
<1>2. m \in Operations /\ log \in Seq(Operations)
  BY DEF SharedInv, QueueOK, Operations
<1>3. log' \in Seq(Operations) /\ (\A v : Logged(v)' <=> Logged(v) \/ v = m)
  BY <1>1, <1>2, LogGrows
<1>4. QueueOK' /\ (\A v \in Operations : InTurn(v) => InTurn(v)')
  BY <1>1, <1>2, <1>3, SettledNow DEF SharedInv, Over
<1>5. \A v \in Refreshes : outcome'[v] = outcome[v] /\ v \in Operations /\ v # m
  BY <1>1, Names DEF SharedInv, QueueOK
<1>6. StagesOK'
  BY <1>1, <1>3, <1>4, <1>5 DEF SharedInv, StagesOK
<1>7. CursorOK'
  BY <1>1, <1>3 DEF SharedInv, CursorOK, roundVars
<1>8. AnnounceOK'
  BY <1>1, <1>5 DEF SharedInv, AnnounceOK, roundVars, Quiet, Changed
<1> QED
  BY <1>1, <1>4, <1>6, <1>7, <1>8, LeftAlone DEF SharedInv, roundVars

LEMMA CallRefreshKeeps ==
  ASSUME SharedInv, NEW w \in Refreshes, CallRefresh(w)
  PROVE  SharedInv'
<1>1. /\ w \in Sides \/ w = next
      /\ stage[w] = "idle" /\ Store!Call(w) /\ To(w, "queued")
      /\ before' = IF w \in Deltas THEN reconciled ELSE before
      /\ UNCHANGED <<lockVars, changes, round, next, lastUpdate, reconciled, unannounced>>
  BY DEF CallRefresh
<1>2. /\ QueueOK' /\ log' = log
      /\ outcome' = [outcome EXCEPT ![w] = "waiting"] /\ outcome[w] = "uncalled"
      /\ \A v \in Operations : outcome[v] # "uncalled" /\ InTurn(v) => InTurn(v)'
  BY <1>1, Called, Names DEF SharedInv
<1>3. /\ stage' \in [Refreshes -> Stages] /\ stage'[w] = "queued"
      /\ \A v \in Refreshes : v # w => stage'[v] = stage[v]
  BY <1>1, Staged DEF SharedInv, Stages
<1>4. outcome'[w] = "waiting" /\ (\A v \in Refreshes : v # w => outcome'[v] = outcome[v])
  BY <1>2, Names DEF SharedInv, QueueOK
<1>5. StagesOK'
  BY <1>1, <1>2, <1>3, <1>4, Names DEF SharedInv, StagesOK, Logged, Over
<1>6. LockOK'
  <2>1. LockFacts!LockInv' /\ phase' = phase
    BY <1>1, LockStays DEF SharedInv, LockOK, lockVars
  <2> QED
    BY <1>1, <1>3, <2>1 DEF SharedInv, LockOK, Locked
<1>7. RoundOK'
  <2>1. w \in Primary => w = next
    BY <1>1, Names
  <2>2. \A k \in 1 .. MaxRounds : Delta(k) = w => ~ (k > round) /\ ~ (k = round /\ next \in Cleanups)
    BY <2>1, Names DEF SharedInv, RoundOK
  <2>3. Primary \subseteq Refreshes /\ (\A k \in 1 .. MaxRounds : Delta(k) \in Refreshes)
    BY Names
  <2> QED
    BY <1>1, <1>3, <2>1, <2>2, <2>3, Names DEF SharedInv, RoundOK
<1>8. CursorOK'
  <2>1. next \in Deltas => w = next \/ stage'[next] = stage[next]
    BY <1>3, Names
  <2>2. w \in Deltas => w = next
    BY <1>1, Names
  <2> QED
    BY <1>1, <1>2, <1>3, <2>1, <2>2 DEF SharedInv, CursorOK, Logged
<1>9. AnnounceOK'
  <2>1. w \notin unannounced
    BY <1>1, <1>2 DEF SharedInv, AnnounceOK, Quiet, Changed
  <2> QED
    BY <1>1, <1>3, <1>4, <2>1 DEF SharedInv, AnnounceOK, Quiet, Changed
<1> QED
  BY <1>2, <1>5, <1>6, <1>7, <1>8, <1>9 DEF SharedInv

(* A refresh other than the caller of the lock stays where it may be.        *)
LEMMA OthersLocked ==
  ASSUME SharedInv, NEW c \in Handlers \cup Refreshes, NEW p, OnlyMoved(c, p),
         NEW v \in Refreshes, v # c, stage'[v] = stage[v], changes'[v] = changes[v]
  PROVE  Locked(v)'
<1>1. Locked(v) /\ stage[v] \in Stages
  BY DEF SharedInv, LockOK, StagesOK
<1>2. phase'[v] = phase[v] \/ (phase[v] = "waiting" /\ phase'[v] = "holding")
  BY DEF OnlyMoved
<1> QED
  BY <1>1, <1>2 DEF Locked, Stages

(* What a refresh w does to its stage alone, inside its transaction.         *)
LEMMA WorkKeeps ==
  ASSUME SharedInv, NEW w \in Refreshes,
         stage[w] \in {"queued", "operation", "publish", "commit"},
         NEW s \in Working, To(w, s), InTurn(w), ~Logged(w) \/ s \in {"commit"},
         UNCHANGED queueVars, changes' \in [Refreshes -> ChangeReports],
         UNCHANGED <<round, next>>
  PROVE  QueueOK' /\ StagesOK' /\ RoundOK'
<1>1. /\ stage' \in [Refreshes -> Stages] /\ stage'[w] = s
      /\ \A v \in Refreshes : v # w => stage'[v] = stage[v]
  BY Staged DEF SharedInv, Stages, Working
<1>2. QueueOK' /\ UNCHANGED <<order, outcome, log>>
  BY LeftAlone DEF queueVars
<1>3. outcome[w] # "uncalled" /\ outcome[w] \notin Over
  BY DEF SharedInv, StagesOK
<1>4. StagesOK'
  BY <1>1, <1>2, <1>3 DEF SharedInv, StagesOK, InTurn, Logged, Working
<1>5. RoundOK'
  <2>1. w \in Primary => w = next
    BY DEF SharedInv, RoundOK
  <2>2. Primary \subseteq Refreshes /\ (\A k \in 1 .. MaxRounds : Delta(k) \in Refreshes)
    BY Names
  <2> QED
    BY <1>1, <2>1, <2>2, Names DEF SharedInv, RoundOK, Working
<1> QED
  BY <1>2, <1>4, <1>5

LEMMA BeginOperationKeeps ==
  ASSUME SharedInv, NEW w \in Refreshes, BeginOperation(w)
  PROVE  SharedInv'
<1>1. /\ stage[w] = "queued" /\ Store!ItsTurn(w) /\ To(w, "operation")
      /\ UNCHANGED <<lockVars, queueVars, changes, roundVars>>
  BY DEF BeginOperation
<1>2. w \in Operations /\ outcome[w] # "uncalled" /\ ~Logged(w)
  BY <1>1, Names DEF SharedInv, StagesOK
<1>3. InTurn(w)
  BY <1>1, <1>2, Turned DEF SharedInv
<1>4. QueueOK' /\ StagesOK' /\ RoundOK'
  BY <1>1, <1>2, <1>3, WorkKeeps DEF SharedInv, StagesOK, Working, roundVars
<1>5. /\ stage'[w] = "operation" /\ \A v \in Refreshes : v # w => stage'[v] = stage[v]
  BY <1>1, Staged DEF SharedInv, Stages
<1>6. LockOK'
  <2>1. LockFacts!LockInv' /\ phase' = phase
    BY <1>1, LockStays DEF SharedInv, LockOK, lockVars
  <2> QED
    BY <1>1, <1>5, <2>1 DEF SharedInv, LockOK, Locked
<1>7. CursorOK'
  <2>1. next \in Deltas => next \in Refreshes
    BY Names
  <2> QED
    BY <1>1, <1>5, <2>1 DEF SharedInv, CursorOK, Logged, roundVars, queueVars
<1>8. AnnounceOK'
  BY <1>1, <1>5 DEF SharedInv, AnnounceOK, roundVars, queueVars, Quiet, Changed
<1> QED
  BY <1>4, <1>6, <1>7, <1>8 DEF SharedInv

LEMMA SendCommitKeeps ==
  ASSUME SharedInv, NEW w \in Refreshes, SendCommit(w)
  PROVE  SharedInv'
<1>1. /\ stage[w] = "publish" /\ phase[w] = "holding" /\ To(w, "commit")
      /\ UNCHANGED <<lockVars, queueVars, changes, roundVars>>
  BY DEF SendCommit
<1>2. InTurn(w) /\ ~Logged(w)
  BY <1>1 DEF SharedInv, StagesOK
<1>4. QueueOK' /\ StagesOK' /\ RoundOK'
  BY <1>1, <1>2, WorkKeeps DEF SharedInv, StagesOK, Working, roundVars
<1>5. /\ stage'[w] = "commit" /\ \A v \in Refreshes : v # w => stage'[v] = stage[v]
  BY <1>1, Staged DEF SharedInv, Stages
<1>6. LockOK'
  <2>1. LockFacts!LockInv' /\ phase' = phase
    BY <1>1, LockStays DEF SharedInv, LockOK, lockVars
  <2> QED
    BY <1>1, <1>5, <2>1 DEF SharedInv, LockOK, Locked
<1>7. CursorOK'
  <2>1. next \in Deltas => next \in Refreshes
    BY Names
  <2> QED
    BY <1>1, <1>5, <2>1 DEF SharedInv, CursorOK, Logged, roundVars, queueVars
<1>8. AnnounceOK'
  BY <1>1, <1>5 DEF SharedInv, AnnounceOK, roundVars, queueVars, Quiet, Changed
<1> QED
  BY <1>4, <1>6, <1>7, <1>8 DEF SharedInv

LEMMA PublicationTimeoutKeeps ==
  ASSUME SharedInv, NEW w \in Refreshes, PublicationTimeout(w)
  PROVE  SharedInv'
<1>1. /\ stage[w] = "publish" /\ Lock!WriteTimeout(w) /\ To(w, "abort")
      /\ UNCHANGED <<queueVars, changes, roundVars>>
  BY DEF PublicationTimeout
<1>2. InTurn(w) /\ ~Logged(w)
  BY <1>1 DEF SharedInv, StagesOK
<1>3. LockFacts!LockInv' /\ OnlyMoved(w, "failed")
  BY <1>1, WriteGivenUp DEF SharedInv, LockOK
<1>4. QueueOK' /\ StagesOK' /\ RoundOK'
  BY <1>1, <1>2, WorkKeeps DEF SharedInv, StagesOK, Working, roundVars
<1>5. /\ stage'[w] = "abort" /\ \A v \in Refreshes : v # w => stage'[v] = stage[v]
  BY <1>1, Staged DEF SharedInv, Stages
<1>6. LockOK'
  <2>1. \A v \in Refreshes : v # w => Locked(v)'
    BY <1>1, <1>3, <1>5, OthersLocked
  <2>2. Locked(w)'
    BY <1>3, <1>5 DEF Locked, OnlyMoved
  <2> QED
    BY <1>3, <2>1, <2>2 DEF LockOK
<1>7. CursorOK'
  <2>1. next \in Deltas => next \in Refreshes
    BY Names
  <2> QED
    BY <1>1, <1>5, <2>1 DEF SharedInv, CursorOK, Logged, roundVars, queueVars
<1>8. AnnounceOK'
  BY <1>1, <1>5 DEF SharedInv, AnnounceOK, roundVars, queueVars, Quiet, Changed
<1> QED
  BY <1>4, <1>6, <1>7, <1>8 DEF SharedInv

LEMMA OperationFailsKeeps ==
  ASSUME SharedInv, NEW w \in Refreshes, OperationFails(w)
  PROVE  SharedInv'
<1>1. /\ stage[w] = "operation" /\ To(w, "abort")
      /\ reconciled' = reconciled \/ (w \in Deltas /\ reconciled' = w[2])
      /\ UNCHANGED <<lockVars, queueVars, changes, round, next, lastUpdate, before, unannounced>>
  BY DEF OperationFails
<1>2. InTurn(w) /\ ~Logged(w)
  BY <1>1 DEF SharedInv, StagesOK
<1>4. QueueOK' /\ StagesOK' /\ RoundOK'
  BY <1>1, <1>2, WorkKeeps DEF SharedInv, StagesOK, Working
<1>5. /\ stage'[w] = "abort" /\ \A v \in Refreshes : v # w => stage'[v] = stage[v]
  BY <1>1, Staged DEF SharedInv, Stages
<1>6. LockOK'
  <2>1. LockFacts!LockInv' /\ phase' = phase
    BY <1>1, LockStays DEF SharedInv, LockOK, lockVars
  <2> QED
    BY <1>1, <1>5, <2>1 DEF SharedInv, LockOK, Locked
<1>7. CursorOK'
  <2>1. next \in Deltas => next \in Refreshes
    BY Names
  <2>2. w \in Deltas => w = next /\ w[2] \in 0 .. MaxRounds
    BY <1>1, Names DEF SharedInv, RoundOK
  <2> QED
    BY <1>1, <1>5, <2>1, <2>2 DEF SharedInv, CursorOK, Logged, queueVars
<1>8. AnnounceOK'
  BY <1>1, <1>5 DEF SharedInv, AnnounceOK, queueVars, Quiet, Changed
<1> QED
  BY <1>4, <1>6, <1>7, <1>8 DEF SharedInv

LEMMA FinishOperationKeeps ==
  ASSUME SharedInv, NEW w \in Refreshes, FinishOperation(w)
  PROVE  SharedInv'
<1>1. PICK c \in Results(w) :
        /\ changes' = [changes EXCEPT ![w] = c]
        /\ \/ c = "none" /\ To(w, "commit") /\ UNCHANGED lockVars
           \/ To(w, "publish") /\ Lock!AcquireWrite(w)
  BY DEF FinishOperation
<1>2. /\ stage[w] = "operation"
      /\ reconciled' = IF w \in Deltas THEN w[2] ELSE reconciled
      /\ UNCHANGED <<queueVars, round, next, lastUpdate, before, unannounced>>
  BY DEF FinishOperation
<1>3. /\ changes' \in [Refreshes -> ChangeReports] /\ changes'[w] = c
      /\ \A v \in Refreshes : v # w => changes'[v] = changes[v]
  BY <1>1 DEF SharedInv, StagesOK, Results, ChangeReports
<1>4. PICK s \in {"commit", "publish"} : To(w, s)
  BY <1>1
<1>5. /\ stage'[w] = s /\ \A v \in Refreshes : v # w => stage'[v] = stage[v]
  BY <1>4, Staged DEF SharedInv, Stages
<1>6. InTurn(w) /\ ~Logged(w) /\ phase[w] = "idle"
  BY <1>2 DEF SharedInv, StagesOK, LockOK, Locked
<1>7. QueueOK' /\ StagesOK' /\ RoundOK'
  BY <1>2, <1>3, <1>4, <1>6, WorkKeeps DEF Working
<1>8. LockOK'
  <2>1. CASE c = "none" /\ To(w, "commit") /\ UNCHANGED lockVars
    <3>1. LockFacts!LockInv' /\ phase' = phase /\ stage'[w] = "commit"
      BY <2>1, LockStays, Staged DEF SharedInv, LockOK, lockVars, Stages
    <3> QED
      BY <1>3, <1>5, <1>6, <2>1, <3>1 DEF SharedInv, LockOK, Locked
  <2>2. CASE To(w, "publish") /\ Lock!AcquireWrite(w)
    <3>1. LockFacts!LockInv' /\ stage'[w] = "publish"
      BY <2>2, WriteAsked, Staged DEF SharedInv, LockOK, Stages
    <3>2. PICK p \in {"waiting", "holding"} : OnlyMoved(w, p)
      BY <2>2, WriteAsked DEF SharedInv, LockOK
    <3>3. \A v \in Refreshes : v # w => Locked(v)'
      BY <1>3, <1>5, <3>2, OthersLocked
    <3>4. Locked(w)'
      BY <3>1, <3>2 DEF Locked, OnlyMoved
    <3> QED
      BY <3>1, <3>3, <3>4 DEF LockOK
  <2> QED
    BY <1>1, <2>1, <2>2
<1>9. CursorOK'
  <2>1. next \in Deltas => next \in Refreshes
    BY Names
  <2>2. w \in Deltas => w = next /\ w[2] \in 0 .. MaxRounds
    BY <1>2, Names DEF SharedInv, RoundOK
  <2> QED
    BY <1>2, <1>5, <2>1, <2>2 DEF SharedInv, CursorOK, Logged, queueVars
<1>10. AnnounceOK'
  <2>1. w \in unannounced => outcome[w] = "failed"
    BY <1>2 DEF SharedInv, AnnounceOK, StagesOK, Over, Quiet, Changed
  <2> QED
    BY <1>2, <1>3, <1>5, <2>1 DEF SharedInv, AnnounceOK, queueVars, Quiet, Changed
<1> QED
  BY <1>7, <1>8, <1>9, <1>10 DEF SharedInv

LEMMA CommitKeeps ==
  ASSUME SharedInv, NEW w \in Refreshes, Commit(w)
  PROVE  SharedInv'
<1>1. /\ stage[w] = "commit" /\ log' = Append(log, w) /\ order' = order /\ outcome' = outcome
      /\ unannounced' = IF Changed(w) THEN unannounced \cup {w} ELSE unannounced
      /\ UNCHANGED <<lockVars, stage, changes, round, next, lastUpdate, reconciled, before>>
  BY DEF Commit, Store!TakeEffect
<1>2. w \in Operations /\ log \in Seq(Operations)
  BY Names DEF SharedInv, QueueOK
<1>3. log' \in Seq(Operations) /\ (\A v : Logged(v)' <=> Logged(v) \/ v = w)
  BY <1>1, <1>2, LogGrows
<1>4. QueueOK'
  BY <1>1, <1>3 DEF SharedInv, QueueOK
<1>5. StagesOK'
  BY <1>1, <1>3 DEF SharedInv, StagesOK, InTurn
<1>6. CursorOK'
  BY <1>1, <1>3 DEF SharedInv, CursorOK
<1>7. AnnounceOK'
  <2>1. w \in Primary => w = next
    BY <1>1 DEF SharedInv, RoundOK
  <2>2. w \in Primary => next # None /\ w[2] = round
    BY <2>1, Names DEF SharedInv, RoundOK
  <2> QED
    BY <1>1, <2>2, Names DEF SharedInv, AnnounceOK, Quiet, Changed
<1> QED
  BY <1>1, <1>4, <1>5, <1>6, <1>7, LeftAlone DEF SharedInv

(* What the end of a transaction does to queue, stages and lock, whichever   *)
(* end it is.                                                                *)
LEMMA EndKeeps ==
  ASSUME SharedInv, NEW w \in Refreshes, stage[w] \in {"commit", "abort"},
         NEW x \in Over, outcome' = [outcome EXCEPT ![w] = x], order' = order, log' = log,
         To(w, "done"), ReleasePublication(w), changes' = changes
  PROVE  /\ QueueOK' /\ StagesOK' /\ LockOK'
         /\ outcome[w] = "waiting" /\ outcome'[w] = x /\ stage'[w] = "done"
         /\ \A v \in Refreshes : v # w => outcome'[v] = outcome[v] /\ stage'[v] = stage[v]
<1>1. outcome[w] = "waiting" /\ w \in Operations
  BY Names DEF SharedInv, StagesOK, QueueOK, Over
<1>2. /\ outcome'[w] = x /\ \A v \in Refreshes : v # w => outcome'[v] = outcome[v]
  BY Names DEF SharedInv, QueueOK
<1>3. /\ stage' \in [Refreshes -> Stages] /\ stage'[w] = "done"
      /\ \A v \in Refreshes : v # w => stage'[v] = stage[v]
  BY Staged DEF SharedInv, Stages
<1>4. QueueOK' /\ (\A v \in Operations : InTurn(v) => InTurn(v)')
  BY <1>1, SettledNow DEF SharedInv, QueueOK
<1>5. StagesOK'
  BY <1>2, <1>3, <1>4, Names DEF SharedInv, StagesOK, Logged, Over
<1>6. LockOK'
  <2>1. CASE phase[w] = "holding"
    <3>1. LockFacts!LockInv' /\ OnlyMoved(w, "released")
      BY <2>1, WriteGivenBack DEF ReleasePublication, SharedInv, LockOK
    <3>2. \A v \in Refreshes : v # w => Locked(v)'
      BY <1>3, <3>1, OthersLocked
    <3>3. Locked(w)'
      BY <1>3, <3>1 DEF Locked, OnlyMoved
    <3> QED
      BY <3>1, <3>2, <3>3 DEF LockOK
  <2>2. CASE phase[w] # "holding"
    <3>1. UNCHANGED lockVars
      BY <2>2 DEF ReleasePublication
    <3>2. LockFacts!LockInv' /\ phase' = phase
      BY <3>1, LockStays DEF SharedInv, LockOK, lockVars
    <3>3. phase[w] # "waiting"
      BY <2>2 DEF SharedInv, LockOK, Locked
    <3> QED
      BY <1>3, <2>2, <3>2, <3>3 DEF SharedInv, LockOK, Locked
  <2> QED
    BY <2>1, <2>2
<1> QED
  BY <1>1, <1>2, <1>3, <1>4, <1>5, <1>6

(* Where the round goes when the refresh w it waits for is over.             *)
LEMMA RoundMovesOn ==
  ASSUME SharedInv, NEW w \in Refreshes, stage[w] \in {"commit", "abort"},
         stage'[w] = "done", \A v \in Refreshes : v # w => stage'[v] = stage[v],
         round' = round,
         \/ /\ w \in Cleanups
            /\ next' \in {Delta(round)} \cup
                    {<<"cleanup", round, b>> : b \in {w[3] + 1} \cap (1 .. MaxBatches)}
         \/ w \in Deltas /\ next' = None
         \/ w \in Sides /\ next' = next
  PROVE  /\ RoundOK'
         /\ w \in Primary => w = next /\ w[2] = round
         /\ w \in Cleanups => next' # None /\ (next' \in Deltas => stage'[next'] = "idle")
<1>1. Primary \subseteq Refreshes /\ (\A k \in 1 .. MaxRounds : Delta(k) \in Refreshes)
  BY Names
<1>2. w \in Primary => w = next /\ w[2] = round /\ round \in 1 .. MaxRounds
  BY Names DEF SharedInv, RoundOK
<1>3. \A v \in Primary : v # w => stage[v] \in {"idle", "done"} \/ w \notin Primary
  BY <1>2 DEF SharedInv, RoundOK
<1>4. CASE w \in Cleanups
  <2>1. /\ next' \in Primary /\ next'[2] = round
        /\ next' \in Deltas => next' = Delta(round)
    BY <1>2, <1>4, Names
  <2>2. \A k \in 1 .. MaxRounds : k >= round => stage[Delta(k)] = "idle" /\ Delta(k) # w
    BY <1>2, <1>4, Names DEF SharedInv, RoundOK
  <2>3. \A k \in 1 .. MaxRounds : k >= round => stage'[Delta(k)] = "idle"
    BY <1>1, <2>2
  <2>4. next' \in Deltas => stage'[next'] = "idle"
    BY <1>2, <1>4, <2>1, <2>3, Names
  <2>5. next' # None
    BY <2>1, Names
  <2>6. RoundOK'
    <3>1. \A v \in Primary : stage'[v] \in {"idle", "done"}
      BY <1>1, <1>3, <1>4, Names
    <3> QED
      BY <1>2, <1>4, <2>1, <2>3, <2>4, <3>1, Names DEF SharedInv, RoundOK
  <2> QED
    BY <1>2, <1>4, <2>4, <2>5, <2>6, Names
<1>5. CASE w \in Deltas
  <2>1. \A k \in 1 .. MaxRounds : k > round => stage'[Delta(k)] = "idle"
    BY <1>1, <1>2, <1>5, Names DEF SharedInv, RoundOK
  <2>2. \A v \in Primary : stage'[v] \in {"idle", "done"}
    BY <1>1, <1>3, <1>5, Names
  <2>3. next' = None /\ next' \notin Primary /\ next' \notin Cleanups /\ next' \notin Deltas
    BY <1>5, Names
  <2>4. RoundOK'
    BY <2>1, <2>2, <2>3, Names DEF SharedInv, RoundOK
  <2> QED
    BY <1>2, <1>5, <2>4, Names
<1>6. CASE w \in Sides
  <2>1. \A v \in Primary : stage'[v] = stage[v]
    BY <1>1, <1>6, Names
  <2>2. next' = next
    BY <1>6, Names
  <2>3. RoundOK'
    BY <2>1, <2>2, Names DEF SharedInv, RoundOK
  <2> QED
    BY <1>6, <2>3, Names
<1> QED
  BY <1>4, <1>5, <1>6, Names

(* Announcing at the end of a round leaves nothing of it behind.             *)
LEMMA NothingLeft ==
  ASSUME SharedInv, NEW w \in Deltas, stage[w] \in {"commit", "abort"},
         NEW v \in unannounced \cap Primary, ~Quiet(v), v # w
  PROVE  Removed
<1>1. /\ v[2] = round /\ Changed(v)
      /\ stage[v] = "commit" \/ (v \in Cleanups /\ outcome[v] = "ok")
  BY Names DEF SharedInv, AnnounceOK
<1>2. v = next => stage[v] \in {"idle", "done"} \/ v = w
  BY Names DEF SharedInv, RoundOK
<1>3. w = next
  BY Names DEF SharedInv, RoundOK
<1>4. stage[v] # "commit"
  BY <1>3, Names DEF SharedInv, RoundOK
<1> QED
  BY <1>1, <1>4 DEF Removed

LEMMA CommittedKeeps ==
  ASSUME SharedInv, NEW w \in Refreshes, Committed(w)
  PROVE  SharedInv'
<1>1. /\ stage[w] = "commit" /\ Logged(w) /\ outcome' = [outcome EXCEPT ![w] = "ok"]
      /\ To(w, "done") /\ ReleasePublication(w)
      /\ UNCHANGED <<order, log, changes, round, reconciled, before>>
  BY DEF Committed, Store!Succeed
<1>2. \/ /\ w \in Cleanups
         /\ next' \in {Delta(round)} \cup
                      {<<"cleanup", round, b>> : b \in {w[3] + 1} \cap (1 .. MaxBatches)}
         /\ UNCHANGED <<lastUpdate, unannounced>>
      \/ /\ w \in Deltas
         /\ next' = None
         /\ lastUpdate' = w[2]
         /\ \/ unannounced' = unannounced \ Primary
            \/ changes[w] # "reported" /\ ~Removed /\ unannounced' = unannounced
      \/ /\ w \in Sides
         /\ unannounced' = unannounced \ {w}
         /\ UNCHANGED <<next, lastUpdate>>
  BY DEF Committed
<1>3. /\ QueueOK' /\ StagesOK' /\ LockOK'
      /\ outcome[w] = "waiting" /\ outcome'[w] = "ok" /\ stage'[w] = "done"
      /\ \A v \in Refreshes : v # w => outcome'[v] = outcome[v] /\ stage'[v] = stage[v]
  BY <1>1, EndKeeps DEF Over
<1>4. /\ RoundOK'
      /\ w \in Primary => w = next /\ w[2] = round
      /\ w \in Cleanups => next' # None /\ (next' \in Deltas => stage'[next'] = "idle")
  BY <1>1, <1>2, <1>3, RoundMovesOn
<1>5. \A v : Logged(v)' <=> Logged(v)
  BY <1>1 DEF Logged
<1>6. CursorOK'
  <2>1. CASE w \in Cleanups
    <3>1. next \notin Deltas
      BY <1>4, <2>1, Names
    <3>2. lastUpdate' = lastUpdate
      BY <1>2, <2>1, Names
    <3> QED
      BY <1>1, <1>4, <1>5, <2>1, <3>1, <3>2 DEF SharedInv, CursorOK
  <2>2. CASE w \in Deltas
    <3>1. lastUpdate' = w[2] /\ next' = None /\ next' \notin Deltas
      BY <1>2, <2>2, Names
    <3>2. w[2] \in 0 .. MaxRounds /\ w = Delta(w[2]) /\ reconciled = w[2]
      BY <1>1, <1>4, <2>2, Names DEF SharedInv, CursorOK
    <3> QED
      BY <1>1, <1>5, <3>1, <3>2 DEF SharedInv, CursorOK
  <2>3. CASE w \in Sides
    <3>1. next' = next /\ lastUpdate' = lastUpdate
      BY <1>2, <2>3, Names
    <3>2. next \in Deltas => stage'[next] = stage[next]
      BY <1>3, <2>3, Names
    <3> QED
      BY <1>1, <1>5, <3>1, <3>2 DEF SharedInv, CursorOK
  <2> QED
    BY <2>1, <2>2, <2>3, Names
<1>7. AnnounceOK'
  <2>1. unannounced' \subseteq unannounced /\ unannounced \subseteq Refreshes
    BY <1>2 DEF SharedInv, AnnounceOK
  <2> SUFFICES ASSUME NEW v \in unannounced'
               PROVE  \/ Quiet(v)'
                      \/ v \in Sides /\ stage'[v] = "commit"
                      \/ /\ v \in Primary /\ next' # None
                         /\ v[2] = round' /\ Changed(v)'
                         /\ stage'[v] = "commit" \/ (v \in Cleanups /\ outcome'[v] = "ok")
    BY <2>1 DEF AnnounceOK
  <2>2. \/ Quiet(v)
        \/ v \in Sides /\ stage[v] = "commit"
        \/ /\ v \in Primary /\ next # None
           /\ v[2] = round /\ Changed(v)
           /\ stage[v] = "commit" \/ (v \in Cleanups /\ outcome[v] = "ok")
    BY <2>1 DEF SharedInv, AnnounceOK
  <2>3. CASE w \in Cleanups
    BY <1>1, <1>3, <1>4, <2>1, <2>2, <2>3, Names DEF Quiet, Changed
  <2>4. CASE w \in Deltas
    <3>1. v \in Primary /\ ~Quiet(v) => v = w /\ changes[w] = "unreported"
      <4> SUFFICES ASSUME v \in Primary, ~Quiet(v)
                   PROVE  v = w /\ changes[w] = "unreported"
        OBVIOUS
      <4>1. changes[w] # "reported" /\ ~Removed
        BY <1>2, <2>1, <2>4, Names
      <4>2. v = w
        BY <1>1, <2>1, <2>4, <4>1, NothingLeft
      <4>3. Changed(w)
        BY <2>2, <2>4, <4>2, Names
      <4> QED
        BY <4>1, <4>2, <4>3 DEF SharedInv, StagesOK, Changed, ChangeReports
    <3>2. ~(v \in Sides /\ v = w)
      BY <2>4, Names
    <3> QED
      BY <1>1, <1>3, <2>1, <2>2, <2>4, <3>1, <3>2, Names DEF Quiet
  <2>5. CASE w \in Sides
    <3>1. v # w /\ next' = next
      BY <1>2, <2>5, Names
    <3> QED
      BY <1>1, <1>3, <2>1, <2>2, <3>1 DEF Quiet, Changed
  <2> QED
    BY <2>3, <2>4, <2>5, Names
<1> QED
  BY <1>3, <1>4, <1>6, <1>7 DEF SharedInv

LEMMA RefreshFailsKeeps ==
  ASSUME SharedInv, NEW w \in Refreshes, RefreshFails(w)
  PROVE  SharedInv'
<1>1. /\ stage[w] \in {"commit", "abort"} /\ outcome' = [outcome EXCEPT ![w] = "failed"]
      /\ To(w, "done") /\ ReleasePublication(w)
      /\ UNCHANGED <<order, log, changes, round, lastUpdate, before>>
  BY DEF RefreshFails, Fail
<1>2. \/ w \in Cleanups /\ next' = Delta(round) /\ UNCHANGED <<reconciled, unannounced>>
      \/ /\ w \in Deltas /\ next' = None /\ reconciled' = before
         /\ unannounced' = IF Removed THEN unannounced \ Primary ELSE unannounced
      \/ w \in Sides /\ UNCHANGED <<next, reconciled, unannounced>>
  BY DEF RefreshFails, PublishCleanupChanges
<1>3. /\ QueueOK' /\ StagesOK' /\ LockOK'
      /\ outcome[w] = "waiting" /\ outcome'[w] = "failed" /\ stage'[w] = "done"
      /\ \A v \in Refreshes : v # w => outcome'[v] = outcome[v] /\ stage'[v] = stage[v]
  BY <1>1, EndKeeps DEF Over
<1>4. /\ RoundOK'
      /\ w \in Primary => w = next /\ w[2] = round
      /\ w \in Cleanups => next' # None /\ (next' \in Deltas => stage'[next'] = "idle")
  BY <1>1, <1>2, <1>3, RoundMovesOn
<1>5. \A v : Logged(v)' <=> Logged(v)
  BY <1>1 DEF Logged
<1>6. CursorOK'
  <2>1. CASE w \in Cleanups
    <3>1. next \notin Deltas
      BY <1>4, <2>1, Names
    <3>2. reconciled' = reconciled
      BY <1>2, <2>1, Names
    <3> QED
      BY <1>1, <1>4, <1>5, <2>1, <3>1, <3>2 DEF SharedInv, CursorOK
  <2>2. CASE w \in Deltas
    <3>1. reconciled' = before /\ next' = None /\ next' \notin Deltas
      BY <1>2, <2>2, Names
    <3>2. next \in Deltas /\ stage[next] # "idle"
      BY <1>1, <1>4, <2>2, Names
    <3> QED
      BY <1>1, <1>5, <3>1, <3>2 DEF SharedInv, CursorOK
  <2>3. CASE w \in Sides
    <3>1. next' = next /\ reconciled' = reconciled
      BY <1>2, <2>3, Names
    <3>2. next \in Deltas => stage'[next] = stage[next]
      BY <1>3, <2>3, Names
    <3> QED
      BY <1>1, <1>5, <3>1, <3>2 DEF SharedInv, CursorOK
  <2> QED
    BY <2>1, <2>2, <2>3, Names
<1>7. AnnounceOK'
  <2>1. unannounced' \subseteq unannounced /\ unannounced \subseteq Refreshes
    BY <1>2 DEF SharedInv, AnnounceOK
  <2> SUFFICES ASSUME NEW v \in unannounced'
               PROVE  \/ Quiet(v)'
                      \/ v \in Sides /\ stage'[v] = "commit"
                      \/ /\ v \in Primary /\ next' # None
                         /\ v[2] = round' /\ Changed(v)'
                         /\ stage'[v] = "commit" \/ (v \in Cleanups /\ outcome'[v] = "ok")
    BY <2>1 DEF AnnounceOK
  <2>2. \/ Quiet(v)
        \/ v \in Sides /\ stage[v] = "commit"
        \/ /\ v \in Primary /\ next # None
           /\ v[2] = round /\ Changed(v)
           /\ stage[v] = "commit" \/ (v \in Cleanups /\ outcome[v] = "ok")
    BY <2>1 DEF SharedInv, AnnounceOK
  <2>3. CASE w \in Cleanups
    BY <1>1, <1>3, <1>4, <2>1, <2>2, <2>3, Names DEF Quiet, Changed
  <2>4. CASE w \in Deltas
    <3>1. v \in Primary /\ ~Quiet(v) => v = w
      <4> SUFFICES ASSUME v \in Primary, ~Quiet(v), v # w
                   PROVE  FALSE
        OBVIOUS
      <4>1. ~Removed
        BY <1>2, <2>4, Names
      <4> QED
        BY <1>1, <2>1, <2>4, <4>1, NothingLeft
    <3> QED
      BY <1>1, <1>3, <2>1, <2>2, <2>4, <3>1, Names DEF Quiet, Changed
  <2>5. CASE w \in Sides
    <3>1. next' = next
      BY <1>2, <2>5, Names
    <3> QED
      BY <1>1, <1>3, <2>1, <2>2, <3>1 DEF Quiet, Changed
  <2> QED
    BY <2>3, <2>4, <2>5, Names
<1> QED
  BY <1>3, <1>4, <1>6, <1>7 DEF SharedInv

LEMMA RequestKeeps ==
  ASSUME SharedInv, NEW h \in Handlers, StartRequest(h) \/ FinishRequest(h)
  PROVE  SharedInv'
<1>1. UNCHANGED <<queueVars, stage, changes, roundVars>>
  BY DEF StartRequest, FinishRequest
<1>2. PICK p : LockFacts!LockInv' /\ OnlyMoved(h, p)
  <2>1. CASE StartRequest(h)
    BY <2>1, ReadAsked DEF StartRequest, SharedInv, LockOK
  <2>2. CASE FinishRequest(h)
    BY <2>2, ReadGivenBack DEF FinishRequest, SharedInv, LockOK
  <2> QED
    BY <2>1, <2>2
<1>3. \A v \in Refreshes : v # h
  BY CallsAreDistinct
<1>4. LockOK'
  BY <1>1, <1>2, <1>3, OthersLocked DEF LockOK
<1> QED
  BY <1>1, <1>4, LeftAlone DEF SharedInv, roundVars, queueVars

LEMMA SharedStep ==
  ASSUME SharedInv, [RefreshNext]_refreshVars
  PROVE  SharedInv'
<1>1. CASE UNCHANGED refreshVars
  BY <1>1, LeftAlone DEF SharedInv, refreshVars, roundVars, queueVars
<1>2. ASSUME NEW w \in Refreshes, RefreshStep(w)
      PROVE  SharedInv'
  BY <1>2, CallRefreshKeeps, BeginOperationKeeps, FinishOperationKeeps, OperationFailsKeeps,
     SendCommitKeeps, PublicationTimeoutKeeps, CommitKeeps, CommittedKeeps, RefreshFailsKeeps
     DEF RefreshStep
<1>3. ASSUME NEW h \in Handlers, StartRequest(h) \/ StartRecovery(h) \/ FinishRequest(h)
      PROVE  SharedInv'
  BY <1>3, RequestKeeps, CalledKeeps DEF StartRecovery, MainWrites
<1>4. ASSUME NEW m \in MainWrites, CallDeletion(m) \/ RunMainWrite(m)
      PROVE  SharedInv'
  BY <1>4, CalledKeeps, RunMainWriteKeeps DEF CallDeletion
<1> QED
  BY <1>1, <1>2, <1>3, <1>4, StartRoundKeeps, PlanFailsKeeps DEF RefreshNext

LEMMA SharedAlways == RefreshSpec => []SharedInv
<1> QED
  BY StartsHolding, SharedStep, PTL DEF RefreshSpec

LEMMA SharedMeans ==
  ASSUME SharedInv
  PROVE  RefreshInv /\ CursorBacked /\ NoSilentChange
<1>1. RefreshTypeOK
  <2>1. Lock!LockTypeOK
    BY DEF SharedInv, LockOK, LockFacts!LockInv, LockFacts!LockTypeOK, Lock!LockTypeOK,
           Lock!Calls, LockFacts!Calls, Lock!Phases, LockFacts!Phases
  <2> QED
    BY <2>1 DEF SharedInv, QueueOK, StagesOK, RoundOK, CursorOK, AnnounceOK, RefreshTypeOK,
                Operations, ChangeReports
<1>2. LockInsideTransaction
  <2>1. ASSUME NEW w \in Refreshes
        PROVE  /\ phase[w] = "waiting" => stage[w] = "publish"
               /\ phase[w] = "holding" => stage[w] \in {"publish", "commit"}
    <3>1. stage[w] \in Stages /\ Locked(w)
      BY DEF SharedInv, StagesOK, LockOK
    <3> QED
      BY <3>1 DEF Stages, Locked
  <2>2. ASSUME NEW v \in Refreshes, NEW w \in Refreshes,
               {stage[v], stage[w]} \subseteq {"operation", "publish", "commit", "abort"}
        PROVE  v = w
    BY <2>2, OneOpen DEF SharedInv, Working
  <2> QED
    BY <2>1, <2>2 DEF LockInsideTransaction
<1>3. CursorBacked
  BY DEF SharedInv, CursorOK, CursorBacked
<1>4. NoSilentChange
  BY DEF SharedInv, AnnounceOK, NoSilentChange, Quiet
<1> QED
  BY <1>1, <1>2, <1>3, <1>4 DEF RefreshInv

(* However refreshes, requests, deletions and recoveries interleave and      *)
(* fail: a refresh has the publication lock only inside its transaction, and *)
(* one transaction is open at a time (runConsistentDatabaseRefresh).         *)
THEOREM TransactionsFrameTheLock == RefreshSpec => []RefreshInv
<1>1. SharedInv => RefreshInv
  BY SharedMeans
<1> QED
  BY <1>1, SharedAlways, PTL

(* "failed refreshes retain their previous cursor" (DEVELOPMENT.md): what    *)
(* the next delta starts from is committed, whatever failed before it.       *)
THEOREM CursorIsBacked == RefreshSpec => []CursorBacked
<1>1. SharedInv => CursorBacked
  BY SharedMeans
<1> QED
  BY <1>1, SharedAlways, PTL

(* No committed change of a round that is over stays unannounced, unless the *)
(* answer to its commit was lost or a reconcile window failed after it had   *)
(* written (publishCleanupChanges, updateCacheDelta).                        *)
THEOREM ChangesAreTold == RefreshSpec => []NoSilentChange
<1>1. SharedInv => NoSilentChange
  BY SharedMeans
<1> QED
  BY <1>1, SharedAlways, PTL

(* Rows that readers see change only in a commit, and a commit that changes  *)
(* some has the lock: every read of a request is of one revision, as far as  *)
(* refreshes go (ensurePublishedRevisionRead).                               *)
THEOREM RevisionIsStable == RefreshSpec => StableRevision
<1>1. ASSUME SharedInv, [RefreshNext]_refreshVars,
             NEW h \in Handlers, phase[h] = "holding"
      PROVE  Visible' = Visible
  <2>1. ASSUME NEW w \in Refreshes, Commit(w)
        PROVE  Visible' = Visible
    <3>1. /\ stage[w] = "commit" /\ log' = Append(log, w) /\ changes' = changes
      BY <2>1 DEF Commit, Store!TakeEffect
    <3>2. \A v : Logged(v)' <=> Logged(v) \/ v = w
      BY <1>1, <3>1, LogGrows, Names DEF SharedInv, QueueOK
    <3>3. phase[w] # "holding"
      <4>1. LockFacts!MutualExclusion
        BY <1>1 DEF SharedInv, LockOK, LockFacts!LockInv
      <4>2. h # w
        BY CallsAreDistinct
      <4> QED
        BY <1>1, <4>1, <4>2 DEF LockFacts!MutualExclusion, LockFacts!Holding, LockFacts!Calls
    <3>4. changes[w] = "none"
      BY <1>1, <3>1, <3>3 DEF SharedInv, LockOK, Locked
    <3> QED
      BY <3>1, <3>2, <3>4 DEF Visible, Changed
  <2>2. ASSUME NEW w \in Refreshes, FinishOperation(w)
        PROVE  Visible' = Visible
    <3>1. stage[w] = "operation" /\ log' = log
          /\ \E c : changes' = [changes EXCEPT ![w] = c]
      BY <2>2 DEF FinishOperation, queueVars
    <3>2. ~Logged(w) /\ (\A v : Logged(v)' <=> Logged(v))
      BY <1>1, <3>1 DEF SharedInv, StagesOK, Logged
    <3>3. \A v \in Refreshes : v # w => changes'[v] = changes[v]
      BY <1>1, <3>1 DEF SharedInv, StagesOK
    <3> QED
      BY <3>2, <3>3 DEF Visible, Changed
  <2>3. ASSUME NEW m \in MainWrites, RunMainWrite(m)
        PROVE  Visible' = Visible
    <3>1. log' = Append(log, m) /\ changes' = changes
      BY <2>3 DEF RunMainWrite, Store!TakeEffect
    <3>2. \A v : Logged(v)' <=> Logged(v) \/ v = m
      BY <1>1, <3>1, LogGrows DEF SharedInv, QueueOK, Operations
    <3> QED
      BY <3>1, <3>2, CallsAreDistinct DEF Visible, Changed
  <2>4. log' = log /\ changes' = changes => Visible' = Visible
    BY DEF Visible, Logged, Changed
  <2>5. CASE UNCHANGED refreshVars
    BY <2>4, <2>5 DEF refreshVars, queueVars
  <2>6. ASSUME NEW w \in Refreshes, RefreshStep(w)
        PROVE  Visible' = Visible
    <3>1. CASE CallRefresh(w)
      BY <2>4, <3>1 DEF CallRefresh, Store!Call
    <3>2. CASE BeginOperation(w) \/ OperationFails(w) \/ SendCommit(w) \/ PublicationTimeout(w)
      BY <2>4, <3>2 DEF BeginOperation, OperationFails, SendCommit, PublicationTimeout, queueVars
    <3>3. CASE Committed(w) \/ RefreshFails(w)
      BY <2>4, <3>3 DEF Committed, RefreshFails, Fail
    <3> QED
      BY <2>1, <2>2, <2>6, <3>1, <3>2, <3>3 DEF RefreshStep
  <2>7. ASSUME NEW k \in Handlers, StartRequest(k) \/ StartRecovery(k) \/ FinishRequest(k)
        PROVE  Visible' = Visible
    BY <2>4, <2>7 DEF StartRequest, StartRecovery, FinishRequest, Store!Call, queueVars
  <2>8. CASE StartRound \/ PlanFails
    BY <2>4, <2>8 DEF StartRound, PlanFails, queueVars
  <2>9. ASSUME NEW m \in MainWrites, CallDeletion(m)
        PROVE  Visible' = Visible
    BY <2>4, <2>9 DEF CallDeletion, Store!Call
  <2> QED
    BY <1>1, <2>3, <2>5, <2>6, <2>7, <2>8, <2>9 DEF RefreshNext
<1>2. SharedInv /\ [RefreshNext]_refreshVars
        => [\A h \in Handlers :
              (phase[h] = "holding" /\ phase'[h] = "holding") => Visible' = Visible]_refreshVars
  BY <1>1
<1> QED
  BY <1>2, SharedAlways, PTL DEF RefreshSpec, StableRevision
-----------------------------------------------------------------------------
(* Which alert windows are read again (Reconcile).                           *)

(* A set of numbers that is not empty has a least one.                       *)
LEMMA LeastOf ==
  ASSUME NEW S \in SUBSET Nat, S # {}
  PROVE  \E n \in S : \A m \in S : n <= m
<1>1. OpToRel(<, Nat) = {p \in Nat \X Nat : p[1] < p[2]}
  BY Zenon DEF OpToRel
<1>2. IsWellFoundedOn({p \in Nat \X Nat : p[1] < p[2]}, Nat)
  BY <1>1, NatLessThanWellFounded
<1>3. \A R : IsWellFoundedOn(R, Nat) => \E n \in S : \A m \in S : ~ (<<m, n>> \in R)
  BY WFMin, Zenon
<1>4. PICK n \in S : \A m \in S : ~ (<<m, n>> \in {p \in Nat \X Nat : p[1] < p[2]})
  BY <1>2, <1>3, Zenon
<1>5. ASSUME NEW m \in S PROVE n <= m
  <2>1. <<m, n>> \in Nat \X Nat /\ <<m, n>>[1] = m /\ <<m, n>>[2] = n
    OBVIOUS
  <2>2. ~ (m < n)
    BY <1>4, <2>1, Zenon
  <2> QED
    BY <2>2
<1> QED
  BY <1>5

(* A finite set has an element that no other comes before: the one that the  *)
(* fewest come before.                                                       *)
LEMMA FirstOf ==
  ASSUME NEW S, IsFiniteSet(S), S # {}, NEW R,
         \A a \in S : <<a, a>> \notin R,
         \A a, b, c \in S : <<a, b>> \in R /\ <<b, c>> \in R => <<a, c>> \in R
  PROVE  \E m \in S : \A o \in S : <<o, m>> \notin R
<1> DEFINE earlier(a) == {o \in S : <<o, a>> \in R}
           ranks == {Cardinality(earlier(a)) : a \in S}
<1>1. \A a \in S : IsFiniteSet(earlier(a)) /\ Cardinality(earlier(a)) \in Nat
  BY FS_Subset, FS_CardinalityType
<1>2. ranks \in SUBSET Nat /\ ranks # {}
  <2> HIDE DEF earlier
  <2> QED
    BY <1>1
<1>3. PICK n \in ranks : \A k \in ranks : n <= k
  <2> HIDE DEF ranks
  <2> QED
    BY <1>2, LeastOf
<1>4. PICK m \in S : n = Cardinality(earlier(m))
  OBVIOUS
<1>5. ASSUME NEW o \in S, <<o, m>> \in R PROVE FALSE
  <2>1. earlier(o) \in SUBSET earlier(m) /\ o \in earlier(m) \ earlier(o)
    BY <1>5
  <2>2. Cardinality(earlier(o)) <= Cardinality(earlier(m))
        /\ Cardinality(earlier(o)) # Cardinality(earlier(m))
    <3> HIDE DEF earlier
    <3> QED
      BY <1>1, <2>1, FS_Subset
  <2> HIDE DEF earlier
  <2>3. n <= Cardinality(earlier(o))
    BY <1>3
  <2> QED
    BY <1>1, <1>4, <2>2, <2>3
<1> QED
  BY <1>5

WindowRecords == [age : Nat, never : BOOLEAN, bad : BOOLEAN, wait : Nat]

(* The window o, with the record l, succeeded before the window w, with r.   *)
Before(o, l, w, r) ==
    l.never \/ (~r.never /\ (l.age > r.age \/ (l.age = r.age /\ o > w)))

(* The windows that LAPI answers for and that are read before w, if no slot  *)
(* but the one for the oldest success is left.                               *)
AheadOf(ws, w) == {o \in Candidates \ {w} : ~ws[o].bad /\ Before(o, ws[o], w, ws[w])}

(* Each refresh in which w is due either reads it or reads one of those      *)
(* ahead of it, and only a window that closes comes in ahead.                *)
Budget(ws, w, e) ==
    (WindowLength - 1) * ws[w].wait + WindowLength * Cardinality(AheadOf(ws, w)) + e
        <= WindowLength * NumClosed + (WindowLength - 1)

ReconcileInv ==
    /\ slots \in Nat \ {0}
    /\ elapsed \in 0 .. (WindowLength - 1)
    /\ windows \in [Candidates -> WindowRecords]
    /\ \A w \in Candidates : windows[w].bad => windows[w].never /\ w # OpenWindow
    /\ FewerBadThan(slots, windows)
    /\ \A w \in Candidates : ~windows[w].bad => Budget(windows, w, elapsed)

LEMMA ReconcileConstants ==
  /\ NumClosed \in Nat \ {0} /\ WindowLength \in Nat \ {0}
  /\ ActiveInterval \in Nat \ {0} /\ RecentInterval \in Nat \ {0} /\ OldInterval \in Nat \ {0}
  /\ MaxSlots \in Nat \ {0} /\ RecentAge \in Nat /\ MaxWait \in Nat
BY ReconcileAssumption

LEMMA CandidatesAre ==
  /\ Candidates = 0 .. NumClosed /\ Candidates \subseteq Nat /\ OpenWindow = 0
  /\ IsFiniteSet(Candidates) /\ Cardinality(Candidates) = NumClosed + 1
<1>1. Candidates = 0 .. NumClosed /\ Candidates \subseteq Nat /\ OpenWindow = 0
  BY ReconcileConstants DEF Candidates, OpenWindow
<1>2. IsFiniteSet(0 .. NumClosed) /\ Cardinality(0 .. NumClosed) = NumClosed + 1
  BY ReconcileConstants, FS_Interval
<1> QED
  BY <1>1, <1>2

LEMMA AheadIsBounded ==
  ASSUME NEW ws, NEW w \in Candidates
  PROVE  /\ IsFiniteSet(AheadOf(ws, w))
         /\ Cardinality(AheadOf(ws, w)) \in Nat
         /\ Cardinality(AheadOf(ws, w)) <= NumClosed
<1>1. IsFiniteSet(Candidates \ {w}) /\ Cardinality(Candidates \ {w}) = NumClosed
  <2>1. IsFiniteSet(Candidates \ {w}) /\ Cardinality(Candidates \ {w}) = Cardinality(Candidates) - 1
    BY CandidatesAre, FS_RemoveElement
  <2> QED
    BY <2>1, CandidatesAre, ReconcileConstants
<1>2. AheadOf(ws, w) \in SUBSET (Candidates \ {w})
  BY DEF AheadOf
<1> QED
  BY <1>1, <1>2, FS_Subset, FS_CardinalityType

(* Who does not wait is within the budget.                                   *)
LEMMA NoWaitNoDebt ==
  ASSUME NEW ws, NEW w \in Candidates, ws[w].wait = 0, NEW e \in 0 .. (WindowLength - 1)
  PROVE  Budget(ws, w, e)
<1> DEFINE c == Cardinality(AheadOf(ws, w))
<1>1. c \in Nat /\ c <= NumClosed
  BY AheadIsBounded
<1> HIDE DEF c
<1>2. \A l, k, n \in Nat : k <= n => l * k <= l * n
  OBVIOUS
<1>3. WindowLength * c <= WindowLength * NumClosed
  BY <1>1, <1>2, ReconcileConstants
<1>4. (WindowLength - 1) * ws[w].wait = 0
  BY ReconcileConstants
<1>5. WindowLength * c \in Nat /\ WindowLength * NumClosed \in Nat
  BY <1>1, ReconcileConstants
<1> QED
  BY <1>3, <1>4, <1>5, ReconcileConstants DEF Budget, c

-----------------------------------------------------------------------------
(* What one refresh reads.                                                   *)

Read(active, w) == w \in Plan(active) /\ ~windows[w].bad

Refreshed(active) == Aged(Recorded(active))

LEMMA DueWindows ==
  ASSUME ReconcileInv, NEW active
  PROVE  /\ Due(active) \subseteq Candidates
         /\ \A w \in Candidates : windows[w].never => w \in Due(active)
         /\ \A w \in Due(active) : windows[w].never \/ windows[w].age >= 1
<1>1. \A w \in Candidates : Interval(w, active) \in Nat \ {0}
  BY ReconcileConstants DEF Interval
<1>2. \A w \in Candidates : windows[w].age \in Nat
  BY DEF ReconcileInv, WindowRecords
<1> QED
  BY <1>1, <1>2 DEF Due

LEMMA PlanIsDue ==
  ASSUME NEW active
  PROVE  Plan(active) \subseteq Due(active)
BY DEF Plan, MostUrgent, OldestOf

LEMMA RefreshedFields ==
  ASSUME ReconcileInv, NEW active
  PROVE  /\ Refreshed(active) \in [Candidates -> WindowRecords]
         /\ \A w \in Candidates :
               /\ Refreshed(active)[w].bad = windows[w].bad
               /\ Read(active, w) => /\ ~Refreshed(active)[w].never
                                     /\ Refreshed(active)[w].age = 1
                                     /\ Refreshed(active)[w].wait = 0
               /\ ~Read(active, w) =>
                     /\ Refreshed(active)[w].never = windows[w].never
                     /\ Refreshed(active)[w].age =
                           windows[w].age + (IF windows[w].never THEN 0 ELSE 1)
                     /\ Refreshed(active)[w].wait =
                           IF w \in Due(active) THEN windows[w].wait + 1 ELSE 0
<1> DEFINE rs == Recorded(active)
<1>1. \A w \in Candidates : windows[w] \in WindowRecords
  BY DEF ReconcileInv
<1>2. rs = [w \in Candidates |->
              IF w \in Plan(active) /\ ~windows[w].bad THEN Fresh(FALSE, FALSE)
              ELSE [windows[w] EXCEPT !.wait = IF w \in Due(active) THEN @ + 1 ELSE 0]]
  BY DEF Recorded
<1> HIDE DEF rs
<1>3. Refreshed(active) = [w \in Candidates |->
          IF rs[w].never THEN rs[w] ELSE [rs[w] EXCEPT !.age = @ + 1]]
  BY <1>2 DEF Refreshed, Aged, rs
<1>4. ASSUME NEW w \in Candidates, Read(active, w)
      PROVE  /\ Refreshed(active)[w] \in WindowRecords
             /\ ~windows[w].bad /\ ~Refreshed(active)[w].bad /\ ~Refreshed(active)[w].never
             /\ Refreshed(active)[w].age = 1
             /\ Refreshed(active)[w].wait = 0
  <2>1. rs[w] = [age |-> 0, never |-> FALSE, bad |-> FALSE, wait |-> 0] /\ ~windows[w].bad
    BY <1>2, <1>4 DEF Read, Fresh
  <2>2. /\ rs[w] \in WindowRecords /\ rs[w].age = 0 /\ rs[w].wait = 0
        /\ rs[w].never = FALSE /\ rs[w].bad = FALSE
    BY <2>1 DEF WindowRecords
  <2>3. Refreshed(active)[w] = [rs[w] EXCEPT !.age = @ + 1]
    BY <1>3, <2>2
  <2>4. /\ Refreshed(active)[w] \in WindowRecords
        /\ Refreshed(active)[w].age = rs[w].age + 1 /\ Refreshed(active)[w].wait = rs[w].wait
        /\ Refreshed(active)[w].never = rs[w].never /\ Refreshed(active)[w].bad = rs[w].bad
    BY <2>2, <2>3 DEF WindowRecords
  <2> QED
    BY <2>1, <2>2, <2>4
<1>5. ASSUME NEW w \in Candidates, ~Read(active, w)
      PROVE  /\ Refreshed(active)[w] \in WindowRecords
             /\ Refreshed(active)[w].bad = windows[w].bad
             /\ Refreshed(active)[w].never = windows[w].never
             /\ Refreshed(active)[w].age = windows[w].age + (IF windows[w].never THEN 0 ELSE 1)
             /\ Refreshed(active)[w].wait = IF w \in Due(active) THEN windows[w].wait + 1 ELSE 0
  <2>1. rs[w] = [windows[w] EXCEPT !.wait = IF w \in Due(active) THEN @ + 1 ELSE 0]
    BY <1>2, <1>5 DEF Read
  <2>2. windows[w] \in WindowRecords
    BY <1>1
  <2>3. /\ rs[w] \in WindowRecords
        /\ rs[w].bad = windows[w].bad /\ rs[w].never = windows[w].never
        /\ rs[w].age = windows[w].age
        /\ rs[w].wait = IF w \in Due(active) THEN windows[w].wait + 1 ELSE 0
    BY <2>1, <2>2 DEF WindowRecords
  <2>4. Refreshed(active)[w] = IF rs[w].never THEN rs[w] ELSE [rs[w] EXCEPT !.age = @ + 1]
    BY <1>3
  <2> QED
    BY <2>2, <2>3, <2>4 DEF WindowRecords
<1>6. \A w \in Candidates : Read(active, w) =>
         Refreshed(active)[w].bad = windows[w].bad
  BY <1>1, <1>4 DEF WindowRecords
<1>7. Refreshed(active) \in [Candidates -> WindowRecords]
  <2>1. \A w \in Candidates : Refreshed(active)[w] \in WindowRecords
    BY <1>4, <1>5
  <2> QED
    BY <1>3, <2>1
<1> QED
  BY <1>4, <1>5, <1>6, <1>7

(* If some window waits for a slot, the reserved slot has been given.        *)
LEMMA OldestExists ==
  ASSUME ReconcileInv, NEW S \in SUBSET Candidates, S # {}
  PROVE  OldestOf(S) # {}
<1> DEFINE R == {p \in S \X S : Older(p[1], p[2])}
<1>1. IsFiniteSet(S) /\ S \subseteq Nat
  BY CandidatesAre, FS_Subset
<1>2. \A w \in S : windows[w].never \in BOOLEAN /\ windows[w].age \in Nat
  BY DEF ReconcileInv, WindowRecords
<1>3. \A a, b \in S : <<a, b>> \in R <=> Older(a, b)
  OBVIOUS
<1>4. \A a \in S : ~Older(a, a)
  BY <1>1 DEF Older
<1>5. \A a, b, c \in S : Older(a, b) /\ Older(b, c) => Older(a, c)
  BY <1>1, <1>2 DEF Older
<1>6. ASSUME NEW a \in S, NEW b \in S PROVE a = b \/ Older(a, b) \/ Older(b, a)
  <2>1. /\ a \in Nat /\ b \in Nat /\ windows[a].age \in Nat /\ windows[b].age \in Nat
        /\ windows[a].never \in BOOLEAN /\ windows[b].never \in BOOLEAN
    BY <1>1, <1>2
  <2>2. CASE windows[a].never # windows[b].never
    BY <2>1, <2>2 DEF Older
  <2>3. CASE windows[a].never = windows[b].never
    BY <2>1, <2>3 DEF Older
  <2> QED
    BY <2>2, <2>3
<1> HIDE DEF R
<1>7. PICK m \in S : \A o \in S : <<o, m>> \notin R
  <2>1. \A a \in S : <<a, a>> \notin R
    BY <1>3, <1>4
  <2>2. \A a, b, c \in S : <<a, b>> \in R /\ <<b, c>> \in R => <<a, c>> \in R
    BY <1>3, <1>5
  <2> QED
    BY <1>1, <2>1, <2>2, FirstOf
<1>8. m \in OldestOf(S)
  BY <1>3, <1>6, <1>7 DEF OldestOf
<1> QED
  BY <1>8

(* Windows without a success come first by urgency, and fewer fail than      *)
(* there are slots: one that is left over means that another was read.       *)
LEMMA NeverIsRead ==
  ASSUME ReconcileInv, NEW active, NEW x \in Due(active) \ MostUrgent(active, slots - 1),
         windows[x].never, windows[x].bad
  PROVE  \E y \in MostUrgent(active, slots - 1) : windows[y].never /\ ~windows[y].bad
<1> DEFINE N == {o \in Due(active) : windows[o].never}
           F == N \cap MostUrgent(active, slots - 1)
           R == {p \in N \X N : MoreUrgent(p[1], p[2], active)}
           failing == {w \in Closed : windows[w].bad}
<1>1. Due(active) \subseteq Candidates /\ N \subseteq Candidates /\ N \subseteq Nat /\ IsFiniteSet(N)
  BY CandidatesAre, DueWindows, FS_Subset
<1>2. \A a, b \in N : MoreUrgent(a, b, active) <=>
          IF (a \in active) # (b \in active) THEN a \in active ELSE a < b
  BY DEF MoreUrgent
<1>3. \A a \in Due(active), b \in N : MoreUrgent(a, b, active) => a \in N
  <2>1. \A w \in Due(active) : windows[w].never \in BOOLEAN
    BY <1>1 DEF ReconcileInv, WindowRecords
  <2> QED
    BY <2>1 DEF MoreUrgent
<1>4. \A a, b \in N : <<a, b>> \in R <=> MoreUrgent(a, b, active)
  OBVIOUS
<1>5. SUFFICES ASSUME \A y \in F : windows[y].bad PROVE FALSE
  OBVIOUS
<1>6. PICK m \in N \ F : \A o \in N \ F : <<o, m>> \notin R
  <2>1. x \in N \ F /\ IsFiniteSet(N \ F)
    BY <1>1, FS_Subset
  <2>2. \A a \in N \ F : <<a, a>> \notin R
    <3> HIDE DEF R, N, F
    <3> QED
      BY <1>1, <1>2, <1>4 DEF F
  <2>3. \A a, b, c \in N \ F : <<a, b>> \in R /\ <<b, c>> \in R => <<a, c>> \in R
    <3>1. \A a, b, c \in N : MoreUrgent(a, b, active) /\ MoreUrgent(b, c, active)
                                => MoreUrgent(a, c, active)
      <4> HIDE DEF N, R, F
      <4> QED
        BY <1>1, <1>2
    <3> HIDE DEF R, N, F
    <3> QED
      BY <1>4, <3>1
  <2> HIDE DEF N, F, R
  <2> QED
    BY <2>1, <2>2, <2>3, FirstOf
<1> DEFINE first == {o \in Due(active) : MoreUrgent(o, m, active)}
<1>7. first \subseteq F
  BY <1>3, <1>4, <1>6
<1>8. IsFiniteSet(F) /\ IsFiniteSet(failing) /\ IsFiniteSet(first)
  <2>1. failing \subseteq Candidates
    BY DEF Closed, Candidates, OpenWindow
  <2> QED
    BY <1>1, <1>7, <2>1, CandidatesAre, FS_Subset
<1>9. ~(Cardinality(first) < slots - 1)
  BY <1>6 DEF MostUrgent
<1>10. F \cup {x} \in SUBSET failing /\ x \notin F
  <2>1. \A w \in Candidates : windows[w].bad => w \in Closed
    BY CandidatesAre, ReconcileConstants DEF ReconcileInv, Closed
  <2> QED
    BY <1>1, <1>5, <2>1
<1>11. /\ Cardinality(first) <= Cardinality(F)
       /\ Cardinality(F \cup {x}) = Cardinality(F) + 1
       /\ Cardinality(F \cup {x}) <= Cardinality(failing)
       /\ Cardinality(failing) < slots
  <2>1. Cardinality(failing) < slots
    BY DEF ReconcileInv, FewerBadThan
  <2> HIDE DEF F, failing, first
  <2> QED
    BY <1>7, <1>8, <1>10, <2>1, FS_Subset, FS_AddElement
<1>12. Cardinality(first) \in Nat /\ Cardinality(F) \in Nat /\ Cardinality(failing) \in Nat /\ slots \in Nat
  <2> HIDE DEF F, failing, first
  <2> QED
    BY <1>8, FS_CardinalityType DEF ReconcileInv
<1> HIDE DEF F, failing, first
<1> QED
  BY <1>9, <1>11, <1>12

(* A due window that is not read is passed by one ahead of it, which then    *)
(* is behind it.                                                             *)
LEMMA SomeoneAheadIsRead ==
  ASSUME ReconcileInv, NEW active, NEW w \in Due(active), ~windows[w].bad, ~Read(active, w)
  PROVE  \E y \in AheadOf(windows, w) : Read(active, y)
<1> DEFINE first == MostUrgent(active, slots - 1)
           rest == Due(active) \ first
<1>1. Due(active) \subseteq Candidates /\ first \subseteq Due(active)
  BY DueWindows DEF MostUrgent
<1>2. Plan(active) = first \cup OldestOf(rest)
  BY DEF Plan
<1>3. w \in rest /\ w \notin Plan(active)
  BY <1>2 DEF Read
<1>4. PICK x \in OldestOf(rest) : TRUE
  BY <1>1, <1>3, OldestExists
<1>5. x \in rest /\ x # w /\ Older(x, w)
  BY <1>2, <1>3, <1>4 DEF OldestOf
<1>6. \A o \in Candidates : windows[o].never \in BOOLEAN /\ windows[o].age \in Nat
  BY DEF ReconcileInv, WindowRecords
<1>7. CASE ~windows[x].bad
  <2>1. Before(x, windows[x], w, windows[w])
    BY <1>1, <1>3, <1>5, <1>6 DEF Older, Before
  <2> QED
    BY <1>1, <1>2, <1>4, <1>5, <1>7, <2>1 DEF AheadOf, Read
<1>8. CASE windows[x].bad
  <2>1. windows[x].never
    BY <1>1, <1>5, <1>8 DEF ReconcileInv
  <2>2. PICK y \in first : windows[y].never /\ ~windows[y].bad
    BY <1>5, <1>8, <2>1, NeverIsRead
  <2> QED
    BY <1>1, <1>2, <1>3, <2>2 DEF AheadOf, Read, Before
<1> QED
  BY <1>7, <1>8

LEMMA FewerAhead ==
  ASSUME ReconcileInv, NEW active, NEW w \in Due(active), ~windows[w].bad, ~Read(active, w)
  PROVE  Cardinality(AheadOf(Refreshed(active), w)) + 1 <= Cardinality(AheadOf(windows, w))
<1> DEFINE ws == Refreshed(active)
           old == AheadOf(windows, w)
           new == AheadOf(ws, w)
<1>1. w \in Candidates /\ windows[w].never \in BOOLEAN /\ windows[w].age \in Nat
      /\ (windows[w].never \/ windows[w].age >= 1)
  BY DueWindows DEF ReconcileInv, WindowRecords
<1>2. ws[w].never = windows[w].never
      /\ ws[w].age = windows[w].age + (IF windows[w].never THEN 0 ELSE 1)
  BY <1>1, RefreshedFields
<1>3. ASSUME NEW o \in Candidates, Read(active, o) PROVE o \notin new
  <2>1. ~ws[o].never /\ ws[o].age = 1
    BY <1>3, RefreshedFields
  <2> HIDE DEF ws
  <2> QED
    BY <1>1, <1>2, <2>1 DEF AheadOf, Before
<1>4. ASSUME NEW o \in new, ~Read(active, o) PROVE o \in old
  <2>1. o \in Candidates \ {w} /\ ~ws[o].bad /\ Before(o, ws[o], w, ws[w])
    BY DEF AheadOf
  <2>2. /\ ws[o].never = windows[o].never /\ ws[o].bad = windows[o].bad
        /\ ws[o].age = windows[o].age + (IF windows[o].never THEN 0 ELSE 1)
    BY <1>4, <2>1, RefreshedFields
  <2>3. windows[o].never \in BOOLEAN /\ windows[o].age \in Nat
    BY <2>1 DEF ReconcileInv, WindowRecords
  <2> HIDE DEF ws
  <2>4. Before(o, windows[o], w, windows[w])
    BY <1>1, <1>2, <2>1, <2>2, <2>3 DEF Before
  <2> QED
    BY <2>1, <2>2, <2>4 DEF AheadOf
<1>5. PICK y \in old : Read(active, y)
  BY SomeoneAheadIsRead
<1>6. new \in SUBSET (old \ {y})
  <2>1. new \subseteq Candidates /\ old \subseteq Candidates
    BY DEF AheadOf
  <2> HIDE DEF new, old
  <2> QED
    BY <1>3, <1>4, <1>5, <2>1
<1>7. IsFiniteSet(old) /\ Cardinality(old) \in Nat
  BY <1>1, AheadIsBounded
<1>8. IsFiniteSet(old \ {y}) /\ Cardinality(old \ {y}) = Cardinality(old) - 1
  <2> HIDE DEF old
  <2> QED
    BY <1>5, <1>7, FS_RemoveElement
<1>9. Cardinality(new) <= Cardinality(old) - 1 /\ Cardinality(new) \in Nat
  <2>1. Cardinality(new) \in Nat
    BY <1>1, AheadIsBounded
  <2> HIDE DEF old, new
  <2> QED
    BY <1>6, <1>8, <2>1, FS_Subset
<1> HIDE DEF old, new
<1>10. Cardinality(new) + 1 <= Cardinality(old)
  BY <1>7, <1>9
<1> QED
  BY <1>10 DEF old, new, ws

(* When the open window closes, every other one moves on by one number.      *)
Back(w) == IF w = OpenWindow THEN OpenWindow ELSE w - 1

LEMMA OneMoreAhead ==
  ASSUME NEW ws \in [Candidates -> WindowRecords], NEW bad \in BOOLEAN, NEW w \in Candidates \ {1}
  PROVE  /\ Back(w) \in Candidates
         /\ Shifted(ws, bad)[w] = ws[Back(w)]
         /\ Cardinality(AheadOf(Shifted(ws, bad), w)) <= Cardinality(AheadOf(ws, Back(w))) + 1
<1> DEFINE shifted == Shifted(ws, bad)
           new == AheadOf(shifted, w)
           old == AheadOf(ws, Back(w))
           f == [o \in new \ {1} |-> Back(o)]
<1>1. \A o \in Candidates \ {1} : /\ Back(o) \in Candidates /\ shifted[o] = ws[Back(o)]
                                  /\ Back(o) \in Nat /\ o \in Nat
  BY CandidatesAre, ReconcileConstants DEF Shifted, Back
<1>2. \A o, v \in Candidates \ {1} : /\ o > v <=> Back(o) > Back(v)
                                     /\ o # v => Back(o) # Back(v)
  BY CandidatesAre, ReconcileConstants DEF Back
<1>3. \A o \in Candidates : ws[o].never \in BOOLEAN /\ ws[o].bad \in BOOLEAN /\ ws[o].age \in Nat
  BY DEF WindowRecords
<1>4. ASSUME NEW o \in new \ {1} PROVE Back(o) \in old
  <2>1. o \in Candidates \ {1} /\ o # w /\ ~shifted[o].bad /\ Before(o, shifted[o], w, shifted[w])
    BY DEF AheadOf
  <2>2. shifted[o] = ws[Back(o)] /\ shifted[w] = ws[Back(w)] /\ (o > w <=> Back(o) > Back(w))
        /\ Back(o) # Back(w) /\ Back(o) \in Candidates
    BY <1>1, <1>2, <2>1
  <2> HIDE DEF shifted
  <2>3. Before(Back(o), ws[Back(o)], Back(w), ws[Back(w)])
    BY <2>1, <2>2 DEF Before
  <2> QED
    BY <2>1, <2>2, <2>3 DEF AheadOf
<1>5. IsFiniteSet(new) /\ IsFiniteSet(old) /\ Cardinality(new) \in Nat /\ Cardinality(old) \in Nat
  BY <1>1, AheadIsBounded
<1>6. f \in Injection(new \ {1}, old)
  <2>1. new \subseteq Candidates
    BY DEF AheadOf
  <2> HIDE DEF new, old
  <2> QED
    BY <1>2, <1>4, <2>1 DEF Injection, IsInjective
<1>7. Cardinality(new \ {1}) <= Cardinality(old)
  <2> HIDE DEF new, old, f
  <2> QED
    BY <1>5, <1>6, FS_Injection
<1>8. Cardinality(new) <= Cardinality(old) + 1
  <2> HIDE DEF new, old
  <2>1. Cardinality(new \ {1}) = IF 1 \in new THEN Cardinality(new) - 1 ELSE Cardinality(new)
    BY <1>5, FS_RemoveElement
  <2> QED
    BY <1>5, <1>7, <2>1
<1> QED
  BY <1>1, <1>8

-----------------------------------------------------------------------------
LEMMA ReconcileInvInit == ReconcileInit => ReconcileInv
<1> SUFFICES ASSUME ReconcileInit PROVE ReconcileInv
  OBVIOUS
<1>1. PICK never \in BOOLEAN, bad \in SUBSET Closed :
          windows = [w \in Candidates |-> Fresh(never \/ w \in bad, w \in bad)]
  BY DEF ReconcileInit
<1>2. ASSUME NEW w \in Candidates
      PROVE  /\ windows[w] \in WindowRecords /\ windows[w].wait = 0
             /\ windows[w].bad => windows[w].never /\ w \in bad
  <2>1. CASE w \in bad
    <3>1. windows[w] = [age |-> 0, never |-> TRUE, bad |-> TRUE, wait |-> 0]
      BY <1>1, <2>1 DEF Fresh
    <3> QED
      BY <2>1, <3>1 DEF WindowRecords
  <2>2. CASE w \notin bad
    <3>1. (never \/ w \in bad) = never /\ (w \in bad) = FALSE
      BY <2>2
    <3>2. windows[w] = [age |-> 0, never |-> never, bad |-> FALSE, wait |-> 0]
      BY <1>1, <3>1, Zenon DEF Fresh
    <3> QED
      BY <3>2 DEF WindowRecords
  <2> QED
    BY <2>1, <2>2
<1>3. windows \in [Candidates -> WindowRecords]
  <2>1. \A w \in Candidates : windows[w] \in WindowRecords
    BY <1>2
  <2> QED
    BY <1>1, <2>1
<1>4. elapsed = 0 /\ slots \in Nat \ {0} /\ FewerBadThan(slots, windows)
  BY ReconcileConstants DEF ReconcileInit
<1>5. \A w \in Candidates : windows[w].bad => windows[w].never /\ w # OpenWindow
  BY <1>2, ReconcileConstants DEF Closed, OpenWindow
<1>6. elapsed \in 0 .. (WindowLength - 1)
  BY <1>4, ReconcileConstants
<1>7. \A w \in Candidates : Budget(windows, w, elapsed)
  BY <1>2, <1>6, NoWaitNoDebt
<1> QED
  BY <1>3, <1>4, <1>5, <1>6, <1>7 DEF ReconcileInv

(* The arithmetic of one refresh: w waits once more, somebody ahead of it is *)
(* read, and time passes or a window closes.                                 *)
LEMMA BudgetStep ==
  ASSUME NEW l \in Nat \ {0}, NEW t \in Nat, NEW c \in Nat, NEW d \in Nat, NEW e \in Nat, NEW k \in Int,
         (l - 1) * t + l * c + e <= k
  PROVE  /\ d + 1 <= c => (l - 1) * (t + 1) + l * d + (e + 1) <= k
         /\ d <= c /\ e = l - 1 => (l - 1) * (t + 1) + l * d + 0 <= k
<1>1. (l - 1) * (t + 1) = (l - 1) * t + (l - 1)
  OBVIOUS
<1>2. (l - 1) * t \in Int /\ l * c \in Int /\ l * d \in Int
  OBVIOUS
<1>3. \A m, n \in Nat : m <= n => l * m <= l * n
  OBVIOUS
<1>4. d + 1 <= c => l * d + l <= l * c
  <2>1. d + 1 <= c => l * (d + 1) <= l * c
    BY <1>3
  <2>2. l * (d + 1) = l * d + l
    OBVIOUS
  <2> QED
    BY <2>1, <2>2
<1>5. d <= c => l * d <= l * c
  BY <1>3
<1> QED
  BY <1>1, <1>2, <1>4, <1>5

LEMMA ReconcileInvStep == ReconcileInv /\ [ReconcileNext]_reconcileVars => ReconcileInv'
<1>1. ASSUME ReconcileInv, UNCHANGED reconcileVars PROVE ReconcileInv'
  BY <1>1 DEF reconcileVars, ReconcileInv, FewerBadThan, Budget, AheadOf, Before
<1> SUFFICES ASSUME ReconcileInv, Refresh PROVE ReconcileInv'
  BY <1>1 DEF ReconcileNext
<1>2. PICK active \in SUBSET Candidates, bad \in BOOLEAN :
        LET ws == Aged(Recorded(active))
        IN  IF elapsed + 1 = WindowLength
            THEN /\ elapsed' = 0
                 /\ windows' = Shifted(ws, bad)
                 /\ FewerBadThan(slots, windows')
                 /\ UNCHANGED slots
            ELSE /\ ~bad
                 /\ elapsed' = elapsed + 1
                 /\ windows' = ws
                 /\ UNCHANGED slots
  BY DEF Refresh
<1> DEFINE ws == Refreshed(active)
<1>3. ws \in [Candidates -> WindowRecords]
  BY RefreshedFields
<1>4. \A w \in Candidates : ws[w].bad = windows[w].bad /\ (ws[w].bad => ws[w].never /\ w # OpenWindow)
  <2>1. \A w \in Candidates : windows[w].bad => ~Read(active, w)
    BY DEF Read
  <2> QED
    BY <2>1, RefreshedFields DEF ReconcileInv
<1>5. /\ elapsed \in 0 .. (WindowLength - 1) /\ WindowLength \in Nat \ {0} /\ NumClosed \in Nat
      /\ slots \in Nat \ {0} /\ windows \in [Candidates -> WindowRecords]
  BY ReconcileConstants DEF ReconcileInv
<1>6. ASSUME NEW w \in Candidates, ~windows[w].bad, ws[w].wait # 0
      PROVE  /\ Cardinality(AheadOf(ws, w)) + 1 <= Cardinality(AheadOf(windows, w))
             /\ ws[w].wait = windows[w].wait + 1
             /\ windows[w].wait \in Nat
  <2>1. w \in Due(active) /\ ~Read(active, w) /\ ws[w].wait = windows[w].wait + 1
    BY <1>6, RefreshedFields
  <2> QED
    BY <1>5, <1>6, <2>1, FewerAhead DEF WindowRecords
<1>7. \A w \in Candidates : ~windows[w].bad =>
        (WindowLength - 1) * windows[w].wait + WindowLength * Cardinality(AheadOf(windows, w)) + elapsed
            <= WindowLength * NumClosed + (WindowLength - 1)
  BY DEF ReconcileInv, Budget
<1>8. CASE elapsed + 1 # WindowLength
  <2>1. elapsed' = elapsed + 1 /\ windows' = ws /\ slots' = slots
    BY <1>2, <1>8 DEF Refreshed
  <2>2. elapsed' \in 0 .. (WindowLength - 1)
    BY <1>5, <1>8, <2>1
  <2>3. FewerBadThan(slots, ws)
    <3>1. {w \in Closed : ws[w].bad} = {w \in Closed : windows[w].bad}
      BY <1>4 DEF Closed, Candidates, OpenWindow
    <3> QED
      BY <3>1 DEF ReconcileInv, FewerBadThan
  <2>4. ASSUME NEW w \in Candidates, ~ws[w].bad PROVE Budget(ws, w, elapsed + 1)
    <3>1. CASE ws[w].wait = 0
      BY <2>1, <2>2, <3>1, NoWaitNoDebt
    <3>2. CASE ws[w].wait # 0
      <4> DEFINE c == Cardinality(AheadOf(windows, w))
                 d == Cardinality(AheadOf(ws, w))
      <4>1. c \in Nat /\ d \in Nat
        BY AheadIsBounded
      <4>2. d + 1 <= c /\ ws[w].wait = windows[w].wait + 1 /\ windows[w].wait \in Nat
        BY <1>4, <1>6, <2>4, <3>2
      <4>3. (WindowLength - 1) * windows[w].wait + WindowLength * c + elapsed
                <= WindowLength * NumClosed + (WindowLength - 1)
        BY <1>4, <1>7, <2>4
      <4>4. elapsed \in Nat /\ WindowLength * NumClosed + (WindowLength - 1) \in Int
        BY <1>5
      <4> HIDE DEF c, d
      <4> DEFINE t == windows[w].wait
                 k == WindowLength * NumClosed + (WindowLength - 1)
      <4>5. (WindowLength - 1) * (t + 1) + WindowLength * d + (elapsed + 1) <= k
        <5>1. t \in Nat /\ k \in Int /\ (WindowLength - 1) * t + WindowLength * c + elapsed <= k
          BY <4>2, <4>3, <4>4
        <5> HIDE DEF t, k
        <5> QED
          BY <1>5, <4>1, <4>2, <4>4, <5>1, BudgetStep
      <4> QED
        BY <4>2, <4>5 DEF Budget, d
    <3> QED
      BY <3>1, <3>2
  <2>5. ReconcileInv'
    <3> HIDE DEF ws
    <3>1. \A w \in Candidates : windows'[w].bad => windows'[w].never /\ w # OpenWindow
      BY <1>4, <2>1
    <3>2. FewerBadThan(slots', windows')
      BY <2>1, <2>3
    <3>3. \A w \in Candidates : ~windows'[w].bad => Budget(windows', w, elapsed')
      BY <2>1, <2>4
    <3>4. slots' \in Nat \ {0} /\ windows' \in [Candidates -> WindowRecords]
      BY <1>3, <1>5, <2>1
    <3> QED
      BY <2>2, <3>1, <3>2, <3>3, <3>4 DEF ReconcileInv, FewerBadThan, Budget, AheadOf, Before
  <2> QED
    BY <2>5
<1>9. CASE elapsed + 1 = WindowLength
  <2>1. elapsed' = 0 /\ windows' = Shifted(ws, bad) /\ slots' = slots /\ FewerBadThan(slots, windows')
    BY <1>2, <1>9 DEF Refreshed
  <2> DEFINE shifted == Shifted(ws, bad)
  <2>2. /\ 1 \in Candidates
        /\ shifted[1] = [age |-> 0, never |-> TRUE, bad |-> bad, wait |-> 0]
        /\ \A w \in Candidates \ {1} : Back(w) \in Candidates /\ shifted[w] = ws[Back(w)]
    <3>1. 1 \in Candidates /\ OpenWindow # 1
      BY CandidatesAre, ReconcileConstants
    <3>2. shifted[1] = [age |-> 0, never |-> TRUE, bad |-> bad, wait |-> 0]
      BY <3>1 DEF Shifted, Fresh
    <3> HIDE DEF ws
    <3> QED
      BY <1>3, <3>1, <3>2, OneMoreAhead
  <2>3. shifted \in [Candidates -> WindowRecords]
    <3>1. shifted = [w \in Candidates |-> shifted[w]]
      BY DEF Shifted
    <3>2. shifted[1] \in WindowRecords
      BY <2>2 DEF WindowRecords
    <3> HIDE DEF shifted, ws
    <3>3. \A w \in Candidates : shifted[w] \in WindowRecords
      BY <1>3, <2>2, <3>2
    <3> QED
      BY <3>1, <3>3
  <2>4. \A w \in Candidates : shifted[w].bad => shifted[w].never /\ w # OpenWindow
    <3>1. \A w \in Candidates \ {1} : shifted[w].bad => shifted[w].never /\ w # OpenWindow
      <4> HIDE DEF shifted, ws
      <4> QED
        BY <1>4, <2>2 DEF Back
    <3> HIDE DEF shifted
    <3> QED
      BY <2>2, <3>1, CandidatesAre
  <2>5. ASSUME NEW w \in Candidates, ~shifted[w].bad PROVE Budget(shifted, w, 0)
    <3>0. 0 \in 0 .. (WindowLength - 1)
      BY <1>5
    <3>1. CASE shifted[w].wait = 0
      BY <3>0, <3>1, NoWaitNoDebt
    <3>2. CASE shifted[w].wait # 0
      <4>0. w \in Candidates \ {1}
        <5> HIDE DEF shifted
        <5> QED
          BY <2>2, <3>2
      <4> DEFINE v == Back(w)
                 c == Cardinality(AheadOf(windows, v))
                 b == Cardinality(AheadOf(ws, v))
                 d == Cardinality(AheadOf(shifted, w))
      <4>1. v \in Candidates /\ shifted[w] = ws[v]
        BY <2>2, <4>0
      <4>2. c \in Nat /\ b \in Nat /\ d \in Nat
        BY <4>1, AheadIsBounded
      <4>3. d <= b + 1
        BY <1>3, <4>0, OneMoreAhead
      <4>4. ~ws[v].bad /\ ~windows[v].bad
        BY <1>4, <2>5, <4>1
      <4>5. b + 1 <= c /\ ws[v].wait = windows[v].wait + 1 /\ windows[v].wait \in Nat
        BY <1>6, <3>2, <4>1, <4>4
      <4>6. (WindowLength - 1) * windows[v].wait + WindowLength * c + elapsed
                <= WindowLength * NumClosed + (WindowLength - 1)
        BY <1>7, <4>1, <4>4
      <4>7. elapsed \in Nat /\ elapsed = WindowLength - 1
            /\ WindowLength * NumClosed + (WindowLength - 1) \in Int
        BY <1>5, <1>9
      <4> HIDE DEF b, c, d, v
      <4>8. d <= c
        BY <4>2, <4>3, <4>5
      <4>9. (WindowLength - 1) * (windows[v].wait + 1) + WindowLength * d + 0
                <= WindowLength * NumClosed + (WindowLength - 1)
        BY <1>5, <4>2, <4>5, <4>6, <4>7, <4>8, BudgetStep
      <4> QED
        BY <4>1, <4>5, <4>9 DEF Budget, d
    <3> QED
      BY <3>1, <3>2
  <2>6. ReconcileInv'
    <3> HIDE DEF shifted
    <3>0. windows' = shifted
      BY <2>1 DEF shifted
    <3>1. \A w \in Candidates : windows'[w].bad => windows'[w].never /\ w # OpenWindow
      BY <2>4, <3>0
    <3>2. FewerBadThan(slots', windows')
      BY <2>1
    <3>3. \A w \in Candidates : ~windows'[w].bad => Budget(windows', w, elapsed')
      BY <2>1, <2>5, <3>0
    <3>4. /\ slots' \in Nat \ {0} /\ windows' \in [Candidates -> WindowRecords]
          /\ elapsed' \in 0 .. (WindowLength - 1)
      BY <1>5, <2>1, <2>3, <3>0
    <3> QED
      BY <3>1, <3>2, <3>3, <3>4 DEF ReconcileInv, FewerBadThan, Budget, AheadOf, Before
  <2> QED
    BY <2>6
<1> QED
  BY <1>8, <1>9

(* MaxWait is as large as the number of windows and their length ask for.    *)
EnoughWait == (WindowLength - 1) * (MaxWait + 1) >= WindowLength * (NumClosed + 1)

(* The slot for the oldest success lets no due window starve, whatever holds *)
(* active decisions (planDueReconcileWindows): no window that LAPI answers   *)
(* for waits longer than it takes to read all the others once, with those    *)
(* that close in the meantime.                                               *)
THEOREM NobodyStarves ==
  ASSUME EnoughWait
  PROVE  ReconcileSpec => []NoStarvation
<1>1. ReconcileInv => NoStarvation
  <2> SUFFICES ASSUME ReconcileInv, NEW w \in Candidates, ~windows[w].bad
               PROVE  windows[w].wait <= MaxWait
    BY DEF NoStarvation
  <2> DEFINE t == windows[w].wait
             c == Cardinality(AheadOf(windows, w))
  <2>1. /\ t \in Nat /\ c \in Nat /\ elapsed \in Nat
        /\ WindowLength \in Nat \ {0} /\ NumClosed \in Nat /\ MaxWait \in Nat
    BY AheadIsBounded, ReconcileConstants DEF ReconcileInv, WindowRecords
  <2>2. (WindowLength - 1) * t + WindowLength * c + elapsed
            <= WindowLength * NumClosed + (WindowLength - 1)
    BY DEF ReconcileInv, Budget
  <2> HIDE DEF t, c
  <2>3. WindowLength * c \in Nat /\ (WindowLength - 1) * t \in Nat /\ WindowLength * NumClosed \in Nat
        /\ (WindowLength - 1) * (MaxWait + 1) \in Nat
    BY <2>1
  <2>4. (WindowLength - 1) * t < WindowLength * NumClosed + WindowLength
    BY <2>1, <2>2, <2>3
  <2>5. WindowLength * (NumClosed + 1) = WindowLength * NumClosed + WindowLength
    BY <2>1
  <2>6. (WindowLength - 1) * t < (WindowLength - 1) * (MaxWait + 1)
    BY <2>1, <2>3, <2>4, <2>5 DEF EnoughWait
  <2>7. \A l, m, n \in Nat : m <= n => l * m <= l * n
    OBVIOUS
  <2>8. ~(MaxWait + 1 <= t)
    BY <2>1, <2>3, <2>6, <2>7
  <2>9. t <= MaxWait
    BY <2>1, <2>8
  <2> QED
    BY <2>9 DEF t
<1> QED
  BY <1>1, ReconcileInvInit, ReconcileInvStep, PTL DEF ReconcileSpec

-----------------------------------------------------------------------------
(* The evaluation of notification rules (Notifications).                     *)

LEMMA NotificationConstants ==
  /\ Rules \in Seq(RuleSet) /\ Availability \subseteq RuleSet /\ IsFiniteSet(Conditions)
  /\ BatchSize \in Nat \ {0} /\ MaxTroubles \in Nat
BY NotificationAssumption

AllKeys == Conditions \cup {"offline", "recovery"}

LEMMA KeysAreFinite ==
  /\ IsFiniteSet(AllKeys)
  /\ \A r \in RuleSet : KeysOf(r) \subseteq AllKeys
<1>1. IsFiniteSet({"offline"}) /\ IsFiniteSet({"recovery"})
  BY FS_Singleton
<1>2. IsFiniteSet({"offline"} \cup {"recovery"})
  BY <1>1, FS_Union
<1>3. IsFiniteSet(Conditions \cup ({"offline"} \cup {"recovery"}))
  BY <1>2, FS_Union, NotificationConstants
<1>4. Conditions \cup ({"offline"} \cup {"recovery"}) = AllKeys
  BY DEF AllKeys
<1> QED
  BY <1>3, <1>4 DEF KeysOf, AllKeys

RuleOf(t) == Rules[Min({i \in DOMAIN Rules : Rules[i] \in t})]

(* The next rule is one of those that are left.                              *)
LEMMA RuleIsLeft ==
  ASSUME NEW t \in SUBSET RuleSet, t # {}
  PROVE  RuleOf(t) \in t
<1> DEFINE S == {i \in DOMAIN Rules : Rules[i] \in t}
<1>1. DOMAIN Rules \in SUBSET Nat
  BY NotificationConstants
<1>2. S \in SUBSET Nat /\ S # {}
  BY <1>1 DEF RuleSet, ToSet
<1>3. \E n \in S : \A m \in S : n <= m
  <2> HIDE DEF S
  <2> QED
    BY <1>2, LeastOf
<1>4. Min(S) \in S
  <2> HIDE DEF S
  <2> QED
    BY <1>3 DEF Min
<1> QED
  BY <1>4 DEF RuleOf

(* SetToSeq lists a finite set.                                              *)
LEMMA ListedKeys ==
  ASSUME NEW S, IsFiniteSet(S)
  PROVE  /\ Cardinality(S) \in Nat
         /\ \A k \in 1 .. Cardinality(S) : SetToSeq(S)[k] \in S
<1> DEFINE n == Cardinality(S)
           s == SetToSeq(S)
<1>1. n \in Nat /\ \E f \in [1 .. n -> S] : IsInjective(f)
  <2>1. n \in Nat /\ ExistsBijection(1 .. n, S)
    BY FS_CardinalityType
  <2> QED
    BY <2>1 DEF ExistsBijection, Bijection, Injection
<1>2. s \in [1 .. n -> S]
  BY <1>1 DEF SetToSeq
<1> QED
  BY <1>1, <1>2

-----------------------------------------------------------------------------
(* The writes that wait.                                                     *)

WriteRecords == [op : {"resolve", "touch", "insert"}, key : AllKeys]

Inserted(s) == {w.key : w \in {x \in ToSet(s) : x.op = "insert"}}

LEMMA InsertedBy ==
  ASSUME NEW s
  PROVE  Inserted(s) = {s[i].key : i \in {j \in DOMAIN s : s[j].op = "insert"}}
BY DEF Inserted, ToSet

LEMMA InsertedIsBounded ==
  ASSUME NEW s \in Seq(WriteRecords)
  PROVE  /\ IsFiniteSet(Inserted(s)) /\ Cardinality(Inserted(s)) \in Nat
         /\ Cardinality(Inserted(s)) <= Len(s)
<1> DEFINE n == Len(s)
           T == {s[i].key : i \in 1 .. n}
           f == [i \in 1 .. n |-> s[i].key]
<1>1. n \in Nat /\ DOMAIN s = 1 .. n
  OBVIOUS
<1>2. IsFiniteSet(1 .. n) /\ Cardinality(1 .. n) = n
  BY <1>1, FS_Interval
<1>3. f \in Surjection(1 .. n, T)
  BY DEF Surjection
<1>4. IsFiniteSet(T) /\ Cardinality(T) <= n
  <2> HIDE DEF f, T, n
  <2> QED
    BY <1>2, <1>3, FS_Surjection
<1>5. Inserted(s) \in SUBSET T
  BY <1>1, InsertedBy
<1>6. Cardinality(T) \in Nat
  BY <1>4, FS_CardinalityType
<1>7. IsFiniteSet(Inserted(s)) /\ Cardinality(Inserted(s)) <= Cardinality(T)
  <2> HIDE DEF T
  <2> QED
    BY <1>4, <1>5, FS_Subset
<1>8. Cardinality(Inserted(s)) \in Nat
  BY <1>7, FS_CardinalityType
<1> HIDE DEF T, n
<1>9. Cardinality(Inserted(s)) <= n
  BY <1>1, <1>4, <1>6, <1>7, <1>8
<1> QED
  BY <1>7, <1>8, <1>9 DEF n

LEMMA NothingInserted ==
  /\ Inserted(<<>>) = {} /\ Cardinality(Inserted(<<>>)) = 0
<1>1. Inserted(<<>>) = {}
  BY DEF Inserted, ToSet
<1> QED
  BY <1>1, FS_EmptySet

LEMMA InsertedAppend ==
  ASSUME NEW s \in Seq(WriteRecords), NEW w \in WriteRecords
  PROVE  /\ Append(s, w) \in Seq(WriteRecords)
         /\ ToSet(Append(s, w)) = ToSet(s) \cup {w}
         /\ Inserted(Append(s, w)) = Inserted(s) \cup (IF w.op = "insert" THEN {w.key} ELSE {})
<1>1. Append(s, w) \in Seq(WriteRecords)
  OBVIOUS
<1>2. /\ DOMAIN Append(s, w) = 1 .. (Len(s) + 1) /\ DOMAIN s = 1 .. Len(s) /\ Len(s) \in Nat
      /\ \A i \in 1 .. Len(s) : Append(s, w)[i] = s[i]
      /\ Append(s, w)[Len(s) + 1] = w
  OBVIOUS
<1>3. ToSet(Append(s, w)) = ToSet(s) \cup {w}
  BY <1>2 DEF ToSet
<1> QED
  BY <1>1, <1>3 DEF Inserted

(* A batch and the rest are all the writes.                                  *)
Parts(s, b, t) ==
    /\ b \in Seq(WriteRecords) /\ t \in Seq(WriteRecords)
    /\ ToSet(s) = ToSet(b) \cup ToSet(t)
    /\ Inserted(t) \subseteq Inserted(s)

LEMMA BatchAndRest ==
  ASSUME NEW s \in Seq(WriteRecords), NEW n \in 0 .. Len(s),
         NEW b, NEW t, b = SubSeq(s, 1, n), t = SubSeq(s, n + 1, Len(s))
  PROVE  Len(b) = n /\ Parts(s, b, t)
<1>1. Len(s) \in Nat /\ n \in Nat /\ DOMAIN s = 1 .. Len(s) /\ \A i \in 1 .. Len(s) : s[i] \in WriteRecords
  OBVIOUS
<1>2. /\ b \in Seq(WriteRecords) /\ Len(b) = n
      /\ \A i \in 1 .. n : b[i] = s[i]
  <2>1. \A i \in 1 .. n : s[i] \in WriteRecords
    BY <1>1
  <2>2. /\ SubSeq(s, 1, n) \in Seq(WriteRecords)
        /\ Len(SubSeq(s, 1, n)) = IF 1 <= n THEN n - 1 + 1 ELSE 0
        /\ \A i \in 1 .. n - 1 + 1 : SubSeq(s, 1, n)[i] = s[1 + i - 1]
    BY <1>1, <2>1, SubSeqProperties
  <2> QED
    BY <1>1, <2>2
<1>3. /\ t \in Seq(WriteRecords) /\ Len(t) = Len(s) - n
      /\ \A i \in 1 .. (Len(s) - n) : t[i] = s[n + i]
  <2>1. \A i \in (n + 1) .. Len(s) : s[i] \in WriteRecords
    BY <1>1
  <2>2. /\ SubSeq(s, n + 1, Len(s)) \in Seq(WriteRecords)
        /\ Len(SubSeq(s, n + 1, Len(s))) = IF n + 1 <= Len(s) THEN Len(s) - (n + 1) + 1 ELSE 0
        /\ \A i \in 1 .. Len(s) - (n + 1) + 1 : SubSeq(s, n + 1, Len(s))[i] = s[n + 1 + i - 1]
    BY <1>1, <2>1, SubSeqProperties
  <2>3. /\ Len(s) - (n + 1) + 1 = Len(s) - n
        /\ (IF n + 1 <= Len(s) THEN Len(s) - (n + 1) + 1 ELSE 0) = Len(s) - n
        /\ \A i \in 1 .. (Len(s) - n) : n + 1 + i - 1 = n + i
    <3>1. \A l \in Nat : \A k \in 0 .. l :
             /\ l - (k + 1) + 1 = l - k
             /\ (IF k + 1 <= l THEN l - (k + 1) + 1 ELSE 0) = l - k
             /\ \A i \in 1 .. (l - k) : k + 1 + i - 1 = k + i
      OBVIOUS
    <3> QED
      BY <1>1, <3>1
  <2>4. \A i \in 1 .. (Len(s) - n) : t[i] = s[n + i]
    <3> SUFFICES ASSUME NEW i \in 1 .. (Len(s) - n) PROVE t[i] = s[n + i]
      OBVIOUS
    <3>1. n + 1 + i - 1 = n + i
      BY <2>3
    <3>2. SubSeq(s, n + 1, Len(s))[i] = s[n + 1 + i - 1]
      BY <2>2, <2>3, Zenon
    <3> QED
      BY <3>1, <3>2, Zenon
  <2>5. t \in Seq(WriteRecords) /\ Len(t) = Len(s) - n
    BY <2>2, <2>3, Zenon
  <2> QED
    BY <2>4, <2>5
<1>4. DOMAIN b = 1 .. n /\ DOMAIN t = 1 .. (Len(s) - n)
  BY <1>2, <1>3
<1>5. ASSUME NEW i \in DOMAIN s PROVE s[i] \in ToSet(b) \cup ToSet(t)
  <2>1. CASE i <= n
    <3>1. i \in DOMAIN b /\ b[i] = s[i]
      BY <1>1, <1>2, <1>4, <2>1
    <3> QED
      BY <3>1 DEF ToSet
  <2>2. CASE ~(i <= n)
    <3>0. i - n \in 1 .. (Len(s) - n) /\ n + (i - n) = i
      BY <1>1, <2>2
    <3>1. i - n \in DOMAIN t /\ t[i - n] = s[n + (i - n)]
      BY <1>3, <1>4, <3>0, Zenon
    <3> QED
      BY <3>0, <3>1 DEF ToSet
  <2> QED
    BY <2>1, <2>2
<1>6. ASSUME NEW i \in DOMAIN t PROVE t[i] \in ToSet(s)
  <2>0. i \in 1 .. (Len(s) - n) /\ n + i \in 1 .. Len(s)
    BY <1>1, <1>4
  <2>1. n + i \in DOMAIN s /\ t[i] = s[n + i]
    BY <1>1, <1>3, <2>0, Zenon
  <2> QED
    BY <2>1 DEF ToSet
<1>7. ASSUME NEW i \in DOMAIN b PROVE b[i] \in ToSet(s)
  <2>1. i \in DOMAIN s /\ b[i] = s[i]
    BY <1>1, <1>2, <1>4
  <2> QED
    BY <2>1 DEF ToSet
<1>8. ToSet(s) = ToSet(b) \cup ToSet(t) /\ ToSet(t) \subseteq ToSet(s)
  <2>1. ToSet(s) \subseteq ToSet(b) \cup ToSet(t)
    BY <1>5 DEF ToSet
  <2>2. ToSet(b) \subseteq ToSet(s) /\ ToSet(t) \subseteq ToSet(s)
    BY <1>6, <1>7, Zenon DEF ToSet
  <2> QED
    BY <2>1, <2>2
<1>9. Inserted(t) \subseteq Inserted(s)
  BY <1>8 DEF Inserted
<1> QED
  BY <1>2, <1>3, <1>8, <1>9 DEF Parts

-----------------------------------------------------------------------------
(* The inductive invariant. *)

EvalRecords == [phase : EvaluationPhases, todo : SUBSET RuleSet, cand : SUBSET AllKeys,
                active : SUBSET AllKeys, key : AllKeys \cup {"none"},
                writes : Seq(WriteRecords), final : BOOLEAN]

(* What is stored of a rule, and what an evaluation writes, is about the     *)
(* conditions of that rule.                                                  *)
StoredOK ==
    /\ holds \in [RuleSet -> SUBSET Conditions]
    /\ incidents \in [RuleSet -> SUBSET AllKeys]
    /\ told \in [RuleSet -> SUBSET AllKeys]
    /\ \A r \in RuleSet : incidents[r] \subseteq KeysOf(r)

(* The records that wait fit in a batch, with one place left for what is     *)
(* being sent.                                                               *)
EvalOK(e) ==
    /\ e \in EvalRecords
    /\ e.phase = "idle" <=> e.todo = {}
    /\ e.cand \subseteq KeysOf(RuleOf(e.todo)) \/ e.todo = {}
    /\ e.phase = "send" => e.key \in KeysOf(RuleOf(e.todo))
    /\ \A w \in ToSet(e.writes) : w.key \in KeysOf(RuleOf(e.todo))
    /\ e.phase \in {"idle", "query", "load"} => e.writes = <<>>
    /\ Cardinality(Inserted(e.writes)) <= BatchSize
    /\ e.phase # "flush" => Cardinality(Inserted(e.writes)) < BatchSize

Pending(e) == Inserted(e.writes) \cup (IF e.phase = "send" THEN {e.key} ELSE {})

(* What has been told has an incident, or will have; a candidate that has    *)
(* been told had one when the incidents were read.                           *)
ToldOK(e, inc, tld) ==
    /\ \A r \in RuleSet : \A k \in tld[r] :
          k \in inc[r] \/ (e.todo # {} /\ r = RuleOf(e.todo) /\ k \in Pending(e))
    /\ e.phase \in {"loop", "send", "flush"} => tld[RuleOf(e.todo)] \cap e.cand \subseteq e.active

NotificationInv ==
    /\ StoredOK
    /\ EvalOK(eval)
    /\ ToldOK(eval, incidents, told)

LEMMA RuleNow == /\ Rule = RuleOf(eval.todo) /\ Rule' = RuleOf(eval'.todo)
                 /\ Unrecorded = Pending(eval)
BY DEF Rule, RuleOf, Unrecorded, Pending, Inserted

(* An evaluation that is over, or begins with some rules.                    *)
Begins(e) == \/ e = NoEval
             \/ \E t \in SUBSET RuleSet : t # {} /\ e = [NoEval EXCEPT !.phase = "query", !.todo = t]

LEMMA NewBegins == Begins(NewEvaluation)
<1> DEFINE enabled == {r \in RuleSet : rules[r] = "on"}
<1>1. NewEvaluation = IF enabled = {} THEN NoEval ELSE [NoEval EXCEPT !.phase = "query", !.todo = enabled]
  BY DEF NewEvaluation
<1>2. enabled \in SUBSET RuleSet
  OBVIOUS
<1> HIDE DEF enabled
<1> QED
  BY <1>1, <1>2 DEF Begins

LEMMA BeginsOK ==
  ASSUME NEW e, Begins(e)
  PROVE  /\ EvalOK(e)
         /\ \A inc, tld : (\A r \in RuleSet : tld[r] \subseteq inc[r]) => ToldOK(e, inc, tld)
         /\ e.phase \in {"idle", "query"}
<1>1. PICK t \in SUBSET RuleSet :
        /\ e.phase = IF t = {} THEN "idle" ELSE "query"
        /\ e.todo = t /\ e.cand = {} /\ e.active = {} /\ e.key = "none" /\ e.writes = <<>>
        /\ e.final = FALSE
        /\ e = [phase |-> e.phase, todo |-> e.todo, cand |-> e.cand, active |-> e.active,
                key |-> e.key, writes |-> e.writes, final |-> e.final]
  <2>1. CASE e = NoEval
    <3> WITNESS {} \in SUBSET RuleSet
    <3> QED
      BY <2>1 DEF NoEval
  <2>2. ASSUME NEW t \in SUBSET RuleSet, t # {}, e = [NoEval EXCEPT !.phase = "query", !.todo = t]
        PROVE  \E u \in SUBSET RuleSet :
                /\ e.phase = IF u = {} THEN "idle" ELSE "query"
                /\ e.todo = u /\ e.cand = {} /\ e.active = {} /\ e.key = "none" /\ e.writes = <<>>
                /\ e.final = FALSE
                /\ e = [phase |-> e.phase, todo |-> e.todo, cand |-> e.cand, active |-> e.active,
                        key |-> e.key, writes |-> e.writes, final |-> e.final]
    <3> WITNESS t \in SUBSET RuleSet
    <3> QED
      BY <2>2 DEF NoEval
  <2> QED
    BY <2>1, <2>2 DEF Begins
<1>2. e \in EvalRecords
  <2>0. e.writes \in Seq(WriteRecords) /\ e.final \in BOOLEAN /\ e.key \in AllKeys \cup {"none"}
    <3>1. e.writes \in Seq(WriteRecords)
      BY <1>1
    <3>2. e.final \in BOOLEAN /\ e.key \in AllKeys \cup {"none"}
      BY <1>1, Zenon
    <3> QED
      BY <3>1, <3>2
  <2>1. /\ e.phase \in EvaluationPhases /\ e.todo \in SUBSET RuleSet /\ e.cand \in SUBSET AllKeys
        /\ e.active \in SUBSET AllKeys
    BY <1>1 DEF EvaluationPhases
  <2> QED
    BY <1>1, <2>0, <2>1 DEF EvalRecords
<1>3. ToSet(<<>>) = {} /\ Cardinality(Inserted(<<>>)) = 0 /\ Inserted(<<>>) = {}
  BY NothingInserted DEF ToSet
<1>4. EvalOK(e)
  BY <1>1, <1>2, <1>3, NotificationConstants DEF EvalOK
<1> QED
  BY <1>1, <1>4 DEF ToldOK

LEMMA OverBegins ==
  ASSUME EvaluationOver
  PROVE  Begins(eval')
BY NewBegins DEF EvaluationOver, Begins

LEMMA NextRuleBegins ==
  ASSUME EvalOK(eval), eval.todo # {}, NextRule
  PROVE  Begins(eval')
<1>1. eval.todo \in SUBSET RuleSet /\ Rule \in eval.todo
  BY RuleIsLeft, RuleNow DEF EvalOK, EvalRecords
<1>2. CASE eval.todo = {Rule}
  BY <1>2, OverBegins DEF NextRule
<1>3. CASE eval.todo # {Rule}
  <2>1. eval.todo \ {Rule} \in SUBSET RuleSet /\ eval.todo \ {Rule} # {}
    BY <1>1, <1>3
  <2> QED
    BY <1>3, <2>1 DEF NextRule, Begins
<1> QED
  BY <1>2, <1>3

(* A beginning with nothing told that has no incident.                       *)
LEMMA InvAtBeginning ==
  ASSUME StoredOK', Begins(eval'), \A r \in RuleSet : told'[r] \subseteq incidents'[r]
  PROVE  NotificationInv'
BY BeginsOK DEF NotificationInv

LEMMA ForgottenIsBacked ==
  ASSUME NotificationInv
  PROVE  /\ Forgotten \in [RuleSet -> SUBSET AllKeys]
         /\ \A r \in RuleSet : Forgotten[r] \subseteq incidents[r]
<1>1. told \in [RuleSet -> SUBSET AllKeys]
  BY DEF NotificationInv, StoredOK
<1>2. CASE eval.todo = {}
  BY <1>1, <1>2 DEF NotificationInv, ToldOK, Forgotten
<1>3. CASE eval.todo # {}
  <2>1. Forgotten = [told EXCEPT ![Rule] = @ \ Unrecorded]
    BY <1>3 DEF Forgotten
  <2>2. Rule \in RuleSet
    BY <1>3, RuleIsLeft, RuleNow DEF NotificationInv, EvalOK, EvalRecords
  <2>3. \A r \in RuleSet : Forgotten[r] = IF r = Rule THEN told[r] \ Unrecorded ELSE told[r]
    BY <1>1, <2>1, <2>2
  <2>4. \A r \in RuleSet : \A k \in told[r] : k \in incidents[r] \/ (r = Rule /\ k \in Unrecorded)
    BY RuleNow DEF NotificationInv, ToldOK
  <2>5. Forgotten \in [RuleSet -> SUBSET AllKeys]
    BY <1>1, <2>1, <2>2
  <2> QED
    BY <2>3, <2>4, <2>5
<1> QED
  BY <1>2, <1>3

(* With nothing unrecorded, what is told is backed.                          *)
LEMMA ToldIsBacked ==
  ASSUME NotificationInv, Unrecorded = {}
  PROVE  \A r \in RuleSet : told[r] \subseteq incidents[r]
BY RuleNow DEF NotificationInv, ToldOK

LEMMA EvaluationHasRule ==
  ASSUME NotificationInv, eval.phase # "idle"
  PROVE  /\ eval.todo # {} /\ eval.todo \in SUBSET RuleSet /\ Rule \in RuleSet
         /\ Rule = RuleOf(eval.todo) /\ eval \in EvalRecords
         /\ eval.cand \subseteq KeysOf(Rule) /\ incidents[Rule] \subseteq KeysOf(Rule)
         /\ KeysOf(Rule) \subseteq AllKeys
<1>1. eval.todo # {} /\ eval.todo \in SUBSET RuleSet /\ eval \in EvalRecords
  BY DEF NotificationInv, EvalOK, EvalRecords
<1>2. Rule \in RuleSet /\ Rule = RuleOf(eval.todo)
  BY <1>1, RuleIsLeft, RuleNow
<1> QED
  BY <1>1, <1>2, KeysAreFinite DEF NotificationInv, EvalOK, StoredOK

-----------------------------------------------------------------------------
(* The steps. *)

LEMMA NotificationInvInit == NotificationInit => NotificationInv
<1> SUFFICES ASSUME NotificationInit PROVE NotificationInv
  OBVIOUS
<1>1. StoredOK /\ \A r \in RuleSet : told[r] \subseteq incidents[r]
  BY DEF NotificationInit, StoredOK
<1>2. Begins(eval)
  BY DEF NotificationInit, Begins
<1> QED
  BY <1>1, <1>2, BeginsOK DEF NotificationInv

LEMMA InvTrigger ==
  ASSUME NotificationInv, Trigger
  PROVE  NotificationInv'
<1>1. StoredOK' /\ UNCHANGED <<incidents, told>>
  BY DEF NotificationInv, Trigger, StoredOK
<1>2. CASE eval.phase = "idle"
  <2>1. Unrecorded = {}
    BY <1>2, NothingInserted, RuleNow DEF NotificationInv, EvalOK, Pending
  <2>2. Begins(eval')
    BY <1>2, NewBegins DEF Trigger
  <2> QED
    BY <1>1, <2>1, <2>2, ToldIsBacked, InvAtBeginning
<1>3. CASE eval.phase # "idle"
  BY <1>1, <1>3 DEF Trigger, NotificationInv
<1> QED
  BY <1>2, <1>3

LEMMA InvEnvironment ==
  ASSUME NotificationInv, Environment
  PROVE  NotificationInv'
<1>1. UNCHANGED <<incidents, told, eval>>
  BY DEF Environment, ConditionChanges, LapiChanges
<1>2. holds' \in [RuleSet -> SUBSET Conditions]
  BY DEF Environment, ConditionChanges, LapiChanges, NotificationInv, StoredOK
<1> QED
  BY <1>1, <1>2 DEF NotificationInv, StoredOK

LEMMA InvQuery ==
  ASSUME NotificationInv, Query
  PROVE  NotificationInv'
<1>1. UNCHANGED <<holds, incidents, told>> /\ eval.phase = "query"
  BY DEF Query
<1>2. /\ Rule \in RuleSet /\ Rule = RuleOf(eval.todo) /\ eval \in EvalRecords /\ eval.todo # {}
      /\ KeysOf(Rule) \subseteq AllKeys
  BY <1>1, EvaluationHasRule
<1> DEFINE cand == IF Rule \in Availability THEN AvailabilityConditions(Rule) ELSE holds[Rule]
<1>3. cand \subseteq KeysOf(Rule)
  BY <1>2 DEF AvailabilityConditions, KeysOf, NotificationInv, StoredOK
<1>4. eval' = [eval EXCEPT !.phase = "load", !.cand = cand]
  BY DEF Query
<1> HIDE DEF cand
<1>5. /\ eval' \in EvalRecords /\ eval'.phase = "load" /\ eval'.cand = cand /\ eval'.todo = eval.todo
      /\ eval'.writes = eval.writes
  BY <1>2, <1>3, <1>4 DEF EvalRecords, EvaluationPhases
<1>6. EvalOK(eval')
  BY <1>1, <1>2, <1>3, <1>5 DEF NotificationInv, EvalOK
<1>7. Pending(eval') = Pending(eval)
  BY <1>1, <1>5 DEF Pending
<1> QED
  BY <1>1, <1>5, <1>6, <1>7 DEF NotificationInv, StoredOK, ToldOK

LEMMA InvQueryFails ==
  ASSUME NotificationInv, QueryFails
  PROVE  NotificationInv'
<1>1. UNCHANGED <<holds, incidents, told>> /\ eval.phase = "query" /\ Begins(eval')
  BY OverBegins DEF QueryFails
<1>2. Unrecorded = {}
  BY <1>1, NothingInserted, RuleNow DEF NotificationInv, EvalOK, Pending
<1> QED
  BY <1>1, <1>2, ToldIsBacked, InvAtBeginning DEF NotificationInv, StoredOK

LEMMA InvLoadIncidents ==
  ASSUME NotificationInv, LoadIncidents
  PROVE  NotificationInv'
<1>1. UNCHANGED <<holds, incidents, told>> /\ eval.phase = "load"
  BY DEF LoadIncidents
<1>2. /\ Rule \in RuleSet /\ Rule = RuleOf(eval.todo) /\ eval \in EvalRecords /\ eval.todo # {}
      /\ eval.cand \subseteq KeysOf(Rule) /\ incidents[Rule] \subseteq KeysOf(Rule)
      /\ KeysOf(Rule) \subseteq AllKeys
  BY <1>1, EvaluationHasRule
<1> DEFINE gone == incidents[Rule] \ eval.cand
           n == Cardinality(gone)
           writes == [i \in 1 .. n |-> Write("resolve", SetToSeq(gone)[i])]
<1>3. eval' = [eval EXCEPT !.phase = "loop", !.active = incidents[Rule], !.writes = writes]
  BY DEF LoadIncidents
<1>4. IsFiniteSet(gone) /\ gone \subseteq KeysOf(Rule)
  BY <1>2, KeysAreFinite, FS_Subset
<1>5. n \in Nat /\ \A i \in 1 .. n : SetToSeq(gone)[i] \in gone
  <2> HIDE DEF gone
  <2> QED
    BY <1>4, ListedKeys
<1>6. \A i \in 1 .. n : /\ writes[i] = [op |-> "resolve", key |-> SetToSeq(gone)[i]]
                        /\ writes[i] \in WriteRecords
                        /\ writes[i].op = "resolve" /\ writes[i].key \in KeysOf(Rule)
  <2> HIDE DEF gone, n
  <2>1. \A i \in 1 .. n : writes[i] = [op |-> "resolve", key |-> SetToSeq(gone)[i]]
    BY DEF Write
  <2>2. \A i \in 1 .. n : SetToSeq(gone)[i] \in KeysOf(Rule) /\ SetToSeq(gone)[i] \in AllKeys
    BY <1>2, <1>4, <1>5
  <2> HIDE DEF writes
  <2> QED
    BY <2>1, <2>2 DEF WriteRecords
<1>7. writes \in Seq(WriteRecords) /\ DOMAIN writes = 1 .. n
  <2> HIDE DEF gone, n
  <2>1. DOMAIN writes = 1 .. n /\ writes = [i \in 1 .. n |-> writes[i]]
    OBVIOUS
  <2> HIDE DEF writes
  <2> QED
    BY <1>5, <1>6, <2>1
<1> HIDE DEF gone, n, writes
<1>8. Inserted(writes) = {}
  BY <1>6, <1>7, InsertedBy
<1>9. Cardinality(Inserted(writes)) = 0
  BY <1>8, FS_EmptySet
<1>10. /\ eval' \in EvalRecords /\ eval'.phase = "loop" /\ eval'.active = incidents[Rule]
       /\ eval'.writes = writes /\ eval'.cand = eval.cand /\ eval'.todo = eval.todo
  BY <1>2, <1>3, <1>7 DEF EvalRecords, EvaluationPhases
<1>11. \A w \in ToSet(writes) : w.key \in KeysOf(Rule)
  BY <1>6, <1>7 DEF ToSet
<1>12. EvalOK(eval')
  BY <1>2, <1>9, <1>10, <1>11, NotificationConstants DEF EvalOK
<1>13. Unrecorded = {}
  BY <1>1, NothingInserted, RuleNow DEF NotificationInv, EvalOK, Pending
<1>14. \A r \in RuleSet : told[r] \subseteq incidents[r]
  BY <1>13, ToldIsBacked
<1>15. ToldOK(eval', incidents, told)
  BY <1>2, <1>10, <1>14 DEF ToldOK
<1> QED
  BY <1>1, <1>12, <1>15 DEF NotificationInv, StoredOK

LEMMA InvTouch ==
  ASSUME NotificationInv, Touch
  PROVE  NotificationInv'
<1>1. UNCHANGED <<holds, incidents, told>> /\ eval.phase = "loop" /\ Choice \in eval.cand
  BY DEF Touch, Choice
<1>2. /\ Rule \in RuleSet /\ Rule = RuleOf(eval.todo) /\ eval \in EvalRecords /\ eval.todo # {}
      /\ eval.cand \subseteq KeysOf(Rule) /\ KeysOf(Rule) \subseteq AllKeys
  BY <1>1, EvaluationHasRule
<1> DEFINE w == Write("touch", Choice)
<1>3. w \in WriteRecords /\ w.op = "touch" /\ w.key \in KeysOf(Rule)
  BY <1>1, <1>2 DEF Write, WriteRecords
<1>4. eval.writes \in Seq(WriteRecords)
  BY <1>2 DEF EvalRecords
<1>5. eval' = [eval EXCEPT !.cand = @ \ {Choice}, !.writes = Append(@, w)]
  BY DEF Touch
<1> HIDE DEF w
<1>6. /\ Append(eval.writes, w) \in Seq(WriteRecords)
      /\ Inserted(Append(eval.writes, w)) = Inserted(eval.writes)
      /\ ToSet(Append(eval.writes, w)) = ToSet(eval.writes) \cup {w}
  BY <1>3, <1>4, InsertedAppend
<1>7. /\ eval' \in EvalRecords /\ eval'.phase = "loop" /\ eval'.active = eval.active
      /\ eval'.writes = Append(eval.writes, w) /\ eval'.cand = eval.cand \ {Choice}
      /\ eval'.todo = eval.todo
  BY <1>1, <1>2, <1>5, <1>6 DEF EvalRecords, EvaluationPhases
<1>8. EvalOK(eval')
  BY <1>1, <1>2, <1>3, <1>6, <1>7 DEF NotificationInv, EvalOK
<1>9. Pending(eval') = Pending(eval)
  BY <1>1, <1>6, <1>7 DEF Pending
<1> QED
  BY <1>1, <1>7, <1>8, <1>9 DEF NotificationInv, StoredOK, ToldOK

LEMMA InvSend ==
  ASSUME NotificationInv, Send
  PROVE  NotificationInv' /\ Choice \notin told[Rule] /\ eval'.key = Choice
<1>1. UNCHANGED <<holds, incidents>> /\ eval.phase = "loop" /\ Choice \in eval.cand
      /\ Choice \notin eval.active
  BY DEF Send, Choice
<1>2. /\ Rule \in RuleSet /\ Rule = RuleOf(eval.todo) /\ eval \in EvalRecords /\ eval.todo # {}
      /\ eval.cand \subseteq KeysOf(Rule) /\ KeysOf(Rule) \subseteq AllKeys
  BY <1>1, EvaluationHasRule
<1>3. Choice \notin told[Rule]
  BY <1>1, <1>2 DEF NotificationInv, ToldOK
<1>4. eval' = [eval EXCEPT !.phase = "send", !.key = Choice, !.cand = @ \ {Choice}]
  BY DEF Send
<1>5. /\ eval' \in EvalRecords /\ eval'.phase = "send" /\ eval'.active = eval.active
      /\ eval'.writes = eval.writes /\ eval'.cand = eval.cand \ {Choice}
      /\ eval'.todo = eval.todo /\ eval'.key = Choice
  BY <1>1, <1>2, <1>4 DEF EvalRecords, EvaluationPhases
<1>6. EvalOK(eval')
  BY <1>1, <1>2, <1>5 DEF NotificationInv, EvalOK
<1>7. Pending(eval') = Pending(eval) \cup {Choice}
  BY <1>1, <1>5 DEF Pending
<1>8. /\ told' = [told EXCEPT ![Rule] = @ \cup {Choice}]
      /\ told \in [RuleSet -> SUBSET AllKeys]
  BY DEF Send, NotificationInv, StoredOK
<1>9. told' \in [RuleSet -> SUBSET AllKeys]
  BY <1>1, <1>2, <1>8
<1>10. \A r \in RuleSet : told'[r] = IF r = Rule THEN told[r] \cup {Choice} ELSE told[r]
  BY <1>2, <1>8
<1>11. ToldOK(eval', incidents, told')
  <2>1. ASSUME NEW r \in RuleSet, NEW k \in told'[r]
        PROVE  k \in incidents[r] \/ (r = Rule /\ k \in Pending(eval'))
    BY <1>2, <1>7, <1>10, <2>1 DEF NotificationInv, ToldOK
  <2>2. told'[Rule] \cap eval'.cand \subseteq eval'.active
    BY <1>1, <1>2, <1>5, <1>10 DEF NotificationInv, ToldOK
  <2> QED
    BY <1>2, <1>5, <2>1, <2>2 DEF ToldOK
<1> QED
  BY <1>1, <1>3, <1>5, <1>6, <1>9, <1>11 DEF NotificationInv, StoredOK

LEMMA InvSent ==
  ASSUME NotificationInv, Sent
  PROVE  NotificationInv'
<1>1. UNCHANGED <<holds, incidents, told>> /\ eval.phase = "send"
  BY DEF Sent
<1>2. /\ Rule \in RuleSet /\ Rule = RuleOf(eval.todo) /\ eval \in EvalRecords /\ eval.todo # {}
      /\ eval.cand \subseteq KeysOf(Rule) /\ KeysOf(Rule) \subseteq AllKeys
  BY <1>1, EvaluationHasRule
<1>3. eval.key \in KeysOf(Rule) /\ Cardinality(Inserted(eval.writes)) < BatchSize
      /\ eval.writes \in Seq(WriteRecords)
  BY <1>1, <1>2 DEF NotificationInv, EvalOK, EvalRecords
<1> DEFINE w == Write("insert", eval.key)
           writes == Append(eval.writes, w)
<1>4. w \in WriteRecords /\ w.op = "insert" /\ w.key = eval.key
  BY <1>2, <1>3 DEF Write, WriteRecords
<1>5. eval' = [eval EXCEPT !.phase = IF Len(writes) >= BatchSize THEN "flush" ELSE "loop",
                           !.key = "none", !.writes = writes]
  BY DEF Sent
<1> HIDE DEF w
<1>6. /\ writes \in Seq(WriteRecords)
      /\ Inserted(writes) = Inserted(eval.writes) \cup {eval.key}
      /\ ToSet(writes) = ToSet(eval.writes) \cup {w}
  BY <1>3, <1>4, InsertedAppend
<1> HIDE DEF writes
<1>7. /\ eval' \in EvalRecords
      /\ eval'.phase = (IF Len(writes) >= BatchSize THEN "flush" ELSE "loop")
      /\ eval'.active = eval.active /\ eval'.writes = writes /\ eval'.cand = eval.cand
      /\ eval'.todo = eval.todo
  <2>1. (IF Len(writes) >= BatchSize THEN "flush" ELSE "loop") \in EvaluationPhases
    BY DEF EvaluationPhases
  <2> QED
    BY <1>2, <1>5, <1>6, <2>1 DEF EvalRecords
<1>8. /\ Cardinality(Inserted(writes)) \in Nat /\ Cardinality(Inserted(writes)) <= Len(writes)
      /\ Len(writes) \in Nat
  <2>1. writes \in Seq(WriteRecords)
    BY <1>6
  <2>2. Len(writes) \in Nat
    BY <2>1
  <2> QED
    BY <2>1, <2>2, InsertedIsBounded, Zenon
<1>9. Cardinality(Inserted(writes)) <= BatchSize
  <2>1. /\ IsFiniteSet(Inserted(eval.writes)) /\ Cardinality(Inserted(eval.writes)) \in Nat
    BY <1>3, InsertedIsBounded
  <2>2. Cardinality(Inserted(writes)) = IF eval.key \in Inserted(eval.writes)
                                        THEN Cardinality(Inserted(eval.writes))
                                        ELSE Cardinality(Inserted(eval.writes)) + 1
    BY <1>6, <2>1, FS_AddElement
  <2> QED
    BY <1>3, <2>1, <2>2, NotificationConstants
<1>10. eval'.phase # "flush" => Cardinality(Inserted(writes)) < BatchSize
  BY <1>7, <1>8, NotificationConstants
<1>11. \A x \in ToSet(writes) : x.key \in KeysOf(Rule)
  BY <1>2, <1>3, <1>4, <1>6 DEF NotificationInv, EvalOK
<1>12. EvalOK(eval')
  <2>1. eval'.phase \notin {"idle", "send", "query", "load"}
    BY <1>7
  <2> QED
    BY <1>2, <1>7, <1>9, <1>10, <1>11, <2>1 DEF EvalOK
<1>13. Pending(eval') = Pending(eval)
  BY <1>1, <1>6, <1>7 DEF Pending
<1> QED
  BY <1>1, <1>7, <1>12, <1>13 DEF NotificationInv, StoredOK, ToldOK

LEMMA InvFinish ==
  ASSUME NotificationInv, Finish
  PROVE  NotificationInv'
<1>1. UNCHANGED <<holds, incidents, told>> /\ eval.phase = "loop"
  BY DEF Finish
<1>2. /\ Rule = RuleOf(eval.todo) /\ eval \in EvalRecords /\ eval.todo # {} /\ EvalOK(eval)
  BY <1>1, EvaluationHasRule DEF NotificationInv
<1>3. CASE eval.writes = <<>>
  <2>1. Begins(eval')
    BY <1>2, <1>3, NextRuleBegins DEF Finish
  <2>2. Unrecorded = {}
    BY <1>1, <1>3, NothingInserted, RuleNow DEF Pending
  <2> QED
    BY <1>1, <2>1, <2>2, ToldIsBacked, InvAtBeginning DEF NotificationInv, StoredOK
<1>4. CASE eval.writes # <<>>
  <2>1. eval' = [eval EXCEPT !.phase = "flush", !.final = TRUE]
    BY <1>4 DEF Finish
  <2>2. /\ eval' \in EvalRecords /\ eval'.phase = "flush" /\ eval'.active = eval.active
        /\ eval'.writes = eval.writes /\ eval'.cand = eval.cand /\ eval'.todo = eval.todo
    BY <1>2, <2>1 DEF EvalRecords, EvaluationPhases
  <2>3. EvalOK(eval')
    BY <1>1, <1>2, <2>2 DEF EvalOK
  <2>4. Pending(eval') = Pending(eval)
    BY <1>1, <2>2 DEF Pending
  <2> QED
    BY <1>1, <2>2, <2>3, <2>4 DEF NotificationInv, StoredOK, ToldOK
<1> QED
  BY <1>3, <1>4

LEMMA InvFlush ==
  ASSUME NotificationInv, Flush
  PROVE  NotificationInv'
<1>1. UNCHANGED holds /\ eval.phase = "flush"
  BY DEF Flush
<1>2. /\ Rule \in RuleSet /\ Rule = RuleOf(eval.todo) /\ eval \in EvalRecords /\ eval.todo # {}
      /\ EvalOK(eval) /\ eval.writes \in Seq(WriteRecords) /\ KeysOf(Rule) \subseteq AllKeys
  BY <1>1, EvaluationHasRule DEF NotificationInv, EvalRecords
<1> DEFINE n == IF Len(eval.writes) < BatchSize THEN Len(eval.writes) ELSE BatchSize
           rest == SubSeq(eval.writes, Len(Batch) + 1, Len(eval.writes))
<1>3. n \in 0 .. Len(eval.writes) /\ Batch = SubSeq(eval.writes, 1, n)
  BY <1>2, NotificationConstants DEF Batch
<1> HIDE DEF n
<1>4. /\ Len(Batch) = n /\ Batch \in Seq(WriteRecords) /\ rest \in Seq(WriteRecords)
      /\ ToSet(eval.writes) = ToSet(Batch) \cup ToSet(rest)
      /\ Inserted(rest) \subseteq Inserted(eval.writes)
  <2>1. Len(Batch) = n
    BY <1>2, <1>3, BatchAndRest
  <2>2. rest = SubSeq(eval.writes, n + 1, Len(eval.writes))
    BY <2>1
  <2> HIDE DEF rest
  <2>3. eval.writes \in Seq(WriteRecords) /\ n \in 0 .. Len(eval.writes)
        /\ Batch = SubSeq(eval.writes, 1, n) /\ rest = SubSeq(eval.writes, n + 1, Len(eval.writes))
    BY <1>2, <1>3, <2>2
  <2>4. Parts(eval.writes, Batch, rest)
    BY <2>3, BatchAndRest
  <2> QED
    BY <2>1, <2>4 DEF Parts
<1>5. /\ incidents' = [incidents EXCEPT ![Rule] = (@ \ Resolved) \cup Kept]
      /\ told' = [told EXCEPT ![Rule] = @ \ Resolved]
      /\ IF rest = <<>> /\ eval.final THEN NextRule
         ELSE /\ eval' = [eval EXCEPT !.writes = rest,
                                      !.phase = IF rest = <<>> THEN "loop" ELSE "flush"]
              /\ UNCHANGED rerun
  BY DEF Flush
<1> HIDE DEF rest
<1>6. Kept \subseteq KeysOf(Rule) /\ Kept \subseteq AllKeys
  BY <1>2, <1>4 DEF Kept, EvalOK
<1>7. /\ incidents \in [RuleSet -> SUBSET AllKeys] /\ told \in [RuleSet -> SUBSET AllKeys]
      /\ \A r \in RuleSet : incidents[r] \subseteq KeysOf(r)
  BY DEF NotificationInv, StoredOK
<1>8. /\ incidents' \in [RuleSet -> SUBSET AllKeys] /\ told' \in [RuleSet -> SUBSET AllKeys]
      /\ \A r \in RuleSet :
            /\ incidents'[r] = IF r = Rule THEN (incidents[r] \ Resolved) \cup Kept ELSE incidents[r]
            /\ told'[r] = IF r = Rule THEN told[r] \ Resolved ELSE told[r]
  BY <1>2, <1>5, <1>6, <1>7
<1>9. StoredOK'
  BY <1>1, <1>6, <1>7, <1>8 DEF NotificationInv, StoredOK
(* What was to be recorded is recorded, or still waits.                      *)
<1>10. Unrecorded = Inserted(eval.writes) /\ Inserted(eval.writes) \subseteq Kept \cup Inserted(rest)
  <2>1. Unrecorded = Inserted(eval.writes)
    BY <1>1, RuleNow DEF Pending
  <2>2. ASSUME NEW x \in ToSet(eval.writes), x.op = "insert"
        PROVE  x.key \in Kept \cup Inserted(rest)
    <3>1. CASE x \in ToSet(Batch)
      BY <2>2, <3>1 DEF Kept
    <3>2. CASE x \in ToSet(rest)
      BY <2>2, <3>2 DEF Inserted
    <3> QED
      BY <1>4, <3>1, <3>2
  <2> QED
    BY <2>1, <2>2 DEF Inserted
<1>11. ASSUME NEW r \in RuleSet, NEW k \in told'[r]
       PROVE  k \in incidents'[r] \/ (r = Rule /\ k \in Inserted(rest))
  <2>1. k \in told[r] /\ (r = Rule => k \notin Resolved)
    BY <1>8
  <2>2. k \in incidents[r] \/ (r = Rule /\ k \in Unrecorded)
    BY <2>1, RuleNow DEF NotificationInv, ToldOK
  <2> QED
    BY <1>8, <1>10, <2>1, <2>2
<1>12. CASE rest = <<>> /\ eval.final
  <2>1. Begins(eval')
    BY <1>2, <1>5, <1>12, NextRuleBegins
  <2>2. \A r \in RuleSet : told'[r] \subseteq incidents'[r]
    BY <1>11, <1>12, NothingInserted
  <2> QED
    BY <1>9, <2>1, <2>2, InvAtBeginning
<1>13. CASE ~(rest = <<>> /\ eval.final)
  <2>1. /\ eval' \in EvalRecords
        /\ eval'.phase = (IF rest = <<>> THEN "loop" ELSE "flush")
        /\ eval'.active = eval.active /\ eval'.writes = rest /\ eval'.cand = eval.cand
        /\ eval'.todo = eval.todo
    <3>1. (IF rest = <<>> THEN "loop" ELSE "flush") \in EvaluationPhases
      BY DEF EvaluationPhases
    <3>2. eval' = [eval EXCEPT !.writes = rest, !.phase = IF rest = <<>> THEN "loop" ELSE "flush"]
      BY <1>5, <1>13
    <3> QED
      BY <1>2, <1>4, <3>1, <3>2 DEF EvalRecords
  <2>2. Cardinality(Inserted(rest)) <= BatchSize
    <3>1. IsFiniteSet(Inserted(eval.writes)) /\ Cardinality(Inserted(eval.writes)) \in Nat
      BY <1>2, InsertedIsBounded
    <3>2. Cardinality(Inserted(rest)) <= Cardinality(Inserted(eval.writes))
      BY <1>4, <3>1, FS_Subset
    <3>3. Cardinality(Inserted(rest)) \in Nat /\ Cardinality(Inserted(eval.writes)) <= BatchSize
      BY <1>2, <1>4, InsertedIsBounded DEF EvalOK
    <3> QED
      BY <3>1, <3>2, <3>3, NotificationConstants
  <2>3. eval'.phase # "flush" => Cardinality(Inserted(rest)) < BatchSize
    BY <2>1, NothingInserted, NotificationConstants
  <2>4. \A x \in ToSet(rest) : x.key \in KeysOf(Rule)
    BY <1>2, <1>4 DEF EvalOK
  <2>5. eval'.phase \notin {"idle", "send", "query", "load"}
    BY <2>1
  <2>6. EvalOK(eval')
    BY <1>2, <2>1, <2>2, <2>3, <2>4, <2>5 DEF EvalOK
  <2>7. ToldOK(eval', incidents', told')
    <3>1. Pending(eval') = Inserted(rest)
      BY <2>1, <2>5 DEF Pending
    <3>2. told'[Rule] \cap eval'.cand \subseteq eval'.active
      BY <1>1, <1>2, <1>8, <2>1 DEF NotificationInv, ToldOK
    <3> QED
      BY <1>2, <1>11, <2>1, <3>1, <3>2 DEF ToldOK
  <2> QED
    BY <1>9, <2>6, <2>7 DEF NotificationInv
<1> QED
  BY <1>12, <1>13

(* A write that fails, and a crash, forget what was not recorded.            *)
LEMMA InvForgets ==
  ASSUME NotificationInv, FlushFails \/ Crash
  PROVE  NotificationInv'
<1>1. UNCHANGED <<holds, incidents>> /\ told' = Forgotten
  BY DEF FlushFails, Crash
<1>2. Begins(eval')
  BY OverBegins DEF FlushFails, Crash, Begins
<1>3. StoredOK'
  BY <1>1, ForgottenIsBacked DEF NotificationInv, StoredOK
<1> QED
  BY <1>1, <1>2, <1>3, ForgottenIsBacked, InvAtBeginning

(* An edit forgets incidents and what was told of them together.             *)
LEMMA InvEdits ==
  ASSUME NotificationInv, UpdateRule \/ DeleteRule
  PROVE  NotificationInv'
<1>1. /\ UNCHANGED <<holds, eval>>
      /\ \/ UNCHANGED <<incidents, told>>
         \/ \E r \in RuleSet : /\ incidents' = [incidents EXCEPT ![r] = {}]
                               /\ told' = [told EXCEPT ![r] = {}]
  BY DEF UpdateRule, DeleteRule
<1>2. CASE UNCHANGED <<incidents, told>>
  BY <1>1, <1>2 DEF NotificationInv, StoredOK
<1>3. ASSUME NEW r \in RuleSet, incidents' = [incidents EXCEPT ![r] = {}],
             told' = [told EXCEPT ![r] = {}]
      PROVE  NotificationInv'
  <2>1. /\ incidents \in [RuleSet -> SUBSET AllKeys] /\ told \in [RuleSet -> SUBSET AllKeys]
        /\ \A q \in RuleSet : incidents[q] \subseteq KeysOf(q)
    BY DEF NotificationInv, StoredOK
  <2>2. /\ incidents' \in [RuleSet -> SUBSET AllKeys] /\ told' \in [RuleSet -> SUBSET AllKeys]
        /\ \A q \in RuleSet : /\ incidents'[q] = IF q = r THEN {} ELSE incidents[q]
                              /\ told'[q] = IF q = r THEN {} ELSE told[q]
    BY <1>3, <2>1
  <2>3. StoredOK'
    BY <1>1, <2>1, <2>2 DEF NotificationInv, StoredOK
  <2>4. eval.phase # "idle" => RuleOf(eval.todo) \in RuleSet
    BY EvaluationHasRule
  <2>5. ToldOK(eval, incidents', told')
    BY <2>2, <2>4 DEF NotificationInv, ToldOK
  <2> QED
    BY <1>1, <2>3, <2>5 DEF NotificationInv
<1> QED
  BY <1>1, <1>2, <1>3

LEMMA NotificationInvStep ==
  NotificationInv /\ [NotificationNext]_notificationVars => NotificationInv'
<1>1. ASSUME NotificationInv, UNCHANGED notificationVars PROVE NotificationInv'
  BY <1>1 DEF notificationVars, NotificationInv, StoredOK
<1> QED
  BY <1>1, InvTrigger, InvQuery, InvQueryFails, InvLoadIncidents, InvTouch, InvSend, InvSent,
     InvFinish, InvFlush, InvForgets, InvEdits, InvEnvironment
     DEF NotificationNext, Evaluation

LEMMA EvaluationsInOrder == NotificationSpec => []NotificationInv
BY NotificationInvInit, NotificationInvStep, PTL DEF NotificationSpec

(* What was sent and is not yet recorded fits in a batch, so a crash repeats *)
(* no more than that (evaluateRules, flushWrites).                           *)
THEOREM BacklogIsSmall == NotificationSpec => []ResendsBounded
<1>1. NotificationInv => ResendsBounded
  <2> SUFFICES ASSUME NotificationInv PROVE ResendsBounded
    OBVIOUS
  <2>1. /\ eval.phase \in EvaluationPhases /\ eval.writes \in Seq(WriteRecords)
        /\ (eval.phase = "idle" <=> eval.todo = {})
        /\ \A r \in RuleSet : incidents[r] \subseteq KeysOf(r)
    BY DEF NotificationInv, StoredOK, EvalOK, EvalRecords
  <2>2. IsFiniteSet(Inserted(eval.writes)) /\ Cardinality(Inserted(eval.writes)) \in Nat
    BY <2>1, InsertedIsBounded
  <2>3. Cardinality(Unrecorded) <= BatchSize
    <3>1. CASE eval.phase = "send"
      <4>1. Unrecorded = Inserted(eval.writes) \cup {eval.key}
        BY <3>1, RuleNow DEF Pending
      <4>2. Cardinality(Inserted(eval.writes)) < BatchSize
        BY <3>1 DEF NotificationInv, EvalOK
      <4>3. Cardinality(Unrecorded) = IF eval.key \in Inserted(eval.writes)
                                      THEN Cardinality(Inserted(eval.writes))
                                      ELSE Cardinality(Inserted(eval.writes)) + 1
        BY <2>2, <4>1, FS_AddElement
      <4> QED
        BY <2>2, <4>2, <4>3, NotificationConstants
    <3>2. CASE eval.phase # "send"
      <4>1. Unrecorded = Inserted(eval.writes)
        BY <3>2, RuleNow DEF Pending
      <4> QED
        BY <4>1 DEF NotificationInv, EvalOK
    <3> QED
      BY <3>1, <3>2
  <2> QED
    BY <2>1, <2>3 DEF ResendsBounded
<1> QED
  BY <1>1, EvaluationsInOrder, PTL

(* Nothing that was told for its present occurrence is sent again, whatever  *)
(* evaluations, edits and failures are in between (evaluateRules): only what *)
(* a crash, a failing write or an edit made forget.                          *)
THEOREM NothingToldTwice == NotificationSpec => ToldOnce
<1>1. NotificationInv /\ [NotificationNext]_notificationVars
        => [eval'.phase = "send" /\ eval.phase # "send" => eval'.key \notin told[Rule]]_notificationVars
  <2> SUFFICES ASSUME NotificationInv, NotificationNext, eval'.phase = "send", eval.phase # "send"
               PROVE  eval'.key \notin told[Rule]
    OBVIOUS
  <2>1. CASE Send
    BY <2>1, InvSend
  <2>2. CASE Trigger
    <3>1. eval' = eval \/ Begins(eval')
      BY <2>2, NewBegins DEF Trigger
    <3> QED
      BY <3>1, BeginsOK
  <2>3. CASE Query \/ LoadIncidents \/ Touch \/ Sent
    <3>1. eval \in EvalRecords
      BY DEF NotificationInv, EvalOK
    <3> QED
      BY <2>3, <3>1 DEF Query, LoadIncidents, Touch, Sent, EvalRecords
  <2>4. CASE QueryFails \/ FlushFails \/ Crash
    <3>1. Begins(eval')
      BY <2>4, OverBegins DEF QueryFails, FlushFails, Crash, Begins
    <3> QED
      BY <3>1, BeginsOK
  <2>5. CASE Finish \/ Flush
    <3>1. eval \in EvalRecords /\ EvalOK(eval) /\ eval.todo # {}
      BY <2>5, EvaluationHasRule DEF NotificationInv, Finish, Flush
    <3>2. CASE NextRule
      BY <3>1, <3>2, NextRuleBegins, BeginsOK
    <3>3. CASE ~NextRule
      BY <2>5, <3>1, <3>3 DEF Finish, Flush, EvalRecords
    <3> QED
      BY <3>2, <3>3
  <2>6. CASE UpdateRule \/ DeleteRule \/ Environment
    BY <2>6 DEF UpdateRule, DeleteRule, Environment, ConditionChanges, LapiChanges
  <2> QED
    BY <2>1, <2>2, <2>3, <2>4, <2>5, <2>6 DEF NotificationNext, Evaluation
<1> QED
  BY <1>1, EvaluationsInOrder, PTL DEF NotificationSpec, ToldOnce
=============================================================================
