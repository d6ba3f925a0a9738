-------------------------- MODULE SyncWorkerProofs --------------------------
(* For any number of refreshes, statements and writes of the main thread,    *)
(* whatever times out, dies, hangs or answers late: one operation at a time, *)
(* one live writer process, refreshes of which nothing gets lost that they   *)
(* were not told of, and a store that changes as one that runs its           *)
(* operations one by one.                                                    *)
EXTENDS SyncWorker, SequenceTheorems, TLAPS

-----------------------------------------------------------------------------
(* The client and its processes.                                             *)

ProcOK ==
    /\ worker # None => shutdown = None /\ proc[worker] \in {"running", "dead"}
    /\ shutdown # None => proc[shutdown] \in {"killed", "dead"}
    /\ closed => worker = None
    /\ \A g \in Ops : Alive(g) => g = worker \/ g = shutdown
    /\ \A o \in Ops : stage[o] \in {"idle", "queued"} => proc[o] = "unborn"
    /\ \A t \in Transactions : owner[t] = None => stage[t] \in {"idle", "queued", "failed"}

(* A request that somebody awaits is of the operation under way, which is at *)
(* the stage that awaits it, and went to the process the operation owns.     *)
Awaited(q) ==
    /\ q.to = worker
    /\ q.kind # "write" => q.n = 0
    /\ IF q.kind = "single" THEN q.op \in Statements
       ELSE q.op \in Transactions /\ owner[q.op] = worker
    /\ q.kind # "write" => stage[q.op] = q.kind
    /\ q.kind = "write" => stage[q.op] \in {"body", "rollback"}

ClientInv ==
    /\ SyncTypeOK
    /\ ProcOK
    /\ \A q \in pending : Awaited(q)
    /\ OneAtATime

LEMMA OpsAre ==
  /\ Transactions \subseteq Ops /\ Statements \subseteq Ops /\ MainWrites \subseteq Ops
  /\ \A m \in MainWrites : m \notin Transactions
  /\ \A s \in Statements : s \notin Transactions
  /\ None \notin Ops
BY OpsAssumption DEF Ops

LEMMA ClientMeans ==
  ASSUME ClientInv
  PROVE  SyncInv /\ SingleWriterProcess
<1>1. OwnershipIsCurrent
  BY DEF ClientInv, ProcOK, Awaited, OwnershipIsCurrent, Settled, SyncTypeOK, Requests
<1>2. SingleWriterProcess
  BY OpsAssumption DEF ClientInv, ProcOK, SyncTypeOK, SingleWriterProcess, Alive
<1> QED
  BY <1>1, <1>2 DEF ClientInv, SyncInv

LEMMA ClientInit ==
  ASSUME SyncInit
  PROVE  ClientInv
<1>1. SyncTypeOK
  <2>1. calls \in Seq(Ops) /\ store \in Seq(Commits)
    BY DEF SyncInit
  <2>2. /\ stage \in [Ops -> Stages]
        /\ issued \in [Transactions -> 0 .. MaxWrites]
        /\ refused \subseteq Transactions \X (0 .. MaxWrites)
        /\ owner \in [Transactions -> Ops \cup {None}]
    BY OpsAssumption DEF SyncInit, Stages
  <2>3. /\ worker \in Ops \cup {None} /\ shutdown \in Ops \cup {None}
        /\ closed \in BOOLEAN /\ pending \subseteq Requests
        /\ proc \in [Ops -> ProcStates]
    BY DEF SyncInit, ProcStates
  <2>4. /\ inbox \in [Ops -> Seq(Requests)]
        /\ answers \in [Ops -> Seq([request : Requests, ok : BOOLEAN])]
    BY DEF SyncInit
  <2>5. dirty \in [Ops -> {None} \cup SUBSET (Ops \X (0 .. MaxWrites))]
    BY DEF SyncInit
  <2> QED
    BY <2>1, <2>2, <2>3, <2>4, <2>5 DEF SyncTypeOK
<1>2. ProcOK
  BY OpsAre DEF SyncInit, ProcOK, Alive
<1> QED
  BY <1>1, <1>2 DEF SyncInit, ClientInv, OneAtATime

(* An operation leaves the queue only in its turn, and what is settled stays *)
(* so.                                                                       *)
LEMMA TurnsKept ==
  ASSUME OneAtATime, calls \in Seq(Ops), calls' = calls,
         \A o \in Ops : Settled(o) => Settled(o)',
         \A o \in Ops : stage[o] = "queued" /\ stage'[o] # "queued" => MyTurn(o)
  PROVE  OneAtATime'
<1> SUFFICES ASSUME NEW i \in DOMAIN calls, NEW j \in DOMAIN calls, i < j, stage'[calls[j]] # "queued"
             PROVE  Settled(calls[i])'
  BY DEF OneAtATime
<1>1. calls[i] \in Ops /\ calls[j] \in Ops
  OBVIOUS
<1>2. Settled(calls[i])
  <2>1. CASE stage[calls[j]] = "queued"
    BY <1>1, <2>1 DEF MyTurn
  <2>2. CASE stage[calls[j]] # "queued"
    BY <2>2 DEF OneAtATime
  <2> QED
    BY <2>1, <2>2
<1> QED
  BY <1>1, <1>2

(* rejectPending() touches only operations that await an answer.             *)
LEMMA AbandonOf ==
  ASSUME SyncTypeOK, NEW g
  PROVE  /\ Abandon(g) \in [Ops -> Stages]
         /\ \A o \in Ops : \/ Abandon(g)[o] = stage[o]
                           \/ /\ stage[o] \in {"begin", "commit", "rollback", "single"}
                              /\ Abandon(g)[o] \in {"drain", "failed"}
<1>1. \A o \in Ops : stage[o] \in Stages
  BY DEF SyncTypeOK
<1>2. \A o \in Ops : Abandon(g)[o] =
          IF ~\E q \in pending : q.op = o /\ q.to = g THEN stage[o]
          ELSE CASE stage[o] \in {"begin", "commit", "rollback"} -> "drain"
                 [] stage[o] = "single" -> "failed"
                 [] OTHER -> stage[o]
  BY DEF Abandon
<1>3. \A o \in Ops : \/ Abandon(g)[o] = stage[o]
                     \/ /\ stage[o] \in {"begin", "commit", "rollback", "single"}
                        /\ Abandon(g)[o] \in {"drain", "failed"}
  BY <1>2
<1>4. Abandon(g) = [o \in Ops |-> Abandon(g)[o]]
  BY DEF Abandon
<1>5. \A o \in Ops : Abandon(g)[o] \in Stages
  BY <1>1, <1>3 DEF Stages
<1> QED
  BY <1>3, <1>4, <1>5

(* The operations and the processes apart from their messages.               *)
LEMMA RetireKeeps ==
  ASSUME ClientInv, worker # None, NEW stages \in [Ops -> Stages],
         \A o \in Ops : \/ stages[o] = stage[o]
                        \/ ~Settled(o) /\ stage[o] \notin {"idle", "queued"} /\ stages[o] \in {"drain", "failed"},
         Retire(stages), answers' \in [Ops -> Seq([request : Requests, ok : BOOLEAN])]
  PROVE  ClientInv'
<1>1. SyncTypeOK /\ ProcOK /\ OneAtATime /\ worker \in Ops /\ shutdown = None
  BY DEF ClientInv, SyncTypeOK, ProcOK
<1>2. /\ worker' = None /\ shutdown' = worker /\ stage' = stages
      /\ proc' = [proc EXCEPT ![worker] = IF @ = "running" THEN "killed" ELSE @]
      /\ pending' = {q \in pending : q.to # worker}
      /\ UNCHANGED <<calls, issued, refused, owner, closed, inbox, dirty, store>>
  BY DEF Retire
<1>3. pending' = {}
  BY <1>2 DEF ClientInv, Awaited
<1>4. proc' \in [Ops -> ProcStates]
  BY <1>1, <1>2 DEF SyncTypeOK, ProcStates
<1>5. SyncTypeOK'
  BY <1>1, <1>2, <1>3, <1>4 DEF SyncTypeOK
<1>6. ProcOK'
  <2>1. \A t \in Transactions : owner'[t] = None => stage'[t] \in {"idle", "queued", "failed"}
    BY <1>1, <1>2, OpsAre DEF ProcOK, Settled
  <2> QED
    BY <1>1, <1>2, <2>1, OpsAre DEF SyncTypeOK, ProcOK, Alive
<1>7. OneAtATime'
  BY <1>1, <1>2, TurnsKept DEF SyncTypeOK, Settled
<1> QED
  BY <1>3, <1>5, <1>6, <1>7 DEF ClientInv

-----------------------------------------------------------------------------
(* The steps of an operation.                                                *)

LEMMA CallKeeps ==
  ASSUME ClientInv, NEW o \in Ops, Call(o)
  PROVE  ClientInv'
<1>1. SyncTypeOK /\ ProcOK /\ OneAtATime
  BY DEF ClientInv
<1>2. stage[o] = "idle" /\ stage' = [stage EXCEPT ![o] = "queued"] /\ calls' = Append(calls, o)
  BY DEF Call
<1>3. UNCHANGED <<issued, refused, owner, worker, shutdown, closed, pending, proc, inbox, answers, dirty, store>>
  BY DEF Call, procVars
<1>4. calls' \in Seq(Ops) /\ stage' \in [Ops -> Stages]
  BY <1>1, <1>2 DEF SyncTypeOK, Stages
<1>5. SyncTypeOK'
  BY <1>1, <1>3, <1>4 DEF SyncTypeOK
<1>6. ProcOK'
  BY <1>1, <1>2, <1>3 DEF ProcOK, Alive, SyncTypeOK
<1>7. OneAtATime'
  <2> SUFFICES ASSUME NEW i \in DOMAIN calls', NEW j \in DOMAIN calls', i < j, stage'[calls'[j]] # "queued"
               PROVE  stage'[calls'[i]] \in {"ok", "failed"}
    BY DEF OneAtATime, Settled
  <2>1. calls'[j] # o
    BY <1>1, <1>2 DEF SyncTypeOK
  <2>2. j \in DOMAIN calls /\ calls'[j] = calls[j]
    BY <1>1, <1>2, <2>1 DEF SyncTypeOK
  <2>3. i \in DOMAIN calls /\ calls'[i] = calls[i] /\ calls[i] \in Ops /\ calls[j] \in Ops
    BY SMTT(40), <1>1, <1>2, <2>2 DEF SyncTypeOK
  <2>4. Settled(calls[i])
    BY <1>1, <1>2, <2>1, <2>2, <2>3 DEF OneAtATime, SyncTypeOK
  <2> QED
    BY <1>1, <1>2, <2>3, <2>4 DEF Settled, SyncTypeOK
<1>8. \A q \in pending : Awaited(q)'
  <2> SUFFICES ASSUME NEW q \in pending
               PROVE  Awaited(q)'
    OBVIOUS
  <2>1. Awaited(q) /\ q.op \in Ops
    BY DEF ClientInv, SyncTypeOK, Requests
  <2>2. q.op # o
    BY <1>2, <2>1, <1>1 DEF Awaited, SyncTypeOK, Requests
  <2> QED
    BY <1>1, <1>2, <1>3, <2>1, <2>2 DEF Awaited, SyncTypeOK
<1> QED
  BY <1>3, <1>5, <1>6, <1>7, <1>8 DEF ClientInv

(* The stage of one operation that has begun moves on and nothing else does  *)
(* but messages.                                                             *)
LEMMA StageKeeps ==
  ASSUME ClientInv, NEW o \in Ops, NEW s \in Stages \ {"idle", "queued"},
         stage' = [stage EXCEPT ![o] = s],
         stage[o] # "idle", ~Settled(o), stage[o] = "queued" => MyTurn(o),
         o \in Transactions /\ owner[o] = None => s = "failed",
         UNCHANGED <<calls, issued, owner, worker, shutdown, closed, proc>>,
         UNCHANGED dirty, refused' \subseteq Transactions \X (0 .. MaxWrites),
         answers' \in [Ops -> Seq([request : Requests, ok : BOOLEAN])],
         pending' \subseteq Requests, inbox' \in [Ops -> Seq(Requests)], store' \in Seq(Commits)
  PROVE  SyncTypeOK' /\ ProcOK' /\ OneAtATime'
<1>1. SyncTypeOK /\ ProcOK /\ OneAtATime
  BY DEF ClientInv
<1>2. stage' \in [Ops -> Stages]
  BY <1>1 DEF SyncTypeOK
<1>3. SyncTypeOK'
  BY <1>1, <1>2 DEF SyncTypeOK
<1>4. ProcOK'
  BY <1>1 DEF ProcOK, Alive, SyncTypeOK
<1>5. OneAtATime'
  <2>1. \A p \in Ops : Settled(p) => Settled(p)'
    BY <1>1 DEF Settled, SyncTypeOK
  <2>2. \A p \in Ops : stage[p] = "queued" /\ stage'[p] # "queued" => MyTurn(p)
    BY <1>1 DEF SyncTypeOK
  <2> QED
    BY <1>1, <2>1, <2>2, TurnsKept DEF SyncTypeOK
<1> QED
  BY <1>3, <1>4, <1>5

(* What is known of a request that somebody awaits.                          *)
LEMMA RequestFacts ==
  ASSUME ClientInv, NEW q \in pending
  PROVE  /\ q \in Requests /\ q.op \in Ops /\ q.to = worker /\ worker \in Ops
         /\ worker # None /\ shutdown = None
         /\ q.kind # "write" => q.n = 0 /\ stage[q.op] = q.kind
         /\ q.kind = "write" => stage[q.op] \in {"body", "rollback"}
         /\ q.kind = "single" => q.op \in Statements
         /\ q.kind # "single" => q.op \in Transactions /\ owner[q.op] = worker
BY OpsAssumption DEF ClientInv, SyncTypeOK, ProcOK, Awaited, Requests

LEMMA SameRequest ==
  ASSUME ClientInv, NEW q \in pending, NEW r \in pending, q.op = r.op, q.kind = r.kind, q.kind # "write"
  PROVE  q = r
<1>1. q \in Requests /\ r \in Requests /\ q.n = 0 /\ r.n = 0 /\ q.to = r.to
  BY RequestFacts
<1> QED
  BY <1>1 DEF Requests

LEMMA AwaitedElsewhere ==
  ASSUME ClientInv, NEW o \in Ops, NEW q \in pending, q.op # o, worker' = worker,
         \A p \in Ops \ {o} : stage'[p] = stage[p],
         \A p \in Transactions \ {o} : owner'[p] = owner[p]
  PROVE  Awaited(q)'
BY RequestFacts DEF ClientInv, Awaited

LEMMA RefuseKeeps ==
  ASSUME ClientInv, NEW o \in Ops, RefuseClosed(o)
  PROVE  ClientInv'
<1>1. /\ stage[o] = "queued" /\ MyTurn(o) /\ stage' = [stage EXCEPT ![o] = "failed"]
      /\ UNCHANGED <<calls, issued, refused, owner, worker, shutdown, closed, pending, proc, inbox, answers, dirty, store>>
  BY DEF RefuseClosed, Admitted, MyTurn, procVars
<1>2. SyncTypeOK
  BY DEF ClientInv
<1>3. SyncTypeOK' /\ ProcOK' /\ OneAtATime'
  BY <1>1, <1>2, StageKeeps DEF SyncTypeOK, Settled, Stages
<1>4. \A q \in pending : q.op # o
  BY <1>1, RequestFacts DEF Requests
<1>5. \A q \in pending : Awaited(q)'
  BY <1>1, <1>2, <1>4, AwaitedElsewhere DEF SyncTypeOK
<1> QED
  BY <1>1, <1>3, <1>5 DEF ClientInv

LEMMA MainWriteKeeps ==
  ASSUME ClientInv, NEW m \in MainWrites, MainWrite(m)
  PROVE  ClientInv'
<1>1. /\ stage[m] = "queued" /\ MyTurn(m) /\ stage' = [stage EXCEPT ![m] = "ok"]
      /\ UNCHANGED <<calls, issued, refused, owner, worker, shutdown, closed, pending, proc, inbox, answers, dirty>>
      /\ store' = Append(store, [op |-> m, writes |-> {<<m, 0>>}])
      /\ m \in Ops
  BY DEF MainWrite, Admitted, MyTurn, Ops
<1>2. SyncTypeOK
  BY DEF ClientInv
<1>3. [op |-> m, writes |-> {<<m, 0>>}] \in Commits
  BY <1>1, OpsAssumption DEF Commits
<1>4. store' \in Seq(Commits)
  BY <1>1, <1>2, <1>3 DEF SyncTypeOK
<1>5. SyncTypeOK' /\ ProcOK' /\ OneAtATime'
  BY OpsAre, <1>1, <1>2, <1>4, StageKeeps DEF SyncTypeOK, Settled, Stages
<1>6. \A q \in pending : q.op # m
  BY <1>1, RequestFacts DEF Requests
<1>7. \A q \in pending : Awaited(q)'
  BY <1>1, <1>2, <1>6, AwaitedElsewhere DEF SyncTypeOK
<1> QED
  BY <1>1, <1>5, <1>7 DEF ClientInv

(* The operation whose turn it is takes the worker, or forks one: nobody     *)
(* awaits an answer then, and no other process is alive.                     *)
LEMMA StartKeeps ==
  ASSUME ClientInv, NEW o \in Ops, NEW kind \in {"begin", "single"}, Admitted(o), Start(o, kind, kind),
         IF kind = "begin" THEN o \in Transactions /\ owner' = [owner EXCEPT ![o] = worker']
                           ELSE o \in Statements /\ owner' = owner
  PROVE  ClientInv'
<1>1. SyncTypeOK /\ ProcOK /\ OneAtATime /\ stage[o] = "queued" /\ MyTurn(o) /\ shutdown = None /\ ~closed
  BY DEF ClientInv, Admitted, MyTurn, Start
<1>2. /\ worker' = (IF worker = None THEN o ELSE worker)
      /\ proc' = (IF worker = None THEN [proc EXCEPT ![o] = "running"] ELSE proc)
      /\ pending' = pending \cup {Request(o, kind, worker')}
      /\ inbox' = (IF worker # None /\ ~Alive(worker) THEN inbox
                   ELSE [inbox EXCEPT ![worker'] = Append(@, Request(o, kind, worker'))])
      /\ stage' = [stage EXCEPT ![o] = kind]
      /\ UNCHANGED <<calls, issued, refused, shutdown, closed, answers, dirty, store>>
  BY DEF Start
<1>3. worker' \in Ops /\ worker' # None /\ Request(o, kind, worker') \in Requests
  BY <1>1, <1>2, OpsAssumption DEF SyncTypeOK, Request, Requests
<1>4. \A q \in pending : worker' = worker /\ q.op # o
  BY <1>1, <1>2, RequestFacts DEF Requests
<1>5. pending' \subseteq Requests /\ inbox' \in [Ops -> Seq(Requests)]
  BY <1>1, <1>2, <1>3 DEF SyncTypeOK
<1>6. stage' \in [Ops -> Stages] /\ proc' \in [Ops -> ProcStates] /\ owner' \in [Transactions -> Ops \cup {None}]
  BY <1>1, <1>2, <1>3 DEF SyncTypeOK, Stages, ProcStates
<1>7. SyncTypeOK'
  BY <1>1, <1>2, <1>3, <1>5, <1>6 DEF SyncTypeOK
<1>8. ProcOK'
  BY <1>1, <1>2, <1>3, OpsAssumption DEF SyncTypeOK, ProcOK, Alive
<1>9. OneAtATime'
  BY <1>1, <1>2, TurnsKept DEF SyncTypeOK, Settled
<1>10. \A q \in pending : Awaited(q)'
  BY <1>1, <1>2, <1>4, AwaitedElsewhere DEF SyncTypeOK
<1>11. ASSUME NEW q \in pending', q \notin pending
       PROVE  Awaited(q)'
  <2>1. q.op = o /\ q.kind = kind /\ q.n = 0 /\ q.to = worker'
    BY <1>2, <1>11 DEF Request
  <2>2. stage'[o] = kind
    BY <1>1, <1>2 DEF SyncTypeOK
  <2>3. kind = "begin" => owner'[o] = worker'
    BY <1>1 DEF SyncTypeOK
  <2> QED
    BY <2>1, <2>2, <2>3 DEF Awaited
<1>12. \A q \in pending' : Awaited(q)'
  BY <1>10, <1>11
<1> QED
  BY <1>7, <1>8, <1>9, <1>12 DEF ClientInv

-----------------------------------------------------------------------------
(* Inside a transaction.                                                     *)

LEMMA SentTyped ==
  ASSUME SyncTypeOK, NEW q \in Requests, Sent(q)
  PROVE  /\ pending' = pending \cup {q} /\ pending' \subseteq Requests
         /\ inbox' \in [Ops -> Seq(Requests)]
<1>1. q.to \in Ops
  BY DEF Requests
<1> QED
  BY SMTT(40), <1>1 DEF Sent, SyncTypeOK

LEMMA IssueKeeps ==
  ASSUME ClientInv, NEW t \in Transactions, IssueWrite(t)
  PROVE  ClientInv'
<1>1. /\ SyncTypeOK /\ ProcOK /\ OneAtATime /\ t \in Ops /\ issued[t] \in 0 .. MaxWrites
      /\ issued[t] < MaxWrites /\ issued' = [issued EXCEPT ![t] = @ + 1]
      /\ stage[t] \in {"body", "rollback", "drain", "failed"} /\ owner[t] # None
      /\ UNCHANGED <<calls, stage, refused, owner, worker, shutdown, closed, proc, answers, dirty, store>>
  BY DEF IssueWrite, ClientInv, SyncTypeOK, Ops
<1>2. issued' \in [Transactions -> 0 .. MaxWrites] /\ issued'[t] \in 0 .. MaxWrites
  BY <1>1, OpsAssumption DEF SyncTypeOK
<1>3. ProcOK' /\ OneAtATime'
  BY <1>1 DEF ProcOK, OneAtATime, Alive, Settled
<1>4. CASE ContextActive(t) /\ worker = owner[t]
  <2> DEFINE w == [op |-> t, kind |-> "write", n |-> issued'[t], to |-> worker]
  <2>1. worker \in Ops
    BY <1>1, <1>4 DEF SyncTypeOK
  <2>2. w \in Requests /\ Sent(w)
    BY <1>1, <1>2, <1>4, <2>1 DEF Requests, IssueWrite
  <2>3. pending' = pending \cup {w} /\ pending' \subseteq Requests /\ inbox' \in [Ops -> Seq(Requests)]
    BY <1>1, <2>2, SentTyped
  <2>4. SyncTypeOK'
    BY <1>1, <1>2, <2>3 DEF SyncTypeOK
  <2>5. stage[t] = "body"
    BY <1>1, <1>4 DEF ContextActive
  <2>6. ASSUME NEW q \in pending'
        PROVE  Awaited(q)'
    <3>1. CASE q \in pending
      BY <1>1, <3>1 DEF ClientInv, Awaited
    <3>2. CASE q = w
      <4>1. q.to = worker /\ q.kind = "write" /\ q.op = t
        BY <3>2
      <4> QED
        BY <4>1, <1>1, <1>4, <2>5 DEF Awaited
    <3> QED
      BY <2>3, <3>1, <3>2
  <2> QED
    BY <1>3, <2>4, <2>6 DEF ClientInv
<1>5. CASE ~(ContextActive(t) /\ worker = owner[t])
  <2>1. UNCHANGED <<pending, inbox>>
    BY <1>5 DEF IssueWrite
  <2>2. SyncTypeOK'
    BY <1>1, <1>2, <2>1 DEF SyncTypeOK
  <2>3. \A q \in pending' : Awaited(q)'
    BY <1>1, <2>1 DEF ClientInv, Awaited
  <2> QED
    BY <1>3, <2>2, <2>3 DEF ClientInv
<1> QED
  BY <1>4, <1>5

LEMMA ReturnKeeps ==
  ASSUME ClientInv, NEW t \in Transactions, OperationReturns(t) \/ Rethrow(t)
  PROVE  ClientInv'
<1> DEFINE s == IF stage[t] = "body" THEN "publish" ELSE "failed"
<1>1. /\ stage[t] \in {"body", "drain"} /\ stage' = [stage EXCEPT ![t] = s]
      /\ UNCHANGED <<calls, issued, refused, owner, worker, shutdown, closed, pending, proc, inbox, answers, dirty, store>>
      /\ t \in Ops
  BY DEF OperationReturns, Rethrow, procVars, Ops
<1>2. SyncTypeOK /\ s \in Stages \ {"idle", "queued"}
  BY DEF ClientInv, Stages
<1>3. owner[t] = None => s = "failed"
  BY <1>1 DEF ClientInv, ProcOK
<1>4. SyncTypeOK' /\ ProcOK' /\ OneAtATime'
  BY <1>1, <1>2, <1>3, StageKeeps DEF SyncTypeOK, Settled
<1>5. \A q \in pending : q.op # t
  BY <1>1, RequestFacts DEF Requests, OperationReturns, Rethrow
<1>6. \A q \in pending : Awaited(q)'
  BY <1>1, <1>2, <1>5, AwaitedElsewhere DEF SyncTypeOK
<1> QED
  BY <1>1, <1>4, <1>6 DEF ClientInv

(* The transaction asks its worker to commit or to roll back.                *)
LEMMA AskKeeps ==
  ASSUME ClientInv, NEW t \in Transactions, NEW kind \in {"commit", "rollback"},
         worker = owner[t], worker # None, stage[t] \in {"body", "publish"},
         kind = "commit" => stage[t] = "publish",
         Sent(Request(t, kind, worker)), stage' = [stage EXCEPT ![t] = kind],
         UNCHANGED <<calls, issued, refused, owner, worker, shutdown, closed, proc, answers, dirty, store>>
  PROVE  ClientInv'
<1>1. SyncTypeOK /\ t \in Ops /\ worker \in Ops /\ Request(t, kind, worker) \in Requests
  <2>1. SyncTypeOK /\ t \in Ops
    BY DEF ClientInv, Ops
  <2>2. worker \in Ops
    BY <2>1 DEF SyncTypeOK
  <2> QED
    BY <2>1, <2>2, OpsAssumption DEF Request, Requests
<1>2. pending' = pending \cup {Request(t, kind, worker)} /\ pending' \subseteq Requests /\ inbox' \in [Ops -> Seq(Requests)]
  BY <1>1, SentTyped
<1>3. SyncTypeOK' /\ ProcOK' /\ OneAtATime'
  BY <1>1, <1>2, StageKeeps DEF SyncTypeOK, Settled, Stages
<1>4. ASSUME NEW q \in pending'
      PROVE  Awaited(q)'
  <2>1. CASE q = Request(t, kind, worker)
    <3>1. q.op = t /\ q.kind = kind /\ q.n = 0 /\ q.to = worker
      BY <2>1 DEF Request
    <3> QED
      BY <3>1, <1>1 DEF Awaited, SyncTypeOK
  <2>2. CASE q \in pending /\ q.op # t
    BY <1>1, <2>2, AwaitedElsewhere DEF SyncTypeOK
  <2>3. CASE q \in pending /\ q.op = t
    <3>1. q.kind = "write" /\ stage[t] = "body" /\ kind = "rollback"
      BY <2>3, RequestFacts DEF Requests
    <3> QED
      BY <1>1, <2>3, <3>1, RequestFacts DEF Awaited, SyncTypeOK
  <2> QED
    BY <1>2, <2>1, <2>2, <2>3
<1> QED
  BY <1>3, <1>4 DEF ClientInv

(* Its worker is retired or gone: nobody awaits an answer for it.            *)
LEMMA DrainKeeps ==
  ASSUME ClientInv, NEW t \in Transactions, worker # owner[t],
         stage[t] \in {"body", "publish"}, stage' = [stage EXCEPT ![t] = "drain"],
         UNCHANGED <<calls, issued, refused, owner, worker, shutdown, closed, pending, proc, inbox, answers, dirty, store>>
  PROVE  ClientInv'
<1>1. SyncTypeOK /\ t \in Ops
  BY DEF ClientInv, Ops
<1>2. owner[t] # None
  BY DEF ClientInv, ProcOK
<1>3. SyncTypeOK' /\ ProcOK' /\ OneAtATime'
  BY <1>1, <1>2, StageKeeps DEF SyncTypeOK, Settled, Stages
<1>4. \A q \in pending : q.op # t
  BY RequestFacts, OpsAssumption
<1>5. \A q \in pending : Awaited(q)'
  BY <1>1, <1>4, AwaitedElsewhere DEF SyncTypeOK
<1> QED
  BY <1>3, <1>5 DEF ClientInv

LEMMA AbortKeeps ==
  ASSUME ClientInv, NEW t \in Transactions, stage[t] \in {"body", "publish"}, Abort(t),
         UNCHANGED <<calls, issued, refused, owner, worker, shutdown, closed, proc, answers, dirty, store>>
  PROVE  ClientInv'
<1>1. owner[t] # None
  BY DEF ClientInv, ProcOK
<1>2. CASE worker = owner[t]
  BY <1>1, <1>2, AskKeeps DEF Abort
<1>3. CASE worker # owner[t]
  BY <1>3, DrainKeeps DEF Abort
<1> QED
  BY <1>2, <1>3

LEMMA ThrowsKeeps ==
  ASSUME ClientInv, NEW t \in Transactions, OperationThrows(t)
  PROVE  ClientInv'
BY AbortKeeps DEF OperationThrows

LEMMA CommitKeeps ==
  ASSUME ClientInv, NEW t \in Transactions, CommitTransaction(t)
  PROVE  ClientInv'
<1>1. stage[t] = "publish" /\ owner[t] # None
  BY DEF ClientInv, ProcOK, CommitTransaction
<1>2. CASE worker = owner[t]
  BY <1>1, <1>2, AskKeeps DEF CommitTransaction
<1>3. CASE worker # owner[t]
  BY <1>1, <1>3, AbortKeeps DEF CommitTransaction
<1> QED
  BY <1>2, <1>3

-----------------------------------------------------------------------------
(* The events of the client.                                                 *)

LEMMA AnswersTyped ==
  ASSUME SyncTypeOK, NEW g \in Ops, Answered(g)
  PROVE  /\ answers' \in [Ops -> Seq([request : Requests, ok : BOOLEAN])]
         /\ Head(answers[g]) \in [request : Requests, ok : BOOLEAN]
<1>1. answers[g] \in Seq([request : Requests, ok : BOOLEAN]) /\ answers[g] # <<>>
  BY DEF SyncTypeOK, Answered
<1>2. /\ Tail(answers[g]) \in Seq([request : Requests, ok : BOOLEAN])
      /\ Head(answers[g]) \in [request : Requests, ok : BOOLEAN]
  BY <1>1, HeadTailProperties
<1> QED
  BY <1>2 DEF SyncTypeOK, Answered

(* What the operations and the processes are, apart from messages, is left   *)
(* alone.                                                                    *)
LEMMA MessagesKeep ==
  ASSUME ClientInv, UNCHANGED <<clientVars, proc>>,
         inbox' \in [Ops -> Seq(Requests)],
         answers' \in [Ops -> Seq([request : Requests, ok : BOOLEAN])],
         dirty' \in [Ops -> {None} \cup SUBSET (Ops \X (0 .. MaxWrites))],
         store' \in Seq(Commits)
  PROVE  ClientInv'
<1>1. UNCHANGED <<calls, stage, issued, refused, owner, worker, shutdown, closed, pending, proc>>
  BY DEF clientVars
<1>2. SyncTypeOK'
  BY <1>1 DEF ClientInv, SyncTypeOK
<1>3. ProcOK' /\ OneAtATime'
  BY <1>1 DEF ClientInv, ProcOK, OneAtATime, Alive, Settled
<1>4. \A q \in pending' : Awaited(q)'
  BY <1>1 DEF ClientInv, Awaited
<1> QED
  BY <1>2, <1>3, <1>4 DEF ClientInv

LEMMA StaleKeeps ==
  ASSUME ClientInv, NEW g \in Ops, StaleAnswer(g)
  PROVE  ClientInv'
BY AnswersTyped, MessagesKeep DEF StaleAnswer, ClientInv, SyncTypeOK

LEMMA GiveUpKeeps ==
  ASSUME ClientInv, worker # None, Retire(Abandon(worker)), UNCHANGED answers
  PROVE  ClientInv'
<1>1. SyncTypeOK
  BY DEF ClientInv
<1>2. \A o \in Ops : \/ Abandon(worker)[o] = stage[o]
                     \/ /\ ~Settled(o) /\ stage[o] \notin {"idle", "queued"}
                        /\ Abandon(worker)[o] \in {"drain", "failed"}
  BY <1>1, AbandonOf DEF Settled
<1> QED
  BY <1>1, <1>2, AbandonOf, RetireKeeps DEF SyncTypeOK

LEMMA TimeoutKeeps ==
  ASSUME ClientInv, NEW q \in pending, Timeout(q)
  PROVE  ClientInv'
BY GiveUpKeeps, RequestFacts DEF Timeout

LEMMA ErrorKeeps ==
  ASSUME ClientInv, WorkerError
  PROVE  ClientInv'
BY GiveUpKeeps DEF WorkerError

LEMMA CloseKeeps ==
  ASSUME ClientInv, Close
  PROVE  ClientInv'
<1>1. SyncTypeOK /\ ProcOK /\ OneAtATime
  BY DEF ClientInv
<1>2. closed' = TRUE /\ UNCHANGED <<calls, issued, refused, owner, inbox, answers, dirty, store>>
  BY DEF Close
<1>3. CASE worker = None
  <2>1. UNCHANGED <<stage, worker, shutdown, pending, proc>>
    BY <1>3 DEF Close
  <2>2. SyncTypeOK'
    BY <1>1, <1>2, <2>1 DEF SyncTypeOK
  <2>3. ProcOK' /\ OneAtATime'
    BY <1>1, <1>2, <1>3, <2>1 DEF ProcOK, OneAtATime, Alive, Settled
  <2>4. \A q \in pending' : Awaited(q)'
    BY <1>2, <2>1 DEF ClientInv, Awaited
  <2> QED
    BY <2>2, <2>3, <2>4 DEF ClientInv
<1>4. CASE worker # None
  <2>1. /\ worker' = None /\ shutdown' = worker /\ pending' = {q \in pending : q.to # worker}
        /\ proc' = [proc EXCEPT ![worker] = IF @ = "running" THEN "killed" ELSE @]
        /\ stage' = Abandon(worker)
    BY <1>4 DEF Close
  <2>2. pending' = {} /\ worker \in Ops /\ shutdown = None
    BY <1>1, <1>4, <2>1 DEF ClientInv, Awaited, SyncTypeOK, ProcOK
  <2>3. /\ stage' \in [Ops -> Stages]
        /\ \A o \in Ops : stage'[o] = stage[o] \/ (~Settled(o) /\ stage[o] \notin {"idle", "queued"}
                                                  /\ stage'[o] \in {"drain", "failed"})
    BY <1>1, <2>1, AbandonOf DEF Settled
  <2>4. proc' \in [Ops -> ProcStates]
    BY <1>1, <2>1 DEF SyncTypeOK, ProcStates
  <2>5. SyncTypeOK'
    BY <1>1, <1>2, <2>1, <2>2, <2>3, <2>4 DEF SyncTypeOK
  <2>6. \A t \in Transactions : owner'[t] = None => stage'[t] \in {"idle", "queued", "failed"}
    BY <1>1, <1>2, <2>3, OpsAre DEF ProcOK, Settled
  <2>7. ProcOK'
    BY <1>1, <1>2, <2>1, <2>2, <2>3, <2>6, OpsAre DEF SyncTypeOK, ProcOK, Alive
  <2>8. OneAtATime'
    BY <1>1, <1>2, <2>3, TurnsKept DEF SyncTypeOK, Settled
  <2> QED
    BY <2>2, <2>5, <2>7, <2>8 DEF ClientInv
<1> QED
  BY <1>3, <1>4

LEMMA ExitKeeps ==
  ASSUME ClientInv, NEW g \in Ops, Exit(g)
  PROVE  ClientInv'
<1>1. SyncTypeOK /\ ProcOK /\ OneAtATime
  BY DEF ClientInv
<1>2. /\ proc[g] = "dead" /\ proc' = [proc EXCEPT ![g] = "gone"]
      /\ shutdown' = (IF shutdown = g THEN None ELSE shutdown)
      /\ UNCHANGED <<calls, issued, refused, owner, closed, inbox, answers, dirty, store>>
  BY DEF Exit
<1>3. proc' \in [Ops -> ProcStates] /\ g # None
  BY <1>1, <1>2, OpsAre DEF SyncTypeOK, ProcStates
<1>4. CASE worker = g
  <2>1. worker' = None /\ pending' = {q \in pending : q.to # g} /\ stage' = Abandon(g)
    BY <1>4 DEF Exit
  <2>2. pending' = {} /\ shutdown = None
    BY <1>1, <1>3, <1>4, <2>1 DEF ClientInv, Awaited, ProcOK
  <2>3. /\ stage' \in [Ops -> Stages]
        /\ \A o \in Ops : stage'[o] = stage[o] \/ (~Settled(o) /\ stage[o] \notin {"idle", "queued"}
                                                  /\ stage'[o] \in {"drain", "failed"})
    BY <1>1, <2>1, AbandonOf DEF Settled
  <2>4. SyncTypeOK'
    BY <1>1, <1>2, <1>3, <2>1, <2>2, <2>3 DEF SyncTypeOK
  <2>5. \A t \in Transactions : owner'[t] = None => stage'[t] \in {"idle", "queued", "failed"}
    BY <1>1, <1>2, <2>3, OpsAre DEF ProcOK, Settled
  <2>6. ProcOK'
    BY <1>1, <1>2, <1>4, <2>1, <2>2, <2>3, <2>5, OpsAre DEF SyncTypeOK, ProcOK, Alive
  <2>7. OneAtATime'
    BY <1>1, <1>2, <2>3, TurnsKept DEF SyncTypeOK, Settled
  <2> QED
    BY <2>2, <2>4, <2>6, <2>7 DEF ClientInv
<1>5. CASE worker # g
  <2>1. UNCHANGED <<worker, pending, stage>>
    BY <1>5 DEF Exit
  <2>2. SyncTypeOK'
    BY <1>1, <1>2, <1>3, <2>1 DEF SyncTypeOK
  <2>3. ProcOK'
    BY <1>1, <1>2, <1>3, <1>5, <2>1, OpsAre DEF SyncTypeOK, ProcOK, Alive
  <2>4. OneAtATime' /\ \A q \in pending' : Awaited(q)'
    BY <1>2, <2>1 DEF ClientInv, OneAtATime, Settled, Awaited
  <2> QED
    BY <2>2, <2>3, <2>4 DEF ClientInv
<1> QED
  BY <1>4, <1>5

(* An answer that lets the operation go on.                                  *)
LEMMA ProgressKeeps ==
  ASSUME ClientInv, NEW q \in pending, NEW ok \in BOOLEAN, ok \/ q.kind \in {"single", "write"}, q.kind # "rollback",
         refused' = (IF q.kind = "write" /\ ~ok THEN refused \cup {<<q.op, q.n>>} ELSE refused),
         answers' \in [Ops -> Seq([request : Requests, ok : BOOLEAN])],
         pending' = pending \ {q}, stage' = [stage EXCEPT ![q.op] = Progress(q, ok)],
         UNCHANGED <<calls, issued, owner, worker, shutdown, closed, proc, inbox, dirty, store>>
  PROVE  ClientInv'
<1> DEFINE t == q.op
<1>1. /\ SyncTypeOK /\ ProcOK /\ OneAtATime /\ q \in Requests /\ t \in Ops
      /\ stage[t] \in Stages \ {"idle", "queued"} /\ ~Settled(t)
  BY RequestFacts DEF ClientInv, SyncTypeOK, Requests, Settled
<1>2. t \in Transactions => owner[t] # None
  BY RequestFacts, OpsAre
<1>3. Progress(q, ok) \in Stages \ {"idle", "queued"}
  BY <1>1 DEF Progress, Stages
<1>4. pending' \subseteq Requests
  BY <1>1 DEF SyncTypeOK
<1>41. refused' \subseteq Transactions \X (0 .. MaxWrites)
  <2>1. q.kind = "write" => t \in Transactions /\ q.n \in 0 .. MaxWrites
    BY <1>1, RequestFacts DEF Requests
  <2> QED
    BY <1>1, <2>1 DEF SyncTypeOK
<1>5. SyncTypeOK' /\ ProcOK' /\ OneAtATime'
  BY <1>1, <1>2, <1>3, <1>4, <1>41, StageKeeps DEF SyncTypeOK
<1>6. ASSUME NEW r \in pending', r.op = t
      PROVE  q.kind = "write"
  <2>1. r \in pending /\ r # q
    BY <1>6
  <2>2. \/ r.kind = q.kind
        \/ q.kind = "write" \/ r.kind = "write"
    BY <1>6, <2>1, RequestFacts
  <2>3. CASE r.kind = "write"
    BY <1>6, <2>1, <2>3, RequestFacts DEF Requests
  <2> QED
    BY <1>6, <2>1, <2>2, <2>3, SameRequest
<1>7. ASSUME NEW r \in pending'
      PROVE  Awaited(r)'
  <2>1. CASE r.op # t
    BY <1>1, <2>1, AwaitedElsewhere DEF SyncTypeOK
  <2>2. CASE r.op = t
    <3>1. q.kind = "write"
      BY <1>6, <2>2
    <3>2. Progress(q, ok) = stage[t]
      BY <3>1 DEF Progress
    <3>3. stage' = stage
      BY <1>1, <3>2 DEF SyncTypeOK
    <3> QED
      BY <3>3 DEF ClientInv, Awaited
  <2> QED
    BY <2>1, <2>2
<1> QED
  BY <1>5, <1>7 DEF ClientInv

(* The commit was refused.                                                   *)
LEMMA RefusalKeeps ==
  ASSUME ClientInv, NEW q \in pending, q.kind = "commit",
         answers' \in [Ops -> Seq([request : Requests, ok : BOOLEAN])],
         pending' = (pending \ {q}) \cup {Request(q.op, "rollback", worker)},
         inbox' = (IF Alive(worker)
                   THEN [inbox EXCEPT ![worker] = Append(@, Request(q.op, "rollback", worker))]
                   ELSE inbox),
         stage' = [stage EXCEPT ![q.op] = "rollback"],
         UNCHANGED <<calls, issued, refused, owner, worker, shutdown, closed, proc, dirty, store>>
  PROVE  ClientInv'
<1> DEFINE t == q.op
           b == Request(t, "rollback", worker)
<1>1. /\ SyncTypeOK /\ ProcOK /\ OneAtATime /\ q \in Requests /\ t \in Transactions /\ t \in Ops
      /\ worker \in Ops /\ owner[t] = worker /\ worker # None /\ stage[t] = "commit"
  BY RequestFacts DEF ClientInv
<1>2. b \in Requests
  BY <1>1, OpsAssumption DEF Request, Requests
<1>3. pending' \subseteq Requests /\ inbox' \in [Ops -> Seq(Requests)]
  BY <1>1, <1>2 DEF SyncTypeOK
<1>4. SyncTypeOK' /\ ProcOK' /\ OneAtATime'
  BY <1>1, <1>3, StageKeeps DEF SyncTypeOK, Settled, Stages
<1>5. ASSUME NEW r \in pending'
      PROVE  Awaited(r)'
  <2>1. CASE r = b
    <3>1. r.op = t /\ r.kind = "rollback" /\ r.n = 0 /\ r.to = worker
      BY <2>1 DEF Request
    <3> QED
      BY <3>1, <1>1 DEF Awaited, SyncTypeOK
  <2>2. CASE r \in pending /\ r.op # t
    BY <1>1, <2>2, AwaitedElsewhere DEF SyncTypeOK
  <2>3. CASE r \in pending /\ r # q /\ r.op = t
    <3>1. r.kind = "commit"
      BY <1>1, <2>3, RequestFacts
    <3> QED
      BY <2>3, <3>1, SameRequest
  <2> QED
    BY <2>1, <2>2, <2>3
<1> QED
  BY <1>4, <1>5 DEF ClientInv

LEMMA AnswerKeeps ==
  ASSUME ClientInv, NEW g \in Ops, Answer(g)
  PROVE  ClientInv'
<1> DEFINE q == Head(answers[g]).request
           ok == Head(answers[g]).ok
           t == q.op
<1>1. /\ answers' \in [Ops -> Seq([request : Requests, ok : BOOLEAN])]
      /\ ok \in BOOLEAN /\ q \in pending
  BY AnswersTyped DEF Answer, ClientInv
<1>2. CASE /\ ok \/ q.kind \in {"single", "write"}
           /\ q.kind # "rollback"
           /\ pending' = pending \ {q}
           /\ stage' = [stage EXCEPT ![t] = Progress(q, ok)]
           /\ refused' = IF q.kind = "write" /\ ~ok THEN refused \cup {<<t, q.n>>} ELSE refused
           /\ UNCHANGED <<calls, issued, owner, worker, shutdown, closed, proc, inbox, dirty, store>>
  BY <1>1, <1>2, ProgressKeeps
<1>3. CASE /\ ~ok /\ q.kind = "commit"
           /\ pending' = (pending \ {q}) \cup {Request(t, "rollback", worker)}
           /\ inbox' = IF Alive(worker)
                       THEN [inbox EXCEPT ![worker] = Append(@, Request(t, "rollback", worker))]
                       ELSE inbox
           /\ stage' = [stage EXCEPT ![t] = "rollback"]
           /\ UNCHANGED <<calls, issued, refused, owner, worker, shutdown, closed, proc, dirty, store>>
  BY <1>1, <1>3, RefusalKeeps
<1>4. CASE /\ q.kind = "rollback" \/ (~ok /\ q.kind = "begin")
           /\ Retire([Abandon(g) EXCEPT ![t] = "drain"])
  <2> DEFINE stages == [Abandon(g) EXCEPT ![t] = "drain"]
  <2>1. SyncTypeOK /\ worker # None /\ t \in Ops /\ stage[t] \in {"rollback", "begin"}
    BY <1>1, <1>4, RequestFacts DEF ClientInv
  <2>2. /\ Abandon(g) \in [Ops -> Stages]
        /\ \A o \in Ops : \/ Abandon(g)[o] = stage[o]
                          \/ /\ stage[o] \in {"begin", "commit", "rollback", "single"}
                             /\ Abandon(g)[o] \in {"drain", "failed"}
    BY <2>1, AbandonOf
  <2>3. stages \in [Ops -> Stages]
    BY <2>1, <2>2 DEF Stages
  <2>4. \A o \in Ops : \/ stages[o] = stage[o]
                       \/ /\ ~Settled(o) /\ stage[o] \notin {"idle", "queued"}
                          /\ stages[o] \in {"drain", "failed"}
    BY <2>1, <2>2 DEF Settled
  <2> HIDE DEF stages
  <2> QED
    BY <1>1, <1>4, <2>1, <2>3, <2>4, RetireKeeps DEF stages
<1> QED
  BY <1>2, <1>3, <1>4 DEF Answer

-----------------------------------------------------------------------------
(* The worker process.                                                       *)

LEMMA ExecuteKeeps ==
  ASSUME ClientInv, NEW g \in Ops, Execute(g)
  PROVE  ClientInv'
<1> DEFINE q == Head(inbox[g])
<1>1. SyncTypeOK
  BY DEF ClientInv
<1>2. q \in Requests /\ Tail(inbox[g]) \in Seq(Requests)
  BY <1>1, HeadTailProperties DEF SyncTypeOK, Execute
<1>3. inbox' \in [Ops -> Seq(Requests)] /\ UNCHANGED <<clientVars, proc>>
  BY <1>1, <1>2 DEF SyncTypeOK, Execute
<1>4. answers' \in [Ops -> Seq([request : Requests, ok : BOOLEAN])]
  <2>1. \A b \in BOOLEAN : [request |-> q, ok |-> b] \in [request : Requests, ok : BOOLEAN]
    BY <1>2
  <2>2. PICK a \in [request : Requests, ok : BOOLEAN] : answers' = [answers EXCEPT ![g] = Append(@, a)]
    BY <2>1 DEF Execute
  <2>3. Append(answers[g], a) \in Seq([request : Requests, ok : BOOLEAN])
    BY <1>1, AppendProperties DEF SyncTypeOK
  <2> QED
    BY <1>1, <2>2, <2>3 DEF SyncTypeOK
<1>5. /\ dirty' \in [Ops -> {None} \cup SUBSET (Ops \X (0 .. MaxWrites))]
      /\ store' \in Seq(Commits)
  <2>1. CASE UNCHANGED <<dirty, store>>
    BY <1>1, <2>1 DEF SyncTypeOK
  <2>2. CASE Effect(g, q)
    <3>1. q.op \in Ops /\ q.n \in 0 .. MaxWrites
      BY <1>2 DEF Requests
    <3>2. dirty[g] # None => dirty[g] \in SUBSET (Ops \X (0 .. MaxWrites))
      BY <1>1 DEF SyncTypeOK
    <3>3. /\ [op |-> q.op, writes |-> {<<q.op, q.n>>}] \in Commits
          /\ dirty[g] # None => [op |-> q.op, writes |-> dirty[g]] \in Commits
      BY <3>1, <3>2 DEF Commits
    <3>4. /\ dirty' = dirty \/ dirty' = [dirty EXCEPT ![g] = {}] \/ dirty' = [dirty EXCEPT ![g] = None]
             \/ (dirty[g] # None /\ dirty' = [dirty EXCEPT ![g] = @ \cup {<<q.op, q.n>>}])
          /\ store' = store \/ (\E c \in Commits : store' = Append(store, c))
      BY <2>2, <3>3 DEF Effect
    <3>5. store' \in Seq(Commits)
      <4>1. \A c \in Commits : Append(store, c) \in Seq(Commits)
        BY <1>1, AppendProperties DEF SyncTypeOK
      <4> QED
        BY <1>1, <3>4, <4>1 DEF SyncTypeOK
    <3>6. dirty' \in [Ops -> {None} \cup SUBSET (Ops \X (0 .. MaxWrites))]
      <4>1. dirty[g] # None => dirty[g] \cup {<<q.op, q.n>>} \in SUBSET (Ops \X (0 .. MaxWrites))
        BY <3>1, <3>2
      <4>2. PICK d \in {None} \cup SUBSET (Ops \X (0 .. MaxWrites)) :
                dirty' = dirty \/ dirty' = [dirty EXCEPT ![g] = d]
        BY <3>4, <4>1
      <4> QED
        BY <1>1, <4>2 DEF SyncTypeOK
    <3> QED
      BY <3>5, <3>6
  <2> QED
    BY <2>1, <2>2 DEF Execute
<1> QED
  BY <1>3, <1>4, <1>5, MessagesKeep

LEMMA DieKeeps ==
  ASSUME ClientInv, NEW g \in Ops, Die(g)
  PROVE  ClientInv'
<1>1. SyncTypeOK /\ ProcOK /\ OneAtATime
  BY DEF ClientInv
<1>2. /\ proc[g] \in {"running", "killed"} /\ proc' = [proc EXCEPT ![g] = "dead"]
      /\ inbox' = [inbox EXCEPT ![g] = <<>>] /\ dirty' = [dirty EXCEPT ![g] = None]
      /\ UNCHANGED <<calls, stage, issued, refused, owner, worker, shutdown, closed, pending, answers, store>>
  BY DEF Die, Alive, clientVars
<1>3. proc' \in [Ops -> ProcStates] /\ inbox' \in [Ops -> Seq(Requests)]
  BY <1>1, <1>2 DEF SyncTypeOK, ProcStates
<1>4. dirty' \in [Ops -> {None} \cup SUBSET (Ops \X (0 .. MaxWrites))]
  BY <1>1, <1>2 DEF SyncTypeOK
<1>5. SyncTypeOK'
  BY <1>1, <1>2, <1>3, <1>4 DEF SyncTypeOK
<1>6. ProcOK'
  BY <1>1, <1>2 DEF SyncTypeOK, ProcOK, Alive
<1>7. OneAtATime' /\ \A q \in pending' : Awaited(q)'
  BY <1>2 DEF ClientInv, OneAtATime, Settled, Awaited
<1> QED
  BY <1>5, <1>6, <1>7 DEF ClientInv

-----------------------------------------------------------------------------
LEMMA StepKeeps ==
  ASSUME ClientInv, [SyncNext]_syncVars
  PROVE  ClientInv'
<1>1. CASE UNCHANGED syncVars
  BY <1>1, MessagesKeep DEF syncVars, procVars, clientVars, ClientInv, SyncTypeOK
<1>2. CASE \E o \in Ops : Call(o) \/ RefuseClosed(o)
  BY <1>2, CallKeeps, RefuseKeeps
<1>3. CASE \E t \in Transactions : TransactionStep(t)
  <2> PICK t \in Transactions : TransactionStep(t)
    BY <1>3
  <2>1. CASE BeginTransaction(t)
    BY <2>1, StartKeeps, OpsAre DEF BeginTransaction
  <2>2. CASE IssueWrite(t)
    BY <2>2, IssueKeeps
  <2>3. CASE OperationReturns(t) \/ Rethrow(t)
    BY <2>3, ReturnKeeps
  <2>4. CASE OperationThrows(t)
    BY <2>4, ThrowsKeeps
  <2>5. CASE CommitTransaction(t)
    BY <2>5, CommitKeeps
  <2> QED
    BY <2>1, <2>2, <2>3, <2>4, <2>5 DEF TransactionStep
<1>4. CASE \E s \in Statements : RunStatement(s)
  BY <1>4, StartKeeps, OpsAre DEF RunStatement
<1>5. CASE \E m \in MainWrites : MainWrite(m)
  BY <1>5, MainWriteKeeps
<1>6. CASE \E q \in pending : Timeout(q)
  BY <1>6, TimeoutKeeps
<1>7. CASE \E g \in Ops : StaleAnswer(g) \/ Answer(g) \/ Exit(g) \/ Execute(g) \/ Die(g)
  BY <1>7, StaleKeeps, AnswerKeeps, ExitKeeps, ExecuteKeeps, DieKeeps
<1>8. CASE WorkerError
  BY <1>8, ErrorKeeps
<1>9. CASE Close
  BY <1>9, CloseKeeps
<1> QED
  BY <1>1, <1>2, <1>3, <1>4, <1>5, <1>6, <1>7, <1>8, <1>9 DEF SyncNext

(* Whatever number of operations is called and whatever goes wrong, the      *)
(* client awaits answers only of its current process and for the operation   *)
(* under way, and that operation began after every earlier one was settled   *)
(* (runExclusive, retireWorker and rejectPending).                           *)
THEOREM SyncHolds == SyncSpec => []SyncInv
<1>1. SyncInit => ClientInv
  BY ClientInit
<1>2. ClientInv /\ [SyncNext]_syncVars => ClientInv'
  BY StepKeeps
<1>3. ClientInv => SyncInv
  BY ClientMeans
<1> QED
  BY <1>1, <1>2, <1>3, PTL DEF SyncSpec

(* There are never two live writer processes, for as many forks, timeouts,   *)
(* crashes and late exits as there are (getWorker, retireWorker, the 'exit'  *)
(* listener and workerShutdown).                                             *)
THEOREM OneWriterAlive == SyncSpec => []SingleWriterProcess
<1>1. SyncInit => ClientInv
  BY ClientInit
<1>2. ClientInv /\ [SyncNext]_syncVars => ClientInv'
  BY StepKeeps
<1>3. ClientInv => SingleWriterProcess
  BY ClientMeans
<1> QED
  BY <1>1, <1>2, <1>3, PTL DEF SyncSpec

-----------------------------------------------------------------------------
(* What the processes hold of the operation under way.                       *)

Logged(o) == \E i \in DOMAIN store : store[i].op = o

UnderWay(o) == stage[o] \notin {"idle", "queued", "ok", "failed"}

(* The writes of a transaction up to the statement it issued as number n.    *)
Writes(t, n) == {t} \X (1 .. n)

(* How far an operation must be for a message of it to exist.                *)
Past(q) ==
    /\ stage[q.op] \notin {"idle", "queued"}
    /\ q.kind # "single" => q.op \in Transactions
    /\ q.kind = "write" => q.n \in 1 .. issued[q.op]
    /\ q.kind = "commit" => stage[q.op] \notin {"begin", "body", "publish"}
    /\ q.kind = "rollback" => stage[q.op] \notin {"begin", "body", "publish", "commit"}

(* A message waiting at process g finds the connection in the state it needs.*)
Message(g, q) ==
    /\ q.to = g /\ Past(q)
    /\ IF q.kind = "single" THEN q.op \in Statements ELSE q.op \in Transactions /\ owner[q.op] = g
    /\ q.kind \in {"begin", "single"} => dirty[g] = None
    /\ q.kind \in {"write", "commit", "rollback"} =>
          dirty[g] # None /\ dirty[g] \subseteq Writes(q.op, issued[q.op])
    /\ q.kind = "commit" =>
          /\ stage[q.op] \in {"commit", "drain", "failed"}
          /\ \E k \in 0 .. issued[q.op] : FirstOf(dirty[g], q.op, k, refused)
          /\ stage[q.op] = "commit" => FirstOf(dirty[g], q.op, issued[q.op], refused)
    /\ q.kind \in {"commit", "single"} => ~Logged(q.op)

(* Messages that wait together are of one transaction, different, and none   *)
(* comes after its rollback.                                                 *)
Together(g) ==
    /\ \A i, j \in DOMAIN inbox[g] : i # j =>
          /\ inbox[g][i] # inbox[g][j]
          /\ inbox[g][i].op = inbox[g][j].op
          /\ inbox[g][i].kind \in {"write", "rollback"}
    /\ \A i \in DOMAIN inbox[g] : inbox[g][i].kind = "rollback" => i = Len(inbox[g])

(* An answer under way from g says what has become of the request.           *)
Reply(g, a) ==
    /\ a.request.to = g /\ Past(a.request)
    /\ a.request \in pending =>
          /\ \A i \in DOMAIN inbox[g] : inbox[g][i] # a.request
          /\ a.request.kind = "begin" /\ a.ok /\ Alive(g) => dirty[g] = {}
          /\ a.request.kind = "write" /\ a.ok /\ Alive(g) /\ stage[a.request.op] = "body" =>
                <<a.request.op, a.request.n>> \in dirty[g]
          /\ a.request.kind = "commit" /\ a.ok /\ Alive(g) => dirty[g] = None
          /\ a.request.kind = "commit" /\ ~a.ok =>
                /\ ~Logged(a.request.op)
                /\ Alive(g) => /\ dirty[g] # None
                               /\ dirty[g] \subseteq Writes(a.request.op, issued[a.request.op])

(* The live worker holds what the transaction that owns it has written, but  *)
(* for what it was told was refused, or nothing.                             *)
HoldsAll(t) ==
    /\ dirty[worker] # None /\ dirty[worker] \subseteq Writes(t, issued[t])
    /\ \A n \in 1 .. issued[t] :
          \/ <<t, n>> \in dirty[worker] \cup refused
          \/ \E q \in pending : q.op = t /\ q.kind = "write" /\ q.n = n

WorkerOK ==
    (worker # None /\ Alive(worker)) =>
        /\ \A i \in DOMAIN inbox[worker] : inbox[worker][i] \in pending
        /\ \A t \in Transactions :
              owner[t] = worker /\ stage[t] \in {"body", "publish"} => HoldsAll(t)
        /\ dirty[worker] # None =>
              \E t \in Transactions :
                  /\ owner[t] = worker
                  /\ stage[t] \in {"begin", "body", "publish", "commit", "rollback"}

Counted ==
    /\ \A o \in Ops : stage[o] # "idle" => \E i \in DOMAIN calls : calls[i] = o
    /\ \A t \in Transactions : stage[t] \in {"idle", "queued", "begin"} => issued[t] = 0
    /\ \A q \in pending : q.kind = "write" => q.n \in 1 .. issued[q.op]

StoreOK ==
    /\ CommittedAsTold
    /\ \A i \in DOMAIN store : stage[store[i].op] \notin {"idle", "queued"}

ProcessOK(g) ==
    /\ ~Alive(g) => inbox[g] = <<>> /\ dirty[g] = None
    /\ Together(g)
    /\ \A i \in DOMAIN inbox[g] : Message(g, inbox[g][i])
    /\ \A i \in DOMAIN answers[g] : Reply(g, answers[g][i])

ContentOK ==
    /\ Counted
    /\ StoreOK
    /\ WorkerOK
    /\ \A g \in Ops : ProcessOK(g)

WritesInv == ClientInv /\ ContentOK

LEMMA OnlyOne ==
  ASSUME ClientInv, Counted, NEW o \in Ops, NEW p \in Ops, UnderWay(o)
  PROVE  /\ UnderWay(p) => o = p
         /\ ~MyTurn(p)
<1>1. stage[o] # "idle" /\ stage[o] # "queued" /\ ~Settled(o)
  BY DEF UnderWay, Settled
<1>2. PICK i \in DOMAIN calls : calls[i] = o
  BY <1>1 DEF Counted
<1>3. ASSUME stage[p] # "idle", ~Settled(p), o # p
      PROVE  stage[p] = "queued" /\ ~MyTurn(p)
  <2>1. PICK j \in DOMAIN calls : calls[j] = p
    BY <1>3 DEF Counted
  <2>2. i \in Nat /\ j \in Nat /\ i # j
    BY SMTT(40), <1>2, <1>3, <2>1 DEF ClientInv, SyncTypeOK
  <2>3. i < j
    <3>1. j < i => Settled(p)
      BY <1>1, <1>2, <2>1 DEF ClientInv, OneAtATime
    <3> QED
      BY <1>3, <2>2, <3>1
  <2>4. stage[p] = "queued"
    BY <1>1, <1>2, <2>1, <2>3 DEF ClientInv, OneAtATime
  <2> QED
    BY <1>1, <1>2, <2>1, <2>3, <2>4 DEF MyTurn
<1>4. UnderWay(p) => stage[p] # "idle" /\ ~Settled(p) /\ stage[p] # "queued"
  BY DEF UnderWay, Settled
<1>5. MyTurn(p) => stage[p] = "queued"
  BY DEF MyTurn
<1> QED
  BY <1>1, <1>3, <1>4, <1>5 DEF Settled

(* A step is onward when no message that exists becomes one too early, no    *)
(* new one was there before, and a commit asks for all there is.             *)
Forward(o) ==
    /\ stage[o] \notin {"idle", "queued"} => stage'[o] \notin {"idle", "queued"}
    /\ stage[o] \notin {"idle", "queued", "begin", "body", "publish"} =>
          stage'[o] \notin {"idle", "queued", "begin", "body", "publish"}
    /\ stage[o] \notin {"idle", "queued", "begin", "body", "publish", "commit"} =>
          stage'[o] \notin {"idle", "queued", "begin", "body", "publish", "commit"}
    /\ stage'[o] = "commit" => stage[o] \in {"publish", "commit"}
    /\ stage'[o] = "body" => stage[o] \in {"begin", "body"}

Onward ==
    /\ \A o \in Ops : Forward(o)
    /\ \A t \in Transactions : /\ issued'[t] \in Nat /\ issued[t] <= issued'[t]
                               /\ stage[t] \in {"commit", "ok"} => issued'[t] = issued[t]
                               /\ owner'[t] = owner[t] \/ stage[t] = "queued"
    /\ \A q \in pending' : q \in pending \/ ~Past(q)
    /\ refused \subseteq refused'

LEMMA FirstKept ==
  ASSUME NEW w, NEW t, NEW n, NEW l, NEW m, FirstOf(w, t, n, l), l \subseteq m
  PROVE  FirstOf(w, t, n, m)
BY DEF FirstOf

LEMMA PastKept ==
  ASSUME SyncTypeOK, Onward, NEW q \in Requests, Past(q)
  PROVE  Past(q)'
<1>1. q.op \in Ops /\ Forward(q.op)
  BY DEF Requests, Onward
<1>2. q.kind = "write" => q.n \in 1 .. issued'[q.op]
  <2> SUFFICES ASSUME q.kind = "write"
               PROVE  q.n \in 1 .. issued'[q.op]
    OBVIOUS
  <2>1. q.n \in 1 .. issued[q.op] /\ q.op \in Transactions
    BY DEF Past
  <2>2. issued[q.op] \in Nat /\ issued'[q.op] \in Nat /\ issued[q.op] <= issued'[q.op]
    BY <2>1, OpsAssumption DEF Onward, SyncTypeOK
  <2> QED
    BY <2>1, <2>2
<1> QED
  BY <1>1, <1>2 DEF Past, Forward

LEMMA WritesGrow ==
  ASSUME NEW t, NEW m \in Nat, NEW n \in Nat, m <= n
  PROVE  Writes(t, m) \subseteq Writes(t, n)
BY DEF Writes

LEMMA MessageKept ==
  ASSUME SyncTypeOK, Onward, NEW g \in Ops, NEW q \in Requests, Message(g, q),
         dirty'[g] = dirty[g],
         q.kind = "commit" => stage'[q.op] \in {"commit", "drain", "failed"},
         Logged(q.op)' => Logged(q.op) \/ stage[q.op] = "queued"
  PROVE  Message(g, q)'
<1>1. /\ q.op \in Ops /\ Past(q) /\ Forward(q.op) /\ stage[q.op] # "queued" /\ q.to = g
      /\ q.kind # "single" => q.op \in Transactions /\ owner[q.op] = g
      /\ q.kind = "single" => q.op \in Statements
  BY DEF Message, Past, Onward, Requests
<1>2. Past(q)'
  BY <1>1, PastKept
<1>3. q.kind # "single" => owner'[q.op] = g
  BY <1>1 DEF Onward
<1>4. q.kind # "single" => /\ issued[q.op] \in Nat /\ issued'[q.op] \in Nat /\ issued[q.op] <= issued'[q.op]
                           /\ Writes(q.op, issued[q.op]) \subseteq Writes(q.op, issued'[q.op])
  <2>1. q.kind # "single" => issued[q.op] \in Nat /\ issued'[q.op] \in Nat /\ issued[q.op] <= issued'[q.op]
    BY <1>1, OpsAssumption DEF SyncTypeOK, Onward
  <2> QED
    BY <2>1, WritesGrow
<1>5. q.kind \in {"write", "commit", "rollback"} =>
          dirty'[g] # None /\ dirty'[g] \subseteq Writes(q.op, issued'[q.op])
  BY <1>4 DEF Message
<1>6. q.kind = "commit" =>
          /\ stage'[q.op] \in {"commit", "drain", "failed"}
          /\ \E k \in 0 .. issued'[q.op] : FirstOf(dirty'[g], q.op, k, refused')
          /\ stage'[q.op] = "commit" => FirstOf(dirty'[g], q.op, issued'[q.op], refused')
  <2> SUFFICES ASSUME q.kind = "commit"
               PROVE  /\ \E k \in 0 .. issued'[q.op] : FirstOf(dirty'[g], q.op, k, refused')
                      /\ stage'[q.op] = "commit" => FirstOf(dirty'[g], q.op, issued'[q.op], refused')
    OBVIOUS
  <2>1. PICK k \in 0 .. issued[q.op] : FirstOf(dirty[g], q.op, k, refused)
    BY DEF Message
  <2>2. k \in 0 .. issued'[q.op]
    BY <1>4
  <2>3. stage'[q.op] = "commit" => stage[q.op] = "commit" /\ issued'[q.op] = issued[q.op]
    BY <1>1 DEF Message, Forward, Onward
  <2>4. stage[q.op] = "commit" => FirstOf(dirty[g], q.op, issued[q.op], refused)
    BY DEF Message
  <2>5. FirstOf(dirty'[g], q.op, k, refused')
    BY <2>1, FirstKept DEF Onward
  <2>6. stage'[q.op] = "commit" => FirstOf(dirty'[g], q.op, issued'[q.op], refused')
    BY <2>3, <2>4, FirstKept DEF Onward
  <2> QED
    BY <2>2, <2>5, <2>6
<1>7. q.kind \in {"commit", "single"} => ~Logged(q.op)'
  BY <1>1 DEF Message
<1>8. q.kind \in {"begin", "single"} => dirty'[g] = None
  BY DEF Message
<1> QED
  BY <1>1, <1>2, <1>3, <1>5, <1>6, <1>7, <1>8 DEF Message

(* What follows from an answer that is still awaited holds on.               *)
LEMMA ReplyKept ==
  ASSUME ClientInv, Onward, NEW g \in Ops, NEW a \in [request : Requests, ok : BOOLEAN], Reply(g, a),
         dirty'[g] = dirty[g], Alive(g)' => Alive(g) \/ a.request \notin pending,
         Logged(a.request.op)' => Logged(a.request.op) \/ stage[a.request.op] = "queued",
         \A i \in DOMAIN inbox'[g] :
             (\E j \in DOMAIN inbox[g] : inbox'[g][i] = inbox[g][j]) \/ ~Past(inbox'[g][i])
  PROVE  Reply(g, a)'
<1> DEFINE q == a.request
<1>1. q \in Requests /\ q.op \in Ops /\ q.to = g /\ Past(q) /\ SyncTypeOK /\ Forward(q.op)
  BY DEF Reply, Requests, ClientInv, Onward
<1>2. Past(q)'
  BY <1>1, PastKept
<1>3. SUFFICES ASSUME q \in pending'
               PROVE  /\ \A i \in DOMAIN inbox'[g] : inbox'[g][i] # q
                      /\ q.kind = "begin" /\ a.ok /\ Alive(g)' => dirty'[g] = {}
                      /\ q.kind = "write" /\ a.ok /\ Alive(g)' /\ stage'[q.op] = "body" =>
                            <<q.op, q.n>> \in dirty'[g]
                      /\ q.kind = "commit" /\ a.ok /\ Alive(g)' => dirty'[g] = None
                      /\ q.kind = "commit" /\ ~a.ok =>
                            /\ ~Logged(q.op)'
                            /\ Alive(g)' => /\ dirty'[g] # None
                                            /\ dirty'[g] \subseteq Writes(q.op, issued'[q.op])
  BY <1>1, <1>2 DEF Reply, Writes
<1>4. q \in pending /\ (Alive(g)' => Alive(g))
  BY <1>1, <1>3 DEF Onward
<1>5. \A i \in DOMAIN inbox'[g] : inbox'[g][i] # q
  BY <1>1, <1>4 DEF Reply
<1>6. q.kind = "write" /\ stage'[q.op] = "body" => stage[q.op] = "body"
  BY <1>1, <1>4, RequestFacts DEF Forward
<1>7. q.kind = "commit" => Writes(q.op, issued[q.op]) \subseteq Writes(q.op, issued'[q.op])
  <2>1. q.kind = "commit" =>
            q.op \in Transactions /\ issued[q.op] \in Nat /\ issued'[q.op] \in Nat /\ issued[q.op] <= issued'[q.op]
    BY <1>1, OpsAssumption DEF Past, SyncTypeOK, Onward
  <2> QED
    BY <2>1, WritesGrow
<1>8. stage[q.op] # "queued"
  BY <1>1 DEF Past
<1> QED
  BY <1>4, <1>5, <1>6, <1>7, <1>8 DEF Reply

(* A message may come to an inbox when all that waits there are writes of    *)
(* its own transaction, and a process finds it as it has to be.              *)
Comes(g, q) ==
    /\ q \in Requests /\ ~Past(q) /\ Alive(g)'
    /\ inbox'[g] = Append(inbox[g], q)
    /\ Message(g, q)'
    /\ inbox[g] # <<>> => q.kind \in {"write", "rollback"}
    /\ \A i \in DOMAIN inbox[g] : inbox[g][i].kind = "write" /\ inbox[g][i].op = q.op

LEMMA TogetherKept ==
  ASSUME SyncTypeOK, NEW g \in Ops, NEW q, ProcessOK(g), Comes(g, q)
  PROVE  Together(g)'
<1> DEFINE n == Len(inbox[g])
<1>1. inbox[g] \in Seq(Requests) /\ n \in Nat /\ DOMAIN inbox[g] = 1 .. n
  BY DEF SyncTypeOK
<1>2. /\ DOMAIN inbox'[g] = 1 .. n + 1 /\ Len(inbox'[g]) = n + 1
      /\ inbox'[g][n + 1] = q /\ \A i \in 1 .. n : inbox'[g][i] = inbox[g][i]
  BY <1>1, AppendProperties DEF Comes
<1>3. \A i \in 1 .. n : /\ inbox[g][i] # q /\ inbox[g][i].op = q.op /\ inbox[g][i].kind = "write"
                        /\ q.kind \in {"write", "rollback"}
  BY <1>1 DEF ProcessOK, Message, Comes
<1>4. \A i, j \in 1 .. n : i # j => inbox[g][i] # inbox[g][j]
  BY <1>1 DEF ProcessOK, Together
<1>5. \A i \in 1 .. n + 1 : i \in 1 .. n \/ i = n + 1
  BY <1>1
<1>6. ASSUME NEW i \in 1 .. n + 1, NEW j \in 1 .. n + 1, i # j
      PROVE  /\ inbox'[g][i] # inbox'[g][j] /\ inbox'[g][i].op = inbox'[g][j].op
             /\ inbox'[g][i].kind \in {"write", "rollback"}
  <2>1. CASE i \in 1 .. n /\ j \in 1 .. n
    BY SMTT(40), <1>2, <1>3, <1>4, <1>6, <2>1
  <2>2. CASE i = n + 1 /\ j \in 1 .. n
    BY <1>2, <1>3, <2>2
  <2>3. CASE i \in 1 .. n /\ j = n + 1
    BY <1>2, <1>3, <2>3
  <2> QED
    BY <1>5, <1>6, <2>1, <2>2, <2>3
<1>7. \A i \in 1 .. n + 1 : inbox'[g][i].kind = "rollback" => i = n + 1
  BY <1>2, <1>3, <1>5
<1> QED
  BY <1>2, <1>6, <1>7 DEF Together

(* A step of the client as process g sees it.                                *)
LEMMA ProcessKept ==
  ASSUME ClientInv, Onward, NEW g \in Ops, ProcessOK(g),
         dirty'[g] = dirty[g], Alive(g) => Alive(g)', Alive(g)' => Alive(g) \/ pending = {},
         \A i \in DOMAIN answers'[g] : \E j \in DOMAIN answers[g] : answers'[g][i] = answers[g][j],
         \A i \in DOMAIN inbox[g] : inbox[g][i].kind = "commit" =>
             stage'[inbox[g][i].op] \in {"commit", "drain", "failed"},
         \A o \in Ops : Logged(o)' => Logged(o) \/ stage[o] = "queued",
         inbox'[g] = inbox[g] \/ \E q : Comes(g, q)
  PROVE  ProcessOK(g)'
<1>1. /\ SyncTypeOK /\ inbox[g] \in Seq(Requests)
      /\ answers[g] \in Seq([request : Requests, ok : BOOLEAN])
  BY DEF ClientInv, SyncTypeOK
<1> DEFINE n == Len(inbox[g])
           Waits(q) == \E i \in DOMAIN inbox[g] : inbox[g][i] = q
<1>0. n \in Nat /\ DOMAIN inbox[g] = 1 .. n /\ \A i \in 1 .. n : inbox[g][i] \in Requests
  BY <1>1
<1>2. ASSUME NEW q \in Requests, Waits(q)
      PROVE  Message(g, q)'
  <2>1. Message(g, q) /\ q.op \in Ops
    BY <1>0, <1>2 DEF ProcessOK, Requests
  <2>2. Logged(q.op)' => Logged(q.op) \/ stage[q.op] = "queued"
    BY <2>1
  <2>3. q.kind = "commit" => stage'[q.op] \in {"commit", "drain", "failed"}
    BY <1>2
  <2> QED
    BY <1>1, <2>1, <2>2, <2>3, MessageKept
<1>3. /\ \A i \in DOMAIN inbox'[g] : \E q \in Requests : q = inbox'[g][i] /\ Message(g, q)' /\ (Waits(q) \/ ~Past(q))
      /\ Together(g)'
      /\ ~Alive(g)' => inbox'[g] = <<>> /\ dirty'[g] = None
  <2>1. CASE inbox'[g] = inbox[g]
    <3>1. \A i \in DOMAIN inbox[g] : inbox[g][i] \in Requests /\ Waits(inbox[g][i])
      BY <1>0
    <3> QED
      BY <1>2, <2>1, <3>1 DEF ProcessOK, Together
  <2>2. CASE \E q : Comes(g, q)
    <3> PICK q : Comes(g, q)
      BY <2>2
    <3>1. /\ DOMAIN inbox'[g] = 1 .. n + 1 /\ inbox'[g][n + 1] = q
          /\ \A i \in 1 .. n : inbox'[g][i] = inbox[g][i]
      BY <1>1, <1>0, AppendProperties DEF Comes
    <3>2. \A i \in DOMAIN inbox'[g] : i \in 1 .. n \/ i = n + 1
      BY <1>0, <3>1
    <3>3. Together(g)'
      BY <1>1, TogetherKept
    <3>4. q \in Requests /\ Message(g, q)' /\ ~Past(q) /\ Alive(g)'
      BY DEF Comes
    <3>5. \A i \in 1 .. n : inbox'[g][i] = inbox[g][i] /\ inbox[g][i] \in Requests /\ Waits(inbox[g][i])
      BY <1>0, <3>1
    <3> QED
      BY <1>2, <3>1, <3>2, <3>3, <3>4, <3>5
  <2> QED
    BY <2>1, <2>2
<1>4. (\A i \in DOMAIN inbox[g] : Message(g, inbox[g][i]))'
  BY <1>3
<1>5. \A i \in DOMAIN inbox'[g] : (\E j \in DOMAIN inbox[g] : inbox'[g][i] = inbox[g][j]) \/ ~Past(inbox'[g][i])
  BY <1>3
<1>6. ASSUME NEW a \in [request : Requests, ok : BOOLEAN], \E j \in DOMAIN answers[g] : answers[g][j] = a
      PROVE  Reply(g, a)'
  <2>1. Reply(g, a) /\ a.request.op \in Ops
    BY <1>6 DEF ProcessOK, Requests
  <2> QED
    BY <1>5, <2>1, ReplyKept
<1>7. \A i \in DOMAIN answers'[g] : \E a \in [request : Requests, ok : BOOLEAN] :
          answers'[g][i] = a /\ \E j \in DOMAIN answers[g] : answers[g][j] = a
  <2> DEFINE R == [request : Requests, ok : BOOLEAN]
  <2>1. answers[g] \in Seq(R)
    BY <1>1
  <2> HIDE DEF R
  <2>2. \A j \in DOMAIN answers[g] : answers[g][j] \in R
    BY <2>1
  <2> QED
    BY <2>2 DEF R
<1>8. (\A i \in DOMAIN answers[g] : Reply(g, answers[g][i]))'
  BY <1>6, <1>7
<1> QED
  BY <1>3, <1>4, <1>8 DEF ProcessOK

(* The commits there are stay what they were.                                *)
LEMMA StoredKept ==
  ASSUME SyncTypeOK, StoreOK, Onward,
         \A t \in Transactions : Logged(t) =>
             /\ stage'[t] \in {"commit", "drain", "ok", "failed"}
             /\ stage'[t] \in {"commit", "ok"} => stage[t] \in {"commit", "ok"},
         NEW i \in DOMAIN store, NEW t \in Ops, NEW w, store[i].op = t, store[i].writes = w
  PROVE  /\ stage'[t] \notin {"idle", "queued"}
         /\ t \in Transactions =>
               /\ stage'[t] \in {"commit", "drain", "ok", "failed"}
               /\ \E k \in 0 .. issued'[t] : FirstOf(w, t, k, refused')
               /\ stage'[t] \in {"commit", "ok"} => FirstOf(w, t, issued'[t], refused')
<1>1. stage'[t] \notin {"idle", "queued"}
  BY DEF StoreOK, Onward, Forward
<1>2. SUFFICES ASSUME t \in Transactions
               PROVE  /\ stage'[t] \in {"commit", "drain", "ok", "failed"}
                      /\ \E k \in 0 .. issued'[t] : FirstOf(w, t, k, refused')
                      /\ stage'[t] \in {"commit", "ok"} => FirstOf(w, t, issued'[t], refused')
  BY <1>1
<1>3. Logged(t)
  BY DEF Logged
<1>4. PICK k \in 0 .. issued[t] : FirstOf(w, t, k, refused)
  BY <1>2 DEF StoreOK, CommittedAsTold
<1>5. k \in 0 .. issued'[t]
  BY <1>2, <1>4, OpsAssumption DEF Onward, SyncTypeOK
<1>6. stage[t] \in {"commit", "ok"} => issued'[t] = issued[t] /\ FirstOf(w, t, issued[t], refused)
  BY <1>2 DEF StoreOK, CommittedAsTold, Onward
<1>7. FirstOf(w, t, k, refused')
  BY <1>4, FirstKept DEF Onward
<1>8. stage[t] \in {"commit", "ok"} => FirstOf(w, t, issued'[t], refused')
  BY <1>6, FirstKept DEF Onward
<1> QED
  BY <1>2, <1>3, <1>5, <1>7, <1>8

LEMMA CommitsTyped ==
  ASSUME SyncTypeOK
  PROVE  \A i \in DOMAIN store : store[i] \in Commits /\ store[i].op \in Ops
<1>1. store \in Seq(Commits)
  BY DEF SyncTypeOK
<1>2. \A i \in DOMAIN store : store[i] \in Commits
  BY <1>1
<1> QED
  BY <1>2 DEF Commits

LEMMA StoreKept ==
  ASSUME SyncTypeOK, StoreOK, Onward, store' = store,
         \A t \in Transactions : Logged(t) =>
             /\ stage'[t] \in {"commit", "drain", "ok", "failed"}
             /\ stage'[t] \in {"commit", "ok"} => stage[t] \in {"commit", "ok"}
  PROVE  StoreOK'
<1>1. \A i, j \in DOMAIN store : i # j => store[i].op # store[j].op
  BY DEF StoreOK, CommittedAsTold
<1>2. ASSUME NEW i \in DOMAIN store
      PROVE  /\ stage'[store[i].op] \notin {"idle", "queued"}
             /\ store[i].op \in Transactions =>
                   /\ stage'[store[i].op] \in {"commit", "drain", "ok", "failed"}
                   /\ \E k \in 0 .. issued'[store[i].op] : FirstOf(store[i].writes, store[i].op, k, refused')
                   /\ stage'[store[i].op] \in {"commit", "ok"} =>
                         FirstOf(store[i].writes, store[i].op, issued'[store[i].op], refused')
  BY CommitsTyped, StoredKept
<1> QED
  BY <1>1, <1>2 DEF StoreOK, CommittedAsTold

LEMMA StoreGrows ==
  ASSUME SyncTypeOK, StoreOK, Onward, NEW c \in Commits, store' = Append(store, c), ~Logged(c.op),
         \A t \in Transactions : Logged(t) =>
             /\ stage'[t] \in {"commit", "drain", "ok", "failed"}
             /\ stage'[t] \in {"commit", "ok"} => stage[t] \in {"commit", "ok"},
         stage'[c.op] \notin {"idle", "queued"},
         c.op \in Transactions =>
             /\ stage'[c.op] \in {"commit", "drain", "ok", "failed"}
             /\ \E k \in 0 .. issued'[c.op] : FirstOf(c.writes, c.op, k, refused')
             /\ stage'[c.op] \in {"commit", "ok"} => FirstOf(c.writes, c.op, issued'[c.op], refused')
  PROVE  StoreOK'
<1> DEFINE n == Len(store)
<1>1. store \in Seq(Commits)
  BY DEF SyncTypeOK
<1>2. n \in Nat /\ DOMAIN store = 1 .. n
  BY <1>1
<1>3. /\ DOMAIN store' = 1 .. n + 1 /\ store'[n + 1] = c
      /\ \A i \in 1 .. n : store'[i] = store[i]
  BY <1>1, <1>2, AppendProperties
<1> HIDE DEF n
<1>4. \A i \in 1 .. n + 1 : i \in 1 .. n \/ i = n + 1
  BY <1>2
<1>5. \A i, j \in DOMAIN store' : i # j => store'[i].op # store'[j].op
  <2>1. \A i, j \in 1 .. n : i # j => store[i].op # store[j].op
    BY <1>2 DEF StoreOK, CommittedAsTold
  <2>2. \A i \in 1 .. n : store[i].op # c.op
    BY <1>2 DEF Logged
  <2>3. ASSUME NEW i \in 1 .. n + 1, NEW j \in 1 .. n + 1, i # j
        PROVE  store'[i].op # store'[j].op
    <3>1. CASE i \in 1 .. n /\ j \in 1 .. n
      BY ZenonT(40), <1>3, <2>1, <2>3, <3>1
    <3>2. CASE i = n + 1 /\ j \in 1 .. n
      BY <1>3, <2>2, <3>2
    <3>3. CASE i \in 1 .. n /\ j = n + 1
      BY <1>3, <2>2, <3>3
    <3> QED
      BY <1>4, <2>3, <3>1, <3>2, <3>3
  <2> QED
    BY <1>3, <2>3
<1>6. ASSUME NEW i \in DOMAIN store'
      PROVE  /\ stage'[store'[i].op] \notin {"idle", "queued"}
             /\ store'[i].op \in Transactions =>
                   /\ stage'[store'[i].op] \in {"commit", "drain", "ok", "failed"}
                   /\ \E k \in 0 .. issued'[store'[i].op] : FirstOf(store'[i].writes, store'[i].op, k, refused')
                   /\ stage'[store'[i].op] \in {"commit", "ok"} =>
                         FirstOf(store'[i].writes, store'[i].op, issued'[store'[i].op], refused')
  <2>1. CASE i \in 1 .. n
    BY <1>2, <1>3, <2>1, CommitsTyped, StoredKept
  <2>2. CASE i = n + 1
    BY <1>3, <2>2
  <2> QED
    BY <1>3, <1>4, <2>1, <2>2
<1> QED
  BY <1>5, <1>6 DEF StoreOK, CommittedAsTold

LEMMA CountedKept ==
  ASSUME SyncTypeOK, Counted, Onward,
         \A o \in Ops : stage'[o] # "idle" => \E i \in DOMAIN calls' : calls'[i] = o,
         \A t \in Transactions : stage'[t] \in {"idle", "queued", "begin"} =>
             stage[t] \in {"idle", "queued", "begin"} /\ issued'[t] = issued[t],
         \A q \in pending : q.kind = "write" => q.op \in Transactions,
         \A q \in pending' : q.kind = "write" => q \in pending \/ q.n \in 1 .. issued'[q.op]
  PROVE  Counted'
<1>2. \A t \in Transactions : stage'[t] \in {"idle", "queued", "begin"} => issued'[t] = 0
  BY DEF Counted
<1>3. ASSUME NEW q \in pending', q.kind = "write"
      PROVE  q.n \in 1 .. issued'[q.op]
  <2>1. CASE q \in pending
    <3>1. q.op \in Transactions /\ q.n \in 1 .. issued[q.op]
      BY <1>3, <2>1 DEF Counted
    <3>2. issued[q.op] \in Nat /\ issued'[q.op] \in Nat /\ issued[q.op] <= issued'[q.op]
      BY <3>1, OpsAssumption DEF SyncTypeOK, Onward
    <3> QED
      BY <3>1, <3>2
  <2> QED
    BY <1>3, <2>1
<1> QED
  BY <1>2, <1>3 DEF Counted

(* A step of the client that forks nothing.                                  *)
LEMMA ClientStep ==
  ASSUME WritesInv, Onward, dirty' = dirty, store' = store,
         \A g \in Ops : /\ Alive(g)' <=> Alive(g)
                        /\ \A i \in DOMAIN answers'[g] : \E j \in DOMAIN answers[g] : answers'[g][i] = answers[g][j]
                        /\ inbox'[g] = inbox[g] \/ \E q : Comes(g, q)
                        /\ \A i \in DOMAIN inbox[g] : inbox[g][i].kind = "commit" =>
                               stage'[inbox[g][i].op] \in {"commit", "drain", "failed"},
         \A o \in Ops : stage'[o] # "idle" => \E i \in DOMAIN calls' : calls'[i] = o,
         \A t \in Transactions :
             /\ stage'[t] \in {"idle", "queued", "begin"} =>
                   stage[t] \in {"idle", "queued", "begin"} /\ issued'[t] = issued[t]
             /\ Logged(t) => /\ stage'[t] \in {"commit", "drain", "ok", "failed"}
                             /\ stage'[t] \in {"commit", "ok"} => stage[t] \in {"commit", "ok"},
         \A q \in pending' : q.kind = "write" => q \in pending \/ q.n \in 1 .. issued'[q.op]
  PROVE  Counted' /\ StoreOK' /\ \A g \in Ops : ProcessOK(g)'
<1>1. ClientInv /\ SyncTypeOK /\ Counted /\ StoreOK /\ \A g \in Ops : ProcessOK(g)
  BY DEF WritesInv, ContentOK, ClientInv
<1>2. \A q \in pending : q.kind = "write" => q.op \in Transactions
  BY <1>1, RequestFacts
<1>3. Counted'
  BY <1>1, <1>2, CountedKept
<1>4. StoreOK'
  BY <1>1, StoreKept
<1>5. \A o \in Ops : Logged(o)' => Logged(o)
  BY DEF Logged
<1>6. ASSUME NEW g \in Ops
      PROVE  ProcessOK(g)'
  BY <1>1, <1>5, <1>6, ProcessKept
<1> QED
  BY <1>3, <1>4, <1>6

(* Nothing commits for an operation that moves on, or its commit has been    *)
(* answered.                                                                 *)
Lands(o) ==
    \/ stage'[o] = stage[o]
    \/ stage[o] \notin {"commit", "drain", "ok", "failed"}
    \/ stage'[o] \in {"drain", "failed"}
    \/ /\ stage[o] = "commit"
       /\ Logged(o) => stage'[o] = "ok"
       /\ \A g \in Ops : \A i \in DOMAIN inbox[g] : inbox[g][i].kind = "commit" => inbox[g][i].op # o

LEMMA LandsMeans ==
  ASSUME WritesInv, \A o \in Ops : Lands(o)
  PROVE  /\ \A g \in Ops : \A i \in DOMAIN inbox[g] : inbox[g][i].kind = "commit" =>
                stage'[inbox[g][i].op] \in {"commit", "drain", "failed"}
         /\ \A t \in Transactions : Logged(t) =>
                /\ stage'[t] \in {"commit", "drain", "ok", "failed"}
                /\ stage'[t] \in {"commit", "ok"} => stage[t] \in {"commit", "ok"}
<1>1. ASSUME NEW g \in Ops, NEW i \in DOMAIN inbox[g], inbox[g][i].kind = "commit"
      PROVE  stage'[inbox[g][i].op] \in {"commit", "drain", "failed"}
  <2> DEFINE q == inbox[g][i]
  <2>1. Message(g, q)
    BY DEF WritesInv, ContentOK, ProcessOK
  <2>2. stage[q.op] \in {"commit", "drain", "failed"} /\ q.op \in Ops
    BY <1>1, <2>1, OpsAre DEF Message
  <2> QED
    BY <1>1, <2>2 DEF Lands
<1>2. ASSUME NEW t \in Transactions, Logged(t)
      PROVE  /\ stage'[t] \in {"commit", "drain", "ok", "failed"}
             /\ stage'[t] \in {"commit", "ok"} => stage[t] \in {"commit", "ok"}
  <2>1. stage[t] \in {"commit", "drain", "ok", "failed"}
    BY <1>2 DEF Logged, WritesInv, ContentOK, StoreOK, CommittedAsTold
  <2> QED
    BY <1>2, <2>1, OpsAre DEF Lands
<1> QED
  BY <1>1, <1>2

LEMMA CallsStay ==
  ASSUME WritesInv, calls' = calls, \A o \in Ops : stage'[o] # "idle" => stage[o] # "idle"
  PROVE  \A o \in Ops : stage'[o] # "idle" => \E i \in DOMAIN calls' : calls'[i] = o
BY DEF WritesInv, ContentOK, Counted

(* Operation o moves on, alone.                                              *)
LEMMA OneStep ==
  ASSUME WritesInv, NEW o \in Ops, Forward(o), Lands(o), UNCHANGED <<proc, dirty, store>>, refused \subseteq refused',
         \A p \in Ops : stage'[p] # "idle" => \E i \in DOMAIN calls' : calls'[i] = p,
         \A p \in Ops \ {o} : stage'[p] = stage[p],
         \A t \in Transactions \ {o} : issued'[t] = issued[t] /\ owner'[t] = owner[t],
         o \in Transactions =>
             /\ issued'[o] \in Nat /\ issued[o] <= issued'[o]
             /\ stage[o] \in {"commit", "ok"} => issued'[o] = issued[o]
             /\ owner'[o] = owner[o] \/ stage[o] = "queued"
             /\ stage'[o] \in {"idle", "queued", "begin"} =>
                   stage[o] \in {"idle", "queued", "begin"} /\ issued'[o] = issued[o],
         \A q \in pending' : q \in pending \/ (~Past(q) /\ (q.kind = "write" => q.n \in 1 .. issued'[q.op])),
         \A g \in Ops : /\ \A i \in DOMAIN answers'[g] : \E j \in DOMAIN answers[g] : answers'[g][i] = answers[g][j]
                        /\ inbox'[g] = inbox[g] \/ \E q : Comes(g, q)
  PROVE  Counted' /\ StoreOK' /\ \A g \in Ops : ProcessOK(g)'
<1>1. \A p \in Ops : Lands(p) /\ Forward(p)
  BY DEF Lands, Forward
<1>2. \A t \in Transactions : issued[t] \in Nat
  BY OpsAssumption DEF WritesInv, ContentOK, ClientInv, SyncTypeOK
<1>3. Onward
  BY <1>1, <1>2 DEF Onward
<1>5. \A t \in Transactions : stage'[t] \in {"idle", "queued", "begin"} =>
          stage[t] \in {"idle", "queued", "begin"} /\ issued'[t] = issued[t]
  BY OpsAre
<1>6. \A g \in Ops : Alive(g)' <=> Alive(g)
  BY DEF Alive
<1> QED
  BY <1>1, <1>3, <1>5, <1>6, LandsMeans, ClientStep

(* A process is given up: what waited for its answers ends.                  *)
LEMMA GiveUpStep ==
  ASSUME WritesInv, UNCHANGED <<calls, issued, refused, owner, dirty, store, inbox>>, pending' \subseteq pending,
         \A o \in Ops : stage'[o] = stage[o] \/ (~Settled(o) /\ stage[o] \notin {"idle", "queued"}
                                                 /\ stage'[o] \in {"drain", "failed"}),
         \A g \in Ops : /\ Alive(g)' <=> Alive(g)
                        /\ \A i \in DOMAIN answers'[g] : \E j \in DOMAIN answers[g] : answers'[g][i] = answers[g][j],
         worker' = None
  PROVE  ContentOK'
<1>1. \A p \in Ops : Lands(p) /\ Forward(p)
  BY DEF Lands, Forward
<1>2. \A t \in Transactions : issued[t] \in Nat
  BY OpsAssumption DEF WritesInv, ContentOK, ClientInv, SyncTypeOK
<1>3. Onward
  BY <1>1, <1>2 DEF Onward
<1>4. \A t \in Transactions : stage'[t] \in {"idle", "queued", "begin"} =>
          stage[t] \in {"idle", "queued", "begin"} /\ issued'[t] = issued[t]
  BY OpsAre
<1>5. \A p \in Ops : stage'[p] # "idle" => \E i \in DOMAIN calls' : calls'[i] = p
  BY CallsStay
<1>6. Counted' /\ StoreOK' /\ \A g \in Ops : ProcessOK(g)'
  BY <1>1, <1>3, <1>4, <1>5, LandsMeans, ClientStep
<1> QED
  BY <1>6 DEF WorkerOK, ContentOK

(* The worker stays, and only operation o moves.                             *)
LEMMA WorkerKept ==
  ASSUME WritesInv, NEW o \in Ops, worker # None /\ Alive(worker),
         worker' = worker, dirty' = dirty, refused \subseteq refused',
         \A p \in Ops \ {o} : stage'[p] = stage[p],
         \A t \in Transactions \ {o} : issued'[t] = issued[t] /\ owner'[t] = owner[t],
         \A i \in DOMAIN inbox'[worker] : inbox'[worker][i] \in pending',
         \A q \in pending : q.op # o => q \in pending',
         o \in Transactions /\ owner'[o] = worker /\ stage'[o] \in {"body", "publish"} => HoldsAll(o)',
         dirty[worker] # None /\ o \in Transactions /\ owner[o] = worker /\
             stage[o] \in {"begin", "body", "publish", "commit", "rollback"} =>
             owner'[o] = worker /\ stage'[o] \in {"begin", "body", "publish", "commit", "rollback"}
  PROVE  WorkerOK'
<1> DEFINE Going == {"begin", "body", "publish", "commit", "rollback"}
<1>1. WorkerOK
  BY DEF WritesInv, ContentOK
<1>2. ASSUME NEW t \in Transactions, owner'[t] = worker, stage'[t] \in {"body", "publish"}
      PROVE  HoldsAll(t)'
  <2>1. CASE t = o
    BY <1>2, <2>1
  <2>2. CASE t # o
    <3>1. HoldsAll(t) /\ issued'[t] = issued[t]
      BY <1>1, <1>2, <2>2, OpsAre DEF WorkerOK
    <3>2. \A n \in 1 .. issued[t] :
              \/ <<t, n>> \in dirty'[worker] \cup refused'
              \/ \E q \in pending' : q.op = t /\ q.kind = "write" /\ q.n = n
      BY <2>2, <3>1 DEF HoldsAll
    <3> QED
      BY <3>1, <3>2 DEF HoldsAll, Writes
  <2> QED
    BY <2>1, <2>2
<1>3. dirty'[worker] # None => \E t \in Transactions : owner'[t] = worker /\ stage'[t] \in Going
  <2> SUFFICES ASSUME dirty[worker] # None
               PROVE  \E t \in Transactions : owner'[t] = worker /\ stage'[t] \in Going
    OBVIOUS
  <2>1. PICK t \in Transactions : owner[t] = worker /\ stage[t] \in Going
    BY <1>1 DEF WorkerOK
  <2> QED
    BY <2>1, OpsAre
<1> QED
  BY <1>2, <1>3 DEF WorkerOK

(* No operation is under way when the turn of one comes, and the worker has  *)
(* nothing to do.                                                            *)
LEMMA IdleWorker ==
  ASSUME WritesInv, NEW o \in Ops, MyTurn(o)
  PROVE  /\ pending = {}
         /\ worker # None /\ Alive(worker) => inbox[worker] = <<>> /\ dirty[worker] = None
<1>1. \A p \in Ops : ~UnderWay(p)
  BY OnlyOne DEF WritesInv, ContentOK
<1>2. pending = {}
  <2> SUFFICES ASSUME NEW q \in pending
               PROVE  FALSE
    OBVIOUS
  <2>1. q.op \in Ops /\ UnderWay(q.op)
    <3>1. /\ q.op \in Ops /\ q \in Requests
          /\ q.kind # "write" => stage[q.op] = q.kind
          /\ q.kind = "write" => stage[q.op] \in {"body", "rollback"}
      BY RequestFacts DEF WritesInv
    <3> QED
      BY <3>1 DEF UnderWay, Requests
  <2> QED
    BY <1>1, <2>1
<1>3. ASSUME worker # None, Alive(worker)
      PROVE  inbox[worker] = <<>> /\ dirty[worker] = None
  <2>1. worker \in Ops /\ inbox[worker] \in Seq(Requests)
    BY <1>3 DEF WritesInv, ClientInv, SyncTypeOK
  <2>2. ~\E i \in DOMAIN inbox[worker] : TRUE
    BY <1>2, <1>3 DEF WritesInv, ContentOK, WorkerOK
  <2>3. inbox[worker] = <<>>
    <3>1. Len(inbox[worker]) \in Nat /\ DOMAIN inbox[worker] = 1 .. Len(inbox[worker])
      BY <2>1
    <3>2. 1 \notin 1 .. Len(inbox[worker])
      BY <2>2, <3>1
    <3>3. Len(inbox[worker]) = 0
      BY <3>1, <3>2
    <3> QED
      BY <2>1, <3>3, EmptySeq
  <2>4. dirty[worker] = None
    <3>1. \A t \in Transactions : stage[t] \notin {"begin", "body", "publish", "commit", "rollback"}
      BY <1>1, OpsAre DEF UnderWay
    <3> QED
      BY <1>3, <3>1 DEF WritesInv, ContentOK, WorkerOK
  <2> QED
    BY <2>3, <2>4
<1> QED
  BY <1>2, <1>3

LEMMA CallHolds ==
  ASSUME WritesInv, NEW o \in Ops, Call(o)
  PROVE  ContentOK'
<1>1. /\ stage[o] = "idle" /\ stage' = [stage EXCEPT ![o] = "queued"] /\ calls' = Append(calls, o)
      /\ UNCHANGED <<issued, refused, owner, worker, shutdown, closed, pending, proc, inbox, answers, dirty, store>>
  BY DEF Call, procVars
<1>2. SyncTypeOK /\ Counted
  BY DEF WritesInv, ContentOK, ClientInv
<1>3. stage'[o] = "queued" /\ \A p \in Ops \ {o} : stage'[p] = stage[p]
  BY <1>1, <1>2 DEF SyncTypeOK
<1>4. \A p \in Ops : stage'[p] # "idle" => \E i \in DOMAIN calls' : calls'[i] = p
  <2> DEFINE n == Len(calls)
  <2>1. /\ n \in Nat /\ DOMAIN calls = 1 .. n /\ DOMAIN calls' = 1 .. n + 1
        /\ calls'[n + 1] = o /\ \A i \in 1 .. n : calls'[i] = calls[i]
    BY <1>1, <1>2, AppendProperties DEF SyncTypeOK
  <2>2. ASSUME NEW p \in Ops \ {o}, stage'[p] # "idle"
        PROVE  \E i \in DOMAIN calls' : calls'[i] = p
    <3>1. PICK i \in 1 .. n : calls[i] = p
      BY <1>2, <1>3, <2>1, <2>2 DEF Counted
    <3> QED
      BY <2>1, <3>1
  <2> QED
    BY <2>1, <2>2
<1>5. Forward(o) /\ Lands(o)
  BY <1>1, <1>3 DEF Forward, Lands
<1>6. \A t \in Transactions : issued[t] \in Nat
  BY <1>2, OpsAssumption DEF SyncTypeOK
<1>7. Counted' /\ StoreOK' /\ \A g \in Ops : ProcessOK(g)'
  BY <1>1, <1>3, <1>4, <1>5, <1>6, OneStep
<1>8. WorkerOK'
  <2>1. CASE worker # None /\ Alive(worker)
    <3>1. \A i \in DOMAIN inbox[worker] : inbox[worker][i] \in pending
      BY <2>1 DEF WritesInv, ContentOK, WorkerOK
    <3> QED
      BY <1>1, <1>3, <2>1, <3>1, WorkerKept
  <2>2. CASE ~(worker # None /\ Alive(worker))
    BY <1>1, <2>2 DEF WorkerOK, Alive
  <2> QED
    BY <2>1, <2>2
<1> QED
  BY <1>7, <1>8 DEF ContentOK

(* An operation moves on without a message.                                  *)
LEMMA StageHolds ==
  ASSUME WritesInv, NEW o \in Ops, NEW s, stage' = [stage EXCEPT ![o] = s],
         UNCHANGED <<calls, issued, refused, owner, worker, pending, proc, inbox, answers, dirty, store>>,
         \/ stage[o] \in {"queued", "drain"} /\ s = "failed"
         \/ stage[o] = "body" /\ s = "publish"
         \/ stage[o] \in {"body", "publish"} /\ s = "drain" /\ (o \in Transactions => owner[o] # worker)
  PROVE  ContentOK'
<1>1. SyncTypeOK
  BY DEF WritesInv, ClientInv
<1>2. stage'[o] = s /\ \A p \in Ops \ {o} : stage'[p] = stage[p]
  BY <1>1 DEF SyncTypeOK
<1>3. \A p \in Ops : stage'[p] # "idle" => \E i \in DOMAIN calls' : calls'[i] = p
  BY <1>2, CallsStay
<1>4. Forward(o) /\ Lands(o)
  BY <1>2 DEF Forward, Lands
<1>5. \A t \in Transactions : issued[t] \in Nat
  BY <1>1, OpsAssumption DEF SyncTypeOK
<1>6. Counted' /\ StoreOK' /\ \A g \in Ops : ProcessOK(g)'
  BY <1>2, <1>3, <1>4, <1>5, OneStep
<1>7. WorkerOK'
  <2>1. CASE worker # None /\ Alive(worker)
    <3>1. WorkerOK
      BY DEF WritesInv, ContentOK
    <3>2. \A i \in DOMAIN inbox[worker] : inbox[worker][i] \in pending
      BY <2>1, <3>1 DEF WorkerOK
    <3>3. o \in Transactions /\ owner[o] = worker /\ stage'[o] \in {"body", "publish"} => HoldsAll(o)'
      BY <1>2, <2>1, <3>1 DEF WorkerOK, HoldsAll, Writes
    <3> QED
      BY <1>2, <2>1, <3>2, <3>3, WorkerKept
  <2>2. CASE ~(worker # None /\ Alive(worker))
    BY <2>2 DEF WorkerOK, Alive
  <2> QED
    BY <2>1, <2>2
<1> QED
  BY <1>6, <1>7 DEF ContentOK

LEMMA RefuseHolds ==
  ASSUME WritesInv, NEW o \in Ops, RefuseClosed(o)
  PROVE  ContentOK'
BY StageHolds DEF RefuseClosed, Admitted, MyTurn, procVars

LEMMA ReturnHolds ==
  ASSUME WritesInv, NEW t \in Transactions, OperationReturns(t) \/ Rethrow(t)
  PROVE  ContentOK'
BY StageHolds, OpsAre DEF OperationReturns, Rethrow, procVars

LEMMA MainWriteHolds ==
  ASSUME WritesInv, NEW m \in MainWrites, MainWrite(m)
  PROVE  ContentOK'
<1> DEFINE c == [op |-> m, writes |-> {<<m, 0>>}]
<1>1. /\ stage[m] = "queued" /\ MyTurn(m) /\ stage' = [stage EXCEPT ![m] = "ok"]
      /\ UNCHANGED <<calls, issued, refused, owner, worker, shutdown, closed, pending, proc, inbox, answers, dirty>>
      /\ store' = Append(store, c) /\ m \in Ops /\ m \notin Transactions
  BY OpsAre DEF MainWrite, Admitted, MyTurn
<1>2. ClientInv /\ SyncTypeOK /\ Counted /\ StoreOK /\ \A g \in Ops : ProcessOK(g)
  BY DEF WritesInv, ClientInv, ContentOK
<1>3. stage'[m] = "ok" /\ \A p \in Ops \ {m} : stage'[p] = stage[p]
  BY <1>1, <1>2 DEF SyncTypeOK
<1>4. \A p \in Ops : Lands(p) /\ Forward(p)
  BY <1>1, <1>3 DEF Lands, Forward
<1>5. Onward
  <2>1. \A t \in Transactions : issued[t] \in Nat
    BY <1>2, OpsAssumption DEF SyncTypeOK
  <2> QED
    BY <1>1, <1>4, <2>1 DEF Onward
<1>6. c \in Commits /\ c.op = m /\ ~Logged(m)
  <2>1. c \in Commits /\ c.op = m
    BY <1>1, OpsAssumption DEF Commits
  <2>2. ~Logged(m)
    BY <1>1, <1>2 DEF Logged, StoreOK
  <2> QED
    BY <2>1, <2>2
<1> HIDE DEF c
<1>7. StoreOK'
  BY <1>1, <1>2, <1>3, <1>4, <1>5, <1>6, LandsMeans, StoreGrows
<1>8. \A p \in Ops : stage'[p] # "idle" => \E i \in DOMAIN calls' : calls'[i] = p
  BY <1>1, <1>3, CallsStay
<1>9. Counted'
  <2>1. \A t \in Transactions : stage'[t] = stage[t]
    BY <1>1, <1>3, OpsAre
  <2>2. \A q \in pending : q.kind = "write" => q.op \in Transactions
    BY <1>2, RequestFacts
  <2> QED
    BY <1>1, <1>2, <1>5, <1>8, <2>1, <2>2, CountedKept DEF Counted
<1>10. \A o \in Ops : Logged(o)' => Logged(o) \/ stage[o] = "queued"
  <2>1. store \in Seq(Commits)
    BY <1>2 DEF SyncTypeOK
  <2>2. \A i \in DOMAIN store' : store'[i] = c \/ (i \in DOMAIN store /\ store'[i] = store[i])
    BY <1>1, <1>6, <2>1, AppendProperties
  <2> QED
    BY <1>1, <1>6, <2>2 DEF Logged
<1>11. ASSUME NEW g \in Ops
       PROVE  ProcessOK(g)'
  <2>1. Alive(g)' <=> Alive(g)
    BY <1>1 DEF Alive
  <2> QED
    BY <1>1, <1>2, <1>4, <1>5, <1>10, <2>1, LandsMeans, ProcessKept
<1>12. WorkerOK'
  <2>1. WorkerOK
    BY DEF WritesInv, ContentOK
  <2>2. \A t \in Transactions : stage'[t] = stage[t]
    BY <1>1, <1>3, OpsAre
  <2> QED
    BY <1>1, <2>1, <2>2 DEF WorkerOK, HoldsAll, Writes, Alive
<1> QED
  BY <1>7, <1>9, <1>11, <1>12 DEF ContentOK

LEMMA StartHolds ==
  ASSUME WritesInv, ClientInv', NEW o \in Ops, NEW kind \in {"begin", "single"}, Admitted(o), Start(o, kind, kind),
         IF kind = "begin" THEN o \in Transactions /\ owner' = [owner EXCEPT ![o] = worker']
                           ELSE o \in Statements /\ owner' = owner
  PROVE  ContentOK'
<1>1. /\ ClientInv /\ SyncTypeOK /\ Counted /\ StoreOK /\ MyTurn(o) /\ stage[o] = "queued"
      /\ \A g \in Ops : ProcessOK(g)
  BY DEF WritesInv, ClientInv, ContentOK, Admitted, MyTurn
<1>0. PICK w \in Ops : w = worker'
  BY <1>1, OpsAssumption DEF SyncTypeOK, Start
<1>b. Request(o, kind, w) \in Requests
  BY OpsAssumption DEF Request, Requests
<1>a. PICK q \in Requests : q = Request(o, kind, w)
  BY <1>b
<1>2. /\ w = (IF worker = None THEN o ELSE worker)
      /\ proc' = (IF worker = None THEN [proc EXCEPT ![o] = "running"] ELSE proc)
      /\ pending' = pending \cup {q}
      /\ inbox' = (IF worker # None /\ ~Alive(worker) THEN inbox
                   ELSE [inbox EXCEPT ![w] = Append(@, q)])
      /\ stage' = [stage EXCEPT ![o] = kind]
      /\ UNCHANGED <<calls, issued, refused, shutdown, closed, answers, dirty, store>>
  BY <1>0, <1>a DEF Start
<1>3. w # None /\ q.op = o /\ q.kind = kind /\ q.n = 0 /\ q.to = w
  BY <1>a, OpsAssumption DEF Request
<1>4. pending = {} /\ (worker # None /\ Alive(worker) => inbox[worker] = <<>> /\ dirty[worker] = None)
  BY <1>1, IdleWorker
<1>5. stage'[o] = kind /\ \A p \in Ops \ {o} : stage'[p] = stage[p]
  BY <1>1, <1>2 DEF SyncTypeOK
<1>6. \A p \in Ops : Lands(p) /\ Forward(p)
  BY <1>1, <1>5 DEF Lands, Forward
<1>7. /\ ~Past(q)
      /\ \A t \in Transactions : /\ issued'[t] = issued[t] /\ issued[t] \in Nat
                                 /\ owner'[t] = owner[t] \/ t = o
      /\ kind = "begin" => owner'[o] = w
  BY <1>0, <1>1, <1>2, <1>3, OpsAssumption DEF Past, SyncTypeOK
<1>8. Onward
  BY <1>1, <1>2, <1>6, <1>7 DEF Onward
<1>9. StoreOK'
  BY <1>1, <1>2, <1>6, <1>8, LandsMeans, StoreKept
<1>10. \A p \in Ops : stage'[p] # "idle" => \E i \in DOMAIN calls' : calls'[i] = p
  BY <1>1, <1>2, <1>5, CallsStay
<1>11. Counted'
  <2>1. \A t \in Transactions : stage'[t] \in {"idle", "queued", "begin"} => stage[t] \in {"idle", "queued", "begin"}
    BY <1>1, <1>5, OpsAre
  <2> QED
    BY <1>1, <1>2, <1>3, <1>4, <1>7, <1>8, <1>10, <2>1, CountedKept
<1>12. /\ \A g \in Ops : /\ Alive(g) => Alive(g)'
                         /\ (g = o /\ worker = None) \/ proc'[g] = proc[g]
       /\ worker = None => Alive(o)' /\ ~Alive(o) /\ inbox[o] = <<>> /\ dirty[o] = None
  <2>1. proc[o] = "unborn"
    BY <1>1 DEF ClientInv, ProcOK
  <2> QED
    BY <1>1, <1>2, <2>1 DEF SyncTypeOK, Alive, ProcessOK
<1>13. Alive(w) => /\ inbox[w] = <<>> /\ inbox'[w] = <<q>>
                   /\ dirty[w] = None /\ Alive(w)'
  <2>1. Alive(w) => worker = w /\ worker # None
    BY <1>2, <1>3, <1>12
  <2>2. Alive(w) => inbox[w] = <<>> /\ dirty[w] = None /\ Alive(w)'
    BY <1>4, <1>12, <2>1
  <2>3. Alive(w) => inbox'[w] = Append(inbox[w], q)
    BY <1>1, <1>2, <2>1 DEF SyncTypeOK
  <2>4. Append(<<>>, q) = <<q>>
    OBVIOUS
  <2> QED
    BY <2>2, <2>3, <2>4
<1>14. worker = None => inbox'[o] = <<q>>
  BY <1>1, <1>2, <1>12 DEF SyncTypeOK
<1>15. ASSUME worker = None \/ Alive(worker)
       PROVE  Comes(w, q)
  <2>1. /\ inbox[w] = <<>> /\ inbox'[w] = <<q>> /\ dirty'[w] = None
        /\ Alive(w)'
    BY <1>2, <1>12, <1>13, <1>14, <1>15
  <2>2. ~Logged(o)'
    BY <1>1, <1>2 DEF Logged, StoreOK
  <2>3. Past(q)'
    BY <1>3, <1>5 DEF Past
  <2>4. Message(w, q)'
    BY <1>3, <1>7, <2>1, <2>2, <2>3 DEF Message
  <2> QED
    BY <1>3, <1>7, <2>1, <2>4 DEF Comes
<1>16. ASSUME NEW g \in Ops
       PROVE  ProcessOK(g)'
  <2>1. inbox'[g] = inbox[g] \/ \E r : Comes(g, r)
    BY <1>1, <1>2, <1>3, <1>15 DEF SyncTypeOK
  <2>2. \A p \in Ops : Logged(p)' => Logged(p)
    BY <1>2 DEF Logged
  <2> QED
    BY <1>1, <1>2, <1>4, <1>6, <1>8, <1>12, <2>1, <2>2, LandsMeans, ProcessKept
<1>17. WorkerOK'
  <2> SUFFICES ASSUME Alive(w)'
               PROVE  /\ inbox'[w] = <<q>> /\ dirty'[w] = None
                      /\ \A t \in Transactions : stage'[t] \notin {"body", "publish"}
    BY <1>0, <1>2, <1>4 DEF WorkerOK
  <2>1. worker = None \/ Alive(worker)
    BY <1>2 DEF Alive
  <2>2. \A p \in Ops : ~UnderWay(p)
    BY <1>1, OnlyOne
  <2>3. \A t \in Transactions : stage'[t] \notin {"body", "publish"}
    BY <1>5, <2>2, OpsAre DEF UnderWay
  <2> QED
    BY <1>2, <1>12, <1>13, <1>14, <2>1, <2>3
<1> QED
  BY <1>9, <1>11, <1>16, <1>17 DEF ContentOK

(* While an operation is under way, every answer that is awaited is its own, *)
(* and only the worker has messages waiting.                                 *)
LEMMA OwnRequests ==
  ASSUME WritesInv, NEW t \in Ops, UnderWay(t)
  PROVE  /\ \A q \in pending : q.op = t
         /\ worker # None => \A g \in Ops : g # worker => ~Alive(g) /\ inbox[g] = <<>> /\ dirty[g] = None
         /\ worker # None /\ Alive(worker) =>
               \A i \in DOMAIN inbox[worker] : inbox[worker][i] \in pending
<1>1. ClientInv /\ Counted /\ WorkerOK /\ \A g \in Ops : ProcessOK(g)
  BY DEF WritesInv, ContentOK
<1>2. ASSUME NEW q \in pending
      PROVE  q.op = t
  <2>1. q.op \in Ops /\ UnderWay(q.op)
    <3>1. /\ q.op \in Ops /\ q \in Requests
          /\ q.kind # "write" => stage[q.op] = q.kind
          /\ q.kind = "write" => stage[q.op] \in {"body", "rollback"}
      BY <1>1, RequestFacts
    <3> QED
      BY <3>1 DEF UnderWay, Requests
  <2> QED
    BY <1>1, <2>1, OnlyOne
<1>3. ASSUME worker # None, NEW g \in Ops, g # worker
      PROVE  ~Alive(g) /\ inbox[g] = <<>> /\ dirty[g] = None
  <2>1. ~Alive(g)
    BY <1>1, <1>3, OpsAssumption DEF ClientInv, ProcOK
  <2> QED
    BY <1>1, <2>1 DEF ProcessOK
<1> QED
  BY <1>1, <1>2, <1>3 DEF WorkerOK

LEMMA IssueHolds ==
  ASSUME WritesInv, NEW t \in Transactions, IssueWrite(t)
  PROVE  ContentOK'
<1>1. /\ ClientInv /\ SyncTypeOK /\ WorkerOK /\ t \in Ops /\ issued[t] \in Nat
      /\ issued[t] \in 0 .. MaxWrites /\ issued[t] < MaxWrites /\ MaxWrites \in Nat
      /\ issued' = [issued EXCEPT ![t] = @ + 1]
      /\ stage[t] \in {"body", "rollback", "drain", "failed"} /\ owner[t] # None
      /\ UNCHANGED <<calls, stage, refused, owner, worker, shutdown, closed, proc, answers, dirty, store>>
  <2>1. ClientInv /\ SyncTypeOK /\ WorkerOK /\ t \in Ops
    BY OpsAre DEF WritesInv, ContentOK, ClientInv
  <2>2. issued[t] \in 0 .. MaxWrites /\ MaxWrites \in Nat
    BY <2>1, OpsAssumption DEF SyncTypeOK
  <2> QED
    BY <2>1, <2>2 DEF IssueWrite
<1> PICK n \in Nat : n = issued[t]
  BY <1>1
<1>2. /\ issued'[t] = n + 1 /\ n + 1 \in 0 .. MaxWrites
      /\ \A p \in Transactions \ {t} : issued'[p] = issued[p]
  BY <1>1 DEF SyncTypeOK
<1>3. \A p \in Ops : stage'[p] # "idle" => \E i \in DOMAIN calls' : calls'[i] = p
  BY <1>1, CallsStay
<1>4. Forward(t) /\ Lands(t)
  BY <1>1 DEF Forward, Lands
<1>5. (ContextActive(t) /\ worker = owner[t]) \/ UNCHANGED <<pending, inbox>>
  BY DEF IssueWrite
<1>6. CASE UNCHANGED <<pending, inbox>> /\ ~(ContextActive(t) /\ worker = owner[t])
  <2>1. Counted' /\ StoreOK' /\ \A g \in Ops : ProcessOK(g)'
    BY <1>1, <1>2, <1>3, <1>4, <1>6, OneStep
  <2>2. owner[t] = worker => stage[t] \notin {"body", "publish"}
    BY <1>6 DEF ContextActive
  <2>3. WorkerOK'
    <3>1. ASSUME worker # None /\ Alive(worker)
          PROVE  WorkerOK'
      <4>1. \A i \in DOMAIN inbox[worker] : inbox[worker][i] \in pending
        BY <1>1, <3>1 DEF WorkerOK
      <4> QED
        BY <1>1, <1>2, <1>6, <2>2, <3>1, <4>1, WorkerKept
    <3>2. CASE ~(worker # None /\ Alive(worker))
      BY <1>1, <3>2 DEF WorkerOK, Alive
    <3> QED
      BY <3>1, <3>2
  <2> QED
    BY <2>1, <2>3 DEF ContentOK
<1>7. CASE ContextActive(t) /\ worker = owner[t]
  <2>1. worker \in Ops /\ worker # None /\ stage[t] = "body" /\ UnderWay(t)
    BY <1>1, <1>7 DEF ContextActive, SyncTypeOK, UnderWay
  <2> DEFINE m == [op |-> t, kind |-> "write", n |-> n + 1, to |-> worker]
  <2>2. m \in Requests
    BY <1>1, <1>2, <2>1 DEF Requests
  <2> PICK q \in Requests : q = m
    BY <2>2
  <2>3. q.op = t /\ q.kind = "write" /\ q.n = n + 1 /\ q.to = worker
    OBVIOUS
  <2>4. Sent(q)
    BY <1>2, <1>7 DEF IssueWrite
  <2> HIDE DEF m
  <2>5. ~Past(q) /\ q.n \in 1 .. issued'[t]
    BY <1>2, <2>3 DEF Past
  <2>6. pending' = pending \cup {q} /\ inbox' = IF Alive(worker) THEN [inbox EXCEPT ![worker] = Append(@, q)] ELSE inbox
    BY <2>3, <2>4 DEF Sent
  <2>7. Alive(worker) => HoldsAll(t)
    BY <1>1, <1>7, <2>1 DEF WorkerOK
  <2>8. Alive(worker) => Comes(worker, q)
    <3> SUFFICES ASSUME Alive(worker)
                 PROVE  Comes(worker, q)
      OBVIOUS
    <3>1. ASSUME NEW i \in DOMAIN inbox[worker]
          PROVE  inbox[worker][i].kind = "write" /\ inbox[worker][i].op = t
      <4>1. PICK r \in pending : r = inbox[worker][i]
        BY <2>1, OwnRequests, <1>1
      <4>2. r.op = t /\ (r.kind # "write" => stage[r.op] = r.kind) /\ r \in Requests
        BY <1>1, <2>1, <4>1, RequestFacts, OwnRequests
      <4>3. r.kind = "write" \/ r.kind = "body"
        BY <2>1, <4>2
      <4> QED
        BY <4>1, <4>2, <4>3 DEF Requests
    <3>2. Past(q)' /\ Alive(worker)'
      BY <1>1, <2>1, <2>3, <2>5 DEF Past, Alive
    <3>3. dirty[worker] # None /\ dirty[worker] \subseteq Writes(t, n) /\ Writes(t, n) \subseteq Writes(t, n + 1)
      BY <2>7, WritesGrow DEF HoldsAll
    <3>4. (inbox[worker])' = Append(inbox[worker], q)
      BY <1>1, <2>1, <2>6 DEF SyncTypeOK
    <3>5. Message(worker, q)'
      BY <1>1, <1>2, <1>7, <2>3, <3>2, <3>3 DEF Message
    <3> QED
      BY <1>1, <2>3, <2>5, <3>1, <3>2, <3>4, <3>5 DEF Comes
  <2>9. \A g \in Ops : inbox'[g] = inbox[g] \/ \E r : Comes(g, r)
    BY <1>1, <2>1, <2>6, <2>8 DEF SyncTypeOK
  <2>10. Counted' /\ StoreOK' /\ \A g \in Ops : ProcessOK(g)'
    BY <1>1, <1>2, <1>3, <1>4, <2>1, <2>3, <2>5, <2>6, <2>9, OneStep
  <2>11. CASE Alive(worker)
    <3>1. \A i \in DOMAIN inbox'[worker] : inbox'[worker][i] \in pending'
      <4> DEFINE s == inbox[worker]
      <4>1. s \in Seq(Requests) /\ \A i \in DOMAIN s : s[i] \in pending
        BY <1>1, <2>1, <2>11, OwnRequests DEF SyncTypeOK
      <4>2. inbox'[worker] = Append(s, q)
        BY <2>8, <2>11 DEF Comes
      <4> HIDE DEF s
      <4> QED
        BY <2>6, <4>1, <4>2, AppendProperties
    <3>2. HoldsAll(t)'
      <4>1. \A k \in 1 .. n + 1 : k \in 1 .. n \/ k = n + 1
        OBVIOUS
      <4>2. Writes(t, n) \subseteq Writes(t, n + 1)
        BY WritesGrow
      <4>3. \A k \in 1 .. n : \/ <<t, k>> \in dirty[worker] \cup refused
                              \/ \E r \in pending : r.op = t /\ r.kind = "write" /\ r.n = k
        BY <2>7, <2>11 DEF HoldsAll
      <4>4. \A k \in 1 .. n + 1 : \/ <<t, k>> \in dirty[worker] \cup refused
                                  \/ \E r \in pending' : r.op = t /\ r.kind = "write" /\ r.n = k
        BY <2>3, <2>6, <4>1, <4>3
      <4> QED
        BY <1>1, <1>2, <2>7, <2>11, <4>2, <4>4 DEF HoldsAll
    <3>3. WorkerOK'
      BY <1>1, <1>2, <2>1, <2>6, <2>11, <3>1, <3>2, WorkerKept
    <3> QED
      BY <2>10, <3>3 DEF ContentOK
  <2>12. CASE ~Alive(worker)
    BY <1>1, <2>10, <2>12 DEF ContentOK, WorkerOK, Alive
  <2> QED
    BY <2>11, <2>12
<1> QED
  BY <1>5, <1>6, <1>7 DEF IssueWrite

(* The transaction asks the worker to commit or to roll back; the requests   *)
(* in gone have their answers.                                               *)
LEMMA AskHolds ==
  ASSUME WritesInv, NEW t \in Transactions, NEW kind \in {"commit", "rollback"}, NEW q \in Requests,
         q = Request(t, kind, worker), worker = owner[t], worker # None, NEW gone,
         pending' = (pending \ gone) \cup {q},
         inbox' = IF Alive(worker) THEN [inbox EXCEPT ![worker] = Append(@, q)] ELSE inbox,
         stage' = [stage EXCEPT ![t] = kind],
         UNCHANGED <<calls, issued, refused, owner, worker, proc, dirty, store>>,
         \A g \in Ops : \A i \in DOMAIN answers'[g] : \E j \in DOMAIN answers[g] : answers'[g][i] = answers[g][j],
         stage[t] \in {"body", "publish", "commit"},
         kind = "commit" => stage[t] = "publish" /\ gone = {},
         stage[t] = "commit" => pending \subseteq gone /\ ~Logged(t),
         Alive(worker) => /\ dirty[worker] # None /\ dirty[worker] \subseteq Writes(t, issued[t])
                          /\ \A i \in DOMAIN inbox[worker] : inbox[worker][i] \notin gone
  PROVE  ContentOK'
<1>1. /\ ClientInv /\ SyncTypeOK /\ WorkerOK /\ StoreOK /\ t \in Ops /\ issued[t] \in Nat /\ worker \in Ops
      /\ q.op = t /\ q.kind = kind /\ q.n = 0 /\ q.to = worker /\ UnderWay(t)
  <2>1. ClientInv /\ SyncTypeOK /\ WorkerOK /\ StoreOK /\ t \in Ops
    BY OpsAre DEF WritesInv, ContentOK, ClientInv
  <2>2. issued[t] \in Nat /\ worker \in Ops
    BY <2>1, OpsAssumption DEF SyncTypeOK
  <2> QED
    BY <2>1, <2>2 DEF Request, UnderWay
<1>2. stage'[t] = kind /\ \A p \in Ops \ {t} : stage'[p] = stage[p]
  BY <1>1 DEF SyncTypeOK
<1>3. \A p \in Ops : stage'[p] # "idle" => \E i \in DOMAIN calls' : calls'[i] = p
  BY <1>1, <1>2, CallsStay
<1>4. ~Past(q) /\ ~Logged(t)
  <2>1. stage[t] # "commit" => ~Logged(t)
    BY <1>1 DEF Logged, StoreOK, CommittedAsTold
  <2> QED
    BY <1>1, <2>1 DEF Past
(* What waits at the worker are writes of t, and nothing once t has none     *)
(* awaited.                                                                  *)
<1>5. ASSUME Alive(worker), NEW i \in DOMAIN inbox[worker]
      PROVE  inbox[worker][i] \in pending \ gone /\ inbox[worker][i].kind = "write" /\ inbox[worker][i].op = t
             /\ stage[t] = "body"
  <2>1. PICK r \in pending : r = inbox[worker][i]
    BY <1>1, <1>5, OwnRequests
  <2>2. /\ r.op = t /\ r \in Requests /\ r \notin gone
        /\ (r.kind # "write" => stage[t] = r.kind) /\ (r.kind = "write" => stage[t] \in {"body", "rollback"})
    BY <1>1, <1>5, <2>1, RequestFacts, OwnRequests
  <2>3. stage[t] # "commit"
    BY <2>1, <2>2
  <2>4. r.kind \notin {"body", "publish"}
    BY <2>2 DEF Requests
  <2> QED
    BY <2>1, <2>2, <2>3, <2>4
<1>6. \A g \in Ops : \A i \in DOMAIN inbox[g] : g = worker /\ Alive(worker)
  <2>1. \A g \in Ops : ~Alive(g) => inbox[g] = <<>>
    BY DEF WritesInv, ContentOK, ProcessOK
  <2> QED
    BY <1>1, <2>1, OwnRequests
<1>7. Forward(t) /\ Lands(t)
  <2>1. stage[t] = "commit" =>
            \A g \in Ops : \A i \in DOMAIN inbox[g] : inbox[g][i].kind = "commit" => inbox[g][i].op # t
    BY <1>5, <1>6
  <2> QED
    BY <1>2, <1>4, <2>1 DEF Forward, Lands
<1>8. Alive(worker) => Comes(worker, q)
  <2> SUFFICES ASSUME Alive(worker)
               PROVE  Comes(worker, q)
    OBVIOUS
  <2>1. Past(q)' /\ Alive(worker)'
    BY <1>1, <1>2 DEF Past, Alive
  <2>2. (inbox[worker])' = Append(inbox[worker], q)
    BY <1>1 DEF SyncTypeOK
  <2>3. kind = "commit" => inbox[worker] = <<>> /\ FirstOf(dirty[worker], t, issued[t], refused)
    <3> SUFFICES ASSUME kind = "commit"
                 PROVE  inbox[worker] = <<>> /\ FirstOf(dirty[worker], t, issued[t], refused)
      OBVIOUS
    <3>1. ~\E i \in DOMAIN inbox[worker] : TRUE
      BY <1>5
    <3>2. inbox[worker] = <<>>
      <4>1. inbox[worker] \in Seq(Requests)
        BY <1>1 DEF SyncTypeOK
      <4>2. Len(inbox[worker]) \in Nat /\ DOMAIN inbox[worker] = 1 .. Len(inbox[worker])
        BY <4>1
      <4>3. 1 \notin 1 .. Len(inbox[worker])
        BY <3>1, <4>2
      <4>4. Len(inbox[worker]) = 0
        BY <4>2, <4>3
      <4> QED
        BY <4>1, <4>4, EmptySeq
    <3>3. HoldsAll(t)
      BY <1>1 DEF WorkerOK
    <3>4. \A r \in pending : r.op # t \/ r.kind # "write"
      BY <1>1, RequestFacts
    <3>5. \A n \in 1 .. issued[t] : <<t, n>> \in dirty[worker] \cup refused
      BY <3>3, <3>4 DEF HoldsAll
    <3> QED
      BY <3>2, <3>5 DEF Writes, FirstOf
  <2>4. Message(worker, q)'
    <3>1. ~Logged(t)'
      BY <1>4 DEF Logged
    <3>2. kind = "commit" => \E k \in 0 .. issued[t] : FirstOf(dirty[worker], t, k, refused)
      BY <1>1, <2>3
    <3> QED
      BY <1>1, <1>2, <2>1, <2>3, <3>1, <3>2 DEF Message, Writes
  <2>5. inbox[worker] # <<>> => q.kind \in {"write", "rollback"}
    BY <1>1, <2>3
  <2> QED
    BY <1>1, <1>4, <1>5, <2>1, <2>2, <2>4, <2>5 DEF Comes
<1>9. \A g \in Ops : inbox'[g] = inbox[g] \/ \E r : Comes(g, r)
  BY <1>1, <1>8 DEF SyncTypeOK
<1>10. Counted' /\ StoreOK' /\ \A g \in Ops : ProcessOK(g)'
  BY <1>1, <1>2, <1>3, <1>4, <1>7, <1>9, OneStep
<1>11. CASE Alive(worker)
  <2>1. \A i \in DOMAIN inbox'[worker] : inbox'[worker][i] \in pending'
    <3> DEFINE s == inbox[worker]
    <3>1. s \in Seq(Requests) /\ \A i \in DOMAIN s : s[i] \in pending \ gone
      BY <1>1, <1>5, <1>11 DEF SyncTypeOK
    <3>2. inbox'[worker] = Append(s, q)
      BY <1>8, <1>11 DEF Comes
    <3> HIDE DEF s
    <3> QED
      BY <3>1, <3>2, AppendProperties
  <2>2. \A r \in pending : r.op = t
    BY <1>1, OwnRequests
  <2>3. WorkerOK'
    BY <1>1, <1>2, <1>11, <2>1, <2>2, WorkerKept
  <2> QED
    BY <1>10, <2>3 DEF ContentOK
<1>12. CASE ~Alive(worker)
  BY <1>10, <1>12 DEF ContentOK, WorkerOK, Alive
<1> QED
  BY <1>11, <1>12

LEMMA ThrowsHolds ==
  ASSUME WritesInv, NEW t \in Transactions, OperationThrows(t) \/ CommitTransaction(t)
  PROVE  ContentOK'
<1>1. /\ ClientInv /\ SyncTypeOK /\ WorkerOK /\ t \in Ops /\ stage[t] \in {"body", "publish"} /\ owner[t] # None
      /\ UNCHANGED <<calls, issued, refused, owner, worker, shutdown, closed, proc, answers, dirty, store>>
  BY OpsAre DEF WritesInv, ContentOK, ClientInv, ProcOK, OperationThrows, CommitTransaction
<1>2. ASSUME worker = owner[t], NEW kind \in {"commit", "rollback"},
             Sent(Request(t, kind, worker)), stage' = [stage EXCEPT ![t] = kind],
             kind = "commit" => stage[t] = "publish"
      PROVE  ContentOK'
  <2>1. worker \in Ops /\ worker # None
    BY <1>1, <1>2 DEF SyncTypeOK
  <2>2. Request(t, kind, worker) \in Requests
    BY <1>1, <2>1, OpsAssumption DEF Request, Requests
  <2> PICK q \in Requests : q = Request(t, kind, worker)
    BY <2>2
  <2>3. /\ pending' = (pending \ {}) \cup {q}
        /\ inbox' = IF Alive(worker) THEN [inbox EXCEPT ![worker] = Append(@, q)] ELSE inbox
    BY <1>2 DEF Sent, Request
  <2>4. Alive(worker) => dirty[worker] # None /\ dirty[worker] \subseteq Writes(t, issued[t])
    BY <1>1, <1>2, <2>1 DEF WorkerOK, HoldsAll
  <2> QED
    BY <1>1, <1>2, <2>1, <2>3, <2>4, AskHolds
<1>3. CASE Abort(t)
  <2>1. CASE worker = owner[t]
    BY <1>2, <1>3, <2>1 DEF Abort
  <2>2. CASE worker # owner[t]
    BY <1>1, <1>3, <2>2, StageHolds DEF Abort
  <2> QED
    BY <2>1, <2>2
<1>4. CASE ~Abort(t)
  <2>1. /\ stage[t] = "publish" /\ worker = owner[t] /\ Sent(Request(t, "commit", worker))
        /\ stage' = [stage EXCEPT ![t] = "commit"]
    BY <1>4 DEF OperationThrows, CommitTransaction
  <2> QED
    BY <1>2, <2>1
<1> QED
  BY <1>3, <1>4

LEMMA TailOf ==
  ASSUME NEW S, NEW s \in Seq(S), s # <<>>
  PROVE  /\ Head(s) = s[1] /\ 1 \in DOMAIN s /\ Head(s) \in S
         /\ Len(s) \in Nat /\ Len(Tail(s)) = Len(s) - 1
         /\ DOMAIN s = 1 .. Len(s) /\ DOMAIN Tail(s) = 1 .. Len(s) - 1
         /\ \A i \in DOMAIN Tail(s) : i \in Nat /\ i + 1 \in DOMAIN s /\ i + 1 # 1 /\ Tail(s)[i] = s[i + 1]
<1>1. Len(s) \in Nat /\ DOMAIN s = 1 .. Len(s) /\ Len(s) # 0
  BY EmptySeq
<1>2. /\ Head(s) \in S /\ Tail(s) \in Seq(S) /\ Len(Tail(s)) = Len(s) - 1
      /\ \A i \in 1 .. Len(Tail(s)) : Tail(s)[i] = s[i + 1]
  BY HeadTailProperties
<1>3. DOMAIN Tail(s) = 1 .. Len(Tail(s)) /\ Head(s) = s[1]
  BY <1>2
<1> QED
  BY <1>1, <1>2, <1>3

(* An answer handled leaves the other answers, and says what the process     *)
(* that gave it has done.                                                    *)
LEMMA AnswerFacts ==
  ASSUME WritesInv, NEW g \in Ops, Answered(g)
  PROVE  /\ \A h \in Ops : \A i \in DOMAIN answers'[h] : \E j \in DOMAIN answers[h] : answers'[h][i] = answers[h][j]
         /\ Head(answers[g]) \in [request : Requests, ok : BOOLEAN]
         /\ Reply(g, Head(answers[g]))
<1> DEFINE R == [request : Requests, ok : BOOLEAN]
<1>1. answers \in [Ops -> Seq(R)] /\ ProcessOK(g) /\ answers[g] # <<>> /\ answers' = [answers EXCEPT ![g] = Tail(@)]
  BY DEF WritesInv, ContentOK, ClientInv, SyncTypeOK, Answered
<1> HIDE DEF R
<1>2. answers[g] \in Seq(R)
  BY <1>1
<1>3. /\ Head(answers[g]) \in R /\ Head(answers[g]) = answers[g][1] /\ 1 \in DOMAIN answers[g]
      /\ \A i \in DOMAIN Tail(answers[g]) : i + 1 \in DOMAIN answers[g] /\ Tail(answers[g])[i] = answers[g][i + 1]
  BY <1>1, <1>2, TailOf
<1>4. Reply(g, Head(answers[g]))
  BY <1>1, <1>3 DEF ProcessOK
<1>5. ASSUME NEW h \in Ops, NEW i \in DOMAIN answers'[h]
      PROVE  \E j \in DOMAIN answers[h] : answers'[h][i] = answers[h][j]
  <2>1. CASE h = g
    BY <1>1, <1>3, <2>1
  <2>2. CASE h # g
    BY <1>1, <2>2
  <2> QED
    BY <2>1, <2>2
<1> QED
  BY <1>3, <1>4, <1>5 DEF R

LEMMA StaleHolds ==
  ASSUME WritesInv, NEW g \in Ops, StaleAnswer(g)
  PROVE  ContentOK'
<1>1. UNCHANGED <<calls, stage, issued, refused, owner, worker, pending, proc, inbox, dirty, store>> /\ Answered(g)
  BY DEF StaleAnswer, clientVars
<1>2. \A p \in Ops : stage'[p] # "idle" => \E i \in DOMAIN calls' : calls'[i] = p
  BY <1>1, CallsStay
<1>3. Forward(g) /\ Lands(g)
  BY <1>1 DEF Forward, Lands
<1>4. \A t \in Transactions : issued[t] \in Nat /\ issued[t] <= issued[t]
  BY OpsAssumption DEF WritesInv, ClientInv, SyncTypeOK
<1>5. Counted' /\ StoreOK' /\ \A h \in Ops : ProcessOK(h)'
  BY <1>1, <1>2, <1>3, <1>4, AnswerFacts, OneStep
<1>6. WorkerOK'
  BY <1>1 DEF WritesInv, ContentOK, WorkerOK, HoldsAll, Writes, Alive
<1> QED
  BY <1>5, <1>6 DEF ContentOK

(* An answer that ends the wait of its request and asks for nothing more.    *)
LEMMA AnsweredHolds ==
  ASSUME WritesInv, NEW a \in [request : Requests, ok : BOOLEAN], NEW q \in pending, q = a.request,
         Reply(worker, a), NEW s, stage' = [stage EXCEPT ![q.op] = s], pending' = pending \ {q},
         UNCHANGED <<calls, issued, owner, worker, proc, inbox, dirty, store>>, refused \subseteq refused',
         \A g \in Ops : \A i \in DOMAIN answers'[g] : \E j \in DOMAIN answers[g] : answers'[g][i] = answers[g][j],
         \/ q.kind = "begin" /\ a.ok /\ s = "body"
         \/ q.kind = "commit" /\ a.ok /\ s = "ok"
         \/ q.kind = "single" /\ s \in {"ok", "failed"}
         \/ q.kind = "write" /\ s = stage[q.op] /\ (a.ok \/ <<q.op, q.n>> \in refused')
  PROVE  ContentOK'
<1> DEFINE o == q.op
<1>1. /\ ClientInv /\ SyncTypeOK /\ WorkerOK /\ Counted
      /\ q \in Requests /\ o \in Ops /\ worker \in Ops /\ worker # None
      /\ q.kind # "write" => stage[o] = q.kind
      /\ q.kind = "write" => stage[o] \in {"body", "rollback"}
      /\ q.kind # "single" => o \in Transactions /\ owner[o] = worker
      /\ q.kind = "single" => o \notin Transactions
  <2>1. ClientInv /\ SyncTypeOK /\ WorkerOK /\ Counted
    BY DEF WritesInv, ContentOK, ClientInv
  <2> QED
    BY <2>1, RequestFacts, OpsAre
<1>2. stage'[o] = s /\ \A p \in Ops \ {o} : stage'[p] = stage[p]
  BY <1>1 DEF SyncTypeOK
<1>3. UnderWay(o)
  BY <1>1 DEF UnderWay, Requests
<1>4. /\ \A r \in pending : r.op = o
      /\ Alive(worker) => \A i \in DOMAIN inbox[worker] : inbox[worker][i] \in pending
      /\ \A g \in Ops : g # worker => inbox[g] = <<>>
  BY <1>1, <1>3, OwnRequests
<1>5. \A i \in DOMAIN inbox[worker] : inbox[worker][i] # q
  BY DEF Reply
<1>6. \A p \in Ops : stage'[p] # "idle" => \E i \in DOMAIN calls' : calls'[i] = p
  BY <1>1, <1>2, CallsStay
<1>7. \A t \in Transactions : issued[t] \in Nat /\ issued[t] <= issued[t]
  BY <1>1, OpsAssumption DEF SyncTypeOK
<1>8. q.kind = "commit" => \A g \in Ops : \A i \in DOMAIN inbox[g] : inbox[g][i].kind # "commit"
  <2> SUFFICES ASSUME q.kind = "commit", NEW g \in Ops, NEW i \in DOMAIN inbox[g]
               PROVE  inbox[g][i].kind # "commit"
    OBVIOUS
  <2>1. g = worker
    BY <1>4
  <2>2. ~Alive(worker) => inbox[worker] = <<>>
    BY <1>1 DEF WritesInv, ContentOK, ProcessOK
  <2>3. PICK r \in pending : r = inbox[worker][i]
    BY <1>4, <2>1, <2>2
  <2>4. r # q /\ r.op = q.op
    BY <1>4, <1>5, <2>1, <2>3
  <2> QED
    BY <1>1, <2>1, <2>3, <2>4, SameRequest
<1>9. Forward(o) /\ Lands(o)
  BY <1>1, <1>2, <1>8 DEF Forward, Lands
<1>10. Counted' /\ StoreOK' /\ \A g \in Ops : ProcessOK(g)'
  BY <1>1, <1>2, <1>6, <1>7, <1>9, OneStep
<1>11. CASE Alive(worker)
  <2>1. \A i \in DOMAIN inbox'[worker] : inbox'[worker][i] \in pending'
    BY <1>4, <1>5, <1>11
  <2>2. ASSUME o \in Transactions, stage'[o] \in {"body", "publish"}
        PROVE  HoldsAll(o)'
    <3>1. q.kind = "begin" \/ (q.kind = "write" /\ stage[o] = "body")
      BY <1>1, <1>2, <2>2
    <3>2. CASE q.kind = "begin"
      <4>1. issued[o] = 0 /\ dirty[worker] = {}
        BY <1>1, <1>2, <1>11, <2>2, <3>2 DEF Counted, Reply
      <4>2. 1 .. 0 = {}
        OBVIOUS
      <4> QED
        BY <4>1, <4>2, NoneAssumption DEF HoldsAll
    <3>3. CASE q.kind = "write" /\ stage[o] = "body"
      <4>1. HoldsAll(o) /\ <<o, q.n>> \in dirty[worker] \cup refused'
        BY <1>1, <1>11, <3>3 DEF WorkerOK, Reply
      <4> QED
        BY <4>1 DEF HoldsAll, Writes
    <3> QED
      BY <3>1, <3>2, <3>3
  <2>3. q.kind = "commit" => dirty[worker] = None
    BY <1>11 DEF Reply
  <2>4. o \in Transactions => q.kind # "single"
    BY <1>1
  <2>5. WorkerOK'
    BY <1>1, <1>2, <1>4, <1>11, <2>1, <2>2, <2>3, <2>4, WorkerKept
  <2> QED
    BY <1>10, <2>5 DEF ContentOK
<1>12. CASE ~Alive(worker)
  BY <1>1, <1>10, <1>12 DEF ContentOK, WorkerOK, Alive
<1> QED
  BY <1>11, <1>12

LEMMA GoneHolds ==
  ASSUME WritesInv, worker # None, NEW stages,
         \A o \in Ops : \/ stages[o] = stage[o]
                        \/ ~Settled(o) /\ stage[o] \notin {"idle", "queued"} /\ stages[o] \in {"drain", "failed"},
         stage' = stages, worker' = None, pending' \subseteq pending,
         proc' = [proc EXCEPT ![worker] = IF @ = "running" THEN "killed" ELSE @],
         UNCHANGED <<calls, issued, refused, owner, inbox, dirty, store>>,
         \A g \in Ops : \A i \in DOMAIN answers'[g] : \E j \in DOMAIN answers[g] : answers'[g][i] = answers[g][j]
  PROVE  ContentOK'
<1>1. SyncTypeOK
  BY DEF WritesInv, ClientInv
<1>2. \A g \in Ops : Alive(g)' <=> Alive(g)
  BY <1>1 DEF SyncTypeOK, Alive
<1> QED
  BY <1>2, GiveUpStep

(* What a stage becomes on an answer, kind by kind. *)
LEMMA ProgressMeans ==
  ASSUME NEW q, NEW ok \in BOOLEAN
  PROVE  /\ q.kind = "begin" /\ ok => Progress(q, ok) = "body"
         /\ q.kind = "commit" /\ ok => Progress(q, ok) = "ok"
         /\ q.kind = "single" => Progress(q, ok) = (IF ok THEN "ok" ELSE "failed")
         /\ q.kind = "write" => Progress(q, ok) = stage[q.op]
<1>1. CASE q.kind = "begin"
  BY <1>1 DEF Progress
<1>2. CASE q.kind = "commit"
  BY <1>2 DEF Progress
<1>3. CASE q.kind = "single"
  BY <1>3 DEF Progress
<1>4. CASE q.kind = "write"
  BY <1>4 DEF Progress
<1> QED
  BY <1>1, <1>2, <1>3, <1>4

LEMMA AnswerHolds ==
  ASSUME WritesInv, NEW g \in Ops, Answer(g)
  PROVE  ContentOK'
<1> PICK a \in [request : Requests, ok : BOOLEAN] : a = Head(answers[g])
  BY AnswerFacts DEF Answer
<1> PICK q \in pending : q = a.request
  BY DEF Answer
<1>1. /\ Answered(g) /\ Reply(g, a) /\ a.ok \in BOOLEAN
      /\ \A h \in Ops : \A i \in DOMAIN answers'[h] : \E j \in DOMAIN answers[h] : answers'[h][i] = answers[h][j]
  BY AnswerFacts DEF Answer
<1>2. /\ ClientInv /\ SyncTypeOK /\ WorkerOK /\ q \in Requests /\ q.op \in Ops /\ worker \in Ops /\ worker # None
      /\ q.kind # "write" => stage[q.op] = q.kind
      /\ q.kind = "write" => stage[q.op] \in {"body", "rollback"}
      /\ q.kind # "single" => q.op \in Transactions /\ owner[q.op] = worker
      /\ g = worker
  <2>1. ClientInv /\ SyncTypeOK /\ WorkerOK
    BY DEF WritesInv, ContentOK, ClientInv
  <2>2. q.to = worker /\ q.to = g
    BY <1>1, <2>1, RequestFacts DEF Reply
  <2> QED
    BY <2>1, <2>2, RequestFacts
<1>3. stage[q.op] \in Stages /\ (q.kind = "write" => [stage EXCEPT ![q.op] = stage[q.op]] = stage)
  BY <1>2 DEF SyncTypeOK
<1>4. CASE /\ a.ok \/ q.kind \in {"single", "write"}
           /\ q.kind # "rollback"
           /\ pending' = pending \ {q}
           /\ stage' = [stage EXCEPT ![q.op] = Progress(q, a.ok)]
           /\ refused' = IF q.kind = "write" /\ ~a.ok THEN refused \cup {<<q.op, q.n>>} ELSE refused
           /\ UNCHANGED <<calls, issued, owner, worker, shutdown, closed, proc, inbox, dirty, store>>
  <2> PICK s : s = Progress(q, a.ok)
    OBVIOUS
  <2>1. \/ q.kind = "begin" /\ a.ok /\ s = "body"
        \/ q.kind = "commit" /\ a.ok /\ s = "ok"
        \/ q.kind = "single" /\ s \in {"ok", "failed"}
        \/ q.kind = "write" /\ s = stage[q.op] /\ (a.ok \/ <<q.op, q.n>> \in refused')
    <3>1. q.kind \in {"begin", "write", "commit", "single"}
      BY <1>2, <1>4 DEF Requests
    <3>2. /\ a.ok \in BOOLEAN /\ (a.ok \/ q.kind \in {"single", "write"})
          /\ q.kind = "write" /\ ~a.ok => <<q.op, q.n>> \in refused'
      BY <1>1, <1>4
    <3> QED
      BY <3>1, <3>2, ProgressMeans
  <2>2. /\ Reply(worker, a)
        /\ stage' = [stage EXCEPT ![q.op] = s] /\ pending' = pending \ {q} /\ refused \subseteq refused'
        /\ UNCHANGED <<calls, issued, owner, worker, proc, inbox, dirty, store>>
    BY <1>1, <1>2, <1>4
  <2>3. \A h \in Ops : \A i \in DOMAIN answers'[h] : \E j \in DOMAIN answers[h] : answers'[h][i] = answers[h][j]
    BY <1>1
  <2> QED
    BY <2>1, <2>2, <2>3, AnsweredHolds
<1>5. CASE /\ ~a.ok /\ q.kind = "commit"
           /\ pending' = (pending \ {q}) \cup {Request(q.op, "rollback", worker)}
           /\ inbox' = IF Alive(worker)
                       THEN [inbox EXCEPT ![worker] = Append(@, Request(q.op, "rollback", worker))]
                       ELSE inbox
           /\ stage' = [stage EXCEPT ![q.op] = "rollback"]
           /\ UNCHANGED <<calls, issued, refused, owner, worker, shutdown, closed, proc, dirty, store>>
  <2> PICK t \in Transactions : t = q.op
    BY <1>2, <1>5
  <2>1. Request(t, "rollback", worker) \in Requests
    BY <1>2, OpsAssumption DEF Request, Requests
  <2> PICK r \in Requests : r = Request(t, "rollback", worker)
    BY <2>1
  <2>2. stage[t] = "commit" /\ UnderWay(t) /\ t \in Ops /\ owner[t] = worker
    BY <1>2, <1>5 DEF UnderWay
  <2>3. stage[t] = "commit" => pending \subseteq {q} /\ ~Logged(t) /\ q.kind = "commit"
    <3> SUFFICES ASSUME stage[t] = "commit"
                 PROVE  pending \subseteq {q} /\ ~Logged(t) /\ q.kind = "commit"
      OBVIOUS
    <3>1. q.kind = "commit"
      BY <1>2, <1>5
    <3>2. ASSUME NEW p \in pending
          PROVE  p = q
      <4>1. p.op = t
        BY <2>2, OwnRequests
      <4>2. p.kind = "commit"
        BY <1>2, <4>1, RequestFacts
      <4> QED
        BY <1>2, <3>1, <4>1, <4>2, SameRequest
    <3> QED
      BY <1>1, <1>5, <3>1, <3>2 DEF Reply
  <2>4. Alive(worker) => /\ dirty[worker] # None /\ dirty[worker] \subseteq Writes(t, issued[t])
                         /\ \A i \in DOMAIN inbox[worker] : inbox[worker][i] \notin {q}
    <3>1. Alive(worker) /\ stage[t] = "body" => HoldsAll(t)
      BY <1>2, <2>2 DEF WorkerOK
    <3>2. Alive(worker) /\ stage[t] = "commit" => dirty[worker] # None /\ dirty[worker] \subseteq Writes(t, issued[t])
      BY <1>1, <1>2, <1>5, <2>3 DEF Reply
    <3>3. \A i \in DOMAIN inbox[worker] : inbox[worker][i] # q
      BY <1>1, <1>2 DEF Reply
    <3> QED
      BY <2>2, <3>1, <3>2, <3>3 DEF HoldsAll
  <2> PICK gone : gone = {q}
    OBVIOUS
  <2>5. /\ pending' = (pending \ gone) \cup {r} /\ stage' = [stage EXCEPT ![t] = "rollback"]
        /\ inbox' = IF Alive(worker) THEN [inbox EXCEPT ![worker] = Append(@, r)] ELSE inbox
        /\ UNCHANGED <<calls, issued, refused, owner, worker, proc, dirty, store>>
    BY <1>5
  <2>6. stage[t] \in {"body", "publish", "commit"} /\ (stage[t] = "commit" => pending \subseteq gone /\ ~Logged(t))
    BY <2>2, <2>3
  <2> QED
    BY <1>1, <1>2, <2>2, <2>4, <2>5, <2>6, AskHolds
<1>7. CASE q.kind \in {"rollback", "begin"} /\ Retire([Abandon(g) EXCEPT ![q.op] = "drain"])
  <2> PICK stages : stages = [Abandon(g) EXCEPT ![q.op] = "drain"]
    OBVIOUS
  <2>1. \A o \in Ops : \/ stages[o] = stage[o]
                       \/ ~Settled(o) /\ stage[o] \notin {"idle", "queued"} /\ stages[o] \in {"drain", "failed"}
    BY <1>2, <1>7, AbandonOf DEF Settled
  <2>2. /\ stage' = stages /\ worker' = None /\ pending' \subseteq pending
        /\ proc' = [proc EXCEPT ![worker] = IF @ = "running" THEN "killed" ELSE @]
        /\ UNCHANGED <<calls, issued, refused, owner, inbox, dirty, store>>
    BY <1>7 DEF Retire
  <2> QED
    BY <1>1, <1>2, <2>1, <2>2, GoneHolds
<1> QED
  BY <1>4, <1>5, <1>7 DEF Answer

LEMMA GiveUpHolds ==
  ASSUME WritesInv, worker # None, Retire(Abandon(worker)), UNCHANGED answers
  PROVE  ContentOK'
<1>1. SyncTypeOK
  BY DEF WritesInv, ClientInv
<1>2. \A o \in Ops : \/ Abandon(worker)[o] = stage[o]
                     \/ /\ ~Settled(o) /\ stage[o] \notin {"idle", "queued"}
                        /\ Abandon(worker)[o] \in {"drain", "failed"}
  BY <1>1, AbandonOf DEF Settled
<1> QED
  BY <1>2, GoneHolds DEF Retire

LEMMA TimeoutHolds ==
  ASSUME WritesInv, WorkerError \/ \E q \in pending : Timeout(q)
  PROVE  ContentOK'
<1>1. (\E q \in pending : Timeout(q)) => worker # None
  BY RequestFacts DEF Timeout, WritesInv
<1> QED
  BY <1>1, GiveUpHolds DEF WorkerError, Timeout

LEMMA StillHolds ==
  ASSUME WritesInv, UNCHANGED <<calls, stage, issued, refused, owner, worker, pending, inbox, answers, dirty, store>>,
         \A g \in Ops : Alive(g)' <=> Alive(g)
  PROVE  ContentOK'
<1>1. \A p \in Ops : Forward(p) /\ Lands(p)
  BY DEF Forward, Lands
<1>2. \A t \in Transactions : issued[t] \in Nat /\ issued[t] <= issued[t]
  BY OpsAssumption DEF WritesInv, ClientInv, SyncTypeOK
<1>3. Onward
  BY <1>1, <1>2 DEF Onward
<1>4. \A p \in Ops : stage'[p] # "idle" => \E i \in DOMAIN calls' : calls'[i] = p
  BY CallsStay
<1>5. Counted' /\ StoreOK' /\ \A g \in Ops : ProcessOK(g)'
  BY <1>1, <1>3, <1>4, LandsMeans, ClientStep
<1>6. WorkerOK'
  <2>1. worker \in Ops \cup {None} /\ WorkerOK
    BY DEF WritesInv, ContentOK, ClientInv, SyncTypeOK
  <2>2. (worker # None /\ Alive(worker))' => worker # None /\ Alive(worker)
    BY ONLY <2>1, UNCHANGED worker, \A g \in Ops : Alive(g)' <=> Alive(g)
  <2>3. \A t \in Transactions : HoldsAll(t) => HoldsAll(t)'
    BY DEF HoldsAll, Writes
  <2> QED
    BY ONLY <2>1, <2>2, <2>3, UNCHANGED <<stage, owner, worker, pending, inbox, dirty>> DEF WorkerOK
<1> QED
  BY <1>5, <1>6 DEF ContentOK

LEMMA CloseHolds ==
  ASSUME WritesInv, Close
  PROVE  ContentOK'
<1>1. SyncTypeOK
  BY DEF WritesInv, ClientInv
<1>2. CASE worker = None
  BY <1>2, StillHolds DEF Close, Alive
<1>3. CASE worker # None
  <2>1. \A o \in Ops : \/ Abandon(worker)[o] = stage[o]
                       \/ /\ ~Settled(o) /\ stage[o] \notin {"idle", "queued"}
                          /\ Abandon(worker)[o] \in {"drain", "failed"}
    BY <1>1, AbandonOf DEF Settled
  <2> QED
    BY <1>3, <2>1, GoneHolds DEF Close
<1> QED
  BY <1>2, <1>3

LEMMA ExitHolds ==
  ASSUME WritesInv, NEW g \in Ops, Exit(g)
  PROVE  ContentOK'
<1>1. /\ SyncTypeOK /\ proc[g] = "dead" /\ proc' = [proc EXCEPT ![g] = "gone"]
      /\ UNCHANGED <<calls, issued, refused, owner, closed, inbox, answers, dirty, store>>
  BY DEF Exit, WritesInv, ClientInv
<1>2. \A h \in Ops : Alive(h)' <=> Alive(h)
  BY <1>1 DEF Alive, SyncTypeOK
<1>3. CASE worker = g
  <2>1. \A o \in Ops : \/ Abandon(g)[o] = stage[o]
                       \/ ~Settled(o) /\ stage[o] \notin {"idle", "queued"} /\ Abandon(g)[o] \in {"drain", "failed"}
    BY <1>1, AbandonOf DEF Settled
  <2>2. worker' = None /\ stage' = Abandon(g) /\ pending' \subseteq pending
    BY <1>3 DEF Exit
  <2> QED
    BY <1>1, <1>2, <2>1, <2>2, GiveUpStep
<1>4. CASE worker # g
  BY <1>1, <1>2, <1>4, StillHolds DEF Exit
<1> QED
  BY <1>3, <1>4

LEMMA DieHolds ==
  ASSUME WritesInv, NEW g \in Ops, Die(g)
  PROVE  ContentOK'
<1>1. /\ SyncTypeOK /\ Counted /\ StoreOK /\ WorkerOK /\ Alive(g) /\ proc' = [proc EXCEPT ![g] = "dead"]
      /\ inbox' = [inbox EXCEPT ![g] = <<>>] /\ dirty' = [dirty EXCEPT ![g] = None]
      /\ UNCHANGED <<calls, stage, issued, refused, owner, worker, pending, answers, store>>
  BY DEF Die, WritesInv, ContentOK, ClientInv, clientVars
<1>2. /\ inbox'[g] = <<>> /\ dirty'[g] = None /\ ~Alive(g)'
      /\ \A h \in Ops \ {g} : inbox'[h] = inbox[h] /\ dirty'[h] = dirty[h] /\ (Alive(h)' <=> Alive(h))
  BY <1>1 DEF SyncTypeOK, Alive
<1>3. Counted' /\ StoreOK'
  BY <1>1 DEF Counted, StoreOK, CommittedAsTold
<1>4. WorkerOK'
  BY <1>1, <1>2 DEF WorkerOK, HoldsAll, Writes, SyncTypeOK
<1>5. ASSUME NEW h \in Ops
      PROVE  ProcessOK(h)'
  <2>1. ProcessOK(h)
    BY DEF WritesInv, ContentOK
  <2>2. CASE h # g
    <3>1. inbox'[h] = inbox[h] /\ answers'[h] = answers[h] /\ dirty'[h] = dirty[h] /\ (Alive(h)' <=> Alive(h))
      BY <1>1, <1>2, <2>2
    <3>2. \A i \in DOMAIN inbox[h] : Message(h, inbox[h][i])'
      BY <1>1, <2>1, <3>1 DEF ProcessOK, Message, Past, Logged, Writes
    <3>3. ASSUME NEW a, Reply(h, a)
          PROVE  Reply(h, a)'
      <4>1. Past(a.request)' /\ (Logged(a.request.op)' <=> Logged(a.request.op))
        BY <1>1, <3>3 DEF Reply, Past, Logged
      <4> QED
        BY <1>1, <3>1, <3>3, <4>1 DEF Reply, Writes
    <3>4. \A i \in DOMAIN answers'[h] : Reply(h, answers[h][i])'
      BY <1>1, <2>1, <3>3 DEF ProcessOK
    <3> QED
      BY <2>1, <3>1, <3>2, <3>4 DEF ProcessOK, Together
  <2>3. CASE h = g
    <3>1. ASSUME NEW a, Reply(g, a)
          PROVE  Reply(g, a)'
      <4>1. Past(a.request)' /\ (Logged(a.request.op)' <=> Logged(a.request.op))
        BY <1>1, <3>1 DEF Reply, Past, Logged
      <4> QED
        BY <1>1, <1>2, <3>1, <4>1 DEF Reply
    <3>2. \A i \in DOMAIN answers'[g] : Reply(g, answers[g][i])'
      BY <1>1, <2>1, <2>3, <3>1 DEF ProcessOK
    <3>3. Together(g)' /\ \A i \in DOMAIN inbox'[g] : Message(g, inbox[g][i])'
      BY <1>2 DEF Together
    <3> QED
      BY <1>2, <2>3, <3>2, <3>3 DEF ProcessOK
  <2> QED
    BY <2>2, <2>3
<1> QED
  BY <1>3, <1>4, <1>5 DEF ContentOK

(* Of two requests awaited, one is a write or the rollback, and so is the    *)
(* other.                                                                    *)
LEMMA OtherAwaited ==
  ASSUME ClientInv, NEW q \in pending, NEW r \in pending, q # r, q.op = r.op
  PROVE  /\ r.kind \in {"write", "rollback"}
         /\ stage[r.op] = "body" => q.kind = "write"
<1>1. /\ q \in Requests /\ (q.kind # "write" => stage[q.op] = q.kind)
      /\ (q.kind = "write" => stage[q.op] \in {"body", "rollback"})
      /\ r \in Requests /\ (r.kind # "write" => stage[q.op] = r.kind)
  BY RequestFacts
<1>2. q.kind # "body" /\ r.kind # "body"
  BY <1>1 DEF Requests
<1>3. q.kind # "write" => r.kind = "write" \/ r.kind # q.kind
  BY SameRequest
<1> QED
  BY <1>1, <1>2, <1>3

(* One message handled: refused without effect, or what each kind does, of a *)
(* statement that is refused midway too.                                     *)
Handled(g, q, ok) ==
    \/ ~ok /\ UNCHANGED <<dirty, store>>
    \/ ok /\ q.kind = "begin" /\ dirty'[g] = {} /\ store' = store
    \/ q.kind = "write" /\ dirty'[g] = dirty[g] \cup {<<q.op, q.n>>} /\ store' = store
    \/ ok /\ q.kind = "rollback" /\ dirty'[g] = None /\ store' = store
    \/ q.kind = "single" /\ dirty' = dirty
          /\ store' = Append(store, [op |-> q.op, writes |-> {<<q.op, q.n>>}])
    \/ ok /\ q.kind = "commit" /\ dirty'[g] = None
          /\ store' = Append(store, [op |-> q.op, writes |-> dirty[g]])

Handles(g, q, ok) ==
    /\ Alive(g) /\ q \in Requests /\ q.op \in Ops /\ Message(g, q) /\ Handled(g, q, ok)
    /\ UNCHANGED <<clientVars, proc>>
    /\ \E i \in DOMAIN inbox[g] : inbox[g][i] = q
    /\ \A h \in Ops \ {g} : inbox'[h] = inbox[h] /\ answers'[h] = answers[h] /\ dirty'[h] = dirty[h] /\ ~Alive(h)
    /\ worker # None => g = worker /\ q \in pending
    /\ q.kind = "write" => <<q.op, q.n>> \in Writes(q.op, issued[q.op])
    /\ \A i \in DOMAIN inbox'[g] :
          /\ i \in Nat /\ i + 1 \in DOMAIN inbox[g] /\ inbox'[g][i] = inbox[g][i + 1]
          /\ inbox'[g][i] # q /\ inbox'[g][i].op = q.op /\ q.kind = "write"
          /\ inbox'[g][i].kind \in {"write", "rollback"}
          /\ Message(g, inbox[g][i + 1])
    /\ Together(g)'
    /\ \A i \in DOMAIN answers'[g] : \/ answers'[g][i].request = q /\ answers'[g][i].ok = ok
                                     \/ \E j \in DOMAIN answers[g] : answers'[g][i] = answers[g][j]

LEMMA ExecuteHandles ==
  ASSUME WritesInv, NEW g \in Ops, Execute(g)
  PROVE  \E q \in Requests, ok \in BOOLEAN : Handles(g, q, ok)
<1> DEFINE s == inbox[g]
<1>1. /\ ClientInv /\ SyncTypeOK /\ Alive(g) /\ s # <<>> /\ inbox' = [inbox EXCEPT ![g] = Tail(@)]
      /\ UNCHANGED <<clientVars, proc>> /\ ProcessOK(g) /\ s \in Seq(Requests)
  BY DEF Execute, WritesInv, ContentOK, ClientInv, SyncTypeOK
<1> PICK q \in Requests : q = Head(s)
  BY <1>1, TailOf
<1>2. PICK ok \in BOOLEAN :
          /\ answers' = [answers EXCEPT ![g] = Append(@, [request |-> q, ok |-> ok])]
          /\ \/ ~ok /\ UNCHANGED <<dirty, store>>
             \/ (ok \/ q.kind \in {"write", "single"}) /\ Effect(g, q)
  BY <1>1 DEF Execute
<1>3. /\ q = s[1] /\ 1 \in DOMAIN s
      /\ Len(s) \in Nat /\ Len(Tail(s)) = Len(s) - 1
      /\ DOMAIN s = 1 .. Len(s) /\ DOMAIN Tail(s) = 1 .. Len(s) - 1
      /\ \A i \in DOMAIN Tail(s) : i \in Nat /\ i + 1 \in DOMAIN s /\ i + 1 # 1 /\ Tail(s)[i] = s[i + 1]
  BY <1>1, TailOf
<1>4. inbox'[g] = Tail(s) /\ \A h \in Ops \ {g} : inbox'[h] = inbox[h]
  BY <1>1 DEF SyncTypeOK
<1>5. Message(g, q) /\ q.op \in Ops
  BY <1>1, <1>3 DEF ProcessOK, Requests
<1>6. \A h \in Ops \ {g} : dirty'[h] = dirty[h] /\ answers'[h] = answers[h] /\ ~Alive(h)
  <2>1. \A h \in Ops \ {g} : ~Alive(h)
    BY <1>1, OpsAssumption DEF ClientInv, ProcOK
  <2>2. \A h \in Ops \ {g} : answers'[h] = answers[h]
    BY <1>1, <1>2 DEF SyncTypeOK
  <2>3. \A h \in Ops \ {g} : dirty'[h] = dirty[h]
    BY <1>1, <1>2 DEF SyncTypeOK, Effect
  <2> QED
    BY <2>1, <2>2, <2>3
<1>7. Handled(g, q, ok)
  <2>1. CASE ~ok /\ UNCHANGED <<dirty, store>>
    BY <2>1 DEF Handled
  <2>2. CASE (ok \/ q.kind \in {"write", "single"}) /\ Effect(g, q)
    <3>1. /\ q.kind \in {"begin", "single"} => dirty[g] = None
          /\ q.kind \in {"write", "commit", "rollback"} => dirty[g] # None
      BY <1>5 DEF Message
    <3> QED
      BY <1>1, <2>2, <3>1 DEF Effect, Handled, SyncTypeOK
  <2> QED
    BY <1>2, <2>1, <2>2
<1>8. worker # None => g = worker /\ q \in pending
  <2>1. worker # None => g = worker
    BY <1>1, OpsAssumption DEF ClientInv, ProcOK
  <2> QED
    BY <1>1, <1>3, <2>1 DEF WritesInv, ContentOK, WorkerOK
<1>9. q.kind = "write" => <<q.op, q.n>> \in Writes(q.op, issued[q.op])
  BY <1>5 DEF Message, Past, Writes
<1>10. ASSUME NEW i \in DOMAIN inbox'[g]
       PROVE  /\ i \in Nat /\ i + 1 \in DOMAIN inbox[g] /\ inbox'[g][i] = inbox[g][i + 1]
              /\ inbox'[g][i] # q /\ inbox'[g][i].op = q.op /\ q.kind = "write"
              /\ inbox'[g][i].kind \in {"write", "rollback"}
              /\ Message(g, inbox[g][i + 1])
  <2>1. i \in Nat /\ i + 1 \in DOMAIN s /\ i + 1 # 1 /\ inbox'[g][i] = s[i + 1]
    BY <1>3, <1>4
  <2>2. Message(g, s[i + 1])
    BY <1>1, <2>1 DEF ProcessOK
  <2>3. /\ s[i + 1] # q /\ s[i + 1].op = q.op /\ s[i + 1].kind \in {"write", "rollback"}
        /\ q.kind \in {"write", "rollback"} /\ (q.kind = "rollback" => 1 = Len(s))
    BY <1>1, <1>3, <2>1 DEF ProcessOK, Together
  <2>4. q.kind # "rollback"
    BY <1>3, <2>1, <2>3
  <2> QED
    BY <2>1, <2>2, <2>3, <2>4
<1>11. Together(g)'
  <2>1. ASSUME NEW i \in DOMAIN inbox'[g], NEW j \in DOMAIN inbox'[g], i # j
        PROVE  /\ inbox'[g][i] # inbox'[g][j] /\ inbox'[g][i].op = inbox'[g][j].op
               /\ inbox'[g][i].kind \in {"write", "rollback"}
    <3>1. i + 1 \in DOMAIN s /\ j + 1 \in DOMAIN s /\ i + 1 # j + 1
      BY <1>10, <2>1
    <3> QED
      BY <1>1, <1>10, <3>1 DEF ProcessOK, Together
  <2>2. ASSUME NEW i \in DOMAIN inbox'[g], inbox'[g][i].kind = "rollback"
        PROVE  i = Len(inbox'[g])
    <3>1. i + 1 = Len(s)
      BY <1>1, <1>10, <2>2 DEF ProcessOK, Together
    <3> QED
      BY <1>3, <1>4, <1>10, <3>1
  <2> QED
    BY <2>1, <2>2 DEF Together
<1>12. ASSUME NEW i \in DOMAIN answers'[g]
       PROVE  \/ answers'[g][i].request = q /\ answers'[g][i].ok = ok
              \/ \E j \in DOMAIN answers[g] : answers'[g][i] = answers[g][j]
  <2> DEFINE R == [request : Requests, ok : BOOLEAN]
             a == [request |-> q, ok |-> ok]
  <2>1. answers \in [Ops -> Seq(R)] /\ a \in R /\ answers' = [answers EXCEPT ![g] = Append(@, a)]
        /\ a.request = q /\ a.ok = ok
    BY <1>1, <1>2 DEF SyncTypeOK
  <2> HIDE DEF R, a
  <2>2. answers[g] \in Seq(R) /\ answers'[g] = Append(answers[g], a)
    BY <2>1
  <2>3. answers'[g][i] = a \/ (i \in DOMAIN answers[g] /\ answers'[g][i] = answers[g][i])
    BY <2>1, <2>2, AppendProperties
  <2> QED
    BY <2>1, <2>3
<1>13. Handles(g, q, ok)
  BY <1>1, <1>3, <1>4, <1>5, <1>6, <1>7, <1>8, <1>9, <1>10, <1>11, <1>12 DEF Handles
<1> QED
  BY <1>13

LEMMA HandledStore ==
  ASSUME WritesInv, NEW g \in Ops, NEW q, NEW ok \in BOOLEAN, Handles(g, q, ok)
  PROVE  /\ StoreOK'
         /\ \A o \in Ops : Logged(o)' => Logged(o) \/ (o = q.op /\ (ok \/ q.kind = "single") /\ q.kind \in {"commit", "single"})
<1>1. /\ SyncTypeOK /\ StoreOK /\ q \in Requests /\ q.op \in Ops /\ Message(g, q) /\ Handled(g, q, ok) /\ Past(q)
      /\ UNCHANGED <<calls, stage, issued, refused, owner, worker, pending, proc>>
  BY DEF Handles, Message, WritesInv, ContentOK, ClientInv, clientVars
<1>2. CASE store' = store
  BY <1>1, <1>2 DEF StoreOK, CommittedAsTold, Logged
<1>3. CASE (ok \/ q.kind = "single") /\ q.kind \in {"commit", "single"} /\ store' # store
  <2>1. PICK w : w = IF q.kind = "single" THEN {<<q.op, q.n>>} ELSE dirty[g]
    OBVIOUS
  <2> DEFINE k == [op |-> q.op, writes |-> w]
  <2>2. store' = Append(store, k)
    BY <1>1, <1>3, <2>1 DEF Handled
  <2>3. w \in SUBSET (Ops \X (0 .. MaxWrites))
    <3>1. q.kind = "commit" => dirty[g] # None
      BY <1>1 DEF Message
    <3>2. dirty[g] \in {None} \cup SUBSET (Ops \X (0 .. MaxWrites)) /\ q.n \in 0 .. MaxWrites
      BY <1>1 DEF SyncTypeOK, Requests
    <3> QED
      BY <1>1, <1>3, <2>1, <3>1, <3>2
  <2>4. k \in Commits
    BY <1>1, <2>3 DEF Commits
  <2> PICK c \in Commits : c = k
    BY <2>4
  <2>5. c.op = q.op /\ c.writes = w /\ store' = Append(store, c)
    BY <2>2
  <2> HIDE DEF k
  <2>6. Onward
    <3>1. \A t \in Transactions : issued[t] \in Nat /\ issued[t] <= issued[t]
      BY <1>1, OpsAssumption DEF SyncTypeOK
    <3> QED
      BY <1>1, <3>1 DEF Onward, Forward
  <2>7. ~Logged(q.op)
    BY <1>1, <1>3 DEF Message
  <2>8. \A t \in Transactions : Logged(t) => stage[t] \in {"commit", "drain", "ok", "failed"}
    BY <1>1 DEF Logged, StoreOK, CommittedAsTold
  <2>9. c.op \in Transactions =>
            /\ stage'[c.op] \in {"commit", "drain", "ok", "failed"}
            /\ \E n \in 0 .. issued'[c.op] : FirstOf(c.writes, c.op, n, refused')
            /\ stage'[c.op] \in {"commit", "ok"} => FirstOf(c.writes, c.op, issued'[c.op], refused')
    <3>1. c.op \in Transactions => q.kind = "commit"
      BY <1>1, <1>3, <2>5, OpsAre DEF Message
    <3> QED
      BY <1>1, <2>1, <2>5, <3>1 DEF Message, Writes
  <2>10. StoreOK'
    BY <1>1, <2>5, <2>6, <2>7, <2>8, <2>9, StoreGrows DEF Past
  <2>11. \A o \in Ops : Logged(o)' => Logged(o) \/ o = q.op
    <3>1. store \in Seq(Commits)
      BY <1>1 DEF SyncTypeOK
    <3>2. \A i \in DOMAIN store' : store'[i] = c \/ (i \in DOMAIN store /\ store'[i] = store[i])
      BY <2>5, <3>1, AppendProperties
    <3> QED
      BY <2>5, <3>2 DEF Logged
  <2> QED
    BY <1>3, <2>10, <2>11
<1> QED
  BY <1>1, <1>2, <1>3 DEF Handled

(* The process that has handled the message.                                 *)
LEMMA HandledProcess ==
  ASSUME WritesInv, NEW g \in Ops, NEW q, NEW ok \in BOOLEAN, Handles(g, q, ok)
  PROVE  ProcessOK(g)'
<1>1. /\ ClientInv /\ SyncTypeOK /\ q \in Requests /\ q.op \in Ops /\ Message(g, q) /\ Handled(g, q, ok) /\ Past(q)
      /\ Alive(g) /\ UNCHANGED <<calls, stage, issued, refused, owner, worker, pending, proc>> /\ Alive(g)'
      /\ ProcessOK(g) /\ q.to = g
  BY DEF Handles, Message, WritesInv, ContentOK, ClientInv, clientVars, Alive
<1>2. /\ \A o \in Ops : Logged(o)' => Logged(o) \/ (o = q.op /\ (ok \/ q.kind = "single") /\ q.kind \in {"commit", "single"})
      /\ (ok = TRUE \/ ok = FALSE)
  BY HandledStore
<1>3. worker # None => g = worker /\ q \in pending
  BY DEF Handles
(* A transaction that goes on writing loses nothing.                         *)
<1>4. ASSUME q.kind = "write"
      PROVE  dirty[g] \subseteq dirty'[g] /\ dirty'[g] # None /\ dirty'[g] \subseteq Writes(q.op, issued[q.op])
             /\ store' = store
  <2>1. /\ dirty[g] # None /\ dirty[g] \subseteq Writes(q.op, issued[q.op])
        /\ <<q.op, q.n>> \in Writes(q.op, issued[q.op]) /\ q.n \in 0 .. MaxWrites
        /\ dirty[g] \in SUBSET (Ops \X (0 .. MaxWrites))
    BY <1>1, <1>4 DEF Message, Handles, SyncTypeOK, Requests
  <2>2. store' = store /\ (dirty' = dirty \/ dirty'[g] = dirty[g] \cup {<<q.op, q.n>>})
    BY <1>1, <1>4 DEF Handled
  <2>3. dirty[g] \cup {<<q.op, q.n>>} # None
    BY <1>1, <2>1, NoneAssumption
  <2> QED
    BY <2>1, <2>2, <2>3
<1>5. ASSUME NEW i \in DOMAIN inbox'[g]
      PROVE  \E m \in Requests : m = inbox'[g][i] /\ Message(g, m)'
  <2>1. /\ i + 1 \in DOMAIN inbox[g] /\ inbox'[g][i] = inbox[g][i + 1]
        /\ inbox'[g][i].op = q.op /\ q.kind = "write" /\ inbox'[g][i].kind \in {"write", "rollback"}
        /\ Message(g, inbox[g][i + 1])
    BY DEF Handles
  <2>2. inbox[g] \in Seq(Requests)
    BY <1>1 DEF SyncTypeOK
  <2> PICK m \in Requests : m = inbox[g][i + 1]
    BY <2>1, <2>2
  <2>3. Message(g, m)'
    BY <1>1, <1>4, <2>1 DEF Message, Past, Writes
  <2> QED
    BY <2>1, <2>3
<1>6. (\A i \in DOMAIN inbox[g] : Message(g, inbox[g][i]))'
  BY <1>5
<1>7. \A i \in DOMAIN inbox'[g] : inbox'[g][i] # q /\ \E j \in DOMAIN inbox[g] : inbox'[g][i] = inbox[g][j]
  BY DEF Handles
<1>8. ASSUME NEW a, a.request = q, a.ok = ok
      PROVE  Reply(g, a)'
  <2>1. /\ a.request.to = g /\ Past(a.request)'
    BY <1>1, <1>8 DEF Past
  <2>2. q.kind = "begin" /\ ok => dirty'[g] = {}
    BY <1>1, <1>2 DEF Handled
  <2>3. q.kind = "write" /\ ok => <<q.op, q.n>> \in dirty'[g]
    BY <1>1, <1>2 DEF Handled
  <2>4. q.kind = "commit" /\ ok => dirty'[g] = None
    BY <1>1, <1>2 DEF Handled
  <2>5. q.kind = "commit" /\ ~ok => /\ ~Logged(q.op)' /\ dirty'[g] # None
                                    /\ dirty'[g] \subseteq Writes(q.op, issued'[q.op])
    BY <1>1, <1>2 DEF Handled, Message
  <2> QED
    BY <1>1, <1>7, <1>8, <2>1, <2>2, <2>3, <2>4, <2>5 DEF Reply, Writes
<1>9. ASSUME NEW a, Reply(g, a), a.request \in Requests
      PROVE  Reply(g, a)'
  <2> PICK r \in Requests : r = a.request
    BY <1>9
  <2>1. r.to = g /\ Past(r) /\ Past(r)'
    BY <1>1, <1>9 DEF Reply, Past
  <2>2. SUFFICES ASSUME r \in pending
                 PROVE  Reply(g, a)'
    BY <1>1, <2>1 DEF Reply
  <2>3. q \in pending /\ g = worker /\ UnderWay(r.op) /\ r.op \in Ops
    <3>1. q \in pending /\ g = worker
      BY <1>1, <1>3, <2>2, RequestFacts
    <3>2. /\ r.op \in Ops /\ r \in Requests
          /\ r.kind # "write" => stage[r.op] = r.kind
          /\ r.kind = "write" => stage[r.op] \in {"body", "rollback"}
      BY <1>1, <2>2, RequestFacts
    <3> QED
      BY <3>1, <3>2 DEF UnderWay, Requests
  <2>4. q.op = r.op
    BY <2>2, <2>3, OwnRequests
  <2>5. r # q /\ \A i \in DOMAIN inbox'[g] : inbox'[g][i] # r
    BY <1>7, <1>9, <2>2 DEF Handles, Reply
  <2>6. r.kind \in {"write", "rollback"} /\ (stage[r.op] = "body" => q.kind = "write")
    BY <1>1, <2>2, <2>3, <2>4, <2>5, OtherAwaited
  <2>7. r.kind = "write" /\ a.ok /\ stage'[r.op] = "body" => <<r.op, r.n>> \in dirty'[g]
    BY <1>1, <1>4, <1>9, <2>2, <2>6 DEF Reply
  <2> QED
    BY <2>1, <2>5, <2>6, <2>7 DEF Reply
<1>10. (\A i \in DOMAIN answers[g] : Reply(g, answers[g][i]))'
  <2> DEFINE R == [request : Requests, ok : BOOLEAN]
  <2>1. answers[g] \in Seq(R)
    BY <1>1 DEF SyncTypeOK
  <2> HIDE DEF R
  <2>2. \A j \in DOMAIN answers[g] : answers[g][j] \in R /\ Reply(g, answers[g][j])
    BY <1>1, <2>1 DEF ProcessOK
  <2>3. \A j \in DOMAIN answers[g] : answers[g][j].request \in Requests
    BY <2>2 DEF R
  <2>4. ASSUME NEW i \in DOMAIN answers'[g]
        PROVE  \E a : a = answers'[g][i] /\ Reply(g, a)'
    <3>1. CASE answers'[g][i].request = q /\ answers'[g][i].ok = ok
      <4> PICK a : a = answers'[g][i]
        OBVIOUS
      <4> QED
        BY <1>8, <3>1
    <3>2. CASE \E j \in DOMAIN answers[g] : answers'[g][i] = answers[g][j]
      <4> PICK j \in DOMAIN answers[g] : answers'[g][i] = answers[g][j]
        BY <3>2
      <4> PICK a : a = answers[g][j]
        OBVIOUS
      <4> QED
        BY <1>9, <2>2, <2>3
    <3> QED
      BY <3>1, <3>2 DEF Handles
  <2> QED
    BY <2>4
<1>11. Together(g)'
  BY DEF Handles
<1> QED
  BY <1>1, <1>6, <1>10, <1>11 DEF ProcessOK

LEMMA ExecuteHolds ==
  ASSUME WritesInv, NEW g \in Ops, Execute(g)
  PROVE  ContentOK'
<1> PICK q \in Requests, ok \in BOOLEAN : Handles(g, q, ok)
  BY ExecuteHandles
<1>1. /\ ClientInv /\ SyncTypeOK /\ Counted /\ WorkerOK /\ q.op \in Ops /\ Handled(g, q, ok) /\ Message(g, q)
      /\ UNCHANGED <<calls, stage, issued, refused, owner, worker, pending, proc>> /\ Alive(g)
      /\ \A h \in Ops \ {g} : inbox'[h] = inbox[h] /\ answers'[h] = answers[h] /\ dirty'[h] = dirty[h] /\ ~Alive(h)
      /\ (worker # None => g = worker /\ q \in pending)
  BY DEF Handles, WritesInv, ContentOK, ClientInv, clientVars
<1>2. StoreOK' /\ ProcessOK(g)'
  BY HandledStore, HandledProcess
<1>3. Counted'
  BY <1>1 DEF Counted
<1>4. ASSUME NEW h \in Ops \ {g}
      PROVE  ProcessOK(h)'
  <2>1. ProcessOK(h) /\ inbox'[h] = inbox[h] /\ answers'[h] = answers[h] /\ dirty'[h] = dirty[h]
        /\ ~Alive(h) /\ ~Alive(h)' /\ inbox[h] = <<>>
    BY <1>1 DEF WritesInv, ContentOK, ProcessOK, Alive
  <2>2. \A i \in DOMAIN answers[h] : answers[h][i].request \notin pending
    <3> SUFFICES ASSUME NEW i \in DOMAIN answers[h], answers[h][i].request \in pending
                 PROVE  FALSE
      OBVIOUS
    <3>1. answers[h][i].request.to = h
      BY <2>1 DEF ProcessOK, Reply
    <3>2. answers[h][i].request.to = worker /\ worker # None
      BY <1>1, RequestFacts
    <3> QED
      BY <1>1, <3>1, <3>2
  <2>3. \A i \in DOMAIN answers[h] : Reply(h, answers[h][i])'
    BY ZenonT(40), <1>1, <2>1, <2>2 DEF ProcessOK, Reply, Past
  <2> QED
    BY <2>1, <2>3 DEF ProcessOK, Together
<1>5. WorkerOK'
  <2> SUFFICES ASSUME worker # None
               PROVE  WorkerOK'
    BY <1>1 DEF WorkerOK
  <2>1. worker = g /\ q \in pending /\ worker \in Ops
    BY <1>1
  <2>2. \A i \in DOMAIN inbox'[g] : inbox'[g][i] \in pending
    BY <1>1, <2>1 DEF Handles, WorkerOK
  <2>3. /\ q.kind # "write" => stage[q.op] = q.kind
        /\ q.kind = "write" => stage[q.op] \in {"body", "rollback"}
        /\ q.kind # "single" => q.op \in Transactions /\ owner[q.op] = worker
    BY <1>1, <2>1, RequestFacts
  <2>4. UnderWay(q.op)
    BY <2>3 DEF UnderWay, Requests
  <2>5. ASSUME NEW t \in Transactions, owner[t] = g, stage[t] \in {"body", "publish"}
        PROVE  HoldsAll(t)'
    <3>1. HoldsAll(t) /\ t \in Ops /\ UnderWay(t)
      BY <1>1, <2>1, <2>5, OpsAre DEF WorkerOK, UnderWay
    <3>2. q.op = t
      BY <2>1, <3>1, OwnRequests
    <3>3. q.kind = "write"
      BY <2>3, <2>5, <3>2 DEF Requests
    <3>4. /\ dirty[g] \subseteq dirty'[g] /\ dirty'[g] # None /\ dirty'[g] \subseteq Writes(t, issued[t])
      <4>1. dirty'[g] = dirty[g] \/ dirty'[g] = dirty[g] \cup {<<q.op, q.n>>}
        BY <1>1, <3>3 DEF Handled
      <4>2. /\ <<q.op, q.n>> \in Writes(t, issued[t]) /\ q.n \in 0 .. MaxWrites
            /\ dirty[g] # None /\ dirty[g] \subseteq Writes(t, issued[t])
            /\ dirty[g] \in {None} \cup SUBSET (Ops \X (0 .. MaxWrites))
        BY <1>1, <2>1, <3>1, <3>2, <3>3 DEF Handles, HoldsAll, SyncTypeOK, Requests
      <4>3. dirty[g] \cup {<<q.op, q.n>>} # None
        BY <1>1, <4>2, NoneAssumption
      <4> QED
        BY <4>1, <4>2, <4>3
    <3> QED
      BY <1>1, <2>1, <3>1, <3>4 DEF HoldsAll, Writes
  <2>6. dirty'[g] # None => \E t \in Transactions :
            owner[t] = g /\ stage[t] \in {"begin", "body", "publish", "commit", "rollback"}
    <3> SUFFICES ASSUME dirty'[g] # None
                 PROVE  \E t \in Transactions :
                            owner[t] = g /\ stage[t] \in {"begin", "body", "publish", "commit", "rollback"}
      OBVIOUS
    <3>1. CASE dirty[g] # None
      BY <1>1, <2>1, <3>1 DEF WorkerOK
    <3>2. CASE dirty[g] = None
      <4>1. q.kind = "begin"
        BY <1>1, <3>2 DEF Handled, Message
      <4> QED
        BY <2>1, <2>3, <4>1
    <3> QED
      BY <3>1, <3>2
  <2> QED
    BY <1>1, <2>1, <2>2, <2>5, <2>6 DEF WorkerOK
<1> QED
  BY <1>2, <1>3, <1>4, <1>5 DEF ContentOK

-----------------------------------------------------------------------------
LEMMA WritesInit ==
  ASSUME SyncInit
  PROVE  WritesInv
<1>1. /\ store = <<>> /\ pending = {} /\ worker = None
      /\ \A o \in Ops : stage[o] = "idle" /\ ~Alive(o) /\ inbox[o] = <<>> /\ answers[o] = <<>> /\ dirty[o] = None
      /\ \A t \in Transactions : issued[t] = 0
  BY DEF SyncInit, Alive
<1>2. Counted /\ StoreOK /\ WorkerOK
  BY <1>1 DEF Counted, StoreOK, CommittedAsTold, WorkerOK
<1>3. \A g \in Ops : ProcessOK(g)
  BY <1>1 DEF ProcessOK, Together
<1> QED
  BY <1>2, <1>3, ClientInit DEF WritesInv, ContentOK

LEMMA WritesStep ==
  ASSUME WritesInv, [SyncNext]_syncVars
  PROVE  WritesInv'
<1>0. ClientInv'
  BY StepKeeps DEF WritesInv
<1> SUFFICES ContentOK'
  BY <1>0 DEF WritesInv
<1>1. CASE UNCHANGED syncVars
  BY <1>1, StillHolds DEF syncVars, procVars, clientVars, Alive
<1>2. CASE \E o \in Ops : Call(o) \/ RefuseClosed(o)
  BY <1>2, CallHolds, RefuseHolds
<1>3. CASE \E t \in Transactions : TransactionStep(t)
  <2> PICK t \in Transactions : TransactionStep(t)
    BY <1>3
  <2>1. CASE BeginTransaction(t)
    BY <1>0, <2>1, StartHolds, OpsAre DEF BeginTransaction
  <2>2. CASE IssueWrite(t)
    BY <2>2, IssueHolds
  <2>3. CASE OperationReturns(t) \/ Rethrow(t)
    BY <2>3, ReturnHolds
  <2>4. CASE OperationThrows(t) \/ CommitTransaction(t)
    BY <2>4, ThrowsHolds
  <2> QED
    BY <2>1, <2>2, <2>3, <2>4 DEF TransactionStep
<1>4. CASE \E s \in Statements : RunStatement(s)
  BY <1>0, <1>4, StartHolds, OpsAre DEF RunStatement
<1>5. CASE \E m \in MainWrites : MainWrite(m)
  BY <1>5, MainWriteHolds
<1>6. CASE WorkerError \/ \E q \in pending : Timeout(q)
  BY <1>6, TimeoutHolds
<1>7. CASE \E g \in Ops : StaleAnswer(g) \/ Answer(g) \/ Exit(g) \/ Execute(g) \/ Die(g)
  BY <1>7, StaleHolds, AnswerHolds, ExitHolds, ExecuteHolds, DieHolds
<1>8. CASE Close
  BY <1>8, CloseHolds
<1> QED
  BY <1>1, <1>2, <1>3, <1>4, <1>5, <1>6, <1>7, <1>8 DEF SyncNext

(* Whatever a process refuses, whenever it dies and however late it answers, *)
(* a refresh reaches cache.db as one commit or not at all, and of the        *)
(* statements it issued the commit lacks none but those it was told had      *)
(* failed: none runs after its rollback, on the connection of another        *)
(* refresh, or twice (runTransaction, handleMessage, retireWorker and the    *)
(* message loop of sync-worker.ts).                                          *)
THEOREM RefreshesCommitAsTold == SyncSpec => []CommittedAsTold
<1>1. SyncInit => WritesInv
  BY WritesInit
<1>2. WritesInv /\ [SyncNext]_syncVars => WritesInv'
  BY WritesStep
<1>3. WritesInv => CommittedAsTold
  BY DEF WritesInv, ContentOK, StoreOK
<1> QED
  BY <1>1, <1>2, <1>3, PTL DEF SyncSpec

-----------------------------------------------------------------------------
(* The store as its callers see it.                                          *)

(* A message that waits is of an operation that may still take effect: what  *)
(* was called after it has not begun.                                        *)
InTurn(q) ==
    /\ q.kind = "commit" => stage[q.op] \in {"commit", "drain"}
    /\ \A i, j \in DOMAIN calls : i < j /\ calls[i] = q.op => stage[calls[j]] = "queued"

Effective(a) == a.ok /\ a.request.kind \in {"commit", "single"} => Logged(a.request.op)

TurnsOK ==
    /\ \A i \in DOMAIN calls : stage[calls[i]] # "idle"
    /\ \A i, j \in DOMAIN calls : calls[i] = calls[j] => i = j
    /\ \A o \in Ops : stage[o] = "ok" => Logged(o)
    /\ \A g \in Ops : \A i \in DOMAIN inbox[g] : InTurn(inbox[g][i])
    /\ \A g \in Ops : \A i \in DOMAIN answers[g] : Effective(answers[g][i])

TurnsInv == WritesInv /\ TurnsOK

(* What a step does to the stages, the messages and the answers.             *)
Shape ==
    /\ \A o \in Ops : stage[o] = "queued" => stage'[o] = "queued" \/ Admitted(o)
    /\ \A o \in Ops : stage[o] # "idle" => stage'[o] # "idle"
    /\ \A o \in Ops : stage'[o] = "ok" => stage[o] = "ok" \/ Logged(o)'
    /\ \A t \in Transactions : stage'[t] = "failed" =>
           stage[t] \in {"failed", "queued"} \/ (stage[t] = "drain" /\ shutdown = None)
    /\ \A g \in Ops : worker' # g =>
           \A i \in DOMAIN inbox'[g] : Alive(g) /\ \E j \in DOMAIN inbox[g] : inbox'[g][i] = inbox[g][j]

Quiet == /\ \A o \in Ops : Logged(o) => Logged(o)'
         /\ \A g \in Ops : \A i \in DOMAIN answers'[g] :
                \E a : /\ a = answers'[g][i]
                       /\ Effective(a)' \/ \E j \in DOMAIN answers[g] : a = answers[g][j]

LEMMA InTurnKept ==
  ASSUME TurnsInv, WritesInv', Shape, Quiet,
         calls' = calls \/ \E o \in Ops : Call(o)
  PROVE  TurnsOK'
<1>1. /\ ClientInv /\ SyncTypeOK /\ Counted /\ WorkerOK /\ TurnsOK
      /\ ClientInv' /\ SyncTypeOK' /\ WorkerOK' /\ Counted'
      /\ \A g \in Ops : ProcessOK(g) /\ ProcessOK(g)'
  BY DEF TurnsInv, WritesInv, ContentOK, ClientInv
<1>2. \A i \in DOMAIN calls : calls[i] \in Ops
  BY <1>1 DEF SyncTypeOK
<1>3. ASSUME calls' # calls
      PROVE  /\ \E o \in Ops : stage[o] = "idle" /\ stage'[o] = "queued" /\ calls' = Append(calls, o)
             /\ UNCHANGED <<worker, inbox, proc>>
  BY <1>1, <1>3 DEF Call, procVars, SyncTypeOK
<1>4. \A i \in DOMAIN calls' :
          \/ i \in DOMAIN calls /\ calls'[i] = calls[i]
          \/ /\ calls' # calls /\ stage[calls'[i]] = "idle" /\ stage'[calls'[i]] = "queued"
             /\ \A j \in DOMAIN calls' : j # i => j < i /\ j \in DOMAIN calls /\ calls'[j] = calls[j]
  <2>1. CASE calls' = calls
    BY <2>1
  <2>2. CASE calls' # calls
    <3> PICK o \in Ops : stage[o] = "idle" /\ stage'[o] = "queued" /\ calls' = Append(calls, o)
      BY <1>3, <2>2
    <3> DEFINE n == Len(calls)
    <3>0. calls \in Seq(Ops)
      BY <1>1 DEF SyncTypeOK
    <3>1. /\ n \in Nat /\ DOMAIN calls = 1 .. n /\ DOMAIN calls' = 1 .. n + 1
          /\ calls'[n + 1] = o /\ \A i \in 1 .. n : calls'[i] = calls[i]
      BY <3>0, AppendProperties
    <3> HIDE DEF n
    <3>2. \A i \in 1 .. n + 1 : i \in 1 .. n \/ i = n + 1
      BY <3>1
    <3>3. \A i \in 1 .. n : i < n + 1
      BY <3>1
    <3> QED
      BY <2>2, <3>1, <3>2, <3>3
  <2> QED
    BY <2>1, <2>2
<1>5. \A i \in DOMAIN calls' : stage'[calls'[i]] # "idle"
  BY <1>1, <1>2, <1>4 DEF TurnsOK, Shape
<1>6. \A i, j \in DOMAIN calls' : calls'[i] = calls'[j] => i = j
  BY <1>1, <1>4 DEF TurnsOK
<1>7. ASSUME NEW g \in Ops, NEW i \in DOMAIN inbox'[g], NEW q \in Requests, q = inbox'[g][i]
      PROVE  InTurn(q)'
  <2>1. Message(g, q)' /\ Alive(g)' /\ q.op \in Ops
    BY <1>1, <1>7 DEF ProcessOK, Requests
  <2>2. ASSUME NEW j \in DOMAIN calls', NEW k \in DOMAIN calls', j < k, calls'[j] = q.op, ~Settled(q.op)'
        PROVE  stage'[calls'[k]] = "queued"
    BY <1>1, <2>2 DEF ClientInv, OneAtATime
  <2>3. CASE worker' = g
    <3>1. q \in pending'
      BY <1>1, <1>7, <2>1, <2>3, OpsAssumption DEF WorkerOK
    <3>2. /\ q.kind # "write" => stage'[q.op] = q.kind
          /\ q.kind = "write" => stage'[q.op] \in {"body", "rollback"}
      BY <1>1, <3>1 DEF ClientInv, Awaited
    <3>3. ~Settled(q.op)'
      BY <3>2 DEF Requests, Settled
    <3> QED
      BY <2>2, <3>2, <3>3 DEF InTurn
  <2>4. CASE worker' # g
    <3>1. Alive(g) /\ \E j \in DOMAIN inbox[g] : q = inbox[g][j]
      BY <1>7, <2>4 DEF Shape
    <3>2. InTurn(q) /\ Message(g, q)
      BY <1>1, <3>1 DEF TurnsOK, ProcessOK
    <3>3. shutdown = None => q \in pending /\ UnderWay(q.op) /\ (q.kind = "commit" => stage[q.op] = "commit")
      <4> SUFFICES ASSUME shutdown = None
                   PROVE  q \in pending /\ UnderWay(q.op) /\ (q.kind = "commit" => stage[q.op] = "commit")
        OBVIOUS
      <4>1. g = worker /\ worker # None
        BY <1>1, <3>1, OpsAssumption DEF ClientInv, ProcOK
      <4>2. q \in pending
        BY <1>1, <3>1, <4>1 DEF WorkerOK
      <4>3. /\ q.kind # "write" => stage[q.op] = q.kind
            /\ q.kind = "write" => stage[q.op] \in {"body", "rollback"}
        BY <1>1, <4>2, RequestFacts
      <4> QED
        BY <4>2, <4>3 DEF UnderWay, Requests
    <3>4. q.kind = "commit" => stage'[q.op] \in {"commit", "drain"}
      <4>1. q.kind = "commit" => q.op \in Transactions /\ stage'[q.op] \in {"commit", "drain", "failed"}
        BY <2>1 DEF Message
      <4>2. q.kind = "commit" => stage'[q.op] # "failed"
        BY <3>2, <3>3, <4>1 DEF Shape, InTurn
      <4> QED
        BY <4>1, <4>2
    <3>5. ASSUME NEW j \in DOMAIN calls', NEW k \in DOMAIN calls', j < k, calls'[j] = q.op
          PROVE  stage'[calls'[k]] = "queued"
      <4>1. CASE k \notin DOMAIN calls \/ calls'[k] # calls[k]
        BY <1>4, <4>1
      <4>2. CASE k \in DOMAIN calls /\ calls'[k] = calls[k]
        <5>1. j \in DOMAIN calls /\ calls'[j] = calls[j]
          <6>1. stage'[q.op] # "queued" \/ calls' = calls
            BY <1>2, <1>4, <2>1, <3>5, <4>2 DEF Message, Past
          <6> QED
            BY <1>4, <3>5, <6>1
        <5>2. stage[calls[k]] = "queued"
          BY <3>2, <3>5, <4>2, <5>1 DEF InTurn
        <5>3. ~Admitted(calls[k])
          BY <1>1, <1>2, <2>1, <3>3, <4>2, OnlyOne DEF Admitted
        <5> QED
          BY <1>2, <4>2, <5>2, <5>3 DEF Shape
      <4> QED
        BY <4>1, <4>2
    <3> QED
      BY <3>4, <3>5 DEF InTurn
  <2> QED
    BY <2>3, <2>4
<1>8. (\A g \in Ops : \A i \in DOMAIN inbox[g] : InTurn(inbox[g][i]))'
  <2> SUFFICES ASSUME NEW g \in Ops, NEW i \in DOMAIN inbox'[g]
               PROVE  \E q : q = inbox'[g][i] /\ InTurn(q)'
    OBVIOUS
  <2>1. inbox'[g] \in Seq(Requests)
    BY <1>1 DEF SyncTypeOK
  <2> PICK q \in Requests : q = inbox'[g][i]
    BY <2>1
  <2> QED
    BY <1>7
<1>9. (\A g \in Ops : \A i \in DOMAIN answers[g] : Effective(answers[g][i]))'
  <2> SUFFICES ASSUME NEW g \in Ops, NEW i \in DOMAIN answers'[g]
               PROVE  \E a : a = answers'[g][i] /\ Effective(a)'
    OBVIOUS
  <2> PICK a : a = answers'[g][i] /\ (Effective(a)' \/ \E j \in DOMAIN answers[g] : a = answers[g][j])
    BY DEF Quiet
  <2> DEFINE R == [request : Requests, ok : BOOLEAN]
  <2>1. answers'[g] \in Seq(R)
    BY <1>1 DEF SyncTypeOK
  <2> HIDE DEF R
  <2>2. a \in R
    BY <2>1
  <2>3. a.request.op \in Ops
    BY <2>2 DEF R, Requests
  <2> QED
    BY <1>1, <2>3 DEF TurnsOK, Effective, Quiet
<1>10. \A o \in Ops : stage'[o] = "ok" => Logged(o)'
  BY <1>1 DEF TurnsOK, Shape, Quiet
<1> QED
  BY <1>5, <1>6, <1>8, <1>9, <1>10 DEF TurnsOK

(* What the caller of an operation knows at each stage.                      *)
Known(s) == IF s = "idle" THEN "uncalled" ELSE IF s \in {"ok", "failed"} THEN s ELSE "waiting"

Outcome == [o \in Ops |-> CASE stage[o] = "idle" -> "uncalled"
                            [] Settled(o) -> stage[o]
                            [] OTHER -> "waiting"]

Effects == [i \in DOMAIN store |-> store[i].op]

SerialStep == Serial!SerialNext \/ UNCHANGED <<calls, Outcome, Effects>>

LEMMA OutcomeOf ==
  /\ Outcome = [o \in Ops |-> Known(stage[o])]
  /\ Outcome' = [o \in Ops |-> Known(stage'[o])]
BY DEF Outcome, Known, Settled

LEMMA SameOutcome ==
  ASSUME calls' = calls, store' = store, \A o \in Ops : Known(stage'[o]) = Known(stage[o])
  PROVE  SerialStep
<1>1. Outcome' = Outcome
  BY OutcomeOf
<1>2. Effects' = Effects
  BY DEF Effects
<1> QED
  BY <1>1, <1>2 DEF SerialStep

LEMMA OneOutcome ==
  ASSUME NEW o \in Ops, \A p \in Ops \ {o} : Known(stage'[p]) = Known(stage[p])
  PROVE  Outcome[o] = Known(stage[o]) /\ Outcome' = [Outcome EXCEPT ![o] = Known(stage'[o])]
BY OutcomeOf

LEMMA CalledSerial ==
  ASSUME NEW o \in Ops, Known(stage[o]) = "uncalled", Known(stage'[o]) = "waiting",
         calls' = Append(calls, o), store' = store,
         \A p \in Ops \ {o} : Known(stage'[p]) = Known(stage[p])
  PROVE  SerialStep
<1>1. Outcome[o] = "uncalled" /\ Outcome' = [Outcome EXCEPT ![o] = "waiting"]
  BY OneOutcome
<1>2. Effects' = Effects
  BY DEF Effects
<1>3. Serial!Call(o)
  BY <1>1, <1>2 DEF Serial!Call, Outcome, Effects
<1> QED
  BY <1>3 DEF SerialStep, Serial!SerialNext, Serial!Ops, Ops

LEMMA FailedSerial ==
  ASSUME NEW o \in Ops, Known(stage[o]) = "waiting", Known(stage'[o]) = "failed",
         calls' = calls, store' = store, \A p \in Ops \ {o} : Known(stage'[p]) = Known(stage[p])
  PROVE  SerialStep
<1>1. Outcome[o] = "waiting" /\ Outcome' = [Outcome EXCEPT ![o] = "failed"]
  BY OneOutcome
<1>2. Effects' = Effects
  BY DEF Effects
<1> QED
  BY <1>1, <1>2 DEF SerialStep, Serial!SerialNext, Serial!Ops, Ops, Outcome, Effects

LEMMA SucceededSerial ==
  ASSUME NEW o \in Ops, Known(stage[o]) = "waiting", Known(stage'[o]) = "ok", Logged(o),
         calls' = calls, store' = store, \A p \in Ops \ {o} : Known(stage'[p]) = Known(stage[p])
  PROVE  SerialStep
<1>1. Outcome[o] = "waiting" /\ Outcome' = [Outcome EXCEPT ![o] = "ok"]
  BY OneOutcome
<1>2. Effects' = Effects
  BY DEF Effects
<1>3. Serial!Logged(o)
  BY DEF Serial!Logged, Logged
<1> QED
  BY <1>1, <1>2, <1>3 DEF SerialStep, Serial!SerialNext, Serial!Ops, Ops, Serial!Succeed, Outcome, Effects

(* An operation takes effect in its turn when everything before it is        *)
(* settled and nothing after it has begun.                                   *)
LEMMA TurnOf ==
  ASSUME ClientInv, TurnsOK, StoreOK, NEW i \in DOMAIN calls,
         \A j \in DOMAIN calls : j < i => Settled(calls[j]),
         \A j \in DOMAIN calls : i < j => stage[calls[j]] = "queued",
         ~Logged(calls[i]), Counted
  PROVE  Serial!ItsTurn(calls[i])
<1> DEFINE n == Len(calls)
<1>0. calls \in Seq(Ops) /\ SyncTypeOK
  BY DEF ClientInv, SyncTypeOK
<1>1. n \in Nat /\ DOMAIN calls = 1 .. n
  BY <1>0
<1> HIDE DEF n
<1>2. \A j \in DOMAIN calls : Serial!Place(calls[j]) = j
  BY DEF TurnsOK, Serial!Place
<1>3. ASSUME NEW j \in 1 .. i - 1
      PROVE  Outcome[calls[j]] \in {"ok", "failed"}
  <2>1. j \in DOMAIN calls /\ j < i /\ calls[j] \in Ops
    BY <1>0, <1>1
  <2> QED
    BY <2>1, OutcomeOf DEF Known, Settled
<1>4. ASSUME NEW k \in DOMAIN store
      PROVE  Serial!Place(store[k].op) < i
  <2>1. store[k].op \in Ops /\ stage[store[k].op] \notin {"idle", "queued"} /\ store[k].op # calls[i]
    BY <1>0, CommitsTyped DEF StoreOK, Logged
  <2>2. PICK j \in DOMAIN calls : calls[j] = store[k].op
    BY <2>1 DEF Counted
  <2>3. j < i
    BY <1>1, <2>1, <2>2
  <2> QED
    BY <1>2, <2>2, <2>3
<1>5. \A k \in DOMAIN Effects : Effects[k] = store[k].op /\ k \in DOMAIN store
  BY DEF Effects
<1> QED
  BY <1>2, <1>3, <1>4, <1>5 DEF Serial!ItsTurn, Outcome, Effects

LEMMA EffectsGrow ==
  ASSUME SyncTypeOK, NEW c \in Commits, store' = Append(store, c)
  PROVE  Effects' = Append(Effects, c.op)
<1> DEFINE n == Len(store)
<1>1. store \in Seq(Commits) /\ c.op \in Ops
  BY DEF SyncTypeOK, Commits
<1>2. n \in Nat /\ DOMAIN store = 1 .. n /\ \A i \in 1 .. n : store[i] \in Commits
  BY <1>1
<1>3. /\ DOMAIN store' = 1 .. n + 1 /\ store'[n + 1] = c
      /\ \A i \in 1 .. n : store'[i] = store[i]
  BY <1>1, <1>2, AppendProperties
<1> HIDE DEF n
<1>4. Effects = [i \in 1 .. n |-> store[i].op] /\ Effects' = [i \in 1 .. n + 1 |-> store'[i].op]
  BY <1>2, <1>3 DEF Effects
<1>5. Effects \in Seq(Ops) /\ Len(Effects) = n
  <2>1. \A i \in 1 .. n : store[i].op \in Ops
    BY <1>2 DEF Commits
  <2> QED
    BY <1>2, <1>4, <2>1
<1>6. /\ Append(Effects, c.op) \in Seq(Ops) /\ Len(Append(Effects, c.op)) = n + 1
      /\ Append(Effects, c.op)[n + 1] = c.op
      /\ \A i \in 1 .. n : Append(Effects, c.op)[i] = Effects[i]
  BY <1>1, <1>5, AppendProperties
<1>7. Effects' \in Seq(Ops) /\ Len(Effects') = n + 1
  <2>1. \A i \in 1 .. n + 1 : i \in 1 .. n \/ i = n + 1
    BY <1>2
  <2>2. \A i \in 1 .. n + 1 : store'[i].op \in Ops
    BY <1>1, <1>2, <1>3, <2>1 DEF Commits
  <2> QED
    BY <1>2, <1>4, <2>2
<1>8. \A i \in 1 .. n + 1 : Effects'[i] = Append(Effects, c.op)[i]
  <2>1. \A i \in 1 .. n + 1 : i \in 1 .. n \/ i = n + 1
    BY <1>2
  <2> QED
    BY <1>2, <1>3, <1>4, <1>6, <2>1
<1> QED
  BY <1>6, <1>7, <1>8, SeqEqual

LEMMA EffectSerial ==
  ASSUME ClientInv, TurnsOK, StoreOK, Counted, NEW o \in Ops, NEW c \in Commits, c.op = o,
         store' = Append(store, c), calls' = calls, ~Logged(o),
         \A i, j \in DOMAIN calls : i < j /\ calls[j] = o => Settled(calls[i]),
         \A i, j \in DOMAIN calls : i < j /\ calls[i] = o => stage[calls[j]] = "queued",
         stage[o] # "idle",
         Known(stage[o]) = "waiting" \/ (o \in Statements /\ Known(stage[o]) = "failed"),
         Known(stage'[o]) = Known(stage[o]) \/ (Known(stage[o]) = "waiting" /\ Known(stage'[o]) = "ok"),
         \A p \in Ops \ {o} : Known(stage'[p]) = Known(stage[p])
  PROVE  SerialStep
<1>1. PICK i \in DOMAIN calls : calls[i] = o
  BY DEF Counted
<1>2. Serial!ItsTurn(o)
  BY <1>1, TurnOf
<1>3. Outcome[o] = Known(stage[o]) /\ Outcome' = [Outcome EXCEPT ![o] = Known(stage'[o])]
  BY OneOutcome
<1>4. Effects' = Append(Effects, o)
  BY EffectsGrow DEF ClientInv
<1>5. Serial!TakeEffect(o)
  BY <1>2, <1>3, <1>4 DEF Serial!TakeEffect, Outcome, Effects
<1>6. CASE Known(stage'[o]) = Known(stage[o])
  <2>1. Outcome' = Outcome
    BY <1>6, OutcomeOf
  <2> QED
    BY <1>5, <2>1 DEF SerialStep, Serial!SerialNext, Serial!Ops, Ops, Outcome
<1>7. CASE Known(stage[o]) = "waiting" /\ Known(stage'[o]) = "ok"
  <2>1. Serial!Succeed(o)
    BY <1>3, <1>7 DEF Serial!Succeed, Outcome
  <2> QED
    BY <1>5, <2>1 DEF SerialStep, Serial!SerialNext, Serial!Ops, Ops
<1> QED
  BY <1>6, <1>7

LEMMA WaitsAlive ==
  ASSUME WritesInv, NEW g \in Ops, NEW i \in DOMAIN inbox[g]
  PROVE  Alive(g)
BY DEF WritesInv, ContentOK, ProcessOK

LEMMA QuietWhen ==
  ASSUME store' = store,
         \A g \in Ops : \A i \in DOMAIN answers'[g] : \E j \in DOMAIN answers[g] : answers'[g][i] = answers[g][j]
  PROVE  Quiet
BY DEF Quiet, Logged

(* Operation o moves to stage s, and nothing is executed.                    *)
LEMMA MoveSerial ==
  ASSUME TurnsInv, NEW o \in Ops, NEW s, stage' = [stage EXCEPT ![o] = s], s # "idle",
         stage[o] = "queued" => s = "queued" \/ Admitted(o),
         s = "failed" /\ o \in Transactions =>
             stage[o] \in {"failed", "queued"} \/ (stage[o] = "drain" /\ shutdown = None),
         s = "ok" => stage[o] = "ok" \/ Logged(o),
         \A g \in Ops : worker' # g => inbox'[g] = inbox[g],
         store' = store,
         \A g \in Ops : \A i \in DOMAIN answers'[g] : \E j \in DOMAIN answers[g] : answers'[g][i] = answers[g][j]
  PROVE  /\ Shape /\ Quiet
         /\ calls' = calls /\ (\/ Known(s) = Known(stage[o])
                               \/ Known(stage[o]) = "waiting" /\ s = "failed"
                               \/ Known(stage[o]) = "waiting" /\ s = "ok" /\ Logged(o)) => SerialStep
<1>1. SyncTypeOK /\ WritesInv
  BY DEF TurnsInv, WritesInv, ClientInv
<1>2. stage'[o] = s /\ \A p \in Ops \ {o} : stage'[p] = stage[p]
  BY <1>1 DEF SyncTypeOK
<1>3. Shape
  <2>1. \A p \in Ops : stage[p] = "queued" => stage'[p] = "queued" \/ Admitted(p)
    BY <1>2
  <2>2. \A p \in Ops : stage[p] # "idle" => stage'[p] # "idle"
    BY <1>2
  <2>3. \A t \in Transactions : stage'[t] = "failed" =>
            stage[t] \in {"failed", "queued"} \/ (stage[t] = "drain" /\ shutdown = None)
    BY <1>2, OpsAre
  <2>4. \A g \in Ops : worker' # g =>
            \A i \in DOMAIN inbox'[g] : Alive(g) /\ \E j \in DOMAIN inbox[g] : inbox'[g][i] = inbox[g][j]
    BY <1>1, WaitsAlive
  <2>5. \A p \in Ops : stage'[p] = "ok" => stage[p] = "ok" \/ Logged(p)'
    BY <1>2 DEF Logged
  <2> QED
    BY <2>1, <2>2, <2>3, <2>4, <2>5 DEF Shape
<1>4. Quiet
  BY QuietWhen
<1>5. ASSUME calls' = calls,
             \/ Known(s) = Known(stage[o])
             \/ Known(stage[o]) = "waiting" /\ s = "failed"
             \/ Known(stage[o]) = "waiting" /\ s = "ok" /\ Logged(o)
      PROVE  SerialStep
  <2>1. \A p \in Ops \ {o} : Known(stage'[p]) = Known(stage[p])
    BY <1>2
  <2>2. Known("failed") = "failed" /\ Known("ok") = "ok"
    BY DEF Known
  <2>3. CASE Known(s) = Known(stage[o])
    BY <1>2, <1>5, <2>1, <2>3, SameOutcome
  <2>4. CASE Known(stage[o]) = "waiting" /\ s = "failed"
    BY <1>2, <1>5, <2>1, <2>2, <2>4, FailedSerial
  <2>5. CASE Known(stage[o]) = "waiting" /\ s = "ok" /\ Logged(o)
    BY <1>2, <1>5, <2>1, <2>2, <2>5, SucceededSerial
  <2> QED
    BY <1>5, <2>3, <2>4, <2>5
<1> QED
  BY <1>3, <1>4, <1>5

LEMMA AbandonFacts ==
  ASSUME ClientInv, NEW g
  PROVE  \A o \in Ops :
            \/ Abandon(g)[o] = stage[o]
            \/ /\ \E q \in pending : q.op = o
               /\ \/ stage[o] = "single" /\ o \in Statements /\ Abandon(g)[o] = "failed"
                  \/ stage[o] \in {"begin", "commit", "rollback"} /\ Abandon(g)[o] = "drain"
<1> SUFFICES ASSUME NEW o \in Ops, Abandon(g)[o] # stage[o]
             PROVE  /\ \E q \in pending : q.op = o
                    /\ \/ stage[o] = "single" /\ o \in Statements /\ Abandon(g)[o] = "failed"
                       \/ stage[o] \in {"begin", "commit", "rollback"} /\ Abandon(g)[o] = "drain"
  OBVIOUS
<1>1. Abandon(g)[o] =
          IF ~\E q \in pending : q.op = o /\ q.to = g THEN stage[o]
          ELSE CASE stage[o] \in {"begin", "commit", "rollback"} -> "drain"
                 [] stage[o] = "single" -> "failed"
                 [] OTHER -> stage[o]
  BY DEF Abandon
<1>2. PICK q \in pending : q.op = o /\ q.to = g
  BY <1>1
<1>3. \/ stage[o] \in {"begin", "commit", "rollback"} /\ Abandon(g)[o] = "drain"
      \/ stage[o] = "single" /\ Abandon(g)[o] = "failed"
  BY <1>1
<1>4. stage[o] = "single" => o \in Statements
  BY <1>2, RequestFacts
<1> QED
  BY <1>2, <1>3, <1>4

(* A process is given up, and with it at most one operation fails.           *)
LEMMA GoneSerial ==
  ASSUME TurnsInv, UNCHANGED <<calls, inbox, store>>,
         \A o \in Ops : \/ stage'[o] = stage[o]
                        \/ /\ \E q \in pending : q.op = o
                           /\ \/ stage[o] = "single" /\ o \in Statements /\ stage'[o] = "failed"
                              \/ stage[o] \in {"begin", "commit", "rollback"} /\ stage'[o] = "drain",
         \A g \in Ops : \A i \in DOMAIN answers'[g] : \E j \in DOMAIN answers[g] : answers'[g][i] = answers[g][j]
  PROVE  Shape /\ Quiet /\ SerialStep
<1>1. WritesInv /\ \A g \in Ops : \A i \in DOMAIN inbox[g] : Alive(g)
  BY WaitsAlive DEF TurnsInv
<1>2. Shape
  BY <1>1, OpsAre DEF Shape
<1>3. Quiet
  BY QuietWhen
<1>4. SerialStep
  <2>1. CASE \E o \in Ops : stage[o] = "single" /\ stage'[o] = "failed"
    <3> PICK o \in Ops : stage[o] = "single" /\ stage'[o] = "failed"
      BY <2>1
    <3>1. UnderWay(o)
      BY DEF UnderWay
    <3>2. \A p \in Ops \ {o} : stage'[p] = stage[p]
      BY <1>1, <3>1, OwnRequests
    <3> QED
      BY <3>2, FailedSerial DEF Known
  <2>2. CASE ~\E o \in Ops : stage[o] = "single" /\ stage'[o] = "failed"
    <3>1. \A o \in Ops : Known(stage'[o]) = Known(stage[o])
      BY <2>2 DEF Known
    <3> QED
      BY <3>1, SameOutcome
  <2> QED
    BY <2>1, <2>2
<1> QED
  BY <1>2, <1>3, <1>4

LEMMA LoggedGrows ==
  ASSUME SyncTypeOK, NEW c \in Commits, store' = Append(store, c)
  PROVE  \A o \in Ops : Logged(o)' <=> Logged(o) \/ o = c.op
<1> DEFINE n == Len(store)
<1>1. store \in Seq(Commits)
  BY DEF SyncTypeOK
<1>2. /\ n \in Nat /\ DOMAIN store = 1 .. n /\ DOMAIN store' = 1 .. n + 1 /\ store'[n + 1] = c
      /\ \A i \in 1 .. n : store'[i] = store[i]
  BY <1>1, AppendProperties
<1> HIDE DEF n
<1>3. \A i \in 1 .. n + 1 : i \in 1 .. n \/ i = n + 1
  BY <1>2
<1>4. n + 1 \in 1 .. n + 1 /\ \A i \in 1 .. n : i \in 1 .. n + 1
  BY <1>2
<1> QED
  BY <1>2, <1>3, <1>4 DEF Logged

LEMMA SentElsewhere ==
  ASSUME SyncTypeOK, NEW q, q.to = worker', Sent(q)
  PROVE  \A g \in Ops : worker' # g => inbox'[g] = inbox[g]
BY DEF Sent, SyncTypeOK

(* The steps of the operations.                                              *)
LEMMA OperationSerial ==
  ASSUME TurnsInv, NEW o \in Ops,
         \/ Call(o) \/ RefuseClosed(o)
         \/ o \in Transactions /\ TransactionStep(o)
         \/ o \in Statements /\ RunStatement(o)
  PROVE  Shape /\ Quiet /\ SerialStep
<1>1. SyncTypeOK /\ stage[o] \in Stages /\ [stage EXCEPT ![o] = stage[o]] = stage
  BY DEF TurnsInv, WritesInv, ClientInv, SyncTypeOK
<1>2. CASE Call(o)
  <2>1. /\ stage[o] = "idle" /\ stage' = [stage EXCEPT ![o] = "queued"] /\ calls' = Append(calls, o)
        /\ UNCHANGED <<inbox, answers, store>>
    BY <1>2 DEF Call, procVars
  <2>2. Shape /\ Quiet
    BY <2>1, MoveSerial
  <2>3. SerialStep
    BY <1>1, <2>1, CalledSerial DEF Known, SyncTypeOK
  <2> QED
    BY <2>2, <2>3
<1>3. CASE RefuseClosed(o)
  BY <1>3, MoveSerial DEF RefuseClosed, Admitted, MyTurn, procVars, Known
<1>4. ASSUME NEW s \in {"begin", "single"}, Start(o, s, s), Admitted(o)
      PROVE  Shape /\ Quiet /\ SerialStep
  <2>1. /\ stage[o] = "queued" /\ stage' = [stage EXCEPT ![o] = s] /\ UNCHANGED <<calls, answers, store>>
        /\ \A g \in Ops : worker' # g => inbox'[g] = inbox[g]
    BY <1>1, <1>4 DEF Start, Admitted, MyTurn, SyncTypeOK
  <2> QED
    BY <1>4, <2>1, MoveSerial DEF Known
<1>5. ASSUME o \in Transactions, OperationReturns(o) \/ Rethrow(o)
      PROVE  Shape /\ Quiet /\ SerialStep
  <2>1. CASE OperationReturns(o)
    <3>1. /\ stage[o] = "body" /\ stage' = [stage EXCEPT ![o] = "publish"]
          /\ UNCHANGED <<calls, inbox, answers, store>>
      BY <2>1 DEF OperationReturns, procVars
    <3>2. Known("publish") = Known(stage[o])
      BY <3>1 DEF Known
    <3> QED
      BY <3>1, <3>2, MoveSerial
  <2>2. CASE Rethrow(o)
    BY <2>2, MoveSerial DEF Rethrow, procVars, Known
  <2> QED
    BY <1>5, <2>1, <2>2
<1>6. ASSUME o \in Transactions, IssueWrite(o)
      PROVE  Shape /\ Quiet /\ SerialStep
  <2>1. /\ UNCHANGED <<calls, stage, worker, answers, store>> /\ stage[o] # "queued" /\ stage[o] # "idle"
        /\ stage' = [stage EXCEPT ![o] = stage[o]]
    BY <1>1, <1>6 DEF IssueWrite
  <2>2. \A g \in Ops : worker' # g => inbox'[g] = inbox[g]
    <3>1. UNCHANGED inbox \/ \E q : q.to = worker' /\ Sent(q)
      BY <1>6 DEF IssueWrite
    <3> QED
      BY <1>1, <3>1, SentElsewhere
  <2> PICK s : s = stage[o]
    OBVIOUS
  <2>3. /\ stage' = [stage EXCEPT ![o] = s] /\ s # "idle" /\ stage[o] # "queued"
        /\ s = "failed" => stage[o] \in {"failed", "queued"}
        /\ s = "ok" => stage[o] = "ok"
        /\ Known(s) = Known(stage[o])
    BY <2>1
  <2>4. \A g \in Ops : \A i \in DOMAIN answers'[g] : \E j \in DOMAIN answers[g] : answers'[g][i] = answers[g][j]
    BY <2>1
  <2> QED
    BY <2>1, <2>2, <2>3, <2>4, MoveSerial
<1>7. ASSUME o \in Transactions, OperationThrows(o) \/ CommitTransaction(o)
      PROVE  Shape /\ Quiet /\ SerialStep
  <2>1. /\ UNCHANGED <<calls, worker, answers, store>> /\ stage[o] \in {"body", "publish"}
        /\ \E s \in {"commit", "rollback", "drain"} : stage' = [stage EXCEPT ![o] = s]
        /\ UNCHANGED inbox \/ \E q : q.to = worker' /\ Sent(q)
    BY <1>7 DEF OperationThrows, CommitTransaction, Abort, Request
  <2> PICK s \in {"commit", "rollback", "drain"} : stage' = [stage EXCEPT ![o] = s]
    BY <2>1
  <2>2. \A g \in Ops : worker' # g => inbox'[g] = inbox[g]
    BY <1>1, <2>1, SentElsewhere
  <2> QED
    BY <2>1, <2>2, MoveSerial DEF Known
<1> QED
  BY <1>2, <1>3, <1>4, <1>5, <1>6, <1>7 DEF TransactionStep, BeginTransaction, RunStatement

LEMMA MainWriteSerial ==
  ASSUME TurnsInv, NEW m \in MainWrites, MainWrite(m)
  PROVE  Shape /\ Quiet /\ SerialStep
<1> DEFINE k == [op |-> m, writes |-> {<<m, 0>>}]
<1>1. /\ stage[m] = "queued" /\ Admitted(m) /\ MyTurn(m) /\ stage' = [stage EXCEPT ![m] = "ok"]
      /\ UNCHANGED <<calls, worker, inbox, answers>>
      /\ store' = Append(store, k) /\ m \in Ops /\ m \notin Transactions
  BY OpsAre DEF MainWrite, Admitted, MyTurn
<1>2. ClientInv /\ SyncTypeOK /\ Counted /\ StoreOK /\ TurnsOK /\ OneAtATime /\ WritesInv
  BY DEF TurnsInv, WritesInv, ClientInv, ContentOK
<1>3. k \in Commits
  BY <1>1, OpsAssumption DEF Commits
<1> PICK c \in Commits : c = k
  BY <1>3
<1>4. c.op = m /\ store' = Append(store, c)
  BY <1>1
<1> HIDE DEF k
<1>5. stage'[m] = "ok" /\ \A p \in Ops \ {m} : stage'[p] = stage[p]
  BY <1>1, <1>2 DEF SyncTypeOK
<1>6. \A o \in Ops : Logged(o)' <=> Logged(o) \/ o = m
  BY <1>2, <1>4, LoggedGrows
<1>7. Shape
  BY <1>1, <1>2, <1>5, <1>6, OpsAre, WaitsAlive DEF Shape
<1>8. Quiet
  BY <1>1, <1>6 DEF Quiet
<1>9. /\ ~Logged(m) /\ ~Settled(m)
      /\ \A i, j \in DOMAIN calls : i < j /\ calls[j] = m => Settled(calls[i])
      /\ \A i, j \in DOMAIN calls : i < j /\ calls[i] = m => stage[calls[j]] = "queued"
  BY <1>1, <1>2 DEF StoreOK, Logged, MyTurn, OneAtATime, Settled
<1>10. SerialStep
  BY <1>1, <1>2, <1>4, <1>5, <1>9, EffectSerial DEF Known
<1> QED
  BY <1>7, <1>8, <1>10

(* The events of the client.                                                 *)
LEMMA AnswerSerial ==
  ASSUME TurnsInv, NEW g \in Ops, StaleAnswer(g) \/ Answer(g)
  PROVE  Shape /\ Quiet /\ SerialStep
<1>1. /\ WritesInv /\ ClientInv /\ SyncTypeOK /\ TurnsOK /\ Answered(g)
      /\ \A h \in Ops : \A i \in DOMAIN answers'[h] : \E j \in DOMAIN answers[h] : answers'[h][i] = answers[h][j]
  BY AnswerFacts DEF TurnsInv, WritesInv, ClientInv, StaleAnswer, Answer
<1>2. CASE UNCHANGED <<calls, stage, inbox, store>>
  BY <1>1, <1>2, GoneSerial
<1>3. CASE Answer(g)
  <2> PICK a \in [request : Requests, ok : BOOLEAN] : a = Head(answers[g])
    BY <1>1, AnswerFacts
  <2> PICK q \in pending : q = a.request
    BY <1>3 DEF Answer
  <2>1. /\ Effective(a) /\ a.ok \in BOOLEAN
    <3> DEFINE R == [request : Requests, ok : BOOLEAN]
    <3>1. answers[g] \in Seq(R) /\ answers[g] # <<>>
      BY <1>1 DEF SyncTypeOK, Answered
    <3> HIDE DEF R
    <3>2. Head(answers[g]) = answers[g][1] /\ 1 \in DOMAIN answers[g]
      BY <3>1, TailOf
    <3> QED
      BY <1>1, <3>2 DEF TurnsOK
  <2>2. /\ q \in Requests /\ q.op \in Ops
        /\ q.kind # "write" => stage[q.op] = q.kind
        /\ q.kind = "write" => stage[q.op] \in {"body", "rollback"}
        /\ q.kind # "single" => q.op \in Transactions
        /\ q.kind = "single" => q.op \notin Transactions
    BY <1>1, RequestFacts, OpsAre
  <2>3. CASE /\ a.ok \/ q.kind \in {"single", "write"}
             /\ q.kind # "rollback"
             /\ stage' = [stage EXCEPT ![q.op] = Progress(q, a.ok)]
             /\ UNCHANGED <<calls, worker, inbox, store>>
    <3> PICK s : s = Progress(q, a.ok)
      OBVIOUS
    <3>1. \/ q.kind = "begin" /\ s = "body"
          \/ q.kind \in {"commit", "single"} /\ a.ok /\ s = "ok"
          \/ q.kind = "single" /\ s = "failed"
          \/ q.kind = "write" /\ s = stage[q.op]
      <4>1. q.kind \in {"begin", "write", "commit", "single"}
        BY <2>2, <2>3 DEF Requests
      <4>2. a.ok \in BOOLEAN /\ (a.ok \/ q.kind \in {"single", "write"})
        BY <2>1, <2>3
      <4> QED
        BY <4>1, <4>2, ProgressMeans
    <3>2. s = "ok" => Logged(q.op) /\ stage[q.op] \in {"commit", "single"}
      BY <2>1, <2>2, <3>1 DEF Effective
    <3>3. s # "idle" /\ stage[q.op] # "queued"
      BY <2>2, <3>1 DEF Requests
    <3>4. \/ Known(s) = Known(stage[q.op])
          \/ Known(stage[q.op]) = "waiting" /\ s = "failed"
          \/ Known(stage[q.op]) = "waiting" /\ s = "ok" /\ Logged(q.op)
      BY <2>2, <3>1, <3>2 DEF Known
    <3>5. s = "failed" => q.op \notin Transactions
      BY <2>2, <3>1
    <3>6. stage' = [stage EXCEPT ![q.op] = s]
      BY <2>3
    <3>7. /\ calls' = calls /\ store' = store /\ (s = "ok" => Logged(q.op))
          /\ \A h \in Ops : worker' # h => inbox'[h] = inbox[h]
      BY <2>3, <3>2
    <3> PICK o \in Ops : o = q.op
      BY <2>2
    <3> QED
      BY <1>1, <3>3, <3>4, <3>5, <3>6, <3>7, MoveSerial
  <2>4. CASE /\ q.kind = "commit" /\ stage' = [stage EXCEPT ![q.op] = "rollback"]
             /\ inbox' = IF Alive(worker)
                         THEN [inbox EXCEPT ![worker] = Append(@, Request(q.op, "rollback", worker))]
                         ELSE inbox
             /\ UNCHANGED <<calls, worker, store>>
    <3>1. \A h \in Ops : worker' # h => inbox'[h] = inbox[h]
      BY <1>1, <2>4 DEF SyncTypeOK
    <3>2. Known("rollback") = Known(stage[q.op]) /\ stage[q.op] # "queued"
      BY <2>2, <2>4 DEF Known
    <3> QED
      BY <1>1, <2>2, <2>4, <3>1, <3>2, MoveSerial
  <2>5. CASE q.kind \in {"rollback", "begin"} /\ Retire([Abandon(g) EXCEPT ![q.op] = "drain"])
    <3>1. UNCHANGED <<calls, inbox, store>> /\ stage' = [Abandon(g) EXCEPT ![q.op] = "drain"]
      BY <2>5 DEF Retire
    <3>2. stage'[q.op] = "drain" /\ \A o \in Ops \ {q.op} : stage'[o] = Abandon(g)[o]
      BY <1>1, <2>2, <3>1, AbandonOf
    <3>3. stage[q.op] \in {"begin", "commit", "rollback"}
      BY <2>2, <2>5
    <3>4. \A o \in Ops : \/ stage'[o] = stage[o]
                         \/ /\ \E r \in pending : r.op = o
                            /\ \/ stage[o] = "single" /\ o \in Statements /\ stage'[o] = "failed"
                               \/ stage[o] \in {"begin", "commit", "rollback"} /\ stage'[o] = "drain"
      BY <1>1, <3>2, <3>3, AbandonFacts
    <3> QED
      BY <1>1, <3>1, <3>4, GoneSerial
  <2> QED
    BY <1>2, <1>3, <2>3, <2>4, <2>5 DEF Answer
<1>4. StaleAnswer(g) => UNCHANGED <<calls, stage, inbox, store>>
  BY DEF StaleAnswer, clientVars
<1> QED
  BY <1>2, <1>3, <1>4

LEMMA EventSerial ==
  ASSUME TurnsInv,
         \/ WorkerError \/ Close
         \/ \E q \in pending : Timeout(q)
         \/ \E g \in Ops : Exit(g)
  PROVE  Shape /\ Quiet /\ SerialStep
<1>1. ClientInv
  BY DEF TurnsInv, WritesInv
<1>2. UNCHANGED <<calls, inbox, answers, store>> /\ (UNCHANGED stage \/ \E g : stage' = Abandon(g))
  BY DEF WorkerError, Close, Timeout, Exit, Retire
<1>3. \A o \in Ops : \/ stage'[o] = stage[o]
                     \/ /\ \E q \in pending : q.op = o
                        /\ \/ stage[o] = "single" /\ o \in Statements /\ stage'[o] = "failed"
                           \/ stage[o] \in {"begin", "commit", "rollback"} /\ stage'[o] = "drain"
  BY <1>1, <1>2, AbandonFacts
<1>4. \A g \in Ops : \A i \in DOMAIN answers'[g] : \E j \in DOMAIN answers[g] : answers'[g][i] = answers[g][j]
  BY <1>2
<1> QED
  BY <1>2, <1>3, <1>4, GoneSerial

(* The steps of a process.                                                   *)
LEMMA DieSerial ==
  ASSUME TurnsInv, NEW g \in Ops, Die(g)
  PROVE  Shape /\ Quiet /\ SerialStep
<1>1. /\ SyncTypeOK /\ WritesInv /\ inbox' = [inbox EXCEPT ![g] = <<>>]
      /\ UNCHANGED <<calls, stage, worker, answers, store>>
  BY DEF TurnsInv, WritesInv, ClientInv, Die, clientVars
<1>2. \A h \in Ops : inbox'[h] = inbox[h] \/ inbox'[h] = <<>>
  BY <1>1 DEF SyncTypeOK
<1>3. Shape
  BY <1>1, <1>2, WaitsAlive DEF Shape
<1> QED
  BY <1>1, <1>3, QuietWhen, SameOutcome

LEMMA ExecuteSerial ==
  ASSUME TurnsInv, NEW g \in Ops, Execute(g)
  PROVE  Shape /\ Quiet /\ SerialStep
<1>1. /\ WritesInv /\ ClientInv /\ SyncTypeOK /\ Counted /\ StoreOK /\ TurnsOK /\ OneAtATime
  BY DEF TurnsInv, WritesInv, ContentOK, ClientInv
<1> PICK q \in Requests, ok \in BOOLEAN : Handles(g, q, ok)
  BY <1>1, ExecuteHandles
<1>2. /\ q.op \in Ops /\ Handled(g, q, ok) /\ Message(g, q) /\ Alive(g)
      /\ UNCHANGED <<calls, stage, worker>>
      /\ \A h \in Ops \ {g} : inbox'[h] = inbox[h] /\ answers'[h] = answers[h]
      /\ \A i \in DOMAIN inbox'[g] : \E j \in DOMAIN inbox[g] : inbox'[g][i] = inbox[g][j]
      /\ InTurn(q)
  BY <1>1 DEF Handles, clientVars, TurnsOK
<1>3. Shape
  BY <1>1, <1>2, WaitsAlive DEF Shape
<1>4. CASE store' = store /\ ~(ok /\ q.kind \in {"commit", "single"})
  <2>1. \A o \in Ops : Logged(o) => Logged(o)'
    BY <1>4 DEF Logged
  <2>2. ASSUME NEW h \in Ops, NEW i \in DOMAIN answers'[h], NEW a, a = answers'[h][i]
        PROVE  Effective(a)' \/ \E j \in DOMAIN answers[h] : a = answers[h][j]
    BY <1>2, <1>4, <2>2 DEF Handles, Effective
  <2>3. Quiet
    BY <2>1, <2>2 DEF Quiet
  <2> QED
    BY <1>2, <1>3, <1>4, <2>3, SameOutcome
<1>5. CASE /\ store' = Append(store, [op |-> q.op, writes |-> IF q.kind = "single" THEN {<<q.op, q.n>>} ELSE dirty[g]])
           /\ (ok \/ q.kind = "single") /\ q.kind \in {"commit", "single"}
  <2>1. PICK w : w = IF q.kind = "single" THEN {<<q.op, q.n>>} ELSE dirty[g]
    OBVIOUS
  <2> DEFINE k == [op |-> q.op, writes |-> w]
  <2>2. store' = Append(store, k)
    BY <1>5, <2>1
  <2>3. k \in Commits
    <3>1. q.kind = "commit" => dirty[g] # None
      BY <1>2 DEF Message
    <3>2. dirty[g] \in {None} \cup SUBSET (Ops \X (0 .. MaxWrites)) /\ q.n \in 0 .. MaxWrites
      BY <1>1 DEF SyncTypeOK, Requests
    <3> QED
      BY <1>2, <1>5, <2>1, <3>1, <3>2 DEF Commits
  <2> PICK c \in Commits : c = k
    BY <2>3
  <2>4. c.op = q.op /\ store' = Append(store, c)
    BY <2>2
  <2> HIDE DEF k
  <2>5. \A o \in Ops : Logged(o)' <=> Logged(o) \/ o = q.op
    BY <1>1, <2>4, LoggedGrows
  <2>6. ASSUME NEW h \in Ops, NEW i \in DOMAIN answers'[h], NEW a, a = answers'[h][i]
        PROVE  Effective(a)' \/ \E j \in DOMAIN answers[h] : a = answers[h][j]
    BY <1>2, <2>5, <2>6 DEF Handles, Effective
  <2>7. Quiet
    BY <2>5, <2>6 DEF Quiet
  <2>8. ~Logged(q.op) /\ stage[q.op] \notin {"idle", "queued"} /\ (q.kind = "single" => q.op \in Statements)
    BY <1>2, <1>5 DEF Message, Past
  <2>9. /\ \A i, j \in DOMAIN calls : i < j /\ calls[j] = q.op => Settled(calls[i])
        /\ \A i, j \in DOMAIN calls : i < j /\ calls[i] = q.op => stage[calls[j]] = "queued"
    BY <1>1, <1>2, <2>8 DEF OneAtATime, InTurn
  <2>10. Known(stage[q.op]) = "waiting" \/ (q.op \in Statements /\ Known(stage[q.op]) = "failed")
    <3>1. stage[q.op] # "ok"
      BY <1>1, <1>2, <2>8 DEF TurnsOK
    <3>2. q.kind = "commit" => stage[q.op] # "failed"
      BY <1>2 DEF InTurn
    <3> QED
      BY <1>5, <2>8, <3>1, <3>2 DEF Known
  <2>11. SerialStep
    BY <1>1, <1>2, <2>4, <2>8, <2>9, <2>10, EffectSerial
  <2> QED
    BY <1>3, <2>7, <2>11
<1>6. \/ store' = store /\ ~(ok /\ q.kind \in {"commit", "single"})
      \/ /\ store' = Append(store, [op |-> q.op, writes |-> IF q.kind = "single" THEN {<<q.op, q.n>>} ELSE dirty[g]])
         /\ (ok \/ q.kind = "single") /\ q.kind \in {"commit", "single"}
  BY <1>2 DEF Handled
<1> QED
  BY <1>4, <1>5, <1>6

LEMMA EachSerial ==
  ASSUME TurnsInv, [SyncNext]_syncVars
  PROVE  TurnsInv' /\ SerialStep
<1>1. WritesInv'
  BY WritesStep DEF TurnsInv
<1>2. CASE UNCHANGED syncVars
  <2>1. UNCHANGED <<calls, stage, inbox, store, answers>>
    BY <1>2 DEF syncVars, procVars, clientVars
  <2>2. Shape /\ Quiet /\ SerialStep
    BY <2>1, GoneSerial
  <2> QED
    BY <1>1, <2>1, <2>2, InTurnKept DEF TurnsInv
<1>3. ASSUME SyncNext
      PROVE  Shape /\ Quiet /\ SerialStep
  <2>1. CASE \E o \in Ops : Call(o) \/ RefuseClosed(o)
    BY <2>1, OperationSerial
  <2>2. CASE \E t \in Transactions : TransactionStep(t)
    BY <2>2, OperationSerial, OpsAre
  <2>3. CASE \E s \in Statements : RunStatement(s)
    BY <2>3, OperationSerial, OpsAre
  <2>4. CASE \E m \in MainWrites : MainWrite(m)
    BY <2>4, MainWriteSerial
  <2>5. CASE WorkerError \/ Close \/ \E q \in pending : Timeout(q)
    BY <2>5, EventSerial
  <2>6. CASE \E g \in Ops : StaleAnswer(g) \/ Answer(g) \/ Exit(g) \/ Execute(g) \/ Die(g)
    BY <2>6, AnswerSerial, EventSerial, ExecuteSerial, DieSerial
  <2> QED
    BY <1>3, <2>1, <2>2, <2>3, <2>4, <2>5, <2>6 DEF SyncNext
<1>4. CASE SyncNext
  <2>1. calls' = calls \/ \E o \in Ops : Call(o)
    BY <1>4 DEF SyncNext, RefuseClosed, TransactionStep, BeginTransaction, IssueWrite, OperationReturns,
       OperationThrows, CommitTransaction, Rethrow, RunStatement, MainWrite, Timeout, StaleAnswer, Answer,
       Exit, Execute, Die, WorkerError, Close, Start, Retire, clientVars
  <2> QED
    BY <1>1, <1>3, <1>4, <2>1, InTurnKept DEF TurnsInv
<1> QED
  BY <1>2, <1>4

(* Whatever dies, hangs, times out or answers late, the queue, the shutdown  *)
(* promise and the ownership checks make one store: its operations take      *)
(* effect at most once and in the order of their calls, what was reported as *)
(* done has taken effect, and a refresh that was reported as failed never    *)
(* does afterwards (runExclusive, run, retireWorker and runTransaction).     *)
THEOREM StoreIsSerial == SyncSpec => ImplementsSerialStore
<1>1. SyncInit => TurnsInv /\ Serial!SerialInit
  <2> SUFFICES ASSUME SyncInit
               PROVE  TurnsInv /\ Serial!SerialInit
    OBVIOUS
  <2>1. /\ calls = <<>> /\ store = <<>>
        /\ \A o \in Ops : stage[o] = "idle" /\ inbox[o] = <<>> /\ answers[o] = <<>>
    BY DEF SyncInit
  <2>2. TurnsOK
    BY <2>1 DEF TurnsOK
  <2>3. Outcome = [o \in Ops |-> "uncalled"]
    BY <2>1, OutcomeOf DEF Known
  <2>4. Effects = <<>>
    BY <2>1 DEF Effects
  <2> QED
    BY <2>1, <2>2, <2>3, <2>4, WritesInit DEF TurnsInv, Serial!SerialInit, Serial!Ops, Ops, Outcome, Effects
<1>2. TurnsInv /\ [SyncNext]_syncVars => TurnsInv' /\ [Serial!SerialNext]_(Serial!serialVars)
  BY EachSerial DEF SerialStep, Serial!serialVars, Outcome, Effects
<1> QED
  BY <1>1, <1>2, PTL DEF SyncSpec, ImplementsSerialStore, Serial!SerialSpec

=============================================================================
