------------------------ MODULE DeletionQueueProofs ------------------------
(* The safety properties of DeletionQueue, for any alerts, delays, batch     *)
(* sizes and numbers of workers. The argument goes through the types of the  *)
(* clocks and four invariants: what belongs to a run, what the order of LAPI *)
(* requests rests on, how long a finished row lasts, and what keeps a        *)
(* deleted alert hidden while its row, its tombstone and the answers a       *)
(* refresh has fetched grow old.                                             *)
EXTENDS DeletionQueue, WellFoundedInduction, TLAPS

-----------------------------------------------------------------------------
(* Clocks.                                                                   *)

(* The smallest and the largest element of a set of times exist.             *)
LEMMA SmallestOf ==
    ASSUME NEW S \in SUBSET Nat, S # {}
    PROVE  /\ Smallest(S) \in S
           /\ \A m \in S : Smallest(S) <= m
  <1>1. OpToRel(<, Nat) = {p \in Nat \X Nat : p[1] < p[2]}
    BY Zenon DEF OpToRel
  <1>2. IsWellFoundedOn({p \in Nat \X Nat : p[1] < p[2]}, Nat)
    BY <1>1, NatLessThanWellFounded
  <1>3. \A R : IsWellFoundedOn(R, Nat) => \E n \in S : \A m \in S : ~ (<<m, n>> \in R)
    BY WFMin, Zenon
  <1>4. PICK n \in S : \A m \in S : ~ (<<m, n>> \in {p \in Nat \X Nat : p[1] < p[2]})
    BY <1>2, <1>3, Zenon
  <1>5. ASSUME NEW m \in S PROVE n <= m
    <2>1. <<m, n>> \in Nat \X Nat /\ <<m, n>>[1] = m /\ <<m, n>>[2] = n
      OBVIOUS
    <2>2. ~ (m < n)
      BY <1>4, <2>1, Zenon
    <2> QED BY <2>2
  <1> QED BY <1>5 DEF Smallest

LEMMA LargestOf ==
    ASSUME NEW S \in SUBSET Nat, S # {}, NEW n \in Nat, \A m \in S : m <= n
    PROVE  /\ Largest(S) \in S
           /\ \A m \in S : Largest(S) >= m
  <1> DEFINE T == {n - m : m \in S}
  <1>1. T \in SUBSET Nat /\ T # {}
    <2>1. ASSUME NEW m \in S PROVE n - m \in Nat
      OBVIOUS
    <2>2. PICK m \in S : TRUE
      OBVIOUS
    <2>3. n - m \in T
      OBVIOUS
    <2> QED BY <2>1, <2>3, Zenon
  <1>2. PICK t \in T : \A u \in T : t <= u
    BY <1>1, SmallestOf
  <1>3. PICK l \in S : t = n - l
    BY <1>2
  <1>4. \A m \in S : l >= m
    <2> TAKE m \in S
    <2>1. n - l <= n - m
      BY <1>2, <1>3
    <2> QED BY <2>1
  <1> QED BY <1>4 DEF Largest

(* Of two times, the later one.                                              *)
LEMMA LargestOfTwo ==
    ASSUME NEW m \in Nat, NEW n \in Nat
    PROVE  /\ Largest({m, n}) \in Nat
           /\ Largest({m, n}) = IF m >= n THEN m ELSE n
  <1> DEFINE top == IF m >= n THEN m ELSE n
  <1>1. top \in Nat /\ \A x \in {m, n} : x <= top
    OBVIOUS
  <1> HIDE DEF top
  <1>2. /\ Largest({m, n}) \in {m, n}
        /\ \A x \in {m, n} : Largest({m, n}) >= x
    BY <1>1, LargestOf
  <1> QED BY <1>2

LEMMA SmallestOfTwo ==
    ASSUME NEW m \in Nat, NEW n \in Nat
    PROVE  /\ Smallest({m, n}) \in Nat
           /\ Smallest({m, n}) = IF m <= n THEN m ELSE n
  <1>1. /\ Smallest({m, n}) \in {m, n}
        /\ \A x \in {m, n} : Smallest({m, n}) <= x
    BY SmallestOf
  <1> QED BY <1>1

LEMMA ConstantTypes ==
    /\ Lookback \in Nat \ {0} /\ Delay \in Nat \ {0} /\ RetryDelay \in Nat \ {0}
    /\ Concurrency \in Nat \ {0} /\ BatchSize \in Nat \ {0}
    /\ MaxAge \in Nat /\ RequestTimeout \in Nat /\ MaxFaults \in Nat
  BY QueueAssumption

(* The retention outlasts the lookback and, strictly, any fetched answer.    *)
LEMMA RetentionLasts ==
    /\ Retention \in Nat
    /\ Retention >= Lookback
    /\ Retention > RequestTimeout
  BY ConstantTypes, LargestOfTwo, 2 * RequestTimeout \in Nat DEF Retention

LEMMA LessCounts ==
    ASSUME NEW n \in Nat
    PROVE  /\ Less(n) \in Nat
           /\ Less(n) <= n
           /\ n > 0 => Less(n) = n - 1
           /\ n = 0 => Less(n) = 0
  BY DEF Less

-----------------------------------------------------------------------------
(* Types.                                                                    *)

(* When a row wants the next run is a time, and one of the table's rows      *)
(* wants it first.                                                           *)
LEMMA RunAtType ==
    ASSUME NEW row \in Row
    PROVE  RowRunAt(row) \in Nat
  <1>1. row.wait \in Nat /\ row.retry \in Nat /\ row.age \in Nat
    BY ConstantTypes DEF Row, Clock
  <1> DEFINE due == IF row.marked THEN Largest({row.wait, row.retry}) ELSE row.retry
  <1>2. due \in Nat
    BY <1>1, LargestOfTwo
  <1> HIDE DEF due
  <1>3. RowRunAt(row) = IF MaxAge > 0 THEN Smallest({due, row.age}) ELSE due
    BY DEF RowRunAt, due
  <1> QED BY <1>1, <1>2, <1>3, SmallestOfTwo

LEMMA NextRunFirst ==
    ASSUME NEW table \in [Keys -> Row], Pending(table) # {}
    PROVE  /\ NextRunAt(table) \in Nat
           /\ \A k \in Pending(table) : NextRunAt(table) <= RowRunAt(table[k])
  <1> DEFINE S == {RowRunAt(table[k]) : k \in Pending(table)}
  <1>1. Pending(table) \subseteq Keys
    BY DEF Pending
  <1>2. S \in SUBSET Nat /\ S # {}
    BY <1>1, RunAtType
  <1>3. Smallest(S) \in S /\ \A m \in S : Smallest(S) <= m
    BY <1>2, SmallestOf, Zenon
  <1> QED BY <1>2, <1>3 DEF NextRunAt

LEMMA NewRows ==
    /\ NoRow \in Row /\ NoRow.state = "none"
    /\ \A b \in BOOLEAN :
          /\ NewRow(b) \in Row
          /\ NewRow(b).state = "pending" /\ NewRow(b).linked = b
          /\ NewRow(b).marked = FALSE /\ NewRow(b).age = MaxAge
    /\ \A s \in {"complete", "expired"} : \A n \in Clock(Retention) :
          /\ Settled(s, n) \in Row
          /\ Settled(s, n).state = s /\ Settled(s, n).keep = n
          /\ Settled(s, n).marked = FALSE
  <1> USE ConstantTypes, RetentionLasts DEF Clock
  <1>1. NoRow \in Row /\ NoRow.state = "none" /\ NoRow.marked = FALSE
    BY DEF NoRow, Row
  <1>2. ASSUME NEW b \in BOOLEAN
        PROVE  /\ NewRow(b) \in Row
               /\ NewRow(b).state = "pending" /\ NewRow(b).linked = b
               /\ NewRow(b).marked = FALSE /\ NewRow(b).age = MaxAge
    <2>1. NewRow(b) \in Row
      BY <1>1, MaxAge \in 0 .. MaxAge DEF NewRow, Row
    <2>2. NewRow(b).state = "pending" /\ NewRow(b).age = MaxAge
      BY <1>1 DEF NewRow, Row
    <2>3. NewRow(b).linked = b
      BY <1>1 DEF NewRow, Row
    <2>4. NewRow(b).marked = FALSE
      BY <1>1 DEF NewRow, Row
    <2> QED BY <2>1, <2>2, <2>3, <2>4
  <1>3. ASSUME NEW s \in {"complete", "expired"}, NEW n \in Clock(Retention)
        PROVE  /\ Settled(s, n) \in Row
               /\ Settled(s, n).state = s /\ Settled(s, n).keep = n
               /\ Settled(s, n).marked = FALSE
    BY <1>1 DEF Settled, Row
  <1> QED BY <1>1, <1>2, <1>3

(* A tick shortens the clocks of a row and leaves the rest alone.            *)
LEMMA OlderRows ==
    ASSUME NEW row \in Row
    PROVE  /\ OlderRow(row) \in Row
           /\ OlderRow(row).state = row.state
           /\ OlderRow(row).linked = row.linked
           /\ OlderRow(row).marked = row.marked
           /\ OlderRow(row).wait = Less(row.wait)
           /\ OlderRow(row).retry = Less(row.retry)
           /\ OlderRow(row).age = Less(row.age)
           /\ OlderRow(row).keep = Less(row.keep)
  <1> USE ConstantTypes, RetentionLasts DEF Clock
  <1>1. /\ row.wait \in 0 .. Delay /\ row.retry \in 0 .. RetryDelay
        /\ row.age \in 0 .. MaxAge /\ row.keep \in 0 .. Retention
    BY DEF Row
  <1>2. /\ Less(row.wait) \in 0 .. Delay /\ Less(row.retry) \in 0 .. RetryDelay
        /\ Less(row.age) \in 0 .. MaxAge /\ Less(row.keep) \in 0 .. Retention
    BY <1>1, LessCounts
  <1> QED BY <1>2 DEF OlderRow, Row

(* What is written of a row goes back to one of the writes noted for it.     *)
WritesOf(k, op) == {w \in writes : w.key = k /\ w.op = op}

LEMMA LeftOf ==
    ASSUME QueueTypeOK, NEW k \in Keys, NEW op, WritesOf(k, op) # {}
    PROVE  \E w \in WritesOf(k, op) : Largest({x.left : x \in WritesOf(k, op)}) = w.left
  <1> DEFINE S == {x.left : x \in WritesOf(k, op)}
  <1>1. \A w \in writes : w.left \in Nat /\ w.left <= Delay + RetryDelay + Retention
    BY ConstantTypes, RetentionLasts DEF QueueTypeOK, Write, Clock
  <1>2. S \in SUBSET Nat /\ S # {} /\ \A m \in S : m <= Delay + RetryDelay + Retention
    BY <1>1 DEF WritesOf
  <1>3. Delay + RetryDelay + Retention \in Nat
    BY ConstantTypes, RetentionLasts
  <1>4. Largest(S) \in S
    BY <1>2, <1>3, LargestOf
  <1> QED BY <1>4

LEMMA WrittenRow ==
    ASSUME QueueTypeOK, NEW k \in Keys
    PROVE  /\ Written(k) \in Row
           /\ \/ \E w \in WritesOf(k, "complete") : Written(k) = Settled("complete", w.left)
              \/ \E w \in WritesOf(k, "expired") : Written(k) = Settled("expired", w.left)
              \/ /\ Written(k).state = rows[k].state
                 /\ Written(k).linked = rows[k].linked
                 /\ Written(k).age = rows[k].age
                 /\ Written(k).keep = rows[k].keep
                 /\ WritesOf(k, "complete") = {} /\ WritesOf(k, "expired") = {}
                 /\ \/ /\ Written(k).marked = rows[k].marked
                       /\ Written(k).wait = rows[k].wait
                    \/ \E w \in WritesOf(k, "mark") : Written(k).wait = w.left
  <1> DEFINE left(op) == Largest({w.left : w \in WritesOf(k, op)})
             marked == IF WritesOf(k, "mark") = {} THEN rows[k]
                       ELSE [rows[k] EXCEPT !.marked = TRUE, !.wait = left("mark"), !.retry = 0]
  <1>0. Written(k) = IF WritesOf(k, "complete") # {} THEN Settled("complete", left("complete"))
                     ELSE IF WritesOf(k, "expired") # {} THEN Settled("expired", left("expired"))
                     ELSE IF WritesOf(k, "fail") # {} THEN [marked EXCEPT !.retry = left("fail")]
                     ELSE marked
    BY DEF Written, WritesOf
  <1>1. rows[k] \in Row
    BY DEF QueueTypeOK
  <1>2. \A op \in {"mark", "fail", "complete", "expired"} :
           WritesOf(k, op) # {} => \E w \in WritesOf(k, op) : left(op) = w.left
    BY LeftOf
  <1>3. \A op : WritesOf(k, op) \subseteq {w \in writes : w.op = op}
    BY DEF WritesOf
  <1>4. \A w \in writes :
           /\ w.op = "mark" => w.left \in Clock(Delay)
           /\ w.op = "fail" => w.left \in Clock(RetryDelay)
           /\ w.op \in {"complete", "expired"} => w.left \in Clock(Retention)
    BY DEF QueueTypeOK, Write
  <1> HIDE DEF left
  <1>5. CASE WritesOf(k, "complete") # {}
    BY <1>0, <1>2, <1>3, <1>4, <1>5, NewRows
  <1>6. CASE WritesOf(k, "complete") = {} /\ WritesOf(k, "expired") # {}
    BY <1>0, <1>2, <1>3, <1>4, <1>6, NewRows
  <1>7. CASE WritesOf(k, "complete") = {} /\ WritesOf(k, "expired") = {}
    <2>1. /\ marked \in Row
          /\ marked.state = rows[k].state /\ marked.linked = rows[k].linked
          /\ marked.age = rows[k].age /\ marked.keep = rows[k].keep
          /\ \/ marked.marked = rows[k].marked /\ marked.wait = rows[k].wait
             \/ \E w \in WritesOf(k, "mark") : marked.wait = w.left
      <3>1. CASE WritesOf(k, "mark") = {}
        BY <1>1, <3>1
      <3>2. CASE WritesOf(k, "mark") # {}
        <4>1. left("mark") \in 0 .. Delay /\ 0 \in 0 .. RetryDelay
          BY <1>2, <1>3, <1>4, <3>2, ConstantTypes DEF Clock
        <4>2. marked = [rows[k] EXCEPT !.marked = TRUE, !.wait = left("mark"), !.retry = 0]
          BY <3>2
        <4> HIDE DEF marked
        <4>3. /\ marked \in Row
              /\ marked.state = rows[k].state /\ marked.linked = rows[k].linked
              /\ marked.age = rows[k].age /\ marked.keep = rows[k].keep
              /\ marked.wait = left("mark")
          BY <1>1, <4>1, <4>2 DEF Row, Clock
        <4> QED BY <1>2, <3>2, <4>3
      <3> QED BY <3>1, <3>2
    <2> HIDE DEF marked
    <2>2. CASE WritesOf(k, "fail") = {}
      BY <1>0, <1>7, <2>1, <2>2
    <2>3. CASE WritesOf(k, "fail") # {}
      <3>1. left("fail") \in 0 .. RetryDelay
        BY <1>2, <1>3, <1>4, <2>3 DEF Clock
      <3>2. Written(k) = [marked EXCEPT !.retry = left("fail")]
        BY <1>0, <1>7, <2>3
      <3>3. /\ Written(k) \in Row
            /\ Written(k).state = marked.state /\ Written(k).linked = marked.linked
            /\ Written(k).age = marked.age /\ Written(k).keep = marked.keep
            /\ Written(k).marked = marked.marked /\ Written(k).wait = marked.wait
        BY <2>1, <3>1, <3>2 DEF Row, Clock
      <3> QED BY <1>7, <2>1, <3>3
    <2> QED BY <2>2, <2>3
  <1> QED BY <1>5, <1>6, <1>7

LEMMA KeyTypes ==
    /\ \A k \in Keys : AlertOf(k) \in Alerts
    /\ \A table : Pending(table) \subseteq Keys /\ Stored(table) \subseteq Keys
    /\ Busy \subseteq Keys
  BY DEF Keys, AlertOf, Pending, Stored, Busy

(* The state a run leaves its variables in.                                  *)
RunTypeOK ==
    /\ {running, rerun, writeFailed} \subseteq BOOLEAN
    /\ timer \in Nat \cup {Off}
    /\ {todo, stranded} \subseteq SUBSET Keys
    /\ writes \subseteq Write

LEMMA ProcessTypes ==
    ASSUME QueueTypeOK, NEW table, Process(table)
    PROVE  RunTypeOK'
  <1> USE DEF RunTypeOK
  <1>1. CASE running
    BY <1>1 DEF Process, QueueTypeOK, locals
  <1>2. CASE ~running
    <2>1. StartRun(table) /\ rerun' = rerun
      BY <1>2 DEF Process
    <2>2. rerun' \in BOOLEAN
      BY <2>1 DEF QueueTypeOK
    <2> QED BY <2>1, <2>2, KeyTypes DEF StartRun
  <1> QED BY <1>1, <1>2

LEMMA AfterRunTypes ==
    ASSUME QueueTypeOK, NEW table \in [Keys -> Row], AfterRun(table)
    PROVE  RunTypeOK'
  <1> USE DEF RunTypeOK
  <1>1. CASE ~stopped /\ rerun /\ rerun' = FALSE /\ StartRun(table)
    BY <1>1, KeyTypes DEF StartRun
  <1>2. CASE EndOfRun /\ (IF stopped THEN UNCHANGED timer ELSE Schedule(table))
    <2>1. timer' \in Nat \cup {Off}
      BY <1>2, NextRunFirst DEF QueueTypeOK, Schedule
    <2> QED BY <1>2, <2>1 DEF EndOfRun
  <1> QED BY <1>1, <1>2 DEF AfterRun

LEMMA QueueTypes ==
    ASSUME QueueTypeOK, NEW k \in Keys, Queue(k)
    PROVE  /\ rows' \in [Keys -> Row]
           /\ tombs' \subseteq Keys /\ cache' \subseteq Alerts
  BY NewRows DEF Queue, QueueTypeOK

LEMMA DropTypes ==
    ASSUME QueueTypeOK, NEW A, DropDecisions(A) \/ DropAlerts(A)
    PROVE  /\ lapi' \subseteq lapi /\ bans' \subseteq bans
           /\ lapi' \subseteq Alerts /\ bans' \subseteq Alerts
           /\ calm' \in [Alerts -> Clock(Delay)]
  BY ConstantTypes DEF DropDecisions, DropAlerts, QueueTypeOK, Clock

LEMMA DownTypes ==
    ASSUME QueueTypeOK, Down
    PROVE  /\ RunTypeOK'
           /\ {up', stopped', booted'} \subseteq BOOLEAN
           /\ answers' = {} /\ young' = young /\ asked' = asked /\ faults' = faults
           /\ active' \in [Keys -> {"idle", "decisions", "alert"}]
  BY DEF Down, RunTypeOK

LEMMA TypesInit == Init => QueueTypeOK
  <1> SUFFICES ASSUME Init PROVE QueueTypeOK
    OBVIOUS
  <1> USE ConstantTypes DEF Init, Clock
  <1>1. rows \in [Keys -> Row]
    BY NewRows
  <1>2. young \in [Alerts -> Clock(Lookback)] /\ calm \in [Alerts -> Clock(Delay)]
    OBVIOUS
  <1>3. {cache, lapi, bans, asked} \subseteq SUBSET Alerts
    BY QueueAssumption
  <1>4. active \in [Keys -> {"idle", "decisions", "alert"}]
    OBVIOUS
  <1>5. timer \in Nat \cup {Off} /\ faults \in 0 .. MaxFaults
    OBVIOUS
  <1>6. /\ {tombs, todo, stranded} \subseteq SUBSET Keys
        /\ answers \subseteq Answer /\ writes \subseteq Write
        /\ {running, rerun, writeFailed, up, stopped, booted} \subseteq BOOLEAN
    OBVIOUS
  <1> HIDE DEF Init, Clock
  <1> QED BY <1>1, <1>2, <1>3, <1>4, <1>5, <1>6 DEF QueueTypeOK

LEMMA TypesStep == QueueTypeOK /\ [Next]_vars => QueueTypeOK'
  <1> SUFFICES ASSUME QueueTypeOK, [Next]_vars PROVE QueueTypeOK'
    OBVIOUS
  <1> USE DEF vars, store, upstream, history, service, locals, process
  <1>1. ASSUME NEW k \in Keys, RequestDeletion(k) PROVE QueueTypeOK'
    BY <1>1, ProcessTypes, QueueTypes, KeyTypes DEF RequestDeletion, QueueTypeOK, RunTypeOK
  <1>2. ASSUME NEW k \in Keys, RequestFailsLate(k) PROVE QueueTypeOK'
    BY <1>2, QueueTypes DEF RequestFailsLate, QueueTypeOK
  <1>3. ASSUME NEW k \in Keys, CrashDuringRequest(k) PROVE QueueTypeOK'
    BY <1>3, DownTypes DEF CrashDuringRequest, QueueTypeOK, RunTypeOK
  <1>4. ASSUME NEW k \in Keys, StartRow(k) PROVE QueueTypeOK'
    BY <1>4, RetentionLasts DEF StartRow, Note, SetWorker, QueueTypeOK, Write, Clock
  <1>5. ASSUME NEW k \in Keys, DeleteDecisions(k) PROVE QueueTypeOK'
    BY <1>5, DropTypes, ConstantTypes
       DEF DeleteDecisions, Note, SetWorker, QueueTypeOK, Write, Clock
  <1>6. ASSUME NEW k \in Keys, AttemptFails(k),
               DropDecisions({AlertOf(k)}) \/ DropAlerts({AlertOf(k)}) \/ UNCHANGED upstream
        PROVE  QueueTypeOK'
    BY <1>6, DropTypes, ConstantTypes
       DEF AttemptFails, Note, SetWorker, QueueTypeOK, Write, Clock
  <1>7. ASSUME NEW k \in Keys, DeleteAlert(k) PROVE QueueTypeOK'
    BY <1>7, DropTypes, RetentionLasts
       DEF DeleteAlert, Note, SetWorker, QueueTypeOK, Write, Clock
  <1>8. CASE Flush
    BY <1>8, WrittenRow DEF Flush, QueueTypeOK
  <1>9. CASE FlushFails
    BY <1>9, ConstantTypes DEF FlushFails, QueueTypeOK
  <1>10. CASE EndRun
    <2>1. rows' \in [Keys -> Row] /\ tombs' \subseteq Keys
      BY <1>10, NewRows DEF EndRun, Purge, QueueTypeOK
    <2>2. RunTypeOK'
      BY <1>10, <2>1, AfterRunTypes DEF EndRun
    <2> QED BY <1>10, <2>1, <2>2 DEF EndRun, QueueTypeOK, RunTypeOK
  <1>11. CASE TimerFires
    <2>1. StartRun(rows) /\ rerun' = rerun
      BY <1>11 DEF TimerFires
    <2>2. RunTypeOK'
      <3>1. rerun' \in BOOLEAN
        BY <2>1 DEF QueueTypeOK
      <3> QED BY <2>1, <3>1, KeyTypes DEF StartRun, RunTypeOK
    <2> QED BY <1>11, <2>2 DEF TimerFires, QueueTypeOK, RunTypeOK
  <1>12. CASE Fetch
    BY <1>12, ConstantTypes DEF Fetch, QueueTypeOK, Answer, Clock
  <1>13. CASE EndFetch
    BY <1>13 DEF EndFetch, FetchFails, PersistFetched, QueueTypeOK, Answer
  <1>14. CASE Boot
    BY <1>14, ProcessTypes DEF Boot, QueueTypeOK, RunTypeOK
  <1>15. CASE Stop
    BY <1>15 DEF Stop, QueueTypeOK
  <1>16. CASE Crash
    <2>1. PICK A : DropDecisions(A) \/ DropAlerts(A)
      BY <1>16 DEF Crash
    <2> QED BY <1>16, <2>1, DownTypes, DropTypes DEF Crash, QueueTypeOK, RunTypeOK
  <1>17. CASE Restart
    BY <1>17, KeyTypes DEF Restart, QueueTypeOK
  <1>18. CASE Tick
    <2>1. rows' \in [Keys -> Row]
      BY <1>18, OlderRows DEF Tick, QueueTypeOK
    <2>2. \A n \in Nat : \A i \in Clock(n) : Less(i) \in Clock(n)
      BY LessCounts DEF Clock
    <2>3. writes' \subseteq Write
      BY <1>18, <2>2, ConstantTypes, RetentionLasts DEF Tick, Later, QueueTypeOK, Write
    <2>4. answers' \subseteq Answer
      BY <1>18, <2>2, ConstantTypes DEF Tick, Later, QueueTypeOK, Answer
    <2>5. young' \in [Alerts -> Clock(Lookback)] /\ calm' \in [Alerts -> Clock(Delay)]
      BY <1>18, <2>2, ConstantTypes DEF Tick, QueueTypeOK
    <2>6. timer' \in Nat \cup {Off}
      BY <1>18, LessCounts DEF Tick, QueueTypeOK
    <2> QED BY <1>18, <2>1, <2>3, <2>4, <2>5, <2>6 DEF Tick, QueueTypeOK
  <1>19. CASE UNCHANGED vars
    BY <1>19 DEF QueueTypeOK
  <1> QED BY <1>1, <1>2, <1>3, <1>4, <1>5, <1>6, <1>7, <1>8, <1>9, <1>10, <1>11, <1>12,
             <1>13, <1>14, <1>15, <1>16, <1>17, <1>18, <1>19
          DEF Next, Work, DecisionsFail, AlertFails

(* The clocks of rows, writes, answers and alerts stay in their ranges, and  *)
(* the timer is off or a time, however long the process runs                 *)
(* (deletion-service.ts:300-358, 367-511).                                   *)
THEOREM TypesHold == QueueSpec => []QueueTypeOK
  BY TypesInit, TypesStep, PTL DEF QueueSpec

-----------------------------------------------------------------------------
(* The inductive invariants.                                                 *)

(* What belongs to a run: its rows are pending and nothing that settles them *)
(* or reports a failure has been noted yet; outside a run nothing is left.   *)
RunInv ==
    /\ ~running => todo = {} /\ Busy = {} /\ writes = {}
    /\ running => timer = Off
    /\ ~up => ~booted
    /\ todo \cap Busy = {}
    /\ \A k \in todo \cup Busy :
          /\ rows[k].state = "pending"
          /\ \A w \in writes : w.key = k => w.op = "mark"

(* The alert may be deleted once n more units of time have passed.           *)
Quiet(a, n) == a \in lapi => a \notin bans /\ calm[a] <= n

(* A mark, noted or written, promises that the delay is over in time.        *)
OrderInv ==
    /\ bans \subseteq Linked
    /\ \A a \in Alerts : calm[a] > 0 => a \in Linked
    /\ \A k \in Pending(rows) :
          /\ ~rows[k].linked => AlertOf(k) \notin Linked \cap lapi
          /\ rows[k].marked => Quiet(AlertOf(k), rows[k].wait)
    /\ \A w \in writes : w.op = "mark" => Quiet(AlertOf(w.key), w.left)
    /\ \A k \in Keys : active[k] = "alert" => Quiet(AlertOf(k), 0)

(* No fetched answer with the alert lives for n more units of time.          *)
Outlives(a, n) == \A x \in answers : a \in x.alerts => x.left < n

(* A row that has finished in this way may be purged after n units of time:  *)
(* nothing can bring the alert back by then.                                 *)
Lasts(state, a, n) ==
    /\ Outlives(a, n)
    /\ state = "complete" => a \notin lapi
    /\ state = "expired" => (young[a] > 0 => young[a] + RequestTimeout <= n)

(* Nothing can bring the alert back any more.                                *)
Gone(a) ==
    /\ a \notin lapi \/ young[a] = 0
    /\ \A x \in answers : a \notin x.alerts

(* A row that has finished is kept long enough; one that waits expires no    *)
(* earlier than an answer that contains its alert.                           *)
LastsInv ==
    /\ \A k \in Keys :
          /\ rows[k].state \in {"complete", "expired"} =>
                Lasts(rows[k].state, AlertOf(k), rows[k].keep)
          /\ rows[k].state = "pending" /\ MaxAge > 0 /\ young[AlertOf(k)] > 0 =>
                young[AlertOf(k)] + MaxAge <= Lookback + rows[k].age
    /\ \A w \in writes :
          w.op \in {"complete", "expired"} => Lasts(w.op, AlertOf(w.key), w.left)

(* A row with its tombstone hides an alert until nothing brings it back.     *)
HiddenInv ==
    /\ \A a \in asked :
          \/ Gone(a)
          \/ \E k \in Stored(rows) \cap tombs : AlertOf(k) = a
    /\ asked \cap cache = {}

-----------------------------------------------------------------------------
(* What belongs to a run.                                                    *)

LEMMA RunInit == Init => RunInv
  BY DEF Init, RunInv, Busy

(* A run starts with nothing under way and takes the pending rows.           *)
LEMMA StartRunKeeps ==
    ASSUME QueueTypeOK, Busy = {}, rows' \in [Keys -> Row], StartRun(rows'),
           active' = active, up' = up, booted' = booted, ~up => ~booted
    PROVE  RunInv'
  <1>1. Busy' = {}
    BY DEF Busy
  <1>2. todo' = Pending(rows') /\ writes' = {} /\ timer' = Off /\ running' = TRUE
    BY DEF StartRun
  <1> QED BY <1>1, <1>2 DEF RunInv, Pending

(* A call of the processor and the rows it may have added.                   *)
LEMMA ProcessKeeps ==
    ASSUME QueueTypeOK, RunInv, rows' \in [Keys -> Row], Process(rows'),
           \A k \in Keys : rows[k].state = "pending" => rows'[k] = rows[k],
           active' = active, up' = up, ~up' => ~booted'
    PROVE  RunInv'
  <1>1. Busy' = Busy
    BY DEF Busy
  <1>2. CASE running
    <2>1. UNCHANGED <<running, timer, todo, writes>>
      BY <1>2 DEF Process, locals
    <2>2. \A k \in todo \cup Busy : k \in Keys
      BY KeyTypes DEF QueueTypeOK
    <2> QED BY <1>1, <2>1, <2>2 DEF RunInv
  <1>3. CASE ~running
    <2>1. StartRun(rows') /\ Busy = {}
      BY <1>3 DEF Process, RunInv
    <2>2. todo' = Pending(rows') /\ writes' = {} /\ timer' = Off /\ running' = TRUE
      BY <2>1 DEF StartRun
    <2> QED BY <1>1, <2>1, <2>2 DEF RunInv, Pending
  <1> QED BY <1>2, <1>3

LEMMA QueueKeeps ==
    ASSUME QueueTypeOK, NEW k \in Keys, Queue(k)
    PROVE  \A j \in Keys : rows[j].state # "none" => rows'[j] = rows[j]
  BY DEF Queue, QueueTypeOK

LEMMA DownKeeps ==
    ASSUME Down
    PROVE  RunInv'
  BY DEF Down, RunInv, Busy

(* The worker of a row takes a step that notes at most one write.            *)
LEMMA WorkKeeps ==
    ASSUME QueueTypeOK, RunInv, NEW k \in Keys, Work(k)
    PROVE  RunInv'
  <1> USE DEF service, store, process, Note, SetWorker
  <1>1. CASE StartRow(k)
    <2>1. /\ k \in todo /\ active[k] = "idle" /\ todo' = todo \ {k}
          /\ UNCHANGED <<rows, running, timer, up, booted>>
      BY <1>1, KeyTypes DEF StartRow, RunInv, Busy
    <2>2. CASE writes' = writes \cup {[key |-> k, op |-> "expired", left |-> Retention]}
               /\ active' = active
      <3>1. Busy' = Busy /\ k \notin Busy
        BY <2>1, <2>2 DEF Busy
      <3> QED BY <2>1, <2>2, <3>1, <1>1 DEF RunInv, StartRow
    <2>3. CASE writes' = writes /\ (active' = active \/ \E s : active' = [active EXCEPT ![k] = s])
      <3>1. Busy' \subseteq Busy \cup {k}
        BY <2>3 DEF Busy, QueueTypeOK
      <3> QED BY <2>1, <2>3, <3>1, <1>1 DEF RunInv, StartRow
    <2> QED BY <1>1, <2>2, <2>3 DEF StartRow
  <1>2. ASSUME active[k] # "idle", UNCHANGED <<rows, running, timer, todo, up, booted>>,
               NEW op, NEW left, NEW step,
               writes' = writes \cup {[key |-> k, op |-> op, left |-> left]},
               active' = [active EXCEPT ![k] = step], step = "idle" \/ op = "mark"
        PROVE  RunInv'
    <2>1. k \in Busy /\ Busy' = IF step = "idle" THEN Busy \ {k} ELSE Busy
      BY <1>2 DEF Busy, QueueTypeOK
    <2>2. running
      BY <2>1 DEF RunInv
    <2>3. k \notin todo
      BY <2>1 DEF RunInv
    <2>4. CASE step = "idle"
      BY <1>2, <2>1, <2>2, <2>3, <2>4 DEF RunInv
    <2>5. CASE step # "idle"
      BY <1>2, <2>1, <2>2, <2>3, <2>5 DEF RunInv
    <2> QED BY <2>4, <2>5
  <1>3. CASE DeleteDecisions(k)
    BY <1>2, <1>3 DEF DeleteDecisions
  <1>4. CASE DecisionsFail(k) \/ AlertFails(k)
    BY <1>2, <1>4 DEF DecisionsFail, AlertFails, AttemptFails
  <1>5. CASE DeleteAlert(k)
    BY <1>2, <1>5 DEF DeleteAlert
  <1> QED BY <1>1, <1>3, <1>4, <1>5 DEF Work

LEMMA RunStep == QueueTypeOK /\ RunInv /\ [Next]_vars => RunInv'
  <1> SUFFICES ASSUME QueueTypeOK, RunInv, [Next]_vars PROVE RunInv'
    OBVIOUS
  <1> USE DEF service, store, process, locals
  <1>0. QueueTypeOK' /\ rows' \in [Keys -> Row]
    BY TypesStep DEF QueueTypeOK
  <1>1. ASSUME NEW k \in Keys, RequestDeletion(k) PROVE RunInv'
    BY <1>0, <1>1, ProcessKeeps, QueueKeeps DEF RequestDeletion, RunInv
  <1>2. ASSUME NEW k \in Keys, RequestFailsLate(k) PROVE RunInv'
    <2>1. \A j \in todo \cup Busy : j \in Keys /\ rows'[j] = rows[j]
      BY <1>2, QueueKeeps, KeyTypes DEF RequestFailsLate, QueueTypeOK, RunInv
    <2> QED BY <1>2, <2>1 DEF RequestFailsLate, RunInv, Busy
  <1>3. ASSUME NEW k \in Keys, CrashDuringRequest(k) PROVE RunInv'
    BY <1>3, DownKeeps DEF CrashDuringRequest
  <1>4. ASSUME NEW k \in Keys, Work(k) PROVE RunInv'
    BY <1>4, WorkKeeps
  <1>5. CASE Flush
    <2>1. \A k \in todo \cup Busy : k \in Keys /\ rows'[k].state = "pending"
      <3> TAKE k \in todo \cup Busy
      <3>1. k \in Keys /\ rows[k].state = "pending"
        BY KeyTypes DEF QueueTypeOK, RunInv
      <3>2. WritesOf(k, "complete") = {} /\ WritesOf(k, "expired") = {}
        BY DEF RunInv, WritesOf
      <3>3. rows'[k] = Written(k)
        BY <1>5, <3>1 DEF Flush
      <3> QED BY <3>1, <3>2, <3>3, WrittenRow
    <2> QED BY <1>5, <2>1 DEF Flush, RunInv, Busy
  <1>6. CASE FlushFails
    BY <1>6 DEF FlushFails, RunInv, Busy
  <1>7. CASE EndRun
    <2>1. CASE StartRun(rows')
      BY <1>0, <1>7, <2>1, StartRunKeeps DEF EndRun, RunInv
    <2>2. CASE EndOfRun
      BY <1>7, <2>2 DEF EndRun, EndOfRun, RunInv, Busy
    <2> QED BY <1>7, <2>1, <2>2 DEF EndRun, AfterRun
  <1>8. CASE TimerFires
    <2>1. Busy = {} /\ rows' = rows /\ StartRun(rows')
      BY <1>8 DEF TimerFires, RunInv, Off
    <2> QED BY <1>0, <1>8, <2>1, StartRunKeeps DEF TimerFires, RunInv
  <1>9. CASE Fetch \/ EndFetch
    BY <1>9 DEF Fetch, EndFetch, FetchFails, PersistFetched, RunInv, Busy
  <1>10. CASE Boot
    BY <1>0, <1>10, ProcessKeeps DEF Boot
  <1>11. CASE Stop
    BY <1>11 DEF Stop, RunInv, Busy
  <1>12. CASE Crash
    BY <1>12, DownKeeps DEF Crash
  <1>13. CASE Restart
    BY <1>13 DEF Restart, RunInv, Busy
  <1>14. CASE Tick
    <2>1. \A k \in todo \cup Busy : rows'[k].state = "pending"
      BY <1>14, OlderRows, KeyTypes DEF Tick, QueueTypeOK, RunInv
    <2>2. \A w \in writes' : \E v \in writes : w.key = v.key /\ w.op = v.op
      BY <1>14 DEF Tick, Later, QueueTypeOK, Write
    <2>3. writes = {} => writes' = {}
      BY <1>14 DEF Tick, Later
    <2>4. timer = Off => timer' = Off
      BY <1>14 DEF Tick
    <2> QED BY <1>14, <2>1, <2>2, <2>3, <2>4 DEF Tick, RunInv, Busy
  <1>15. CASE UNCHANGED vars
    BY <1>15 DEF vars, RunInv, Busy
  <1> QED BY <1>1, <1>2, <1>3, <1>4, <1>5, <1>6, <1>7, <1>8, <1>9, <1>10, <1>11, <1>12,
             <1>13, <1>14, <1>15
          DEF Next

-----------------------------------------------------------------------------
(* Decisions before the alert.                                               *)

LEMMA OrderInit == Init => OrderInv
  BY NewRows, QueueAssumption DEF Init, OrderInv, Pending, AlertOf, Keys, Quiet

(* What LAPI can do to alerts and decisions.                                 *)
UpstreamStep ==
    \/ \E A : DropDecisions(A) \/ DropAlerts(A)
    \/ UNCHANGED upstream

(* Once the decisions are gone, no request to LAPI brings them back.         *)
LEMMA QuietPersists ==
    ASSUME QueueTypeOK, UpstreamStep, NEW a \in Alerts, NEW n, Quiet(a, n)
    PROVE  Quiet(a, n)'
  BY DEF UpstreamStep, upstream, DropDecisions, DropAlerts, Quiet, QueueTypeOK

LEMMA UpstreamKeeps ==
    ASSUME QueueTypeOK, UpstreamStep
    PROVE  /\ lapi' \subseteq lapi /\ bans' \subseteq bans
           /\ OrderInv => /\ bans' \subseteq Linked
                          /\ \A a \in Alerts : calm'[a] > 0 => a \in Linked
  BY DEF UpstreamStep, upstream, DropDecisions, DropAlerts, OrderInv, QueueTypeOK

(* A step of a worker: it may ask LAPI, note a write and go to another step. *)
LEMMA WorkerOrder ==
    ASSUME QueueTypeOK, OrderInv, UpstreamStep, UNCHANGED rows,
           \A w \in writes' : w \in writes \/ (w.key \in Keys /\ (w.op = "mark" => Quiet(AlertOf(w.key), w.left)')),
           \A k \in Keys : active'[k] = "alert" => active[k] = "alert" \/ Quiet(AlertOf(k), 0)'
    PROVE  OrderInv'
  <1>1. /\ bans' \subseteq Linked
        /\ \A a \in Alerts : calm'[a] > 0 => a \in Linked
    BY UpstreamKeeps
  <1>2. ASSUME NEW k \in Keys, (k \in Pending(rows))'
        PROVE  /\ ~rows'[k].linked => AlertOf(k) \notin Linked \cap lapi'
               /\ rows'[k].marked => Quiet(AlertOf(k), rows[k].wait)'
    <2>1. k \in Pending(rows) /\ AlertOf(k) \in Alerts /\ rows'[k] = rows[k]
      BY <1>2, KeyTypes DEF Pending
    <2>2. /\ ~rows[k].linked => AlertOf(k) \notin Linked \cap lapi
          /\ rows[k].marked => Quiet(AlertOf(k), rows[k].wait)
      BY <2>1 DEF OrderInv
    <2>3. lapi' \subseteq lapi
      BY UpstreamKeeps
    <2>4. \A n : Quiet(AlertOf(k), n) => Quiet(AlertOf(k), n)'
      BY <2>1, QuietPersists
    <2> QED BY <2>1, <2>2, <2>3, <2>4 DEF Quiet
  <1>3. ASSUME NEW w \in writes', w.op = "mark"
        PROVE  Quiet(AlertOf(w.key), w.left)'
    <2>1. CASE w \in writes
      <3>1. w.key \in Keys /\ Quiet(AlertOf(w.key), w.left)
        BY <1>3, <2>1 DEF QueueTypeOK, Write, OrderInv
      <3> QED BY <3>1, KeyTypes, QuietPersists
    <2> QED BY <1>3, <2>1
  <1>4. ASSUME NEW k \in Keys, active'[k] = "alert"
        PROVE  Quiet(AlertOf(k), 0)'
    BY <1>4, KeyTypes, QuietPersists DEF OrderInv
  <1> QED BY <1>1, <1>2, <1>3, <1>4, KeyTypes DEF OrderInv

(* A step that leaves LAPI alone, notes nothing and starts no worker keeps   *)
(* the order when the rows it writes are new, gone or what they were.        *)
LEMMA RowsOrder ==
    ASSUME QueueTypeOK, OrderInv, UNCHANGED upstream,
           writes' \subseteq writes,
           \A k \in Keys : active'[k] = "alert" => active[k] = "alert",
           \A k \in Keys : \/ rows'[k] = rows[k]
                           \/ rows'[k].state # "pending"
                           \/ /\ ~rows'[k].linked => AlertOf(k) \notin Linked \cap lapi
                              /\ ~rows'[k].marked
    PROVE  OrderInv'
  <1>1. \A k \in Keys : k \in Pending(rows') => rows'[k].state = "pending"
    BY DEF Pending
  <1>2. \A k \in Keys : rows[k].state = "pending" => k \in Pending(rows)
    BY DEF Pending
  <1>3. \A a, n : Quiet(a, n)' <=> Quiet(a, n)
    BY DEF upstream, Quiet
  <1>4. ASSUME NEW k \in Keys, (k \in Pending(rows))'
        PROVE  /\ ~rows'[k].linked => AlertOf(k) \notin Linked \cap lapi'
               /\ rows'[k].marked => Quiet(AlertOf(k), rows[k].wait)'
    BY <1>1, <1>2, <1>4 DEF OrderInv, upstream, Quiet
  <1>5. \A w \in writes' : w.op = "mark" => Quiet(AlertOf(w.key), w.left)'
    BY <1>3 DEF OrderInv
  <1>6. \A k \in Keys : active'[k] = "alert" => Quiet(AlertOf(k), 0)'
    BY <1>3 DEF OrderInv
  <1> QED BY <1>4, <1>5, <1>6, KeyTypes DEF OrderInv, upstream

LEMMA QueueOrder ==
    ASSUME QueueTypeOK, NEW k \in Keys, Queue(k)
    PROVE  \A j \in Keys : \/ rows'[j] = rows[j]
                           \/ /\ ~rows'[j].linked => AlertOf(j) \notin Linked \cap lapi
                              /\ ~rows'[j].marked
  <1> DEFINE known == AlertOf(k) \in Linked /\ AlertOf(k) \in cache \cup lapi
  <1>1. rows' = IF rows[k].state = "none" THEN [rows EXCEPT ![k] = NewRow(known)] ELSE rows
    BY DEF Queue
  <1>2. known \in BOOLEAN /\ (~known => AlertOf(k) \notin Linked \cap lapi)
    OBVIOUS
  <1> HIDE DEF known
  <1>3. NewRow(known).linked = known /\ NewRow(known).marked = FALSE
    BY <1>2, NewRows
  <1> QED BY <1>1, <1>2, <1>3 DEF QueueTypeOK

(* Nobody touches the writes and the workers of a run that goes on, and a    *)
(* new run has none.                                                         *)
LEMMA ProcessOrder ==
    ASSUME NEW table, Process(table) \/ AfterRun(table)
    PROVE  writes' \subseteq writes
  BY DEF Process, AfterRun, StartRun, EndOfRun, locals

LEMMA FlushOrder ==
    ASSUME QueueTypeOK, OrderInv, Flush
    PROVE  OrderInv'
  <1>1. /\ UNCHANGED <<lapi, bans, calm, active>> /\ writes' = {}
        /\ \A k \in Keys : rows'[k] = Written(k)
    BY DEF Flush, upstream
  <1>2. ASSUME NEW k \in Keys, (k \in Pending(rows))'
        PROVE  /\ ~rows'[k].linked => AlertOf(k) \notin Linked \cap lapi'
               /\ rows'[k].marked => Quiet(AlertOf(k), rows[k].wait)'
    <2>1. \A w \in writes : w.left \in Clock(Retention) \/ w.op \in {"mark", "fail"}
      BY DEF QueueTypeOK, Write
    <2>2. /\ \A w \in WritesOf(k, "complete") : Written(k) # Settled("complete", w.left)
          /\ \A w \in WritesOf(k, "expired") : Written(k) # Settled("expired", w.left)
      BY <1>1, <1>2, <2>1, NewRows DEF Pending, WritesOf
    <2>3. /\ Written(k).state = rows[k].state /\ Written(k).linked = rows[k].linked
          /\ \/ /\ Written(k).marked = rows[k].marked /\ Written(k).wait = rows[k].wait
             \/ \E w \in WritesOf(k, "mark") : Written(k).wait = w.left
      BY <2>2, WrittenRow
    <2>4. k \in Pending(rows)
      BY <1>1, <1>2, <2>3 DEF Pending
    <2>5. \A w \in WritesOf(k, "mark") : Quiet(AlertOf(k), w.left)
      BY DEF WritesOf, OrderInv
    <2> QED BY <1>1, <2>3, <2>4, <2>5 DEF OrderInv, Quiet
  <1>3. \A a, n : Quiet(a, n)' <=> Quiet(a, n)
    BY <1>1 DEF Quiet
  <1> QED BY <1>1, <1>2, <1>3, KeyTypes DEF OrderInv

LEMMA TickOrder ==
    ASSUME QueueTypeOK, OrderInv, Tick
    PROVE  OrderInv'
  <1>1. /\ UNCHANGED <<lapi, bans, active>>
        /\ \A a \in Alerts : calm[a] \in Nat /\ calm'[a] = Less(calm[a])
        /\ \A k \in Keys : rows[k] \in Row /\ rows'[k] = OlderRow(rows[k])
    BY ConstantTypes DEF Tick, QueueTypeOK, Clock
  <1>2. \A a \in Alerts : \A n \in Nat : Quiet(a, n) => Quiet(a, Less(n))'
    BY <1>1 DEF Quiet, Less
  <1>3. ASSUME NEW k \in Keys, (k \in Pending(rows))'
        PROVE  /\ ~rows'[k].linked => AlertOf(k) \notin Linked \cap lapi'
               /\ rows'[k].marked => Quiet(AlertOf(k), rows[k].wait)'
    <2>1. /\ rows'[k].state = rows[k].state /\ rows'[k].linked = rows[k].linked
          /\ rows'[k].marked = rows[k].marked /\ rows'[k].wait = Less(rows[k].wait)
          /\ rows[k].wait \in Nat
      BY <1>1, OlderRows, ConstantTypes DEF Row, Clock
    <2>2. k \in Pending(rows)
      BY <1>3, <2>1 DEF Pending
    <2> QED BY <1>1, <1>2, <2>1, <2>2, KeyTypes DEF OrderInv, Quiet
  <1>4. ASSUME NEW w \in writes', w.op = "mark" PROVE Quiet(AlertOf(w.key), w.left)'
    <2>1. PICK v \in writes : w = [v EXCEPT !.left = Less(@)]
      BY DEF Tick, Later
    <2>2. /\ v.key \in Keys /\ v.left \in Nat
          /\ w.key = v.key /\ w.op = v.op /\ w.left = Less(v.left)
      BY <2>1, ConstantTypes, RetentionLasts DEF QueueTypeOK, Write, Clock
    <2>3. Quiet(AlertOf(v.key), v.left)
      BY <1>4, <2>2 DEF OrderInv
    <2> QED BY <1>2, <2>2, <2>3, KeyTypes
  <1>5. \A k \in Keys : active'[k] = "alert" => Quiet(AlertOf(k), 0)'
    BY <1>1, <1>2, KeyTypes, Less(0) = 0 DEF OrderInv, Less
  <1>6. \A a \in Alerts : calm'[a] > 0 => a \in Linked
    BY <1>1, LessCounts DEF OrderInv
  <1> QED BY <1>1, <1>3, <1>4, <1>5, <1>6, KeyTypes DEF OrderInv

LEMMA WorkOrder ==
    ASSUME QueueTypeOK, RunInv, OrderInv, NEW k \in Keys, Work(k)
    PROVE  OrderInv'
  <1> USE DEF store
  <1>1. active \in [Keys -> {"idle", "decisions", "alert"}] /\ AlertOf(k) \in Alerts
    BY KeyTypes DEF QueueTypeOK
  <1>2. CASE StartRow(k)
    <2>1. UpstreamStep /\ UNCHANGED <<rows, lapi, bans, calm>>
      BY <1>2 DEF StartRow, UpstreamStep, upstream
    <2>2. \A w \in writes' : w \in writes \/ w = [key |-> k, op |-> "expired", left |-> Retention]
      BY <1>2 DEF StartRow, Note
    <2>3. k \in Pending(rows)
      BY <1>2 DEF StartRow, RunInv, Pending
    <2>4. rows[k].marked /\ rows[k].wait = 0 => Quiet(AlertOf(k), 0)'
      BY <2>1, <2>3 DEF OrderInv, Quiet
    <2>5. \A j \in Keys : active'[j] = "alert" => active[j] = "alert" \/ Quiet(AlertOf(j), 0)'
      BY <1>1, <1>2, <2>4 DEF StartRow, SetWorker, Due
    <2> QED BY <2>1, <2>2, <2>5, WorkerOrder
  <1>3. CASE DeleteDecisions(k)
    <2>1. UpstreamStep /\ UNCHANGED rows
      BY <1>3 DEF DeleteDecisions, UpstreamStep
    <2>2. k \in Pending(rows)
      BY <1>3 DEF DeleteDecisions, RunInv, Busy, Pending
    <2>3. CASE rows[k].linked
      <3>1. /\ DropDecisions({AlertOf(k)}) /\ Note(k, "mark", Delay) /\ SetWorker(k, "idle")
        BY <1>3, <2>3 DEF DeleteDecisions
      <3>2. Quiet(AlertOf(k), Delay)'
        BY <1>1, <3>1, ConstantTypes DEF DropDecisions, Quiet, QueueTypeOK, Clock
      <3>3. \A w \in writes' : w \in writes
               \/ (w.key \in Keys /\ (w.op = "mark" => Quiet(AlertOf(w.key), w.left)'))
        BY <3>1, <3>2 DEF Note
      <3> QED BY <1>1, <2>1, <3>1, <3>3, WorkerOrder DEF SetWorker
    <2>4. CASE ~rows[k].linked
      <3>1. Note(k, "mark", 0) /\ SetWorker(k, "alert") /\ UNCHANGED upstream
        BY <1>3, <2>4 DEF DeleteDecisions
      <3>2. AlertOf(k) \notin Linked \cap lapi
        BY <2>2, <2>4 DEF OrderInv
      <3>3. calm[AlertOf(k)] \in Nat
        BY <1>1, ConstantTypes DEF QueueTypeOK, Clock
      <3>4. Quiet(AlertOf(k), 0)'
        BY <1>1, <3>1, <3>2, <3>3 DEF OrderInv, Quiet, upstream
      <3>5. \A w \in writes' : w \in writes
               \/ (w.key \in Keys /\ (w.op = "mark" => Quiet(AlertOf(w.key), w.left)'))
        BY <3>1, <3>4 DEF Note
      <3>6. \A j \in Keys : active'[j] = "alert" => active[j] = "alert" \/ Quiet(AlertOf(j), 0)'
        BY <1>1, <3>1, <3>4 DEF SetWorker
      <3> QED BY <2>1, <3>5, <3>6, WorkerOrder
    <2> QED BY <2>3, <2>4
  <1>4. ASSUME UpstreamStep, UNCHANGED rows, SetWorker(k, "idle"),
               NEW op, op # "mark", NEW left, Note(k, op, left)
        PROVE  OrderInv'
    <2>1. \A w \in writes' : w \in writes \/ (w.key \in Keys /\ w.op # "mark")
      BY <1>4 DEF Note
    <2>2. \A j \in Keys : active'[j] = "alert" => active[j] = "alert"
      BY <1>1, <1>4 DEF SetWorker
    <2> QED BY <1>4, <2>1, <2>2, WorkerOrder
  <1>5. CASE DecisionsFail(k) \/ AlertFails(k)
    BY <1>4, <1>5 DEF DecisionsFail, AlertFails, AttemptFails, UpstreamStep
  <1>6. CASE DeleteAlert(k)
    BY <1>4, <1>6 DEF DeleteAlert, UpstreamStep
  <1> QED BY <1>2, <1>3, <1>5, <1>6 DEF Work

LEMMA OrderStep == QueueTypeOK /\ RunInv /\ OrderInv /\ [Next]_vars => OrderInv'
  <1> SUFFICES ASSUME QueueTypeOK, RunInv, OrderInv, [Next]_vars PROVE OrderInv'
    OBVIOUS
  <1> USE DEF store, service, locals
  <1>1. ASSUME NEW k \in Keys, RequestDeletion(k) PROVE OrderInv'
    BY <1>1, QueueOrder, ProcessOrder, RowsOrder DEF RequestDeletion
  <1>2. ASSUME NEW k \in Keys, RequestFailsLate(k) PROVE OrderInv'
    BY <1>2, QueueOrder, RowsOrder DEF RequestFailsLate
  <1>3. ASSUME NEW k \in Keys, CrashDuringRequest(k) PROVE OrderInv'
    BY <1>3, RowsOrder DEF CrashDuringRequest, Down, upstream
  <1>4. ASSUME NEW k \in Keys, Work(k) PROVE OrderInv'
    BY <1>4, WorkOrder
  <1>5. CASE Flush
    BY <1>5, FlushOrder
  <1>6. CASE FlushFails
    BY <1>6, RowsOrder DEF FlushFails
  <1>7. CASE EndRun
    <2>1. \A k \in Keys : rows'[k] = rows[k] \/ rows'[k].state # "pending"
      BY <1>7, NewRows DEF EndRun, Purge
    <2>2. UNCHANGED upstream /\ writes' \subseteq writes /\ active' = active
      BY <1>7, ProcessOrder DEF EndRun, upstream
    <2> QED BY <2>1, <2>2, RowsOrder
  <1>8. CASE TimerFires
    BY <1>8, RowsOrder DEF TimerFires, StartRun
  <1>9. CASE Fetch \/ EndFetch
    BY <1>9, RowsOrder DEF Fetch, EndFetch, FetchFails, PersistFetched
  <1>10. CASE Boot
    BY <1>10, ProcessOrder, RowsOrder DEF Boot
  <1>11. CASE Stop
    BY <1>11, RowsOrder DEF Stop
  <1>12. CASE Crash
    <2>1. UpstreamStep /\ UNCHANGED rows
      BY <1>12 DEF Crash, UpstreamStep
    <2>2. writes' = {} /\ \A k \in Keys : active'[k] = "idle"
      BY <1>12 DEF Crash, Down
    <2> QED BY <2>1, <2>2, WorkerOrder
  <1>13. CASE Restart
    BY <1>13, RowsOrder DEF Restart
  <1>14. CASE Tick
    BY <1>14, TickOrder
  <1>15. CASE UNCHANGED vars
    BY <1>15, RowsOrder DEF vars
  <1> QED BY <1>1, <1>2, <1>3, <1>4, <1>5, <1>6, <1>7, <1>8, <1>9, <1>10, <1>11, <1>12,
             <1>13, <1>14, <1>15
          DEF Next

(* An alert leaves LAPI only when its decisions have been gone for the       *)
(* propagation delay, however many attempts, runs, rows and restarts it took *)
(* (deletion-service.ts:414-444).                                            *)
THEOREM DecisionsGoFirst == QueueSpec => DecisionsFirst
  <1>1. Init => QueueTypeOK /\ RunInv /\ OrderInv
    BY TypesInit, RunInit, OrderInit
  <1>2. QueueTypeOK /\ RunInv /\ OrderInv /\ [Next]_vars => (QueueTypeOK /\ RunInv /\ OrderInv)'
    BY TypesStep, RunStep, OrderStep
  <1>3. QueueTypeOK /\ OrderInv /\ [Next]_vars
           => [\A a \in lapi \ lapi' : a \notin bans /\ calm[a] = 0]_vars
    <2> SUFFICES ASSUME QueueTypeOK, OrderInv, [Next]_vars, NEW a \in lapi, a \notin lapi'
                 PROVE  a \notin bans /\ calm[a] = 0
      OBVIOUS
    <2>1. \E k \in Keys : a = AlertOf(k) /\ active[k] = "alert"
      <3>1. ASSUME NEW k \in Keys, DeleteAlert(k) \/ AlertFails(k)
            PROVE  a = AlertOf(k) /\ active[k] = "alert"
        BY <3>1 DEF DeleteAlert, AlertFails, DropAlerts, upstream
      <3>2. CASE Crash
        BY <3>2, KeyTypes DEF Crash, DropAlerts, DropDecisions
      <3>3. ASSUME NEW k \in Keys,
                   RequestDeletion(k) \/ RequestFailsLate(k) \/ CrashDuringRequest(k)
            PROVE  FALSE
        BY <3>3 DEF RequestDeletion, RequestFailsLate, CrashDuringRequest, upstream
      <3>4. ASSUME NEW k \in Keys, StartRow(k) \/ DeleteDecisions(k) \/ DecisionsFail(k)
            PROVE  FALSE
        BY <3>4 DEF StartRow, DeleteDecisions, DecisionsFail, DropDecisions, upstream
      <3>5. ~(Flush \/ FlushFails \/ EndRun \/ TimerFires \/ Fetch \/ EndFetch)
        BY DEF Flush, FlushFails, EndRun, TimerFires, Fetch, EndFetch, FetchFails,
               PersistFetched, upstream
      <3>6. ~(Boot \/ Stop \/ Restart \/ Tick \/ UNCHANGED vars)
        BY DEF Boot, Stop, Restart, Tick, vars, upstream
      <3> QED BY <3>1, <3>2, <3>3, <3>4, <3>5, <3>6 DEF Next, Work
    <2>2. a \in Alerts /\ calm[a] \in Nat
      BY ConstantTypes DEF QueueTypeOK, Clock
    <2> QED BY <2>1, <2>2 DEF OrderInv, Quiet
  <1> QED BY <1>1, <1>2, <1>3, PTL DEF QueueSpec, DecisionsFirst

-----------------------------------------------------------------------------
(* The timer of the earliest row.                                            *)

(* A tick brings the next run of a row as much nearer as the timer.          *)
LEMMA RunAtOlder ==
    ASSUME NEW row \in Row, NEW t \in Nat, t <= RowRunAt(row)
    PROVE  Less(t) <= RowRunAt(OlderRow(row))
  <1>1. row.wait \in Nat /\ row.retry \in Nat /\ row.age \in Nat
    BY ConstantTypes DEF Row, Clock
  <1>2. /\ OlderRow(row).marked = row.marked /\ OlderRow(row).wait = Less(row.wait)
        /\ OlderRow(row).retry = Less(row.retry) /\ OlderRow(row).age = Less(row.age)
    BY OlderRows
  <1>3. Less(row.wait) \in Nat /\ Less(row.retry) \in Nat /\ Less(row.age) \in Nat
    BY <1>1, LessCounts
  <1> DEFINE due(w, r) == IF row.marked THEN Largest({w, r}) ELSE r
  <1>4. /\ due(row.wait, row.retry) \in Nat
        /\ due(Less(row.wait), Less(row.retry)) = Less(due(row.wait, row.retry))
    BY <1>1, <1>3, LargestOfTwo DEF Less
  <1>5. /\ RowRunAt(row) = IF MaxAge > 0 THEN Smallest({due(row.wait, row.retry), row.age})
                           ELSE due(row.wait, row.retry)
        /\ RowRunAt(OlderRow(row))
              = IF MaxAge > 0 THEN Smallest({due(Less(row.wait), Less(row.retry)), Less(row.age)})
                ELSE due(Less(row.wait), Less(row.retry))
    BY <1>2 DEF RowRunAt
  <1> HIDE DEF due
  <1>6. RowRunAt(OlderRow(row)) = Less(RowRunAt(row))
    BY <1>1, <1>3, <1>4, <1>5, SmallestOfTwo DEF Less
  <1>7. RowRunAt(row) \in Nat
    BY RunAtType
  <1> QED BY <1>6, <1>7 DEF Less

LEMMA WakesStep == QueueTypeOK /\ RunInv /\ WakesInTime /\ [Next]_vars => WakesInTime'
  <1> SUFFICES ASSUME QueueTypeOK, RunInv, WakesInTime, [Next]_vars, (Awake /\ ~running)',
                      NEW k \in Keys, (k \in Pending(rows) \ stranded)'
               PROVE  timer' # Off /\ timer' <= RowRunAt(rows'[k])
    BY KeyTypes DEF WakesInTime
  <1> USE DEF Awake, service, store, process, locals, history
  <1>1. ASSUME NEW j \in Keys, RequestDeletion(j) PROVE FALSE
    BY <1>1 DEF RequestDeletion, Process, StartRun
  <1>2. ASSUME UNCHANGED <<running, timer, up, stopped, booted>>, stranded \subseteq stranded',
               k \in Pending(rows), rows'[k] = rows[k]
        PROVE  timer' # Off /\ timer' <= RowRunAt(rows'[k])
    BY <1>2 DEF WakesInTime
  <1>3. ASSUME NEW j \in Keys, RequestFailsLate(j)
        PROVE  timer' # Off /\ timer' <= RowRunAt(rows'[k])
    <2>1. rows[k].state # "none"
      BY <1>3 DEF RequestFailsLate, Queue, QueueTypeOK, Pending
    <2>2. rows'[k] = rows[k] /\ k \in Pending(rows)
      BY <1>3, <2>1, QueueKeeps DEF RequestFailsLate, Pending
    <2> QED BY <1>2, <1>3, <2>2 DEF RequestFailsLate
  <1>4. ASSUME UNCHANGED <<rows, running, timer, up, stopped, booted, stranded>>
        PROVE  timer' # Off /\ timer' <= RowRunAt(rows'[k])
    BY <1>2, <1>4 DEF Pending
  <1>5. ASSUME NEW j \in Keys, CrashDuringRequest(j) PROVE FALSE
    BY <1>5 DEF CrashDuringRequest, Down
  <1>6. ASSUME NEW j \in Keys, Work(j)
        PROVE  timer' # Off /\ timer' <= RowRunAt(rows'[k])
    BY <1>4, <1>6 DEF Work, StartRow, DeleteDecisions, DecisionsFail, DeleteAlert, AlertFails,
                      AttemptFails
  <1>7. ~ (Flush \/ FlushFails)
    <2>1. ASSUME Flush \/ FlushFails PROVE running /\ running' = running
      BY <2>1 DEF Flush, FlushFails, FlushDue
    <2> QED BY <2>1
  <1>8. CASE EndRun
    <2>1. AfterRun(rows') /\ ~stopped
      BY <1>8 DEF EndRun
    <2>2. Schedule(rows')
      BY <2>1 DEF AfterRun, StartRun
    <2>3. rows' \in [Keys -> Row] /\ k \in Pending(rows')
      BY TypesStep DEF QueueTypeOK, Pending
    <2> QED BY <2>2, <2>3, NextRunFirst DEF Schedule, Off
  <1>9. ~ TimerFires
    BY DEF TimerFires, StartRun
  <1>10. CASE Fetch \/ EndFetch
    BY <1>4, <1>10 DEF Fetch, EndFetch, FetchFails, PersistFetched
  <1>11. ~ (Boot \/ Stop \/ Crash \/ Restart)
    BY DEF Boot, Process, StartRun, Stop, Crash, Down, Restart, RunInv
  <1>12. CASE Tick
    <2>1. rows[k] \in Row /\ rows'[k] = OlderRow(rows[k]) /\ k \in Pending(rows) \ stranded
      BY <1>12, OlderRows DEF Tick, QueueTypeOK, Pending
    <2>2. timer # Off /\ timer \in Nat /\ timer <= RowRunAt(rows[k])
      BY <1>12, <2>1 DEF Tick, WakesInTime, QueueTypeOK
    <2>3. timer' = Less(timer) /\ timer' \in Nat
      BY <1>12, <2>2, LessCounts DEF Tick
    <2> QED BY <2>1, <2>2, <2>3, RunAtOlder DEF Off
  <1>13. CASE UNCHANGED vars
    BY <1>4, <1>13 DEF vars
  <1> QED BY <1>1, <1>3, <1>5, <1>6, <1>7, <1>8, <1>9, <1>10, <1>11, <1>12, <1>13 DEF Next

(* While the process is awake, pending work has a run under way or a timer   *)
(* that fires no later than the earliest row is due, except for rows whose   *)
(* request failed after its commit                                           *)
(* (deletion-service.ts:341-358 and 497-511).                                *)
THEOREM WakesAlways == QueueSpec => []WakesInTime
  <1>1. Init => QueueTypeOK /\ RunInv /\ WakesInTime
    BY TypesInit, RunInit DEF Init, WakesInTime, Awake
  <1>2. QueueTypeOK /\ RunInv /\ WakesInTime /\ [Next]_vars
           => (QueueTypeOK /\ RunInv /\ WakesInTime)'
    BY TypesStep, RunStep, WakesStep
  <1> QED BY <1>1, <1>2, PTL DEF QueueSpec

-----------------------------------------------------------------------------
(* Finished rows.                                                            *)

LEMMA LastsInit == Init => LastsInv
  BY NewRows DEF Init, LastsInv

LEMMA LastsPersists ==
    ASSUME answers' \subseteq answers, lapi' \subseteq lapi, young' = young,
           NEW state, NEW a, NEW n, Lasts(state, a, n)
    PROVE  Lasts(state, a, n)'
  BY DEF Lasts, Outlives

(* A step that neither fetches nor lets time pass.                           *)
LEMMA LastsKeeps ==
    ASSUME QueueTypeOK, LastsInv,
           answers' \subseteq answers, lapi' \subseteq lapi, young' = young,
           \A k \in Keys : \/ rows'[k] = rows[k]
                           \/ rows'[k].state = "none"
                           \/ rows'[k].state = "pending" /\ rows'[k].age = MaxAge
                           \/ rows'[k].state = "pending" /\ rows[k].state = "pending"
                                 /\ rows'[k].age = rows[k].age
                           \/ \E w \in writes : /\ w.key = k /\ w.op \in {"complete", "expired"}
                                                /\ rows'[k].state = w.op /\ rows'[k].keep = w.left,
           \A w \in writes' :
              \/ w \in writes
              \/ w.op \in {"complete", "expired"} => Lasts(w.op, AlertOf(w.key), w.left)'
    PROVE  LastsInv'
  <1>1. \A state, a, n : Lasts(state, a, n) => Lasts(state, a, n)'
    BY LastsPersists
  <1>2. ASSUME NEW k \in Keys, rows'[k].state \in {"complete", "expired"}
        PROVE  Lasts(rows[k].state, AlertOf(k), rows[k].keep)'
    <2>1. CASE rows'[k] = rows[k]
      <3>1. Lasts(rows[k].state, AlertOf(k), rows[k].keep)
        BY <1>2, <2>1 DEF LastsInv
      <3> QED BY <1>1, <2>1, <3>1 DEF Lasts, Outlives
    <2>2. ASSUME NEW w \in writes, w.key = k, w.op \in {"complete", "expired"},
                 rows'[k].state = w.op, rows'[k].keep = w.left
          PROVE  Lasts(rows[k].state, AlertOf(k), rows[k].keep)'
      <3>1. Lasts(w.op, AlertOf(k), w.left)'
        BY <1>1, <2>2 DEF LastsInv
      <3> QED BY <2>2, <3>1 DEF Lasts, Outlives
    <2> QED BY <1>2, <2>1, <2>2
  <1>3. ASSUME NEW k \in Keys, rows'[k].state = "pending", MaxAge > 0, young'[AlertOf(k)] > 0
        PROVE  young'[AlertOf(k)] + MaxAge <= Lookback + rows'[k].age
    <2>1. young[AlertOf(k)] \in 0 .. Lookback
      BY KeyTypes DEF QueueTypeOK, Clock
    <2>2. CASE rows'[k].age = MaxAge
      BY <2>1, <2>2, ConstantTypes
    <2>3. CASE rows[k].state = "pending" /\ rows'[k].age = rows[k].age
      BY <1>3, <2>3 DEF LastsInv
    <2> QED BY <1>3, <2>2, <2>3
  <1>4. ASSUME NEW w \in writes', w.op \in {"complete", "expired"}
        PROVE  Lasts(w.op, AlertOf(w.key), w.left)'
    BY <1>1, <1>4 DEF LastsInv
  <1> QED BY <1>2, <1>3, <1>4 DEF LastsInv

(* A fetched answer ends before a finished row whose alert it contains.      *)
LEMMA LastsThroughFetch ==
    ASSUME QueueTypeOK, Fetch, NEW state \in {"complete", "expired"},
           NEW a \in Alerts, NEW n \in Nat, Lasts(state, a, n)
    PROVE  Lasts(state, a, n)'
  <1>1. /\ answers' = {[alerts |-> {b \in lapi : young[b] > 0}, left |-> RequestTimeout]}
        /\ UNCHANGED <<lapi, young>>
    BY DEF Fetch, upstream
  <1>2. young[a] \in Nat /\ RequestTimeout \in Nat
    BY ConstantTypes DEF QueueTypeOK, Clock
  <1>3. a \in lapi /\ young[a] > 0 => RequestTimeout < n
    BY <1>2 DEF Lasts
  <1>4. Outlives(a, n)'
    BY <1>1, <1>3 DEF Outlives
  <1> QED BY <1>1, <1>4 DEF Lasts

LEMMA LastsThroughTick ==
    ASSUME QueueTypeOK, Tick, NEW state, NEW a \in Alerts, NEW n \in Nat, Lasts(state, a, n)
    PROVE  Lasts(state, a, Less(n))'
  <1>1. /\ lapi' = lapi /\ young'[a] = Less(young[a])
        /\ answers' = Later(answers) /\ \A x \in answers : x.left > 0
    BY DEF Tick
  <1>2. young[a] \in Nat /\ RequestTimeout \in Nat
    BY ConstantTypes DEF QueueTypeOK, Clock
  <1>3. ASSUME NEW y \in answers', a \in y.alerts PROVE y.left < Less(n)
    <2>1. PICK x \in answers : y = [x EXCEPT !.left = Less(@)]
      BY <1>1 DEF Later
    <2>2. x.left \in Nat /\ y.alerts = x.alerts /\ y.left = Less(x.left)
      BY <2>1, ConstantTypes DEF QueueTypeOK, Answer, Clock
    <2>3. x.left < n /\ x.left > 0
      BY <1>1, <1>3, <2>2 DEF Lasts, Outlives
    <2> QED BY <2>2, <2>3 DEF Less
  <1>4. state = "expired" => (young'[a] > 0 => young'[a] + RequestTimeout <= Less(n))
    BY <1>1, <1>2 DEF Lasts, Less
  <1> QED BY <1>1, <1>3, <1>4 DEF Lasts, Outlives

LEMMA LastsFetch ==
    ASSUME QueueTypeOK, LastsInv, Fetch
    PROVE  LastsInv'
  <1>1. UNCHANGED <<rows, writes, young>>
    BY DEF Fetch, store, locals
  <1>2. ASSUME NEW k \in Keys, rows[k].state \in {"complete", "expired"}
        PROVE  Lasts(rows[k].state, AlertOf(k), rows[k].keep)'
    <2>1. Lasts(rows[k].state, AlertOf(k), rows[k].keep) /\ rows[k].keep \in Nat
      BY <1>2, RetentionLasts DEF LastsInv, QueueTypeOK, Row, Clock
    <2>2. \A s \in {"complete", "expired"} : \A n \in Nat :
             Lasts(s, AlertOf(k), n) => Lasts(s, AlertOf(k), n)'
      BY LastsThroughFetch, KeyTypes
    <2> QED BY <1>1, <1>2, <2>1, <2>2 DEF Lasts, Outlives
  <1>3. ASSUME NEW w \in writes, w.op \in {"complete", "expired"}
        PROVE  Lasts(w.op, AlertOf(w.key), w.left)'
    <2>1. Lasts(w.op, AlertOf(w.key), w.left) /\ w.left \in Nat /\ AlertOf(w.key) \in Alerts
      BY <1>3, RetentionLasts, KeyTypes DEF LastsInv, QueueTypeOK, Write, Clock
    <2> QED BY <1>3, <2>1, LastsThroughFetch
  <1> QED BY <1>1, <1>2, <1>3 DEF LastsInv

LEMMA LastsTick ==
    ASSUME QueueTypeOK, LastsInv, Tick
    PROVE  LastsInv'
  <1>1. \A k \in Keys : /\ rows[k] \in Row /\ rows'[k] = OlderRow(rows[k])
                        /\ rows'[k].state = rows[k].state
                        /\ rows'[k].keep = Less(rows[k].keep) /\ rows[k].keep \in Nat
                        /\ rows'[k].age = Less(rows[k].age) /\ rows[k].age \in Nat
    BY OlderRows, RetentionLasts, ConstantTypes DEF Tick, QueueTypeOK, Row, Clock
  <1>2. ASSUME NEW k \in Keys, rows'[k].state \in {"complete", "expired"}
        PROVE  Lasts(rows[k].state, AlertOf(k), rows[k].keep)'
    <2>1. Lasts(rows[k].state, AlertOf(k), rows[k].keep)
      BY <1>1, <1>2 DEF LastsInv
    <2>2. \A s : \A n \in Nat : Lasts(s, AlertOf(k), n) => Lasts(s, AlertOf(k), Less(n))'
      BY LastsThroughTick, KeyTypes
    <2>3. \A s, n : s = rows[k].state /\ n = rows[k].keep => Lasts(s, AlertOf(k), Less(n))'
      BY <1>1, <2>1, <2>2
    <2>4. \A s, n : s = rows'[k].state /\ n = rows'[k].keep => Lasts(s, AlertOf(k), n)'
      BY <1>1, <2>3
    <2> QED BY <2>4 DEF Lasts, Outlives
  <1>3. ASSUME NEW k \in Keys, rows'[k].state = "pending", MaxAge > 0, young'[AlertOf(k)] > 0
        PROVE  young'[AlertOf(k)] + MaxAge <= Lookback + rows'[k].age
    <2>1. /\ young[AlertOf(k)] \in Nat /\ young'[AlertOf(k)] = Less(young[AlertOf(k)])
      BY KeyTypes, ConstantTypes DEF QueueTypeOK, Clock, Tick
    <2>2. young[AlertOf(k)] + MaxAge <= Lookback + rows[k].age
      BY <1>1, <1>3, <2>1 DEF LastsInv, Less
    <2> QED BY <1>1, <1>3, <2>1, <2>2, ConstantTypes DEF Less
  <1>4. ASSUME NEW w \in writes', w.op \in {"complete", "expired"}
        PROVE  Lasts(w.op, AlertOf(w.key), w.left)'
    <2>1. PICK v \in writes : w = [v EXCEPT !.left = Less(@)]
      BY DEF Tick, Later
    <2>2. /\ v.key \in Keys /\ v.left \in Nat
          /\ w.key = v.key /\ w.op = v.op /\ w.left = Less(v.left)
      BY <2>1, ConstantTypes, RetentionLasts DEF QueueTypeOK, Write, Clock
    <2>3. Lasts(v.op, AlertOf(v.key), v.left)
      BY <1>4, <2>2 DEF LastsInv
    <2> QED BY <2>2, <2>3, LastsThroughTick, KeyTypes
  <1> QED BY <1>2, <1>3, <1>4 DEF LastsInv

(* A row that finishes now is kept longer than any answer fetched before.    *)
LEMMA AnswersEnd ==
    ASSUME QueueTypeOK
    PROVE  \A a : Outlives(a, Retention)
  <1>1. \A x \in answers : x.left \in Nat /\ x.left <= RequestTimeout
    BY ConstantTypes DEF QueueTypeOK, Answer, Clock
  <1> QED BY <1>1, RetentionLasts, ConstantTypes DEF Outlives

LEMMA WorkLasts ==
    ASSUME QueueTypeOK, RunInv, LastsInv, NEW k \in Keys, Work(k)
    PROVE  LastsInv'
  <1> USE DEF store
  <1>1. UNCHANGED <<rows, answers, young>> /\ lapi' \subseteq lapi
    BY DEF Work, StartRow, DeleteDecisions, DecisionsFail, DeleteAlert, AlertFails, AttemptFails,
           DropDecisions, DropAlerts, upstream
  <1>2. AlertOf(k) \in Alerts /\ Outlives(AlertOf(k), Retention)'
    BY <1>1, KeyTypes, AnswersEnd DEF Outlives
  <1>3. CASE StartRow(k)
    <2>1. CASE TooOld(rows[k]) /\ Note(k, "expired", Retention)
      <3>1. rows[k].state = "pending" /\ MaxAge > 0 /\ rows[k].age = 0
        BY <1>3, <2>1 DEF StartRow, RunInv, TooOld
      <3>2. young[AlertOf(k)] \in Nat
        BY <1>2, ConstantTypes DEF QueueTypeOK, Clock
      <3>3. young[AlertOf(k)] > 0 => young[AlertOf(k)] + MaxAge <= Lookback
        BY <3>1, ConstantTypes DEF LastsInv
      <3>4. RequestTimeout <= MaxAge
        BY <3>1, QueueAssumption
      <3>5. young[AlertOf(k)] > 0 => young[AlertOf(k)] + RequestTimeout <= Retention
        BY <3>2, <3>3, <3>4, ConstantTypes, RetentionLasts
      <3>6. Lasts("expired", AlertOf(k), Retention)'
        BY <1>1, <1>2, <3>5 DEF Lasts
      <3>7. \A w \in writes' :
               \/ w \in writes
               \/ w.op \in {"complete", "expired"} => Lasts(w.op, AlertOf(w.key), w.left)'
        BY <2>1, <3>6 DEF Note
      <3> QED BY <1>1, <3>7, LastsKeeps
    <2>2. CASE UNCHANGED writes
      BY <1>1, <2>2, LastsKeeps
    <2> QED BY <1>3, <2>1, <2>2 DEF StartRow
  <1>4. ASSUME NEW op, op \in {"mark", "fail"}, NEW left, Note(k, op, left)
        PROVE  LastsInv'
    <2>1. \A w \in writes' : w \in writes \/ w.op \notin {"complete", "expired"}
      BY <1>4 DEF Note
    <2> QED BY <1>1, <2>1, LastsKeeps
  <1>5. CASE DeleteDecisions(k)
    BY <1>4, <1>5 DEF DeleteDecisions
  <1>6. CASE DecisionsFail(k) \/ AlertFails(k)
    BY <1>4, <1>6 DEF DecisionsFail, AlertFails, AttemptFails
  <1>7. CASE DeleteAlert(k)
    <2>1. Note(k, "complete", Retention) /\ AlertOf(k) \notin lapi'
      BY <1>7 DEF DeleteAlert, DropAlerts
    <2>2. Lasts("complete", AlertOf(k), Retention)'
      BY <1>2, <2>1 DEF Lasts
    <2>3. \A w \in writes' :
             \/ w \in writes
             \/ w.op \in {"complete", "expired"} => Lasts(w.op, AlertOf(w.key), w.left)'
      BY <2>1, <2>2 DEF Note
    <2> QED BY <1>1, <2>3, LastsKeeps
  <1> QED BY <1>3, <1>5, <1>6, <1>7 DEF Work

LEMMA FlushLasts ==
    ASSUME QueueTypeOK, LastsInv, Flush
    PROVE  LastsInv'
  <1>1. /\ UNCHANGED <<answers, lapi, young>> /\ writes' = {}
        /\ \A k \in Keys : rows'[k] = Written(k)
    BY DEF Flush, upstream
  <1>2. \A w \in writes : w.op \in {"complete", "expired"} => w.left \in Clock(Retention)
    BY DEF QueueTypeOK, Write
  <1>3. ASSUME NEW k \in Keys
        PROVE  \/ \E w \in writes : /\ w.key = k /\ w.op \in {"complete", "expired"}
                                    /\ rows'[k].state = w.op /\ rows'[k].keep = w.left
               \/ /\ rows'[k].state = rows[k].state
                  /\ rows'[k].age = rows[k].age /\ rows'[k].keep = rows[k].keep
    <2>1. CASE \E w \in WritesOf(k, "complete") : Written(k) = Settled("complete", w.left)
      BY <1>1, <1>2, <2>1, NewRows DEF WritesOf
    <2>2. CASE \E w \in WritesOf(k, "expired") : Written(k) = Settled("expired", w.left)
      BY <1>1, <1>2, <2>2, NewRows DEF WritesOf
    <2> QED BY <1>1, <2>1, <2>2, WrittenRow
  <1>4. \A state, a, n : Lasts(state, a, n) <=> Lasts(state, a, n)'
    BY <1>1 DEF Lasts, Outlives
  <1>5. ASSUME NEW k \in Keys, rows'[k].state \in {"complete", "expired"}
        PROVE  Lasts(rows[k].state, AlertOf(k), rows[k].keep)'
    <2>1. CASE /\ rows'[k].state = rows[k].state /\ rows'[k].keep = rows[k].keep
      <3>1. Lasts(rows[k].state, AlertOf(k), rows[k].keep)
        BY <1>5, <2>1 DEF LastsInv
      <3> QED BY <1>1, <2>1, <3>1 DEF Lasts, Outlives
    <2>2. ASSUME NEW w \in writes, w.key = k, w.op \in {"complete", "expired"},
                 rows'[k].state = w.op, rows'[k].keep = w.left
          PROVE  Lasts(rows[k].state, AlertOf(k), rows[k].keep)'
      <3>1. Lasts(w.op, AlertOf(k), w.left)
        BY <2>2 DEF LastsInv
      <3> QED BY <1>1, <2>2, <3>1 DEF Lasts, Outlives
    <2> QED BY <1>3, <2>1, <2>2
  <1>6. \A k \in Keys : rows'[k].state = "pending" /\ MaxAge > 0 /\ young'[AlertOf(k)] > 0
           => young'[AlertOf(k)] + MaxAge <= Lookback + rows'[k].age
    BY <1>1, <1>3 DEF LastsInv
  <1> QED BY <1>1, <1>5, <1>6 DEF LastsInv

LEMMA LastsStep == QueueTypeOK /\ RunInv /\ LastsInv /\ [Next]_vars => LastsInv'
  <1> SUFFICES ASSUME QueueTypeOK, RunInv, LastsInv, [Next]_vars PROVE LastsInv'
    OBVIOUS
  <1> USE DEF store, service, locals, upstream
  <1>0. ASSUME NEW k \in Keys, Queue(k)
        PROVE  \A j \in Keys : \/ rows'[j] = rows[j]
                               \/ rows'[j].state = "pending" /\ rows'[j].age = MaxAge
    <2> DEFINE known == AlertOf(k) \in Linked /\ AlertOf(k) \in cache \cup lapi
    <2>1. rows' = IF rows[k].state = "none" THEN [rows EXCEPT ![k] = NewRow(known)] ELSE rows
      BY <1>0 DEF Queue
    <2>2. known \in BOOLEAN
      OBVIOUS
    <2> HIDE DEF known
    <2> QED BY <2>1, <2>2, NewRows DEF QueueTypeOK
  <1>1. ASSUME NEW k \in Keys, RequestDeletion(k) PROVE LastsInv'
    BY <1>0, <1>1, ProcessOrder, LastsKeeps DEF RequestDeletion
  <1>2. ASSUME NEW k \in Keys, RequestFailsLate(k) PROVE LastsInv'
    BY <1>0, <1>2, LastsKeeps DEF RequestFailsLate
  <1>3. ASSUME NEW k \in Keys, CrashDuringRequest(k) PROVE LastsInv'
    BY <1>3, LastsKeeps DEF CrashDuringRequest, Down
  <1>4. ASSUME NEW k \in Keys, Work(k) PROVE LastsInv'
    BY <1>4, WorkLasts
  <1>5. CASE Flush
    BY <1>5, FlushLasts
  <1>6. CASE FlushFails
    BY <1>6, LastsKeeps DEF FlushFails
  <1>7. CASE EndRun
    <2>1. \A k \in Keys : rows'[k] = rows[k] \/ rows'[k].state = "none"
      BY <1>7, NewRows DEF EndRun, Purge
    <2>2. UNCHANGED <<answers, lapi, young>> /\ writes' \subseteq writes
      BY <1>7, ProcessOrder DEF EndRun
    <2> QED BY <2>1, <2>2, LastsKeeps
  <1>8. CASE TimerFires
    BY <1>8, LastsKeeps DEF TimerFires, StartRun
  <1>9. CASE Fetch
    BY <1>9, LastsFetch
  <1>10. CASE EndFetch
    BY <1>10, LastsKeeps DEF EndFetch, FetchFails, PersistFetched
  <1>11. CASE Boot
    BY <1>11, ProcessOrder, LastsKeeps DEF Boot
  <1>12. CASE Stop
    BY <1>12, LastsKeeps DEF Stop
  <1>13. CASE Crash
    BY <1>13, LastsKeeps DEF Crash, Down, DropDecisions, DropAlerts
  <1>14. CASE Restart
    BY <1>14, LastsKeeps DEF Restart
  <1>15. CASE Tick
    BY <1>15, LastsTick
  <1>16. CASE UNCHANGED vars
    BY <1>16, LastsKeeps DEF vars
  <1> QED BY <1>1, <1>2, <1>3, <1>4, <1>5, <1>6, <1>7, <1>8, <1>9, <1>10, <1>11, <1>12,
             <1>13, <1>14, <1>15, <1>16
          DEF Next

(* A row says completed only of an alert that LAPI no longer has             *)
(* (deletion-service.ts:446-449).                                            *)
THEOREM CompletedIsDeleted == QueueSpec => []CompletedMeansDeleted
  <1>1. Init => QueueTypeOK /\ RunInv /\ LastsInv
    BY TypesInit, RunInit, LastsInit
  <1>2. QueueTypeOK /\ RunInv /\ LastsInv /\ [Next]_vars => (QueueTypeOK /\ RunInv /\ LastsInv)'
    BY TypesStep, RunStep, LastsStep
  <1>3. LastsInv => CompletedMeansDeleted
    BY DEF LastsInv, Lasts, CompletedMeansDeleted
  <1> QED BY <1>1, <1>2, <1>3, PTL DEF QueueSpec

-----------------------------------------------------------------------------
(* Deleted alerts stay hidden, where insertAlert() looks for every key a     *)
(* deletion may have used.                                                   *)

BareIdsCount == PrimaryIsDefault \/ "legacy" \notin Kinds

LEMMA HiddenInit == Init => HiddenInv
  BY DEF Init, HiddenInv

LEMMA TombstoneCounts ==
    ASSUME BareIdsCount, NEW k \in Keys, k \in tombs
    PROVE  Tombstoned(AlertOf(k))
  <1>1. PICK a \in Alerts, kind \in Kinds : k = <<a, kind>>
    BY DEF Keys
  <1>2. kind \in {"legacy", "qualified"} /\ AlertOf(k) = a
    BY <1>1, QueueAssumption DEF AlertOf
  <1> QED BY <1>1, <1>2 DEF BareIdsCount, Tombstoned

(* What is gone stays gone, also from the next answer.                       *)
LEMMA GonePersists ==
    ASSUME QueueTypeOK, NEW a \in Alerts, Gone(a), lapi' \subseteq lapi,
           young[a] = 0 => young'[a] = 0,
           \A x \in answers' : \/ \E y \in answers : x.alerts = y.alerts
                               \/ x.alerts = {b \in lapi : young[b] > 0}
    PROVE  Gone(a)'
  <1>1. young[a] \in Nat
    BY ConstantTypes DEF QueueTypeOK, Clock
  <1> QED BY <1>1 DEF Gone

(* A step that keeps the rows and tombstones of hidden alerts.               *)
LEMMA HiddenKeeps ==
    ASSUME QueueTypeOK, HiddenInv, lapi' \subseteq lapi,
           \A a \in Alerts : young[a] = 0 => young'[a] = 0,
           \A x \in answers' : \/ \E y \in answers : x.alerts = y.alerts
                               \/ x.alerts = {b \in lapi : young[b] > 0},
           asked' = asked, cache' \subseteq cache,
           \A k \in Stored(rows) \cap tombs : (k \in Stored(rows) \cap tombs)' \/ Gone(AlertOf(k))
    PROVE  HiddenInv'
  <1>1. ASSUME NEW a \in asked
        PROVE  Gone(a)' \/ (\E k \in Stored(rows) \cap tombs : AlertOf(k) = a)'
    <2>1. a \in Alerts /\ (Gone(a) => Gone(a)')
      BY GonePersists DEF QueueTypeOK
    <2>2. CASE Gone(a)
      BY <2>1, <2>2
    <2>3. ASSUME NEW k \in Stored(rows) \cap tombs, AlertOf(k) = a
          PROVE  Gone(a)' \/ (\E j \in Stored(rows) \cap tombs : AlertOf(j) = a)'
      <3>1. CASE Gone(AlertOf(k))
        BY <2>1, <2>3, <3>1
      <3>2. CASE (k \in Stored(rows) \cap tombs)'
        BY <2>3, <3>2
      <3> QED BY <2>3, <3>1, <3>2
    <2> QED BY <2>2, <2>3 DEF HiddenInv
  <1> QED BY <1>1 DEF HiddenInv

(* The purge takes a row only when nothing can bring its alert back.         *)
LEMMA PurgedIsGone ==
    ASSUME QueueTypeOK, LastsInv, NEW k \in Keys, Purgeable(rows[k])
    PROVE  Gone(AlertOf(k))
  <1>1. /\ Lasts(rows[k].state, AlertOf(k), 0)
        /\ rows[k].state \in {"complete", "expired"}
    BY DEF Purgeable, LastsInv
  <1>2. \A x \in answers : x.left \in Nat
    BY ConstantTypes DEF QueueTypeOK, Answer, Clock
  <1>3. young[AlertOf(k)] \in Nat /\ RequestTimeout \in Nat
    BY KeyTypes, ConstantTypes DEF QueueTypeOK, Clock
  <1> QED BY <1>1, <1>2, <1>3 DEF Lasts, Outlives, Gone

LEMMA HiddenStep ==
    BareIdsCount /\ QueueTypeOK /\ RunInv /\ LastsInv /\ HiddenInv /\ [Next]_vars => HiddenInv'
  <1> SUFFICES ASSUME BareIdsCount, QueueTypeOK, LastsInv, HiddenInv, [Next]_vars
               PROVE  HiddenInv'
    OBVIOUS
  <1> USE DEF store, service, locals, upstream, history
  <1>0. ASSUME NEW k \in Keys, Queue(k)
        PROVE  /\ k \in Stored(rows') /\ Stored(rows) \subseteq Stored(rows')
               /\ tombs' = tombs \cup {k} /\ cache' = cache \ {AlertOf(k)}
    <2> DEFINE known == AlertOf(k) \in Linked /\ AlertOf(k) \in cache \cup lapi
    <2>1. rows' = IF rows[k].state = "none" THEN [rows EXCEPT ![k] = NewRow(known)] ELSE rows
      BY <1>0 DEF Queue
    <2>2. known \in BOOLEAN
      OBVIOUS
    <2> HIDE DEF known
    <2>3. NewRow(known).state = "pending"
      BY <2>2, NewRows
    <2>4. tombs' = tombs \cup {k} /\ cache' = cache \ {AlertOf(k)}
      BY <1>0 DEF Queue
    <2> QED BY <2>1, <2>3, <2>4 DEF QueueTypeOK, Stored
  <1>1. ASSUME NEW k \in Keys, RequestDeletion(k) PROVE HiddenInv'
    <2>1. /\ asked' = asked \cup {AlertOf(k)} /\ UNCHANGED <<answers, lapi, young>>
          /\ Queue(k)
      BY <1>1 DEF RequestDeletion
    <2>2. \A a : Gone(a) <=> Gone(a)'
      BY <2>1 DEF Gone
    <2> QED BY <1>0, <2>1, <2>2 DEF HiddenInv, Stored
  <1>2. ASSUME NEW k \in Keys, RequestFailsLate(k) PROVE HiddenInv'
    BY <1>0, <1>2, HiddenKeeps DEF RequestFailsLate, Stored
  <1>3. ASSUME NEW k \in Keys, CrashDuringRequest(k) PROVE HiddenInv'
    BY <1>3, HiddenKeeps DEF CrashDuringRequest, Down, Stored
  <1>4. ASSUME NEW k \in Keys, Work(k) PROVE HiddenInv'
    <2>1. UNCHANGED <<rows, tombs, cache, asked, answers, young>> /\ lapi' \subseteq lapi
      BY <1>4 DEF Work, StartRow, DeleteDecisions, DecisionsFail, DeleteAlert, AlertFails,
                  AttemptFails, DropDecisions, DropAlerts
    <2> QED BY <2>1, HiddenKeeps DEF Stored
  <1>5. CASE Flush
    <2>1. \A w \in writes : w.op \in {"complete", "expired"} => w.left \in Clock(Retention)
      BY DEF QueueTypeOK, Write
    <2>2. ASSUME NEW k \in Keys, rows[k].state # "none" PROVE rows'[k].state # "none"
      <3>1. rows'[k] = Written(k)
        BY <1>5 DEF Flush
      <3>2. CASE \E w \in WritesOf(k, "complete") : Written(k) = Settled("complete", w.left)
        BY <2>1, <3>1, <3>2, NewRows DEF WritesOf
      <3>3. CASE \E w \in WritesOf(k, "expired") : Written(k) = Settled("expired", w.left)
        BY <2>1, <3>1, <3>3, NewRows DEF WritesOf
      <3> QED BY <2>2, <3>1, <3>2, <3>3, WrittenRow
    <2> QED BY <1>5, <2>2, HiddenKeeps DEF Flush, Stored
  <1>6. CASE FlushFails
    BY <1>6, HiddenKeeps DEF FlushFails, Stored
  <1>7. CASE EndRun
    <2>1. UNCHANGED <<cache, answers, lapi, young, asked>>
      BY <1>7 DEF EndRun
    <2>2. ASSUME NEW k \in Stored(rows) \cap tombs
          PROVE  (k \in Stored(rows) \cap tombs)' \/ Gone(AlertOf(k))
      <3>1. k \in Keys /\ rows[k].state # "none"
        BY <2>2 DEF Stored
      <3>2. CASE Purgeable(rows[k])
        BY <3>1, <3>2, PurgedIsGone
      <3>3. CASE ~Purgeable(rows[k])
        BY <1>7, <2>2, <3>1, <3>3 DEF EndRun, Purge, Stored
      <3> QED BY <3>2, <3>3
    <2> QED BY <2>1, <2>2, HiddenKeeps
  <1>8. CASE TimerFires
    BY <1>8, HiddenKeeps DEF TimerFires, Stored
  <1>9. CASE Fetch
    BY <1>9, HiddenKeeps DEF Fetch, Stored
  <1>10. ASSUME NEW x \in answers, PersistFetched(x) PROVE HiddenInv'
    <2>1. /\ UNCHANGED <<rows, tombs, asked, lapi, young>> /\ answers' \subseteq answers
          /\ cache' = {a \in x.alerts : a \in cache \/ ~Tombstoned(a)}
      BY <1>10 DEF PersistFetched
    <2>2. ASSUME NEW a \in asked PROVE a \notin cache'
      <3>1. CASE Gone(a)
        BY <2>1, <3>1 DEF Gone
      <3>2. CASE \E k \in Stored(rows) \cap tombs : AlertOf(k) = a
        BY <2>1, <2>2, <3>2, TombstoneCounts, KeyTypes DEF HiddenInv
      <3> QED BY <3>1, <3>2 DEF HiddenInv
    <2>3. \A a : Gone(a) => Gone(a)'
      BY <2>1 DEF Gone
    <2> QED BY <2>1, <2>2, <2>3 DEF HiddenInv, Stored
  <1>11. CASE FetchFails
    BY <1>11, HiddenKeeps DEF FetchFails, Stored
  <1>12. CASE Boot
    BY <1>12, HiddenKeeps DEF Boot, Stored
  <1>13. CASE Stop
    BY <1>13, HiddenKeeps DEF Stop, Stored
  <1>14. CASE Crash
    BY <1>14, HiddenKeeps DEF Crash, Down, DropDecisions, DropAlerts, Stored
  <1>15. CASE Restart
    BY <1>15, HiddenKeeps DEF Restart, Stored
  <1>16. CASE Tick
    <2>1. \A k \in Keys : rows'[k].state = rows[k].state
      BY <1>16, OlderRows DEF Tick, QueueTypeOK
    <2>2. \A x \in answers' : \E y \in answers : x.alerts = y.alerts
      BY <1>16 DEF Tick, Later, QueueTypeOK, Answer
    <2>3. \A a \in Alerts : young[a] = 0 => young'[a] = 0
      BY <1>16 DEF Tick, Less
    <2> QED BY <1>16, <2>1, <2>2, <2>3, HiddenKeeps DEF Tick, Stored
  <1>17. CASE UNCHANGED vars
    BY <1>17, HiddenKeeps DEF vars, Stored
  <1> QED BY <1>1, <1>2, <1>3, <1>4, <1>5, <1>6, <1>7, <1>8, <1>9, <1>10, <1>11, <1>12,
             <1>13, <1>14, <1>15, <1>16, <1>17
          DEF Next, EndFetch

(* An alert whose deletion was acknowledged is never shown again, whatever   *)
(* refreshes, retries, expiry, purges and restarts do in between, provided   *)
(* that bare IDs are used only with an instance named "default"              *)
(* (deletion-service.ts:487-495, database.ts:1248 and 1840-1846).            *)
THEOREM DeletedNeverReturns == BareIdsCount => (QueueSpec => []DeletedStaysHidden)
  <1> SUFFICES ASSUME BareIdsCount PROVE QueueSpec => []DeletedStaysHidden
    OBVIOUS
  <1> DEFINE Inv == QueueTypeOK /\ RunInv /\ LastsInv /\ HiddenInv
  <1>1. Init => Inv
    BY TypesInit, RunInit, LastsInit, HiddenInit
  <1>2. Inv /\ [Next]_vars => Inv'
    BY TypesStep, RunStep, LastsStep, HiddenStep
  <1>3. Inv => DeletedStaysHidden
    BY DEF HiddenInv, DeletedStaysHidden
  <1> QED BY <1>1, <1>2, <1>3, PTL DEF QueueSpec
=============================================================================
