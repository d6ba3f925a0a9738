----------------------------- MODULE PagesProofs -----------------------------
(* What open pages show: the index behind the charts of the dashboard, and   *)
(* the rows that a page loads when it learns of a revision.                  *)
(*                                                                           *)
(* For any rows, scopes and computations: an index that the next update      *)
(* accepts is repaired by it, because the journal still has every change     *)
(* that the index has not seen. The argument follows the revisions: what is  *)
(* pruned is behind every index of the epoch and every update under way.     *)
(*                                                                           *)
(* For any filters, revisions, loads and faults: a page goes forward, and    *)
(* says that it loads only while it does.                                    *)
EXTENDS DashboardIndex, PageUpdates, FiniteSetTheorems, WellFoundedInduction, TLAPS

-----------------------------------------------------------------------------
(* Numbers. *)

(* A set of numbers that is not empty has a least one.                       *)
LEMMA LeastOf ==
  ASSUME NEW S \in SUBSET Nat, S # {}
  PROVE  \E n \in S : \A m \in S : n <= m
<1>1. OpToRel(<, Nat) = {p \in Nat \X Nat : p[1] < p[2]}
  BY Zenon DEF OpToRel
<1>2. IsWellFoundedOn({p \in Nat \X Nat : p[1] < p[2]}, Nat)
  BY <1>1, NatLessThanWellFounded
<1>3. \A R : IsWellFoundedOn(R, Nat) => \E n \in S : \A m \in S : ~ (<<m, n>> \in R)
  BY WFMin, Zenon
<1>4. PICK n \in S : \A m \in S : ~ (<<m, n>> \in {p \in Nat \X Nat : p[1] < p[2]})
  BY <1>2, <1>3, Zenon
<1>5. ASSUME NEW m \in S PROVE n <= m
  <2>1. <<m, n>> \in Nat \X Nat /\ <<m, n>>[1] = m /\ <<m, n>>[2] = n
    OBVIOUS
  <2>2. ~ (m < n)
    BY <1>4, <2>1, Zenon
  <2> QED
    BY <2>2
<1> QED
  BY <1>5

Databases == [rows : Rows, journal : SUBSET (Nat \X Records), last : Nat,
              epoch : Nat, floor : Nat, tracking : BOOLEAN]

(* The last number given is that of the newest entry, if there is one.       *)
DbOK(d) ==
    /\ d.floor <= d.last
    /\ \A j \in d.journal : j[1] <= d.last
    /\ d.journal # {} => \E j \in d.journal : j[1] = d.last

LEMMA RevisionOf ==
  ASSUME NEW d \in Databases, DbOK(d)
  PROVE  /\ Revision(d) \in Nat /\ Revision(d) <= d.last
         /\ \A j \in d.journal : j[1] <= Revision(d)
<1> DEFINE all == Revisions(d) \cup {d.floor}
           top == IF d.journal = {} THEN d.floor ELSE d.last
<1>1. d.journal \subseteq Nat \X Records /\ d.floor \in Nat /\ d.last \in Nat
  BY DEF Databases
<1>2. \A j \in d.journal : j[1] \in Nat /\ j[1] <= d.last
  BY <1>1 DEF DbOK
<1>3. top \in all /\ \A n \in all : n \in Nat /\ n <= top
  BY <1>1, <1>2 DEF DbOK, Revisions
<1>4. Revision(d) \in all /\ \A n \in all : n <= Revision(d)
  <2> HIDE DEF all
  <2>1. \E m \in all : \A n \in all : n <= m
    BY <1>3
  <2>2. Revision(d) = CHOOSE m \in all : \A n \in all : n <= m
    BY DEF Revision, all
  <2> QED
    BY <2>1, <2>2
<1>5. \A j \in d.journal : j[1] \in all
  BY DEF Revisions
<1>6. top <= d.last
  BY <1>1 DEF DbOK
<1> HIDE DEF all, top
<1> QED
  BY <1>1, <1>3, <1>4, <1>5, <1>6

LEMMA WrittenOf ==
  ASSUME NEW d \in Databases, DbOK(d), NEW touched \in SUBSET Records, NEW new \in Rows
  PROVE  /\ Written(d, touched, new) \in Databases
         /\ DbOK(Written(d, touched, new))
         /\ d.last <= Written(d, touched, new).last
<1>1. CASE d.tracking /\ touched # {}
  <2>1. Written(d, touched, new) = [d EXCEPT
            !.rows = [r \in Records |-> IF r \in touched THEN new[r] ELSE d.rows[r]],
            !.journal = d.journal \cup ({d.last + 1} \X touched), !.last = d.last + 1]
    BY <1>1 DEF Written
  <2>2. PICK x \in touched : TRUE
    BY <1>1
  <2>3. <<d.last + 1, x>> \in {d.last + 1} \X touched
    OBVIOUS
  <2> DEFINE w == Written(d, touched, new)
  <2>4. w \in Databases
    <3>1. d.journal \cup ({d.last + 1} \X touched) \in SUBSET (Nat \X Records)
      BY DEF Databases
    <3>2. [r \in Records |-> IF r \in touched THEN new[r] ELSE d.rows[r]] \in Rows
      BY DEF Databases, Rows
    <3>3. d.last + 1 \in Nat
      BY DEF Databases
    <3> HIDE DEF w
    <3> QED
      BY <2>1, <3>1, <3>2, <3>3 DEF Databases, w
  <2>5. /\ w.floor = d.floor /\ w.last = d.last + 1
        /\ w.journal = d.journal \cup ({d.last + 1} \X touched)
    BY <2>1 DEF Databases
  <2>6. d.last \in Nat /\ d.floor \in Nat /\ d.journal \subseteq Nat \X Records
    BY DEF Databases
  <2>7. \A j \in {d.last + 1} \X touched : j[1] = d.last + 1
    OBVIOUS
  <2>8. \A j \in d.journal : j[1] \in Nat /\ j[1] <= d.last
    BY <2>6 DEF DbOK
  <2>9. w.floor <= w.last /\ d.last <= w.last
    BY <2>5, <2>6 DEF DbOK
  <2>10. \A j \in w.journal : j[1] <= w.last
    BY <2>5, <2>6, <2>7, <2>8
  <2>11. \E j \in w.journal : j[1] = w.last
    BY <2>3, <2>5, <2>7
  <2> QED
    BY <2>4, <2>9, <2>10, <2>11 DEF DbOK
<1>2. CASE ~ (d.tracking /\ touched # {})
  <2>1. {d.last + 1} \X {} = {}
    OBVIOUS
  <2>2. Written(d, touched, new) = [d EXCEPT
            !.rows = [r \in Records |-> IF r \in touched THEN new[r] ELSE d.rows[r]]]
    BY <1>2, <2>1 DEF Written, Databases
  <2>3. Written(d, touched, new) \in Databases
    BY <2>2 DEF Databases, Rows
  <2> QED
    BY <2>2, <2>3 DEF Databases, DbOK
<1> QED
  BY <1>1, <1>2

(* Every column that the index is made of is one whose change the triggers   *)
(* of the table journal: what changes in the index is journaled.             *)
LEMMA WriteIsJournaled ==
  ASSUME DashboardConstants, db \in Databases, Write
  PROVE  \E touched \in SUBSET Records, new \in Rows : db' = Written(db, touched, new)
<1>1. \A t \in Tables : IndexedColumns[t] \subseteq TrackedColumns[t]
  BY DEF Tables, IndexedColumns, TrackedColumns
<1> PICK new \in Rows, replaced \in SUBSET Records, changed \in [Records -> SUBSET Columns] :
        LET tracked == {r \in Records : changed[r] \cap TrackedColumns[TableOf[r]] # {}}
        IN  /\ \A r \in Records \ replaced :
                    new[r] # db.rows[r] => changed[r] \cap IndexedColumns[TableOf[r]] # {}
            /\ db' = [Written(db, replaced \cup tracked, new) EXCEPT !.rows = new]
  BY Zenon DEF Write
<1> PICK touched \in SUBSET Records :
        touched = replaced \cup {r \in Records : changed[r] \cap TrackedColumns[TableOf[r]] # {}}
  OBVIOUS
<1>2. /\ db' = [Written(db, touched, new) EXCEPT !.rows = new]
      /\ \A r \in Records \ touched : new[r] = db.rows[r]
  BY <1>1 DEF DashboardConstants
<1>3. [r \in Records |-> IF r \in touched THEN new[r] ELSE db.rows[r]] = new
  BY <1>2 DEF Rows
<1>4. Written(db, touched, new).rows = new
  BY <1>3 DEF Written, Databases
<1>5. Written(db, touched, new) = [Written(db, touched, new) EXCEPT !.rows = new]
  BY <1>4 DEF Written, Databases
<1> QED
  BY <1>2, <1>5

LEMMA EmptiedOf ==
  ASSUME NEW d \in Databases
  PROVE  /\ Emptied(d) \in Databases /\ DbOK(Emptied(d))
         /\ Emptied(d).epoch = d.epoch + 1 /\ Emptied(d).last = d.last
         /\ Emptied(d).tracking = d.tracking
<1>1. Emptied(d) = [d EXCEPT !.epoch = d.epoch + 1, !.floor = 0, !.journal = {}]
  BY DEF Emptied
<1>2. Emptied(d) \in Databases
  <2>1. d.epoch + 1 \in Nat /\ 0 \in Nat /\ {} \in SUBSET (Nat \X Records)
    BY DEF Databases
  <2> QED
    BY <1>1, <2>1 DEF Databases
<1> QED
  BY <1>1, <1>2 DEF Databases, DbOK

LEMMA PrunedOf ==
  ASSUME NEW d \in Databases, DbOK(d), NEW epoch \in Nat, NEW through \in Nat, through <= d.last
  PROVE  /\ Pruned(d, epoch, through) \in Databases /\ DbOK(Pruned(d, epoch, through))
         /\ Pruned(d, epoch, through).rows = d.rows
         /\ Pruned(d, epoch, through).last = d.last
         /\ Pruned(d, epoch, through).epoch = d.epoch
         /\ Pruned(d, epoch, through).tracking = d.tracking
         /\ Pruned(d, epoch, through).floor \in {d.floor, through}
         /\ d.floor <= Pruned(d, epoch, through).floor
         /\ Pruned(d, epoch, through).journal \subseteq d.journal
         /\ \A j \in d.journal : j[1] > Pruned(d, epoch, through).floor
                => j \in Pruned(d, epoch, through).journal
         /\ d.epoch # epoch => Pruned(d, epoch, through) = d
<1>1. CASE d.epoch # epoch \/ through <= 0
  <2>1. Pruned(d, epoch, through) = d
    BY <1>1 DEF Pruned
  <2>2. d.floor \in Nat /\ \A j \in d.journal : j[1] \in Nat
    BY DEF Databases
  <2> QED
    BY <2>1, <2>2
<1>2. CASE ~ (d.epoch # epoch \/ through <= 0)
  <2> DEFINE p == Pruned(d, epoch, through)
             kept == {j \in d.journal : j[1] > through}
  <2>1. p = [d EXCEPT !.floor = IF through > d.floor THEN through ELSE d.floor,
                      !.journal = kept]
    BY <1>2 DEF Pruned
  <2>2. kept # {} => \E j \in kept : j[1] = d.last
    <3> SUFFICES ASSUME kept # {} PROVE \E j \in kept : j[1] = d.last
      OBVIOUS
    <3>1. PICK j \in d.journal : j[1] > through
      OBVIOUS
    <3>2. PICK k \in d.journal : k[1] = d.last
      BY <3>1 DEF DbOK
    <3>3. j[1] <= d.last /\ j[1] \in Nat /\ k[1] \in Nat
      BY <3>1, <3>2 DEF DbOK, Databases
    <3> QED
      BY <3>1, <3>2, <3>3 DEF Databases
  <2>3. p \in Databases
    BY <2>1 DEF Databases
  <2>4. p.floor = (IF through > d.floor THEN through ELSE d.floor) /\ p.journal = kept /\ p.last = d.last
    BY <2>1 DEF Databases
  <2>5. d.floor \in Nat /\ d.last \in Nat
    BY DEF Databases
  <2>6. DbOK(p)
    BY <2>2, <2>4, <2>5 DEF DbOK
  <2>7. p.rows = d.rows /\ p.last = d.last /\ p.epoch = d.epoch /\ p.tracking = d.tracking
    BY <2>1 DEF Databases
  <2>8. p.floor \in {d.floor, through} /\ d.floor <= p.floor
    BY <2>4, <2>5
  <2>9. \A j \in d.journal : j[1] > p.floor => j \in kept
    <3>1. \A j \in d.journal : j[1] \in Nat
      BY DEF Databases
    <3> QED
      BY <2>4, <2>5, <3>1
  <2> QED
    BY <2>3, <2>4, <2>6, <2>7, <2>8, <2>9, <1>2
<1> QED
  BY <1>1, <1>2

(* What the journal is pruned through is the revision of some index of the   *)
(* epoch and no later than any of them.                                      *)
LEMMA ThroughOf ==
  ASSUME NEW caches \in [Scopes -> Indexes \cup {NoIndex}], NEW s \in Scopes,
         caches[s] # NoIndex
  PROVE  /\ Through(caches, caches[s].epoch) \in Nat
         /\ \A x \in Scopes : caches[x] # NoIndex /\ caches[x].epoch = caches[s].epoch
                => Through(caches, caches[s].epoch) <= caches[x].rev
<1> DEFINE live == {x \in Scopes : caches[x] # NoIndex /\ caches[x].epoch = caches[s].epoch}
           revs == {caches[x].rev : x \in live}
<1>1. \A x \in live : caches[x] \in Indexes
  OBVIOUS
<1>2. \A x \in live : caches[x].rev \in Nat
  BY <1>1 DEF Indexes
<1>3. s \in live
  OBVIOUS
<1>4. revs \in SUBSET Nat /\ revs # {}
  BY <1>2, <1>3
<1>5. PICK least \in revs : \A m \in revs : least <= m
  <2> HIDE DEF revs
  <2> QED
    BY <1>4, LeastOf
<1>6. Through(caches, caches[s].epoch) = CHOOSE m \in revs : \A n \in revs : m <= n
  BY DEF Through
<1>7. Through(caches, caches[s].epoch) \in revs
      /\ \A m \in revs : Through(caches, caches[s].epoch) <= m
  <2> HIDE DEF revs
  <2> QED
    BY <1>5, <1>6
<1> QED
  BY <1>4, <1>7

-----------------------------------------------------------------------------
(* The order of revisions, epochs and versions. *)

WriterOK ==
    /\ writer.clearing # "no" => ~db.tracking
    /\ writer.clearing = "untracked" => writer.deferred \/ lost
    /\ JournalIsOn

Past(c) == c.epoch <= db.epoch /\ c.rev <= db.last /\ c.at <= now

BuildOK(m) ==
    /\ m.version <= versions[m.scope]
    /\ Past(m)
    /\ m.stale # NoIndex => Past(m.stale)
    /\ m.phase = "delta" =>
            m.stale # NoIndex /\ m.stale.epoch = m.epoch /\ m.stale.rev <= m.rev
    /\ m.phase = "scan" => m.stale = NoIndex

(* No two computations of the same index.                                    *)
Apart(b, o) == builds[b] # Idle /\ builds[o] # Idle /\ b # o =>
                   builds[b].scope # builds[o].scope \/ builds[b].version # builds[o].version

Ordered ==
    /\ TypeOK /\ DbOK(db) /\ WriterOK
    /\ \A s \in Scopes : cached[s] # NoIndex => Past(cached[s])
    /\ \A b \in Builders : builds[b] # Idle => BuildOK(builds[b])
    /\ \A b, o \in Builders : Apart(b, o)

LEMMA OrderedInit ==
  ASSUME DashboardConstants, DashboardInit
  PROVE  Ordered
<1>1. db \in Databases /\ db.journal = {} /\ db.floor = 0 /\ db.last = 0 /\ db.tracking = TRUE
  <2>1. db \in [rows : Rows, journal : {{}}, last : {0}, epoch : {1}, floor : {0}, tracking : {TRUE}]
    BY DEF DashboardInit
  <2>2. {} \in SUBSET (Nat \X Records) /\ 0 \in Nat /\ 1 \in Nat /\ TRUE \in BOOLEAN
    OBVIOUS
  <2>3. {{}} \subseteq SUBSET (Nat \X Records) /\ {0} \subseteq Nat /\ {1} \subseteq Nat
    BY <2>2
  <2>4. db \in Databases
    BY <2>1, <2>3 DEF Databases
  <2> QED
    BY <2>1, <2>4
<1>2. TypeOK
  BY <1>1 DEF DashboardInit, TypeOK, Databases, NewWriter
<1>3. DbOK(db) /\ WriterOK
  BY <1>1 DEF DashboardInit, DbOK, WriterOK, JournalIsOn, NewWriter
<1> QED
  BY <1>2, <1>3 DEF DashboardInit, Ordered, BuildOK, Apart

(* A step of the writers changes the rows and the journal.                   *)
LEMMA OrderedByDb ==
  ASSUME DashboardConstants, Ordered, db' \in Databases, DbOK(db'),
         db.last <= db'.last, db.epoch <= db'.epoch,
         writer' \in [deferred : BOOLEAN, clearing : {"no", "tracked", "untracked"}],
         lost' \in BOOLEAN, refused' \in BOOLEAN, WriterOK',
         UNCHANGED <<now, versions, cached, builds>>
  PROVE  Ordered'
<1>1. TypeOK'
  BY DEF Ordered, TypeOK, Databases
<1>2. now \in Nat /\ db \in Databases
  BY DEF Ordered, TypeOK, Databases
<1>3. ASSUME NEW c, c \in Indexes \/ c \in Building, Past(c) PROVE Past(c)'
  <2>1. c.epoch \in Nat /\ c.rev \in Nat /\ c.at \in Nat
    BY <1>3 DEF Indexes, Building
  <2>2. db.last \in Nat /\ db.epoch \in Nat /\ db'.last \in Nat /\ db'.epoch \in Nat
    BY <1>2 DEF Databases
  <2> QED
    BY <1>3, <2>1, <2>2 DEF Past
<1>4. ASSUME NEW s \in Scopes, cached'[s] # NoIndex PROVE Past(cached[s])'
  <2>1. cached[s] \in Indexes /\ Past(cached[s]) /\ cached' = cached
    BY <1>4 DEF Ordered, TypeOK
  <2> QED
    BY <1>3, <2>1
<1>5. ASSUME NEW b \in Builders, builds[b] # Idle PROVE BuildOK(builds[b])'
  <2>1. builds[b] \in Building /\ BuildOK(builds[b])
    BY <1>5 DEF Ordered, TypeOK
  <2>2. Past(builds[b])'
    BY <1>3, <2>1 DEF BuildOK
  <2>3. builds[b].stale # NoIndex => Past(builds[b].stale)'
    <3>1. builds[b].stale \in Indexes \cup {NoIndex}
      BY <2>1 DEF Building
    <3> QED
      BY <1>3, <2>1, <3>1 DEF BuildOK
  <2> QED
    BY <2>1, <2>2, <2>3 DEF BuildOK
<1> QED
  BY <1>1, <1>4, <1>5 DEF Ordered, Apart

LEMMA OrderedWriter ==
  ASSUME DashboardConstants, Ordered, WriterStep
  PROVE  Ordered'
<1>1. db \in Databases /\ DbOK(db) /\ WriterOK
      /\ writer \in [deferred : BOOLEAN, clearing : {"no", "tracked", "untracked"}]
      /\ lost \in BOOLEAN /\ refused \in BOOLEAN
  BY DEF Ordered, TypeOK, Databases
<1>2. db.last \in Nat /\ db.epoch \in Nat
  BY <1>1 DEF Databases
<1>3. CASE Write
  <2>1. PICK touched \in SUBSET Records, new \in Rows : db' = Written(db, touched, new)
    BY <1>1, <1>3, WriteIsJournaled
  <2>2. db' \in Databases /\ DbOK(db') /\ db.last <= db'.last
    BY <1>1, <2>1, WrittenOf
  <2>3. db'.epoch = db.epoch /\ db'.tracking = db.tracking
    BY <1>1, <2>1 DEF Written, Databases
  <2>4. WriterOK'
    BY <1>1, <1>3, <2>3 DEF WriterOK, JournalIsOn, Write
  <2> QED
    BY <1>1, <1>2, <1>3, <2>2, <2>3, <2>4, OrderedByDb DEF Write
<1>4. CASE BeginBulk
  <2>1. db' = [Emptied(db) EXCEPT !.tracking = FALSE]
    BY <1>4 DEF BeginBulk
  <2>2. db' \in Databases /\ DbOK(db') /\ db.last = db'.last /\ db'.epoch = db.epoch + 1 /\ ~db'.tracking
    BY <1>1, <2>1, EmptiedOf DEF Databases, DbOK
  <2>3. writer' = [writer EXCEPT !.deferred = TRUE] /\ writer.clearing = "no"
    BY <1>4 DEF BeginBulk
  <2>4. WriterOK'
    BY <1>1, <2>2, <2>3 DEF WriterOK, JournalIsOn
  <2>5. writer' \in [deferred : BOOLEAN, clearing : {"no", "tracked", "untracked"}]
    BY <1>1, <2>3
  <2>6. db.last <= db'.last /\ db.epoch <= db'.epoch
    BY <1>2, <2>2
  <2> QED
    BY <1>1, <1>2, <1>4, <2>2, <2>4, <2>5, <2>6, OrderedByDb DEF BeginBulk
<1>5. CASE EndBulk
  <2>1. db' = [Emptied(db) EXCEPT !.tracking = TRUE]
    BY <1>5 DEF EndBulk
  <2>2. db' \in Databases /\ DbOK(db') /\ db.last = db'.last /\ db'.epoch = db.epoch + 1 /\ db'.tracking
    BY <1>1, <2>1, EmptiedOf DEF Databases, DbOK
  <2>3. writer' = [writer EXCEPT !.deferred = FALSE] /\ writer.clearing = "no"
    BY <1>5 DEF EndBulk
  <2>4. WriterOK'
    BY <1>1, <2>2, <2>3 DEF WriterOK, JournalIsOn
  <2>5. writer' \in [deferred : BOOLEAN, clearing : {"no", "tracked", "untracked"}]
    BY <1>1, <2>3
  <2>6. db.last <= db'.last /\ db.epoch <= db'.epoch
    BY <1>2, <2>2
  <2> QED
    BY <1>1, <1>2, <1>5, <2>2, <2>4, <2>5, <2>6, OrderedByDb DEF EndBulk
<1>6. CASE ClearStart
  <2>1. db' = [db EXCEPT !.tracking = FALSE]
    BY <1>6 DEF ClearStart
  <2>2. db' \in Databases /\ DbOK(db') /\ db.last = db'.last /\ db'.epoch = db.epoch /\ ~db'.tracking
    BY <1>1, <2>1 DEF Databases, DbOK
  <2>3. writer' = [writer EXCEPT !.clearing = IF db.tracking THEN "tracked" ELSE "untracked"]
        /\ writer.clearing = "no"
    BY <1>6 DEF ClearStart
  <2>4. WriterOK'
    BY <1>1, <1>6, <2>2, <2>3 DEF WriterOK, JournalIsOn, ClearStart
  <2> QED
    BY <1>1, <1>2, <1>6, <2>2, <2>3, <2>4, OrderedByDb DEF ClearStart
<1>7. CASE ClearTable
  <2>1. PICK t \in Tables :
            db' = Written(db, {r \in Records : TableOf[r] = t}, [r \in Records |-> Absent])
    BY <1>7 DEF ClearTable
  <2>2. [r \in Records |-> Absent] \in Rows
    BY DEF Rows
  <2>3. db' \in Databases /\ DbOK(db') /\ db.last <= db'.last
    BY <1>1, <2>1, <2>2, WrittenOf
  <2>4. db'.epoch = db.epoch /\ db'.tracking = db.tracking
    BY <1>1, <2>1 DEF Written, Databases
  <2>5. WriterOK'
    BY <1>1, <1>7, <2>4 DEF WriterOK, JournalIsOn, ClearTable
  <2> QED
    BY <1>1, <1>2, <1>7, <2>3, <2>4, <2>5, OrderedByDb DEF ClearTable
<1>8. CASE ClearEnd
  <2>1. writer' = [writer EXCEPT !.clearing = "no"] /\ UNCHANGED <<now, versions, cached, builds, lost>>
    BY <1>8 DEF ClearEnd
  <2>2. CASE writer.clearing = "untracked"
    <3>1. db' = [db EXCEPT !.journal = {}] /\ refused' = refused
      BY <1>8, <2>2 DEF ClearEnd
    <3>2. db' \in Databases /\ DbOK(db') /\ db.last = db'.last /\ db'.epoch = db.epoch
          /\ db'.tracking = db.tracking
      BY <1>1, <3>1 DEF Databases, DbOK
    <3>3. WriterOK'
      BY <1>1, <2>1, <2>2, <3>2 DEF WriterOK, JournalIsOn
    <3> QED
      BY <1>1, <1>2, <2>1, <3>1, <3>2, <3>3, OrderedByDb
  <2>3. CASE writer.clearing # "untracked"
    <3>1. PICK reset \in Resets(db) :
              db' = [reset EXCEPT !.tracking = TRUE] /\ refused' = (refused \/ reset = db)
      BY <1>8, <2>3 DEF ClearEnd
    <3>2. reset \in Databases /\ DbOK(reset) /\ reset.last = db.last /\ db.epoch <= reset.epoch
      BY <1>1, <1>2, EmptiedOf DEF Resets
    <3>3. db' \in Databases /\ DbOK(db') /\ db'.last = db.last /\ db.epoch <= db'.epoch /\ db'.tracking
      BY <3>1, <3>2 DEF Databases, DbOK
    <3>4. WriterOK'
      BY <1>1, <2>1, <3>3 DEF WriterOK, JournalIsOn
    <3>5. refused' \in BOOLEAN
      BY <1>1, <3>1
    <3> QED
      BY <1>1, <1>2, <2>1, <3>3, <3>4, <3>5, OrderedByDb
  <2> QED
    BY <2>2, <2>3
<1>9. CASE WriterLost
  <2>1. lost' = (lost \/ ~db.tracking) /\ UNCHANGED <<now, db, versions, cached, builds, refused>>
    BY <1>9 DEF WriterLost
  <2>2. writer' = NewWriter \/ writer' = [writer EXCEPT !.clearing = "no"]
    BY <1>9 DEF WriterLost
  <2>3. writer' \in [deferred : BOOLEAN, clearing : {"no", "tracked", "untracked"}]
    <3>1. CASE writer' = NewWriter
      BY <3>1 DEF NewWriter
    <3>2. CASE writer' = [writer EXCEPT !.clearing = "no"]
      BY <1>1, <3>2
    <3> QED
      BY <2>2, <3>1, <3>2
  <2>4. writer'.clearing = "no"
    BY <1>1, <2>2 DEF NewWriter
  <2>5. db.tracking \in BOOLEAN
    BY <1>1 DEF Databases
  <2>6. WriterOK'
    BY <1>1, <2>1, <2>4, <2>5 DEF WriterOK, JournalIsOn
  <2>7. lost' \in BOOLEAN
    BY <1>1, <2>1, <2>5
  <2> QED
    BY <1>1, <1>2, <2>1, <2>3, <2>6, <2>7, OrderedByDb
<1> QED
  BY <1>3, <1>4, <1>5, <1>6, <1>7, <1>8, <1>9 DEF WriterStep

(* A computation of an index starts or reads.                                *)
LEMMA OrderedByBuild ==
  ASSUME DashboardConstants, Ordered, NEW b \in Builders, NEW m \in Building, BuildOK(m),
         builds' = [builds EXCEPT ![b] = m],
         \A o \in Builders : builds[o] # Idle /\ o # b =>
             builds[o].scope # m.scope \/ builds[o].version # m.version,
         UNCHANGED <<now, db, writer, versions, cached, lost, refused>>
  PROVE  Ordered'
<1>1. builds \in [Builders -> Building \cup {Idle}]
  BY DEF Ordered, TypeOK
<1>2. TypeOK'
  BY <1>1 DEF Ordered, TypeOK
<1>3. \A o \in Builders : builds'[o] = IF o = b THEN m ELSE builds[o]
  BY <1>1
<1>4. DbOK(db)' /\ WriterOK' /\ (\A s \in Scopes : cached'[s] # NoIndex => Past(cached[s])')
  BY DEF Ordered, WriterOK, JournalIsOn, Past
<1>5. ASSUME NEW o \in Builders, builds'[o] # Idle PROVE BuildOK(builds[o])'
  <2>1. BuildOK(builds'[o])
    BY <1>3, <1>5 DEF Ordered
  <2> QED
    BY <2>1 DEF BuildOK, Past
<1>6. ASSUME NEW a \in Builders, NEW o \in Builders PROVE Apart(a, o)'
  <2>1. CASE a = b
    BY <1>3, <2>1 DEF Apart
  <2>2. CASE o = b
    BY <1>3, <2>2 DEF Apart
  <2>3. CASE a # b /\ o # b
    BY <1>3, <2>3 DEF Ordered, Apart
  <2> QED
    BY <2>1, <2>2, <2>3
<1> QED
  BY <1>2, <1>4, <1>5, <1>6 DEF Ordered

(* A computation ends; what it stores is not ahead of the journal.           *)
LEMMA OrderedByEnd ==
  ASSUME DashboardConstants, Ordered, NEW b \in Builders,
         builds' = [builds EXCEPT ![b] = Idle],
         cached' \in [Scopes -> Indexes \cup {NoIndex}],
         \A s \in Scopes : cached'[s] # NoIndex => Past(cached'[s]),
         db' \in Databases, DbOK(db'),
         db'.last = db.last, db'.epoch = db.epoch, db'.tracking = db.tracking,
         UNCHANGED <<now, writer, versions, lost, refused>>
  PROVE  Ordered'
<1>1. builds \in [Builders -> Building \cup {Idle}]
  BY DEF Ordered, TypeOK
<1>2. TypeOK'
  BY <1>1 DEF Ordered, TypeOK, Databases
<1>3. \A o \in Builders : builds'[o] = IF o = b THEN Idle ELSE builds[o]
  BY <1>1
<1>4. WriterOK' /\ (\A s \in Scopes : cached'[s] # NoIndex => Past(cached[s])')
  BY DEF Ordered, WriterOK, JournalIsOn, Past
<1>5. ASSUME NEW o \in Builders, builds'[o] # Idle PROVE BuildOK(builds[o])'
  <2>1. builds'[o] = builds[o] /\ BuildOK(builds[o])
    BY <1>3, <1>5 DEF Ordered
  <2> QED
    BY <2>1 DEF BuildOK, Past
<1>6. ASSUME NEW a \in Builders, NEW o \in Builders PROVE Apart(a, o)'
  BY <1>3 DEF Ordered, Apart
<1> QED
  BY <1>2, <1>4, <1>5, <1>6 DEF Ordered

LEMMA OrderedStart ==
  ASSUME DashboardConstants, Ordered, NEW b \in Builders, NEW s \in Scopes, StartIndex(b, s)
  PROVE  Ordered'
<1> DEFINE m == [phase |-> "position", scope |-> s, version |-> versions[s],
                 stale |-> cached[s], epoch |-> 0, rev |-> 0, at |-> 0,
                 rows |-> [r \in Records |-> Absent], left |-> {}]
<1>1. /\ versions[s] \in Nat /\ cached[s] \in Indexes \cup {NoIndex}
      /\ cached[s] # NoIndex => Past(cached[s])
      /\ db.last \in Nat /\ db.epoch \in Nat /\ now \in Nat
  BY DEF Ordered, TypeOK
<1>2. m \in Building
  BY <1>1 DEF Building, Rows
<1>3. BuildOK(m)
  BY <1>1 DEF BuildOK, Past
<1>4. builds' = [builds EXCEPT ![b] = m] /\ UNCHANGED <<now, db, writer, versions, cached, lost, refused>>
  BY DEF StartIndex
<1>5. \A o \in Builders : builds[o] # Idle /\ o # b =>
          builds[o].scope # m.scope \/ builds[o].version # m.version
  BY DEF StartIndex
<1> HIDE DEF m
<1> QED
  BY <1>2, <1>3, <1>4, <1>5, OrderedByBuild

(* What a step of a computation leaves alone.                                *)
LEMMA SameIndex ==
  ASSUME Ordered, NEW b \in Builders, builds[b] # Idle, NEW m \in Building,
         m.scope = builds[b].scope, m.version = builds[b].version
  PROVE  \A o \in Builders : builds[o] # Idle /\ o # b =>
             builds[o].scope # m.scope \/ builds[o].version # m.version
BY DEF Ordered, Apart

LEMMA OrderedPosition ==
  ASSUME DashboardConstants, Ordered, NEW b \in Builders, ReadPosition(b)
  PROVE  Ordered'
<1> DEFINE m == builds[b]
           at == [m EXCEPT !.epoch = db.epoch, !.rev = Revision(db), !.at = now, !.left = Records]
<1>1. m \in Building /\ m # Idle /\ m.phase = "position" /\ BuildOK(m)
  BY DEF ReadPosition, Idle, Ordered, TypeOK
<1>2. db \in Databases /\ DbOK(db) /\ now \in Nat
  BY DEF Ordered, TypeOK, Databases
<1>3. Revision(db) \in Nat /\ Revision(db) <= db.last /\ db.epoch \in Nat /\ db.last \in Nat
  BY <1>2, RevisionOf DEF Databases
<1>4. UNCHANGED <<now, db, writer, versions, cached, lost, refused>>
  BY DEF ReadPosition
<1>5. CASE m.stale = NoIndex
  <2> DEFINE n == [at EXCEPT !.phase = "scan"]
  <2>1. builds' = [builds EXCEPT ![b] = n]
    BY <1>5 DEF ReadPosition
  <2>2. n \in Building
    BY <1>1, <1>2, <1>3 DEF Building
  <2>3. n.scope = m.scope /\ n.version = m.version
    BY <1>1 DEF Building
  <2>4. BuildOK(n)
    BY <1>1, <1>2, <1>3, <1>5 DEF Building, BuildOK, Past
  <2> HIDE DEF n
  <2> QED
    BY <1>1, <1>4, <2>1, <2>2, <2>3, <2>4, SameIndex, OrderedByBuild
<1>6. CASE m.stale # NoIndex /\ Accepted(m.stale)
  <2> DEFINE n == [at EXCEPT !.phase = "delta", !.rows = m.stale.rows]
  <2>1. builds' = [builds EXCEPT ![b] = n]
    BY <1>6 DEF ReadPosition
  <2>2. m.stale \in Indexes
    BY <1>1, <1>6 DEF Building
  <2>3. n \in Building
    BY <1>1, <1>2, <1>3, <2>2 DEF Building, Indexes
  <2>4. n.scope = m.scope /\ n.version = m.version
    BY <1>1 DEF Building
  <2>5. n.stale = m.stale /\ n.epoch = db.epoch /\ n.rev = Revision(db) /\ n.at = now /\ n.phase = "delta"
    BY <1>1 DEF Building
  <2>6. BuildOK(n)
    BY <1>1, <1>2, <1>3, <1>6, <2>4, <2>5 DEF BuildOK, Past, Accepted
  <2> HIDE DEF n
  <2> QED
    BY <1>1, <1>4, <2>1, <2>3, <2>4, <2>6, SameIndex, OrderedByBuild
<1>7. CASE m.stale # NoIndex /\ ~Accepted(m.stale)
  <2> DEFINE n == [m EXCEPT !.stale = NoIndex]
  <2>1. builds' = [builds EXCEPT ![b] = n]
    BY <1>7 DEF ReadPosition
  <2>2. n \in Building
    BY <1>1 DEF Building
  <2>3. n.scope = m.scope /\ n.version = m.version
    BY <1>1 DEF Building
  <2>4. BuildOK(n)
    BY <1>1 DEF Building, BuildOK, Past
  <2> HIDE DEF n
  <2> QED
    BY <1>1, <1>4, <2>1, <2>2, <2>3, <2>4, SameIndex, OrderedByBuild
<1> QED
  BY <1>5, <1>6, <1>7

(* A batch of rows, or the changed rows of a table.                          *)
LEMMA OrderedRead ==
  ASSUME DashboardConstants, Ordered, NEW b \in Builders, builds[b] # Idle,
         NEW rows \in Rows, NEW unread \in SUBSET Records,
         builds' = [builds EXCEPT ![b] = [builds[b] EXCEPT !.rows = rows, !.left = unread]],
         UNCHANGED <<now, db, writer, versions, cached, lost, refused>>
  PROVE  Ordered'
<1> DEFINE m == builds[b]
           n == [m EXCEPT !.rows = rows, !.left = unread]
<1>1. m \in Building /\ BuildOK(m)
  BY DEF Ordered, TypeOK
<1>2. n \in Building
  BY <1>1 DEF Building
<1>3. n.scope = m.scope /\ n.version = m.version
  BY <1>1 DEF Building
<1>4. BuildOK(n)
  BY <1>1 DEF Building, BuildOK, Past
<1>5. builds' = [builds EXCEPT ![b] = n]
  OBVIOUS
<1> HIDE DEF n
<1> QED
  BY ZenonT(40), <1>1, <1>2, <1>3, <1>4, <1>5, SameIndex, OrderedByBuild

(* The rows of a batch, as an update of the record.                          *)
LEMMA BatchRead ==
  ASSUME DashboardConstants, Ordered, NEW b \in Builders, ReadBatch(b)
  PROVE  \E batch \in SUBSET builds[b].left, rows \in Rows :
            /\ builds' = [builds EXCEPT ![b] =
                    [builds[b] EXCEPT !.rows = rows, !.left = builds[b].left \ batch]]
            /\ \A r \in Records : rows[r] = IF r \in batch THEN db.rows[r] ELSE builds[b].rows[r]
<1> DEFINE m == builds[b]
<1>1. m \in Building /\ db.rows \in Rows
  BY DEF ReadBatch, Idle, Ordered, TypeOK
<1>2. PICK batch \in SUBSET m.left :
          builds' = [builds EXCEPT ![b] =
                [m EXCEPT !.rows = [r \in Records |-> IF r \in batch THEN db.rows[r] ELSE @[r]],
                          !.left = @ \ batch]]
  BY DEF ReadBatch
<1> DEFINE rows == [r \in Records |-> IF r \in batch THEN db.rows[r] ELSE m.rows[r]]
<1>3. rows \in Rows
  BY <1>1 DEF Rows, Building
<1>4. \A r \in Records : rows[r] = IF r \in batch THEN db.rows[r] ELSE builds[b].rows[r]
  OBVIOUS
<1>5. builds' = [builds EXCEPT ![b] = [builds[b] EXCEPT !.rows = rows, !.left = builds[b].left \ batch]]
  BY <1>2
<1> HIDE DEF rows
<1> QED
  BY <1>3, <1>4, <1>5

LEMMA DeltaRead ==
  ASSUME DashboardConstants, Ordered, NEW b \in Builders, NEW t \in Tables, ReadDelta(b, t)
  PROVE  \E read \in SUBSET builds[b].left, rows \in Rows :
            /\ read = {r \in builds[b].left : TableOf[r] = t}
            /\ builds' = [builds EXCEPT ![b] =
                    [builds[b] EXCEPT !.rows = rows, !.left = builds[b].left \ read]]
            /\ \A r \in Records : rows[r] =
                    IF r \in read /\ ChangedBetween(db, r, builds[b].stale.rev, builds[b].rev)
                    THEN db.rows[r] ELSE builds[b].rows[r]
<1> DEFINE m == builds[b]
           read == {r \in m.left : TableOf[r] = t}
           rows == [r \in Records |-> IF r \in read /\ ChangedBetween(db, r, m.stale.rev, m.rev)
                                      THEN db.rows[r] ELSE m.rows[r]]
<1>1. m \in Building /\ db.rows \in Rows
  BY DEF ReadDelta, Idle, Ordered, TypeOK
<1>2. rows \in Rows
  BY <1>1 DEF Rows, Building
<1>3. builds' = [builds EXCEPT ![b] = [builds[b] EXCEPT !.rows = rows, !.left = builds[b].left \ read]]
  BY DEF ReadDelta
<1>4. \A r \in Records : rows[r] =
          IF r \in read /\ ChangedBetween(db, r, m.stale.rev, m.rev) THEN db.rows[r] ELSE m.rows[r]
  OBVIOUS
<1>5. read \in SUBSET m.left
  OBVIOUS
<1> HIDE DEF rows
<1> QED
  BY <1>2, <1>3, <1>4, <1>5

(* What storeDashboardStatsCache() stores, and what it prunes the journal    *)
(* through.                                                                  *)
LEMMA ResultOf ==
  ASSUME DashboardConstants, Ordered, NEW b \in Builders, builds[b] # Idle
  PROVE  LET m == builds[b]
             index == Result(m)
             caches == [cached EXCEPT ![m.scope] = index]
         IN  /\ m.scope \in Scopes /\ index \in Indexes /\ index # NoIndex /\ Past(index)
             /\ index.epoch = m.epoch /\ index.rev = m.rev
             /\ caches \in [Scopes -> Indexes \cup {NoIndex}]
             /\ Through(caches, index.epoch) \in Nat /\ Through(caches, index.epoch) <= db.last
             /\ \A x \in Scopes : caches[x] # NoIndex /\ caches[x].epoch = index.epoch
                    => Through(caches, index.epoch) <= caches[x].rev
<1> DEFINE m == builds[b]
           index == Result(m)
           caches == [cached EXCEPT ![m.scope] = index]
           time == IF m.phase = "delta" THEN now ELSE m.at
<1>1. m \in Building /\ BuildOK(m) /\ now \in Nat /\ cached \in [Scopes -> Indexes \cup {NoIndex}]
      /\ db.last \in Nat
  BY DEF Ordered, TypeOK
<1>2. /\ m.scope \in Scopes /\ m.version \in Nat /\ m.epoch \in Nat /\ m.rev \in Nat
      /\ m.at \in Nat /\ m.rows \in Rows
  BY <1>1 DEF Building
<1>3. Filtered(m.rows, m.scope, time) \in Rows
  BY <1>2 DEF Filtered, Rows
<1>4. time \in Nat /\ time <= now
  BY <1>1, <1>2 DEF BuildOK, Past
<1>5. index = [version |-> m.version, epoch |-> m.epoch, rev |-> m.rev, at |-> time,
               rows |-> Filtered(m.rows, m.scope, time)]
  BY DEF Result
<1>6. index \in Indexes /\ index.epoch = m.epoch /\ index.rev = m.rev /\ index.at = time
  <2> HIDE DEF time, m, index
  <2> QED
    BY <1>2, <1>3, <1>4, <1>5 DEF Indexes
<1>7. Past(index) /\ index # NoIndex
  <2> HIDE DEF index, time
  <2> QED
    BY <1>1, <1>4, <1>6 DEF BuildOK, Past, DashboardConstants
<1>8. caches \in [Scopes -> Indexes \cup {NoIndex}] /\ caches[m.scope] = index
  <2> HIDE DEF index
  <2> QED
    BY <1>1, <1>2, <1>6
<1>9. /\ Through(caches, index.epoch) \in Nat
      /\ \A x \in Scopes : caches[x] # NoIndex /\ caches[x].epoch = index.epoch
             => Through(caches, index.epoch) <= caches[x].rev
  <2> HIDE DEF caches, index
  <2> QED
    BY <1>2, <1>7, <1>8, ThroughOf
<1>10. Through(caches, index.epoch) <= db.last
  <2>1. Through(caches, index.epoch) <= caches[m.scope].rev
    <3> HIDE DEF caches, index
    <3> QED
      BY <1>2, <1>7, <1>8, <1>9
  <2>2. index.rev <= db.last /\ index.rev \in Nat
    BY <1>2, <1>6, <1>7 DEF Past
  <2> HIDE DEF caches, index
  <2> QED
    BY <1>1, <1>8, <1>9, <2>1, <2>2
<1> HIDE DEF caches, index
<1> QED
  BY <1>2, <1>6, <1>7, <1>8, <1>9, <1>10 DEF caches, index

LEMMA OrderedStore ==
  ASSUME DashboardConstants, Ordered, NEW b \in Builders, Store(b)
  PROVE  Ordered'
<1> DEFINE m == builds[b]
           index == Result(m)
           caches == [cached EXCEPT ![m.scope] = index]
<1>1. m # Idle
  BY DEF Store, Idle
<1>2. /\ m.scope \in Scopes /\ index \in Indexes /\ Past(index)
      /\ index.epoch \in Nat
      /\ caches \in [Scopes -> Indexes \cup {NoIndex}]
      /\ Through(caches, index.epoch) \in Nat /\ Through(caches, index.epoch) <= db.last
  BY <1>1, ResultOf DEF Indexes
<1>3. db \in Databases /\ DbOK(db) /\ cached \in [Scopes -> Indexes \cup {NoIndex}]
      /\ \A s \in Scopes : cached[s] # NoIndex => Past(cached[s])
  BY DEF Ordered, TypeOK, Databases
<1>4. builds' = [builds EXCEPT ![b] = Idle] /\ UNCHANGED <<now, writer, versions, lost, refused>>
  BY DEF Store
<1>5. CASE m.version = versions[m.scope]
  <2>1. cached' = caches /\ db' \in {db, Pruned(db, index.epoch, Through(caches, index.epoch))}
    BY <1>5 DEF Store
  <2> HIDE DEF index
  <2>2. cached' \in [Scopes -> Indexes \cup {NoIndex}]
        /\ \A s \in Scopes : cached'[s] # NoIndex => Past(cached'[s])
    BY <1>2, <1>3, <2>1
  <2> HIDE DEF caches
  <2>3. db' \in Databases /\ DbOK(db') /\ db'.last = db.last /\ db'.epoch = db.epoch
        /\ db'.tracking = db.tracking
    <3>1. CASE db' = db
      BY <1>3, <3>1
    <3>2. CASE db' = Pruned(db, index.epoch, Through(caches, index.epoch))
      BY SMTT(40), <1>2, <1>3, <3>2, PrunedOf DEF Databases
    <3> QED
      BY <2>1, <3>1, <3>2
  <2> QED
    BY <1>4, <2>2, <2>3, OrderedByEnd
<1>6. CASE m.version # versions[m.scope]
  <2>1. UNCHANGED <<cached, db>>
    BY <1>6 DEF Store
  <2> QED
    BY <1>3, <1>4, <2>1, OrderedByEnd
<1> QED
  BY <1>5, <1>6

LEMMA OrderedRestart ==
  ASSUME DashboardConstants, Ordered, Restart
  PROVE  Ordered'
<1>1. TypeOK'
  BY DEF Ordered, TypeOK, Restart, NewWriter
<1>2. DbOK(db)' /\ WriterOK'
  BY DEF Ordered, TypeOK, Restart, NewWriter, WriterOK, JournalIsOn
<1>3. \A s \in Scopes : cached'[s] = NoIndex
  BY DEF Restart
<1>4. \A b \in Builders : builds'[b] = Idle
  BY DEF Restart
<1> QED
  BY <1>1, <1>2, <1>3, <1>4 DEF Ordered, Apart

LEMMA OrderedInvalidate ==
  ASSUME DashboardConstants, Ordered, Invalidate
  PROVE  Ordered'
<1>1. PICK S \in {Scopes} \cup {Affected(i) : i \in Instances} :
        /\ versions' = [s \in Scopes |-> IF s \in S THEN versions[s] + 1 ELSE versions[s]]
        /\ \/ /\ cached' = [s \in Scopes |-> NoIndex]
              /\ db' \in Resets(db)
              /\ refused' = (refused \/
                    (db' = db /\ \E b \in Builders : Updating(b) /\ builds[b].scope \notin S))
           \/ UNCHANGED <<cached, db, refused>>
  BY DEF Invalidate
<1>2. UNCHANGED <<now, writer, builds, lost>>
  BY DEF Invalidate
<1>3. db \in Databases /\ DbOK(db) /\ WriterOK /\ refused \in BOOLEAN /\ now \in Nat
  BY DEF Ordered, TypeOK, Databases
<1>4. db' \in Databases /\ DbOK(db') /\ db'.last = db.last /\ db.epoch <= db'.epoch
      /\ db'.tracking = db.tracking
  BY <1>1, <1>3, EmptiedOf DEF Resets, Databases
<1>5. refused' \in BOOLEAN
  BY <1>1, <1>3
<1>6. versions' \in [Scopes -> Nat] /\ \A s \in Scopes : versions[s] <= versions'[s]
  BY <1>1 DEF Ordered, TypeOK
<1>7. cached' \in [Scopes -> Indexes \cup {NoIndex}]
      /\ \A s \in Scopes : cached'[s] # NoIndex => cached'[s] = cached[s]
  BY <1>1 DEF Ordered, TypeOK
<1>8. TypeOK'
  BY <1>2, <1>4, <1>5, <1>6, <1>7 DEF Ordered, TypeOK, Databases
<1>9. WriterOK'
  BY <1>2, <1>3, <1>4 DEF WriterOK, JournalIsOn
<1>10. ASSUME NEW c, c \in Indexes \/ c \in Building, Past(c) PROVE Past(c)'
  <2>1. c.epoch \in Nat /\ c.rev \in Nat /\ c.at \in Nat
    BY <1>10 DEF Indexes, Building
  <2>2. db.last \in Nat /\ db.epoch \in Nat /\ db'.epoch \in Nat
    BY <1>3, <1>4 DEF Databases
  <2> QED
    BY <1>2, <1>4, <1>10, <2>1, <2>2 DEF Past
<1>11. ASSUME NEW s \in Scopes, cached'[s] # NoIndex PROVE Past(cached[s])'
  <2>1. cached[s] \in Indexes /\ Past(cached[s]) /\ cached'[s] = cached[s]
    BY <1>7, <1>11 DEF Ordered, TypeOK
  <2> QED
    BY <1>10, <2>1 DEF Past
<1>12. ASSUME NEW b \in Builders, builds'[b] # Idle PROVE BuildOK(builds[b])'
  <2>1. builds[b] \in Building /\ BuildOK(builds[b]) /\ builds'[b] = builds[b]
    BY <1>2, <1>12 DEF Ordered, TypeOK
  <2>2. Past(builds[b])'
    BY <1>2, <1>10, <2>1 DEF BuildOK
  <2>3. builds[b].stale # NoIndex => Past(builds[b].stale)'
    <3>1. builds[b].stale \in Indexes \cup {NoIndex}
      BY <2>1 DEF Building
    <3> QED
      BY <1>2, <1>10, <2>1, <3>1 DEF BuildOK
  <2>4. builds[b].version <= versions'[builds[b].scope]
    <3>1. builds[b].scope \in Scopes /\ builds[b].version \in Nat
          /\ builds[b].version <= versions[builds[b].scope]
      BY <2>1 DEF Building, BuildOK
    <3>2. versions[builds[b].scope] \in Nat /\ versions'[builds[b].scope] \in Nat
          /\ versions[builds[b].scope] <= versions'[builds[b].scope]
      BY <1>6, <3>1 DEF Ordered, TypeOK
    <3> QED
      BY <3>1, <3>2
  <2> QED
    BY <1>2, <2>1, <2>2, <2>3, <2>4 DEF BuildOK
<1>13. \A a, o \in Builders : Apart(a, o)'
  BY <1>2 DEF Ordered, Apart
<1> QED
  BY <1>4, <1>8, <1>9, <1>11, <1>12, <1>13 DEF Ordered

LEMMA OrderedTick ==
  ASSUME DashboardConstants, Ordered, Tick
  PROVE  Ordered'
<1>1. now \in Nat /\ now' = now + 1 /\ UNCHANGED <<db, writer, versions, cached, builds, lost, refused>>
  BY DEF Ordered, TypeOK, Tick
<1>2. TypeOK' /\ DbOK(db)' /\ WriterOK' /\ (\A a, o \in Builders : Apart(a, o)')
  BY <1>1 DEF Ordered, TypeOK, WriterOK, JournalIsOn, Apart
<1>3. ASSUME NEW c, c \in Indexes \/ c \in Building, Past(c) PROVE Past(c)'
  <2>1. c.at \in Nat
    BY <1>3 DEF Indexes, Building
  <2> QED
    BY <1>1, <1>3, <2>1 DEF Past
<1>4. ASSUME NEW s \in Scopes, cached'[s] # NoIndex PROVE Past(cached[s])'
  <2>1. cached[s] \in Indexes /\ Past(cached[s]) /\ cached' = cached
    BY <1>1, <1>4 DEF Ordered, TypeOK
  <2> QED
    BY <1>3, <2>1 DEF Past
<1>5. ASSUME NEW b \in Builders, builds'[b] # Idle PROVE BuildOK(builds[b])'
  <2>1. builds[b] \in Building /\ BuildOK(builds[b]) /\ builds' = builds
    BY <1>1, <1>5 DEF Ordered, TypeOK
  <2>2. Past(builds[b])'
    BY <1>3, <2>1 DEF BuildOK, Past
  <2>3. builds[b].stale # NoIndex => Past(builds[b].stale)'
    <3>1. builds[b].stale \in Indexes \cup {NoIndex}
      BY <2>1 DEF Building
    <3> QED
      BY <1>3, <2>1, <3>1 DEF BuildOK, Past
  <2> QED
    BY <1>1, <2>1, <2>2, <2>3 DEF BuildOK
<1> QED
  BY <1>2, <1>4, <1>5 DEF Ordered

LEMMA OrderedFail ==
  ASSUME DashboardConstants, Ordered, NEW b \in Builders, FailIndex(b)
  PROVE  Ordered'
<1>1. db \in Databases /\ DbOK(db) /\ cached \in [Scopes -> Indexes \cup {NoIndex}]
      /\ \A s \in Scopes : cached[s] # NoIndex => Past(cached[s])
  BY DEF Ordered, TypeOK, Databases
<1> QED
  BY <1>1, OrderedByEnd DEF FailIndex

LEMMA OrderedStep ==
  ASSUME DashboardConstants, Ordered, [DashboardNext]_vars
  PROVE  Ordered'
<1>1. CASE UNCHANGED vars
  BY <1>1 DEF vars, Ordered, TypeOK, WriterOK, JournalIsOn, Past, BuildOK, Apart
<1>2. CASE WriterStep
  BY <1>2, OrderedWriter
<1>3. CASE Restart
  BY <1>3, OrderedRestart
<1>4. CASE Invalidate
  BY <1>4, OrderedInvalidate
<1>5. CASE Tick
  BY <1>5, OrderedTick
<1>6. ASSUME NEW b \in Builders, IndexStep(b) PROVE Ordered'
  <2>1. ASSUME NEW s \in Scopes, StartIndex(b, s) PROVE Ordered'
    BY <2>1, OrderedStart
  <2>2. CASE ReadPosition(b)
    BY <2>2, OrderedPosition
  <2>3. CASE ReadBatch(b)
    <3>1. PICK batch \in SUBSET builds[b].left, rows \in Rows :
              builds' = [builds EXCEPT ![b] =
                    [builds[b] EXCEPT !.rows = rows, !.left = builds[b].left \ batch]]
      BY <2>3, BatchRead
    <3>2. builds[b] # Idle /\ builds[b] \in Building
      BY <2>3 DEF ReadBatch, Idle, Ordered, TypeOK
    <3>3. builds[b].left \ batch \in SUBSET Records
      BY <3>2 DEF Building
    <3> QED
      BY <2>3, <3>1, <3>2, <3>3, OrderedRead DEF ReadBatch
  <2>4. ASSUME NEW t \in Tables, ReadDelta(b, t) PROVE Ordered'
    <3>1. PICK read \in SUBSET builds[b].left, rows \in Rows :
              builds' = [builds EXCEPT ![b] =
                    [builds[b] EXCEPT !.rows = rows, !.left = builds[b].left \ read]]
      BY <2>4, DeltaRead
    <3>2. builds[b] # Idle /\ builds[b] \in Building
      BY <2>4 DEF ReadDelta, Idle, Ordered, TypeOK
    <3>3. builds[b].left \ read \in SUBSET Records
      BY <3>2 DEF Building
    <3> QED
      BY ZenonT(40), <2>4, <3>1, <3>2, <3>3, OrderedRead DEF ReadDelta
  <2>5. CASE Store(b)
    BY <2>5, OrderedStore
  <2>6. CASE FailIndex(b)
    BY <2>6, OrderedFail
  <2> QED
    BY <1>6, <2>1, <2>2, <2>3, <2>4, <2>5, <2>6 DEF IndexStep
<1> QED
  BY <1>1, <1>2, <1>3, <1>4, <1>5, <1>6 DEF DashboardNext

-----------------------------------------------------------------------------
(* The contents of the indexes and of the computations under way.            *)

CacheOK(s) ==
    cached[s] # NoIndex /\ cached[s].epoch = db.epoch /\ db.floor <= cached[s].rev
        => Repairable(db, cached[s], s)

Valid(m) == m.version = versions[m.scope]

(* The index that an update started from is the one that is replaced.        *)
StaleOK(m) ==
    m.stale # NoIndex /\ Valid(m) /\ m.stale.epoch = db.epoch => cached[m.scope] = m.stale

DeltaOK(m) ==
    m.phase = "delta" /\ Valid(m) /\ m.epoch = db.epoch =>
        /\ db.floor <= m.stale.rev
        /\ \A r \in Records :
              IF r \in m.left THEN m.rows[r] = m.stale.rows[r]
              ELSE ChangedSince(db, r, m.rev) \/ Matches(db, m.rows[r], r, m.scope, m.stale.at)

ScanOK(m) ==
    m.phase = "scan" /\ m.epoch = db.epoch /\ db.floor <= m.rev =>
        \A r \in Records \ m.left : ChangedSince(db, r, m.rev) \/ m.rows[r] = db.rows[r]

Content ==
    db.tracking /\ ~refused =>
        /\ \A s \in Scopes : CacheOK(s)
        /\ \A b \in Builders : builds[b] # Idle =>
              StaleOK(builds[b]) /\ DeltaOK(builds[b]) /\ ScanOK(builds[b])

(* From a database to a later one of the epoch: an entry is pruned only up   *)
(* to the floor, and a row changes only with an entry.                       *)
Carries(d, e, rev) ==
    \A r \in Records : \/ ChangedSince(e, r, rev)
                       \/ e.rows[r] = d.rows[r] /\ ~ChangedSince(d, r, rev)
Moves(d, e) ==
    /\ e.epoch = d.epoch /\ d.floor <= e.floor /\ d.floor \in Nat /\ e.floor \in Nat
    /\ \A rev \in Nat : rev <= d.last /\ e.floor <= rev => Carries(d, e, rev)

LEMMA WriteMoves ==
  ASSUME NEW d \in Databases, DbOK(d), d.tracking, NEW touched \in SUBSET Records, NEW new \in Rows
  PROVE  Moves(d, Written(d, touched, new)) /\ Written(d, touched, new).tracking
<1> DEFINE w == Written(d, touched, new)
<1>1. /\ w.epoch = d.epoch /\ w.floor = d.floor /\ w.tracking = d.tracking
      /\ w.journal = d.journal \cup ({d.last + 1} \X touched)
      /\ w.rows = [r \in Records |-> IF r \in touched THEN new[r] ELSE d.rows[r]]
  BY DEF Written, Databases
<1>2. d.floor \in Nat /\ d.last \in Nat
  BY DEF Databases
<1> HIDE DEF w
<1>3. ASSUME NEW rev \in Nat, rev <= d.last, NEW r \in Records
      PROVE  ChangedSince(w, r, rev) \/ (w.rows[r] = d.rows[r] /\ ~ChangedSince(d, r, rev))
  <2>1. CASE r \in touched
    <3>1. <<d.last + 1, r>> \in w.journal
      BY <1>1, <2>1
    <3>2. <<d.last + 1, r>>[1] = d.last + 1 /\ <<d.last + 1, r>>[2] = r
      OBVIOUS
    <3> QED
      BY <1>2, <1>3, <3>1, <3>2 DEF ChangedSince
  <2>2. CASE r \notin touched
    BY <1>1, <2>2 DEF ChangedSince
  <2> QED
    BY <2>1, <2>2
<1>4. Moves(d, w)
  BY <1>1, <1>2, <1>3 DEF Moves, Carries
<1> QED
  BY <1>1, <1>4 DEF w

LEMMA PruneMoves ==
  ASSUME NEW d \in Databases, DbOK(d), NEW epoch \in Nat, NEW through \in Nat, through <= d.last
  PROVE  Moves(d, Pruned(d, epoch, through))
<1> DEFINE p == Pruned(d, epoch, through)
<1>1. /\ p \in Databases /\ p.rows = d.rows /\ p.epoch = d.epoch /\ d.floor <= p.floor
      /\ p.journal \subseteq d.journal
      /\ \A j \in d.journal : j[1] > p.floor => j \in p.journal
  BY PrunedOf
<1> HIDE DEF p
<1>2. d.floor \in Nat /\ p.floor \in Nat /\ \A j \in d.journal : j[1] \in Nat
  BY <1>1 DEF Databases
<1>3. ASSUME NEW rev \in Nat, p.floor <= rev, NEW r \in Records, ChangedSince(d, r, rev)
      PROVE  ChangedSince(p, r, rev)
  <2>1. PICK j \in d.journal : j[2] = r /\ j[1] > rev
    BY <1>3 DEF ChangedSince
  <2>2. j \in p.journal
    BY <1>1, <1>2, <1>3, <2>1
  <2> QED
    BY <2>1, <2>2 DEF ChangedSince
<1>4. Moves(d, p)
  BY <1>1, <1>2, <1>3 DEF Moves, Carries
<1> QED
  BY <1>4 DEF p

LEMMA StayMoves ==
  ASSUME NEW d \in Databases
  PROVE  Moves(d, d)
<1>1. d.floor \in Nat
  BY DEF Databases
<1> QED
  BY <1>1 DEF Moves, Carries

LEMMA CacheMoves ==
  ASSUME NEW c, c.rev \in Nat, c.rev <= db.last, Moves(db, db'), NEW s,
         db.floor <= c.rev => Repairable(db, c, s), db'.floor <= c.rev
  PROVE  Repairable(db', c, s)
<1>1. Carries(db, db', c.rev) /\ db.floor <= c.rev
  BY DEF Moves
<1> QED
  BY <1>1 DEF Carries, Repairable, Matches

LEMMA DeltaMoves ==
  ASSUME NEW m \in Building, BuildOK(m), DeltaOK(m), Moves(db, db'), m.phase = "delta",
         Valid(m), m.epoch = db.epoch, db'.floor <= m.stale.rev
  PROVE  \A r \in Records :
              IF r \in m.left THEN m.rows[r] = m.stale.rows[r]
              ELSE ChangedSince(db', r, m.rev) \/ Matches(db', m.rows[r], r, m.scope, m.stale.at)
<1>1. m.stale \in Indexes /\ m.stale.rev \in Nat /\ m.rev \in Nat /\ m.stale.rev <= m.rev
      /\ m.rev <= db.last
  BY DEF Building, BuildOK, Past, Indexes
<1>2. Carries(db, db', m.rev)
  BY <1>1 DEF Moves
<1> QED
  BY <1>2 DEF DeltaOK, Carries, Matches

LEMMA ScanMoves ==
  ASSUME NEW m \in Building, BuildOK(m), ScanOK(m), Moves(db, db'), m.phase = "scan",
         m.epoch = db.epoch, db'.floor <= m.rev
  PROVE  \A r \in Records \ m.left : ChangedSince(db', r, m.rev) \/ m.rows[r] = db'.rows[r]
<1>1. m.rev \in Nat /\ m.rev <= db.last
  BY DEF Building, BuildOK, Past
<1>2. Carries(db, db', m.rev) /\ db.floor <= m.rev
  BY <1>1 DEF Moves
<1> QED
  BY <1>2 DEF ScanOK, Carries

(* A reset begins an epoch that no index and no computation is of.           *)
LEMMA ContentByEpoch ==
  ASSUME DashboardConstants, Ordered, db' \in Databases, db.epoch < db'.epoch,
         builds' = builds, \A s \in Scopes : cached'[s] \in {cached[s], NoIndex}
  PROVE  Content'
<1>1. db.epoch \in Nat /\ db'.epoch \in Nat
  BY DEF Ordered, TypeOK, Databases
<1>2. ASSUME NEW s \in Scopes PROVE CacheOK(s)'
  <2>1. cached'[s] # NoIndex => cached'[s] = cached[s] /\ cached[s].epoch \in Nat /\ cached[s].epoch <= db.epoch
    BY DEF Ordered, TypeOK, Past, Indexes
  <2> QED
    BY <1>1, <2>1 DEF CacheOK
<1>3. ASSUME NEW b \in Builders, builds'[b] # Idle
      PROVE  StaleOK(builds[b])' /\ DeltaOK(builds[b])' /\ ScanOK(builds[b])'
  <2>1. builds[b] \in Building /\ BuildOK(builds[b]) /\ builds' = builds
    BY <1>3 DEF Ordered, TypeOK
  <2>2. builds[b].epoch \in Nat /\ builds[b].epoch <= db.epoch
    BY <2>1 DEF Building, BuildOK, Past
  <2>3. builds[b].stale # NoIndex => builds[b].stale.epoch \in Nat /\ builds[b].stale.epoch <= db.epoch
    BY <2>1 DEF Building, BuildOK, Past, Indexes
  <2> QED
    BY <1>1, <2>1, <2>2, <2>3 DEF StaleOK, DeltaOK, ScanOK
<1> QED
  BY <1>2, <1>3 DEF Content

LEMMA ContentWriter ==
  ASSUME DashboardConstants, Ordered, Content, WriterStep
  PROVE  Content'
<1>1. db \in Databases /\ DbOK(db) /\ WriterOK /\ db.epoch \in Nat
  BY DEF Ordered, TypeOK, Databases
<1>2. CASE Write
  <2>1. PICK touched \in SUBSET Records, new \in Rows : db' = Written(db, touched, new)
    BY <1>1, <1>2, WriteIsJournaled
  <2>2. UNCHANGED <<now, writer, versions, cached, builds, lost, refused>>
    BY <1>2 DEF Write
  <2>3. CASE db.tracking /\ ~refused
    <3>1. Moves(db, db')
      BY <1>1, <2>1, <2>3, WriteMoves
    <3>2. db'.floor = db.floor /\ db'.epoch = db.epoch
      BY <1>1, <2>1 DEF Written, Databases
    <3>3. ASSUME NEW s \in Scopes PROVE CacheOK(s)'
      <4>1. cached[s] # NoIndex => cached[s].rev \in Nat /\ cached[s].rev <= db.last
        BY DEF Ordered, TypeOK, Past, Indexes
      <4>2. CacheOK(s)
        BY <2>3 DEF Content
      <4> QED
        BY <2>2, <3>1, <3>2, <4>1, <4>2, CacheMoves DEF CacheOK
    <3>4. ASSUME NEW b \in Builders, builds'[b] # Idle
          PROVE  StaleOK(builds[b])' /\ DeltaOK(builds[b])' /\ ScanOK(builds[b])'
      <4>1. builds[b] \in Building /\ BuildOK(builds[b])
            /\ StaleOK(builds[b]) /\ DeltaOK(builds[b]) /\ ScanOK(builds[b])
        BY <2>2, <2>3, <3>4 DEF Ordered, TypeOK, Content
      <4>2. StaleOK(builds[b])'
        BY <2>2, <3>2, <4>1 DEF StaleOK, Valid
      <4>3. DeltaOK(builds[b])'
        <5> SUFFICES ASSUME builds[b].phase = "delta", Valid(builds[b]), builds[b].epoch = db.epoch
                     PROVE  DeltaOK(builds[b])'
          BY <2>2, <3>2 DEF DeltaOK, Valid
        <5>1. db'.floor <= builds[b].stale.rev
          BY <3>2, <4>1 DEF DeltaOK
        <5> QED
          BY <2>2, <3>1, <4>1, <5>1, DeltaMoves DEF DeltaOK
      <4>4. ScanOK(builds[b])'
        BY <2>2, <3>1, <3>2, <4>1, ScanMoves DEF ScanOK
      <4> QED
        BY <4>2, <4>3, <4>4
    <3> QED
      BY <3>3, <3>4 DEF Content
  <2>4. CASE ~ (db.tracking /\ ~refused)
    <3>1. db'.tracking = db.tracking
      BY <1>1, <2>1 DEF Written, Databases
    <3> QED
      BY <2>2, <2>4, <3>1 DEF Content
  <2> QED
    BY <2>3, <2>4
<1>3. CASE BeginBulk
  <2>1. db' = [Emptied(db) EXCEPT !.tracking = FALSE]
    BY <1>3 DEF BeginBulk
  <2>2. ~db'.tracking
    BY <1>1, <2>1, EmptiedOf DEF Databases
  <2> QED
    BY <2>2 DEF Content
<1>4. CASE EndBulk
  <2>1. db' = [Emptied(db) EXCEPT !.tracking = TRUE]
    BY <1>4 DEF EndBulk
  <2>2. db' \in Databases /\ db'.epoch = db.epoch + 1
    BY <1>1, <2>1, EmptiedOf DEF Databases
  <2> QED
    BY <1>1, <1>4, <2>2, ContentByEpoch DEF EndBulk
<1>5. CASE ClearStart
  <2>1. ~db'.tracking
    BY <1>1, <1>5 DEF ClearStart, Databases
  <2> QED
    BY <2>1 DEF Content
<1>6. CASE ClearTable
  <2>1. db'.tracking = db.tracking /\ ~db.tracking
    BY <1>1, <1>6 DEF ClearTable, Written, Databases, WriterOK
  <2> QED
    BY <2>1 DEF Content
<1>7. CASE ClearEnd
  <2>1. ~db.tracking /\ UNCHANGED <<now, versions, cached, builds, lost>>
    BY <1>1, <1>7 DEF ClearEnd, WriterOK
  <2>2. CASE writer.clearing = "untracked"
    <3>1. ~db'.tracking
      BY <1>1, <1>7, <2>1, <2>2 DEF ClearEnd, Databases
    <3> QED
      BY <3>1 DEF Content
  <2>3. CASE writer.clearing # "untracked"
    <3>1. PICK reset \in Resets(db) :
              db' = [reset EXCEPT !.tracking = TRUE] /\ refused' = (refused \/ reset = db)
      BY <1>7, <2>3 DEF ClearEnd
    <3>2. CASE reset = db
      BY <3>1, <3>2 DEF Content
    <3>3. CASE reset = Emptied(db)
      <4>1. db' \in Databases /\ db'.epoch = db.epoch + 1
        BY <1>1, <3>1, <3>3, EmptiedOf DEF Databases
      <4> QED
        BY <1>1, <2>1, <4>1, ContentByEpoch
    <3> QED
      BY <3>1, <3>2, <3>3 DEF Resets
  <2> QED
    BY <2>2, <2>3
<1>8. CASE WriterLost
  BY <1>8 DEF WriterLost, Content, CacheOK, StaleOK, DeltaOK, ScanOK, Valid
<1> QED
  BY <1>2, <1>3, <1>4, <1>5, <1>6, <1>7, <1>8 DEF WriterStep

LEMMA ContentInvalidate ==
  ASSUME DashboardConstants, Ordered, Content, Invalidate
  PROVE  Content'
<1>1. PICK S \in {Scopes} \cup {Affected(i) : i \in Instances} :
        /\ versions' = [s \in Scopes |-> IF s \in S THEN versions[s] + 1 ELSE versions[s]]
        /\ \/ /\ cached' = [s \in Scopes |-> NoIndex]
              /\ db' \in Resets(db)
              /\ refused' = (refused \/
                    (db' = db /\ \E b \in Builders : Updating(b) /\ builds[b].scope \notin S))
           \/ UNCHANGED <<cached, db, refused>>
  BY DEF Invalidate
<1>2. UNCHANGED <<now, writer, builds, lost>>
  BY DEF Invalidate
<1>3. db \in Databases /\ db.epoch \in Nat
  BY DEF Ordered, TypeOK, Databases
<1>4. CASE db' = Emptied(db) /\ cached' = [s \in Scopes |-> NoIndex]
  <2>1. db' \in Databases /\ db'.epoch = db.epoch + 1
    BY <1>3, <1>4, EmptiedOf
  <2> QED
    BY <1>2, <1>3, <1>4, <2>1, ContentByEpoch
<1>5. CASE db' = db /\ db.tracking /\ ~refused'
  <2>1. ~refused
    BY <1>1, <1>5
  <2>2. ASSUME NEW s \in Scopes PROVE CacheOK(s)'
    <3>1. CacheOK(s)
      BY <1>5, <2>1 DEF Content
    <3>2. cached'[s] \in {cached[s], NoIndex}
      BY <1>1
    <3> QED
      BY <1>5, <3>1, <3>2 DEF CacheOK
  <2>3. ASSUME NEW b \in Builders, builds'[b] # Idle
        PROVE  StaleOK(builds[b])' /\ DeltaOK(builds[b])' /\ ScanOK(builds[b])'
    <3>1. builds'[b] = builds[b] /\ builds[b] \in Building /\ BuildOK(builds[b])
          /\ StaleOK(builds[b]) /\ DeltaOK(builds[b]) /\ ScanOK(builds[b])
      BY <1>2, <1>5, <2>1, <2>3 DEF Ordered, TypeOK, Content
    <3>2. Valid(builds[b])' => Valid(builds[b]) /\ builds[b].scope \notin S
      <4>1. builds[b].scope \in Scopes /\ builds[b].version <= versions[builds[b].scope]
            /\ versions[builds[b].scope] \in Nat
        BY <3>1 DEF Building, BuildOK, Ordered, TypeOK
      <4> QED
        BY <1>1, <1>2, <4>1 DEF Valid
    <3>3. StaleOK(builds[b])'
      <4> SUFFICES ASSUME builds[b].stale # NoIndex, Valid(builds[b])', builds[b].stale.epoch = db.epoch
                   PROVE  cached'[builds[b].scope] = builds[b].stale
        BY <1>5, <3>1 DEF StaleOK
      <4>1. Updating(b) /\ builds[b].scope \notin S
        BY <1>2, <2>3, <3>2 DEF Updating
      <4>2. UNCHANGED <<cached, db, refused>>
        BY <1>1, <1>5, <4>1
      <4> QED
        BY <3>1, <3>2, <4>2 DEF StaleOK
    <3>4. DeltaOK(builds[b])'
      BY <1>5, <3>1, <3>2 DEF DeltaOK
    <3>5. ScanOK(builds[b])'
      BY <1>5, <3>1 DEF ScanOK
    <3> QED
      BY <3>3, <3>4, <3>5
  <2> QED
    BY <2>2, <2>3 DEF Content
<1>6. CASE db' = db /\ ~ (db.tracking /\ ~refused')
  BY <1>6 DEF Content
<1> QED
  BY <1>1, <1>4, <1>5, <1>6 DEF Resets

(* A computation starts or reads.                                            *)
LEMMA ContentByBuild ==
  ASSUME DashboardConstants, Ordered, Content, NEW b \in Builders, NEW m,
         m # Idle /\ db.tracking /\ ~refused => StaleOK(m) /\ DeltaOK(m) /\ ScanOK(m),
         builds' = [builds EXCEPT ![b] = m],
         UNCHANGED <<db, versions, cached, refused>>
  PROVE  Content'
<1>1. \A o \in Builders : builds'[o] = IF o = b THEN m ELSE builds[o]
  BY DEF Ordered, TypeOK
<1> SUFFICES ASSUME db.tracking, ~refused PROVE Content'
  BY DEF Content
<1>2. \A s \in Scopes : CacheOK(s)'
  BY DEF Content, CacheOK
<1>3. ASSUME NEW o \in Builders, builds'[o] # Idle
      PROVE  StaleOK(builds[o])' /\ DeltaOK(builds[o])' /\ ScanOK(builds[o])'
  <2>1. StaleOK(builds'[o]) /\ DeltaOK(builds'[o]) /\ ScanOK(builds'[o])
    BY <1>1, <1>3 DEF Content
  <2> QED
    BY <2>1 DEF StaleOK, DeltaOK, ScanOK, Valid
<1> QED
  BY <1>2, <1>3 DEF Content

LEMMA ContentStart ==
  ASSUME DashboardConstants, Ordered, Content, NEW b \in Builders, NEW s \in Scopes, StartIndex(b, s)
  PROVE  Content'
<1> DEFINE m == [phase |-> "position", scope |-> s, version |-> versions[s],
                 stale |-> cached[s], epoch |-> 0, rev |-> 0, at |-> 0,
                 rows |-> [r \in Records |-> Absent], left |-> {}]
<1>1. builds' = [builds EXCEPT ![b] = m] /\ UNCHANGED <<db, versions, cached, refused>>
  BY DEF StartIndex
<1>2. StaleOK(m) /\ DeltaOK(m) /\ ScanOK(m)
  BY DEF StaleOK, DeltaOK, ScanOK
<1> HIDE DEF m
<1> QED
  BY <1>1, <1>2, ContentByBuild

LEMMA ContentPosition ==
  ASSUME DashboardConstants, Ordered, Content, NEW b \in Builders, ReadPosition(b)
  PROVE  Content'
<1> DEFINE m == builds[b]
           at == [m EXCEPT !.epoch = db.epoch, !.rev = Revision(db), !.at = now, !.left = Records]
<1>1. m \in Building /\ m # Idle /\ m.phase = "position" /\ UNCHANGED <<db, versions, cached, refused>>
  BY DEF ReadPosition, Idle, Ordered, TypeOK
<1>2. db.tracking /\ ~refused => StaleOK(m)
  BY <1>1 DEF Content
<1>3. CASE m.stale = NoIndex
  <2> DEFINE n == [at EXCEPT !.phase = "scan"]
  <2>1. builds' = [builds EXCEPT ![b] = n]
    BY <1>3 DEF ReadPosition
  <2>2. n.stale = NoIndex /\ n.phase = "scan" /\ n.left = Records
    BY <1>1, <1>3 DEF Building
  <2> HIDE DEF n
  <2>3. StaleOK(n) /\ DeltaOK(n) /\ ScanOK(n)
    BY <2>2 DEF StaleOK, DeltaOK, ScanOK
  <2> QED
    BY <1>1, <2>1, <2>3, ContentByBuild
<1>4. CASE m.stale # NoIndex /\ Accepted(m.stale)
  <2> DEFINE n == [at EXCEPT !.phase = "delta", !.rows = m.stale.rows]
  <2>1. builds' = [builds EXCEPT ![b] = n]
    BY <1>4 DEF ReadPosition
  <2>2. n.stale = m.stale /\ n.phase = "delta" /\ n.left = Records /\ n.rows = m.stale.rows
        /\ n.scope = m.scope /\ n.version = m.version
    BY <1>1 DEF Building
  <2> HIDE DEF n
  <2>3. db.tracking /\ ~refused => StaleOK(n)
    BY <1>2, <2>2 DEF StaleOK, Valid
  <2>4. DeltaOK(n)
    BY <1>4, <2>2 DEF DeltaOK, Accepted
  <2>5. ScanOK(n)
    BY <2>2 DEF ScanOK
  <2> QED
    BY <1>1, <2>1, <2>3, <2>4, <2>5, ContentByBuild
<1>5. CASE m.stale # NoIndex /\ ~Accepted(m.stale)
  <2> DEFINE n == [m EXCEPT !.stale = NoIndex]
  <2>1. builds' = [builds EXCEPT ![b] = n]
    BY <1>5 DEF ReadPosition
  <2>2. n.stale = NoIndex /\ n.phase = "position"
    BY <1>1 DEF Building
  <2> HIDE DEF n
  <2>3. StaleOK(n) /\ DeltaOK(n) /\ ScanOK(n)
    BY <2>2 DEF StaleOK, DeltaOK, ScanOK
  <2> QED
    BY <1>1, <2>1, <2>3, ContentByBuild
<1> QED
  BY <1>3, <1>4, <1>5

LEMMA ContentBatch ==
  ASSUME DashboardConstants, Ordered, Content, NEW b \in Builders, ReadBatch(b)
  PROVE  Content'
<1> DEFINE m == builds[b]
<1>1. m \in Building /\ m # Idle /\ m.phase = "scan" /\ UNCHANGED <<db, versions, cached, refused>>
  BY DEF ReadBatch, Idle, Ordered, TypeOK
<1>2. db.tracking /\ ~refused => StaleOK(m) /\ ScanOK(m)
  BY <1>1 DEF Content
<1>3. PICK batch \in SUBSET m.left, rows \in Rows :
          /\ builds' = [builds EXCEPT ![b] = [m EXCEPT !.rows = rows, !.left = m.left \ batch]]
          /\ \A r \in Records : rows[r] = IF r \in batch THEN db.rows[r] ELSE m.rows[r]
  BY BatchRead
<1> DEFINE n == [m EXCEPT !.rows = rows, !.left = m.left \ batch]
<1>4. /\ n.phase = "scan" /\ n.scope = m.scope /\ n.version = m.version /\ n.stale = m.stale
      /\ n.epoch = m.epoch /\ n.rev = m.rev /\ n.rows = rows /\ n.left = m.left \ batch
  BY <1>1 DEF Building
<1>5. builds' = [builds EXCEPT ![b] = n]
  BY <1>3
<1> HIDE DEF n
<1>6. db.tracking /\ ~refused => StaleOK(n) /\ DeltaOK(n)
  BY <1>2, <1>4 DEF StaleOK, DeltaOK, Valid
<1>7. ASSUME db.tracking, ~refused PROVE ScanOK(n)
  <2> SUFFICES ASSUME m.epoch = db.epoch, db.floor <= m.rev, NEW r \in Records, r \notin m.left \ batch
               PROVE  ChangedSince(db, r, m.rev) \/ rows[r] = db.rows[r]
    BY <1>4 DEF ScanOK
  <2>1. CASE r \in batch
    BY <1>3, <2>1
  <2>2. CASE r \notin batch
    <3>1. rows[r] = m.rows[r]
      BY <1>3, <2>2
    <3>2. r \in Records \ m.left
      BY <2>2
    <3> QED
      BY <1>1, <1>2, <1>7, <3>1, <3>2 DEF ScanOK
  <2> QED
    BY <2>1, <2>2
<1> QED
  BY <1>1, <1>5, <1>6, <1>7, ContentByBuild

LEMMA ContentDelta ==
  ASSUME DashboardConstants, Ordered, Content, NEW b \in Builders, NEW t \in Tables, ReadDelta(b, t)
  PROVE  Content'
<1> DEFINE m == builds[b]
<1>1. m \in Building /\ m # Idle /\ m.phase = "delta" /\ UNCHANGED <<db, versions, cached, refused>>
      /\ BuildOK(m)
  BY DEF ReadDelta, Idle, Ordered, TypeOK
<1>2. db.tracking /\ ~refused => StaleOK(m) /\ DeltaOK(m) /\ \A s \in Scopes : CacheOK(s)
  BY <1>1 DEF Content
<1>3. PICK read \in SUBSET m.left, rows \in Rows :
          /\ read = {r \in m.left : TableOf[r] = t}
          /\ builds' = [builds EXCEPT ![b] = [m EXCEPT !.rows = rows, !.left = m.left \ read]]
          /\ \A r \in Records : rows[r] =
                IF r \in read /\ ChangedBetween(db, r, m.stale.rev, m.rev)
                THEN db.rows[r] ELSE m.rows[r]
  BY DeltaRead
<1> DEFINE n == [m EXCEPT !.rows = rows, !.left = m.left \ read]
<1>4. /\ n.phase = "delta" /\ n.scope = m.scope /\ n.version = m.version /\ n.stale = m.stale
      /\ n.epoch = m.epoch /\ n.rev = m.rev /\ n.rows = rows /\ n.left = m.left \ read
  BY <1>1 DEF Building
<1>5. builds' = [builds EXCEPT ![b] = n]
  BY <1>3
<1> HIDE DEF n
<1>6. db.tracking /\ ~refused => StaleOK(n) /\ ScanOK(n)
  BY <1>2, <1>4 DEF StaleOK, ScanOK, Valid
<1>7. ASSUME db.tracking, ~refused PROVE DeltaOK(n)
  <2> SUFFICES ASSUME Valid(m), m.epoch = db.epoch
               PROVE  /\ db.floor <= m.stale.rev
                      /\ \A r \in Records :
                            IF r \in m.left \ read THEN rows[r] = m.stale.rows[r]
                            ELSE \/ ChangedSince(db, r, m.rev)
                                 \/ Matches(db, rows[r], r, m.scope, m.stale.at)
    BY <1>4 DEF DeltaOK, Valid
  <2>1. /\ db.floor <= m.stale.rev
        /\ \A r \in Records :
              IF r \in m.left THEN m.rows[r] = m.stale.rows[r]
              ELSE ChangedSince(db, r, m.rev) \/ Matches(db, m.rows[r], r, m.scope, m.stale.at)
    BY <1>1, <1>2, <1>7 DEF DeltaOK
  <2>2. \A r \in m.left \ read : r \in Records => rows[r] = m.stale.rows[r]
    BY <1>3, <2>1
  <2> SUFFICES ASSUME NEW r \in Records, r \notin m.left \ read
               PROVE  ChangedSince(db, r, m.rev) \/ Matches(db, rows[r], r, m.scope, m.stale.at)
    BY <2>1, <2>2
  <2>3. CASE r \notin m.left
    <3>1. rows[r] = m.rows[r]
      BY <1>3, <2>3
    <3> QED
      BY <2>3, <2>1, <3>1
  <2>4. CASE r \in read /\ ChangedBetween(db, r, m.stale.rev, m.rev)
    BY <1>3, <2>4 DEF Matches
  <2>5. CASE r \in read /\ ~ChangedBetween(db, r, m.stale.rev, m.rev)
    <3>1. rows[r] = m.stale.rows[r] /\ db.floor <= m.stale.rev
      BY <1>3, <2>1, <2>5
    <3>2. m.stale # NoIndex /\ m.stale.epoch = db.epoch /\ m.scope \in Scopes
      BY <1>1 DEF BuildOK, Building
    <3>3. cached[m.scope] = m.stale
      BY <1>2, <1>7, <3>2 DEF StaleOK
    <3>4. ChangedSince(db, r, m.stale.rev) \/ Matches(db, m.stale.rows[r], r, m.scope, m.stale.at)
      BY <1>2, <1>7, <3>1, <3>2, <3>3 DEF CacheOK, Repairable
    <3>5. ChangedSince(db, r, m.stale.rev) => ChangedSince(db, r, m.rev)
      <4>1. \A j \in db.journal : j[1] \in Nat
        BY DEF Ordered, TypeOK
      <4>2. m.rev \in Nat /\ m.stale.rev \in Nat
        BY <1>1, <3>2 DEF Building, Indexes
      <4> QED
        BY <2>5, <4>1, <4>2 DEF ChangedSince, ChangedBetween
    <3> QED
      BY <3>1, <3>4, <3>5
  <2> QED
    BY <2>3, <2>4, <2>5
<1> QED
  BY <1>1, <1>5, <1>6, <1>7, ContentByBuild

(* An update that has read all of the changed rows, or a reading of all rows *)
(* stores an index that the next update repairs.                             *)
LEMMA ResultRepairable ==
  ASSUME DashboardConstants, Ordered, Content, db.tracking, ~refused,
         NEW b \in Builders, builds[b] # Idle, builds[b].phase \in {"delta", "scan"},
         builds[b].left = {}, Valid(builds[b]), builds[b].epoch = db.epoch,
         db.floor <= builds[b].rev
  PROVE  Repairable(db, Result(builds[b]), builds[b].scope)
<1> DEFINE m == builds[b]
           time == IF m.phase = "delta" THEN now ELSE m.at
           index == Result(m)
<1>1. /\ m \in Building /\ BuildOK(m) /\ DeltaOK(m) /\ ScanOK(m)
      /\ now \in Nat /\ m.at \in Nat /\ time \in Nat
  BY DEF Ordered, TypeOK, Content, Building
<1>2. index.rev = m.rev /\ index.at = time /\ index.rows = Filtered(m.rows, m.scope, time)
  BY DEF Result
<1>3. ASSUME NEW r \in Records, ~ChangedSince(db, r, m.rev)
      PROVE  Matches(db, index.rows[r], r, m.scope, time)
  <2>1. index.rows[r] = IF m.rows[r] \in Shows[m.scope][time] THEN m.rows[r] ELSE Absent
    BY <1>2 DEF Filtered
  <2>2. \A v \in Lasting(m.scope, time) : v \in Shows[m.scope][time]
    BY <1>1 DEF Lasting
  <2>3. /\ m.rows[r] # Absent => m.rows[r] = db.rows[r]
        /\ db.rows[r] \in Lasting(m.scope, time) => m.rows[r] = db.rows[r]
    <3>1. CASE m.phase = "delta"
      <4>1. Matches(db, m.rows[r], r, m.scope, m.stale.at)
        BY <1>1, <1>3, <3>1 DEF DeltaOK
      <4>2. m.stale.at \in Nat /\ m.stale.at <= now /\ time = now
        BY <1>1, <3>1 DEF BuildOK, Past, Building, Indexes
      <4>3. Lasting(m.scope, time) \subseteq Lasting(m.scope, m.stale.at)
        BY <1>1, <4>2 DEF Lasting
      <4> QED
        BY <4>1, <4>3 DEF Matches
    <3>2. CASE m.phase = "scan"
      <4>1. r \in Records \ m.left
        OBVIOUS
      <4> QED
        BY <1>1, <1>3, <3>2, <4>1 DEF ScanOK
    <3> QED
      BY <3>1, <3>2
  <2> HIDE DEF index, time, m
  <2> QED
    BY <2>1, <2>2, <2>3 DEF Matches
<1> HIDE DEF index, time
<1>4. Repairable(db, index, m.scope)
  BY <1>2, <1>3 DEF Repairable
<1> QED
  BY <1>4 DEF index

LEMMA ContentStore ==
  ASSUME DashboardConstants, Ordered, Content, NEW b \in Builders, Store(b)
  PROVE  Content'
<1> DEFINE m == builds[b]
           index == Result(m)
           caches == [cached EXCEPT ![m.scope] = index]
           through == Through(caches, index.epoch)
<1>1. m # Idle /\ m \in Building /\ m.phase \in {"delta", "scan"} /\ m.left = {}
  BY DEF Store, Idle, Ordered, TypeOK
<1>2. builds' = [builds EXCEPT ![b] = Idle] /\ UNCHANGED <<now, writer, versions, lost, refused>>
  BY DEF Store
<1>3. CASE m.version # versions[m.scope]
  <2>1. UNCHANGED <<cached, db>>
    BY <1>3 DEF Store
  <2> QED
    BY <1>2, <2>1, ContentByBuild
<1>4. CASE m.version = versions[m.scope]
  <2>1. cached' = caches /\ db' \in {db, Pruned(db, index.epoch, through)}
    BY <1>4 DEF Store
  <2>2. /\ m.scope \in Scopes /\ index \in Indexes /\ Past(index)
        /\ index.epoch = m.epoch /\ index.rev = m.rev /\ index.epoch \in Nat
        /\ through \in Nat /\ through <= db.last
        /\ \A x \in Scopes : caches[x] # NoIndex /\ caches[x].epoch = index.epoch
               => through <= caches[x].rev
    BY <1>1, ResultOf DEF Indexes
  <2>3. db \in Databases /\ DbOK(db) /\ db.epoch \in Nat /\ db.floor \in Nat
    BY DEF Ordered, TypeOK, Databases
  <2>4. cached \in [Scopes -> Indexes \cup {NoIndex}]
    BY DEF Ordered, TypeOK
  <2>5. caches[m.scope] = index /\ \A s \in Scopes : s # m.scope => caches[s] = cached[s]
    <3> HIDE DEF index
    <3> QED
      BY <2>2, <2>4
  <2> HIDE DEF index, caches, through
  <2>6. Moves(db, db') /\ db'.tracking = db.tracking
        /\ (db' = db \/ (index.epoch = db.epoch /\ db'.floor \in {db.floor, through}))
    <3>1. CASE db' = db
      BY <2>3, <3>1, StayMoves
    <3>2. CASE db' = Pruned(db, index.epoch, through)
      BY <2>2, <2>3, <3>2, PrunedOf, PruneMoves
    <3> QED
      BY <2>1, <3>1, <3>2
  <2>7. \A o \in Builders : builds'[o] = IF o = b THEN Idle ELSE builds[o]
    BY <1>2 DEF Ordered, TypeOK
  <2> SUFFICES ASSUME db.tracking, ~refused PROVE Content'
    BY <1>2, <2>6 DEF Content
  <2>8. ASSUME NEW s \in Scopes PROVE CacheOK(s)'
    <3> SUFFICES ASSUME caches[s] # NoIndex, caches[s].epoch = db.epoch, db'.floor <= caches[s].rev
                 PROVE  Repairable(db', caches[s], s)
      BY <2>1, <2>6 DEF CacheOK, Moves
    <3>1. caches[s].rev \in Nat /\ caches[s].rev <= db.last
      BY <2>2, <2>4, <2>5 DEF Indexes, Past, Ordered
    <3>2. db.floor <= caches[s].rev => Repairable(db, caches[s], s)
      <4>1. CASE s = m.scope
        BY <1>1, <1>4, <2>2, <2>5, <4>1, ResultRepairable DEF Valid, index
      <4>2. CASE s # m.scope
        BY <2>5, <4>2 DEF Content, CacheOK
      <4> QED
        BY <4>1, <4>2
    <3> QED
      BY <2>6, <3>1, <3>2, CacheMoves
  <2>9. ASSUME NEW o \in Builders, builds'[o] # Idle
        PROVE  StaleOK(builds[o])' /\ DeltaOK(builds[o])' /\ ScanOK(builds[o])'
    <3> DEFINE n == builds[o]
    <3>1. builds'[o] = n /\ o # b /\ n # Idle /\ n \in Building /\ BuildOK(n)
          /\ StaleOK(n) /\ DeltaOK(n) /\ ScanOK(n)
      BY <2>7, <2>9 DEF Ordered, TypeOK, Content
    <3>2. Valid(n) => n.scope # m.scope
      BY <1>1, <1>4, <3>1 DEF Ordered, Apart, Valid
    <3>3. n.scope \in Scopes
      BY <3>1 DEF Building
    <3>4. versions' = versions /\ db'.epoch = db.epoch /\ db.floor <= db'.floor
      BY <1>2, <2>6 DEF Moves
    <3> HIDE DEF n
    <3>5. Valid(n) /\ n.stale # NoIndex /\ n.stale.epoch = db.epoch => caches[n.scope] = n.stale
      BY <2>5, <3>1, <3>2, <3>3 DEF StaleOK
    <3>6. ASSUME n.phase = "delta", Valid(n), n.epoch = db.epoch
          PROVE  db'.floor <= n.stale.rev
      <4>1. db.floor <= n.stale.rev
        BY <3>1, <3>6 DEF DeltaOK
      <4>2. n.stale # NoIndex /\ n.stale.epoch = db.epoch
        BY <3>1, <3>6 DEF BuildOK
      <4>3. index.epoch = db.epoch => through <= n.stale.rev
        BY <2>2, <3>3, <3>5, <3>6, <4>2
      <4> QED
        BY <2>6, <4>1, <4>3
    <3>7. n.phase = "delta" /\ Valid(n) /\ n.epoch = db.epoch =>
              \A r \in Records :
                  IF r \in n.left THEN n.rows[r] = n.stale.rows[r]
                  ELSE ChangedSince(db', r, n.rev) \/ Matches(db', n.rows[r], r, n.scope, n.stale.at)
      BY <2>6, <3>1, <3>6, DeltaMoves
    <3>8. n.phase = "scan" /\ n.epoch = db.epoch /\ db'.floor <= n.rev =>
              \A r \in Records \ n.left : ChangedSince(db', r, n.rev) \/ n.rows[r] = db'.rows[r]
      BY <2>6, <3>1, ScanMoves
    <3>9. StaleOK(builds[o])'
      BY <2>1, <3>1, <3>4, <3>5 DEF StaleOK, Valid
    <3>10. DeltaOK(builds[o])'
      BY <3>1, <3>4, <3>6, <3>7 DEF DeltaOK, Valid
    <3>11. ScanOK(builds[o])'
      BY <3>1, <3>4, <3>8 DEF ScanOK
    <3> QED
      BY <3>9, <3>10, <3>11
  <2> QED
    BY <2>8, <2>9 DEF Content
<1> QED
  BY <1>3, <1>4

LEMMA ContentStep ==
  ASSUME DashboardConstants, Ordered, Content, [DashboardNext]_vars
  PROVE  Content'
<1>1. CASE UNCHANGED vars
  BY <1>1 DEF vars, Content, CacheOK, StaleOK, DeltaOK, ScanOK, Valid
<1>2. CASE WriterStep
  BY <1>2, ContentWriter
<1>3. CASE Restart
  <2>1. (\A s \in Scopes : cached'[s] = NoIndex) /\ (\A b \in Builders : builds'[b] = Idle)
    BY <1>3 DEF Restart
  <2> QED
    BY <2>1 DEF Content, CacheOK
<1>4. CASE Invalidate
  BY <1>4, ContentInvalidate
<1>5. CASE Tick
  BY <1>5 DEF Tick, Content, CacheOK, StaleOK, DeltaOK, ScanOK, Valid
<1>6. ASSUME NEW b \in Builders, IndexStep(b) PROVE Content'
  <2>1. ASSUME NEW s \in Scopes, StartIndex(b, s) PROVE Content'
    BY <2>1, ContentStart
  <2>2. CASE ReadPosition(b)
    BY <2>2, ContentPosition
  <2>3. CASE ReadBatch(b)
    BY <2>3, ContentBatch
  <2>4. ASSUME NEW t \in Tables, ReadDelta(b, t) PROVE Content'
    BY <2>4, ContentDelta
  <2>5. CASE Store(b)
    BY <2>5, ContentStore
  <2>6. CASE FailIndex(b)
    BY <2>6, ContentByBuild DEF FailIndex
  <2> QED
    BY <1>6, <2>1, <2>2, <2>3, <2>4, <2>5, <2>6 DEF IndexStep
<1> QED
  BY <1>1, <1>2, <1>3, <1>4, <1>5, <1>6 DEF DashboardNext

-----------------------------------------------------------------------------
(* The results.                                                              *)

(* The journal, the indexes and the computations of indexes keep the order   *)
(* of their revisions, and no index is of an epoch that is still to come.    *)
THEOREM DashboardOrdered ==
  ASSUME DashboardConstants
  PROVE  DashboardSpec => [](Ordered /\ Content)
<1>1. DashboardInit => Ordered /\ Content
  <2> SUFFICES ASSUME DashboardInit PROVE Ordered /\ Content
    OBVIOUS
  <2>1. Content
    BY DEF DashboardInit, Content, CacheOK
  <2> QED
    BY <2>1, OrderedInit
<1>2. Ordered /\ Content /\ [DashboardNext]_vars => (Ordered /\ Content)'
  BY OrderedStep, ContentStep
<1> QED
  BY <1>1, <1>2, PTL DEF DashboardSpec

(* updateDashboardStatsIndex() finds every change in the journal that an     *)
(* index of the epoch has not seen, whatever writers, readers, prunings and  *)
(* resets did since the index was read, in whatever order.                   *)
THEOREM UpdatesRepair ==
  ASSUME DashboardConstants
  PROVE  DashboardSpec => []IndexRepairable
<1>1. Content => IndexRepairable
  BY DEF Content, CacheOK, IndexRepairable
<1> QED
  BY <1>1, DashboardOrdered, PTL

(* An index that is accepted and has no entry left to read counts the rows   *)
(* as they are.                                                              *)
THEOREM NothingMissed ==
  ASSUME DashboardConstants
  PROVE  DashboardSpec => []CaughtUpIsCurrent
<1>1. Content => CaughtUpIsCurrent
  BY DEF Content, CacheOK, Repairable, CaughtUpIsCurrent, ChangedSince, Accepted
<1> QED
  BY <1>1, DashboardOrdered, PTL

(* beginDeferredSearchIndexUpdates(), rebuildSearchIndexes() and             *)
(* clearSyncData() leave the journal on, unless a writer process dies while  *)
(* it is off.                                                                *)
THEOREM JournalStaysOn ==
  ASSUME DashboardConstants
  PROVE  DashboardSpec => []JournalIsOn
<1>1. Ordered => JournalIsOn
  BY DEF Ordered, WriterOK
<1> QED
  BY <1>1, DashboardOrdered, PTL
-----------------------------------------------------------------------------
(* A page that learns of revisions and loads rows (PageUpdates).             *)

LoadKinds == {"initial", "refresh", "append"}
LoadKeys == LoadKinds \X Nat \X Filters
LoadRecords ==
    [key : LoadKeys, kind : LoadKinds, filter : Filters, held : BOOLEAN, current : BOOLEAN,
     revision : Nat]
AnyMark == [filter : Filters \cup {"none"}, revision : Nat]
RowRecords == [head : AnyMark, tail : SUBSET AnyMark, page : Nat \ {0}]

(* A load that counts is under the filter of the page and was not read       *)
(* before the rows at the head of the page; while the load of a new filter   *)
(* is about to start, none that is in flight has its key.                    *)
LoadOK(l) ==
    /\ l.key[1] = l.kind
    /\ l.current => l.held /\ l.filter = filter
    /\ starting /\ l.held => l.kind # "initial"
    /\ l.current /\ l.revision > 0 => shown.head.revision <= l.revision

OneCounts(S) == \A l, m \in S : l.current /\ m.current => l = m

PageTypeOK ==
    /\ stamp \in Nat /\ mine \in Nat /\ 0 < mine /\ mine <= stamp
    /\ filter \in Filters /\ starting \in BOOLEAN
    /\ loading \in BOOLEAN /\ loadingMore \in BOOLEAN
    /\ shown \in RowRecords /\ shown.head.revision <= mine
    /\ recent \in LoadKeys \cup {<<>>}
    /\ loads \subseteq LoadRecords /\ \A l \in loads : l.revision <= mine

Spinning ==
    /\ loading => starting \/ \E l \in loads : l.current
    /\ loadingMore => starting \/ \E l \in loads : l.current /\ l.kind = "append"

PageInv ==
    /\ PageTypeOK
    /\ starting => recent # Key("initial")
    /\ \A l \in loads : LoadOK(l)
    /\ OneCounts(loads)
    /\ Spinning

(* What a step may do to the rows (the action of PageForward).               *)
Onward ==
    filter' = filter =>
        /\ \A m \in Marks' \ Marks : m.filter = filter /\ m.revision >= shown.head.revision
        /\ shown'.head.revision >= shown.head.revision
        /\ OfFilter(Marks) => OfFilter(Marks)'

LEMMA RowsStay ==
  ASSUME PageInv, shown' = shown
  PROVE  Onward
<1>1. Marks' = Marks /\ shown.head.revision \in Nat
  BY DEF Marks, PageInv, PageTypeOK, RowRecords, AnyMark
<1> QED
  BY <1>1 DEF Onward, OfFilter

LEMMA NoRows == Nothing \in RowRecords /\ Nothing.head.revision = 0
<1>1. Mark("none", 0) \in AnyMark /\ Mark("none", 0).revision = 0
  BY DEF AnyMark, Mark
<1>2. Nothing.head = Mark("none", 0)
  BY DEF Nothing
<1> QED
  BY <1>1, <1>2 DEF Nothing, RowRecords

LEMMA InitPage == PageInit => PageInv
<1> SUFFICES ASSUME PageInit PROVE PageInv
  OBVIOUS
<1>1. recent = <<>> /\ <<>> # Key("initial")
  BY DEF PageInit, Key
<1>2. PageTypeOK
  <2>1. /\ stamp = 1 /\ mine = 1 /\ filter \in Filters /\ starting = TRUE
        /\ loading = TRUE /\ loadingMore = FALSE /\ shown = Nothing /\ recent = <<>> /\ loads = {}
    BY DEF PageInit
  <2>2. shown \in RowRecords /\ shown.head.revision <= mine
    BY ONLY <2>1, NoRows
  <2>3. /\ stamp \in Nat /\ mine \in Nat /\ 0 < mine /\ mine <= stamp /\ filter \in Filters
    BY ONLY <2>1
  <2>4. starting \in BOOLEAN /\ loading \in BOOLEAN /\ loadingMore \in BOOLEAN
    BY ONLY <2>1
  <2>5. recent \in LoadKeys \cup {<<>>}
    BY ONLY <2>1
  <2>6. loads \subseteq LoadRecords /\ \A l \in loads : l.revision <= mine
    BY ONLY <2>1
  <2> QED
    BY ONLY <2>2, <2>3, <2>4, <2>5, <2>6 DEF PageTypeOK
<1> QED
  BY <1>1, <1>2 DEF PageInit, PageInv, OneCounts, Spinning

(* What happens between the server and the page's socket, the polling and    *)
(* the publications leave the loads alone; a revision only grows.            *)
LEMMA Elsewhere ==
  ASSUME PageInv, UNCHANGED pageVars, stamp' \in Nat, mine' \in Nat, mine <= mine', mine' <= stamp'
  PROVE  PageInv'
<1>1. /\ filter' = filter /\ starting' = starting /\ loads' = loads /\ recent' = recent
      /\ loading' = loading /\ loadingMore' = loadingMore /\ shown' = shown
  BY DEF pageVars
<1>2. PageTypeOK'
  <2>1. shown.head.revision \in Nat /\ \A l \in loads : l.revision \in Nat
    BY DEF PageInv, PageTypeOK, RowRecords, AnyMark, LoadRecords
  <2> QED
    BY <1>1, <2>1 DEF PageInv, PageTypeOK
<1>3. \A l \in loads : LoadOK(l)'
  <2> SUFFICES ASSUME NEW l \in loads PROVE LoadOK(l)'
    OBVIOUS
  <2>1. LoadOK(l) /\ l.revision \in Nat
    BY DEF PageInv, PageTypeOK, LoadRecords
  <2> QED
    BY <1>1, <2>1 DEF LoadOK, PageInv, PageTypeOK
<1> QED
  BY <1>1, <1>2, <1>3 DEF PageInv, OneCounts, Spinning, Key

LEMMA ElsewhereSteps ==
  ASSUME PageInv,
         \/ Publish \/ Connection \/ Reject \/ Lose \/ Heartbeat \/ ServerRestarts \/ Poll
         \/ UNCHANGED clientVars
  PROVE  PageInv' /\ shown' = shown
<1>1. stamp' \in Nat /\ mine' \in Nat /\ mine <= mine' /\ mine' <= stamp' /\ UNCHANGED pageVars
  <2>0. stamp \in Nat /\ mine \in Nat /\ mine <= stamp
    BY DEF PageInv, PageTypeOK
  <2>1. CASE Publish
    BY <2>0, <2>1 DEF Publish
  <2>2. CASE Connection
    <3>1. UNCHANGED <<serverVars, pageVars>>
      BY <2>2 DEF Connection, Connect, Authorize, Opened, Receive, GiveUpConnecting, IdleTimeout
    <3> QED
      BY <2>0, <3>1 DEF serverVars
  <2>3. CASE Reject \/ Lose \/ Heartbeat \/ ServerRestarts \/ Poll
    <3>1. stamp' = stamp /\ mine' = mine /\ UNCHANGED pageVars
      BY <2>3 DEF Reject, Lose, Heartbeat, ServerRestarts, Poll, serverVars
    <3> QED
      BY <2>0, <3>1
  <2>4. CASE UNCHANGED clientVars
    BY <2>0, <2>4 DEF clientVars, serverVars
  <2> QED
    BY <2>1, <2>2, <2>3, <2>4
<1> QED
  BY <1>1, Elsewhere DEF pageVars

(* A load that starts supersedes the others.                                 *)
LEMMA Starts ==
  ASSUME PageInv, NEW kind \in LoadKinds, Start(kind),
         UNCHANGED <<serverVars, filter, recent, shown>>,
         \/ starting' = starting /\ kind # "initial"
         \/ starting /\ starting' = FALSE /\ kind = "initial"
  PROVE  PageInv'
<1> PICK new : new = [key |-> Key(kind), kind |-> kind, filter |-> filter, held |-> TRUE,
                      current |-> TRUE, revision |-> 0]
  OBVIOUS
<1> DEFINE older == {[l EXCEPT !.current = FALSE] : l \in loads}
<1>1. /\ filter' = filter /\ recent' = recent /\ shown' = shown /\ mine' = mine /\ stamp' = stamp
      /\ starting' \in BOOLEAN /\ (starting' => starting)
  <2>1. starting \in BOOLEAN
    BY DEF PageInv, PageTypeOK
  <2>2. starting' \in BOOLEAN /\ (starting' => starting)
    <3>1. CASE starting' = starting
      BY <2>1, <3>1
    <3>2. CASE starting' = FALSE /\ starting
      BY <3>2
    <3> QED
      BY <3>1, <3>2
  <2> QED
    BY <2>2 DEF serverVars
<1>2. Key(kind) \in LoadKeys /\ Key(kind)[1] = kind
  BY DEF Key, LoadKeys, LoadKinds, PageInv, PageTypeOK, RowRecords
<1>3. CASE InFlight(Key(kind)) \/ recent = Key(kind)
  <2>1. loads' = loads /\ loading' = loading /\ loadingMore' = loadingMore
    BY <1>3 DEF Start
  <2>2. ~(starting /\ kind = "initial")
    <3>1. ASSUME NEW l \in loads, l.key = Key("initial"), l.held, starting
          PROVE  FALSE
      <4>1. l.key[1] = l.kind /\ l.kind # "initial"
        BY <3>1 DEF PageInv, LoadOK
      <4>2. Key("initial")[1] = "initial"
        BY DEF Key
      <4> QED
        BY <3>1, <4>1, <4>2
    <3>2. starting => recent # Key("initial")
      BY DEF PageInv
    <3> QED
      BY <1>3, <3>1, <3>2 DEF InFlight
  <2>3. starting' = starting
    BY <2>2
  <2> QED
    BY <1>1, <2>1, <2>3, Elsewhere DEF pageVars, PageInv, PageTypeOK
<1>4. CASE ~(InFlight(Key(kind)) \/ recent = Key(kind))
  <2>1. /\ loads' = older \cup {new}
        /\ loading' = (loading \/ kind # "append") /\ loadingMore' = (kind = "append")
    BY <1>4 DEF Start
  <2>2. new \in LoadRecords /\ LoadOK(new)' /\ new.revision <= mine
    <3>1. new \in LoadRecords
      BY <1>2 DEF LoadRecords, PageInv, PageTypeOK
    <3>2. starting' => kind # "initial"
      OBVIOUS
    <3>3. mine' \in Nat /\ new.revision = 0
      BY <1>1 DEF PageInv, PageTypeOK
    <3> QED
      BY <1>1, <1>2, <3>1, <3>2, <3>3 DEF LoadOK
  <2>3. ASSUME NEW x \in older
        PROVE  x \in LoadRecords /\ LoadOK(x)' /\ ~x.current /\ x.revision <= mine
    <3>1. PICK l \in loads : x = [l EXCEPT !.current = FALSE]
      OBVIOUS
    <3>2. l \in LoadRecords /\ LoadOK(l) /\ l.revision <= mine
      BY DEF PageInv, PageTypeOK
    <3>3. /\ x \in LoadRecords /\ x.key = l.key /\ x.kind = l.kind /\ x.filter = l.filter
          /\ x.held = l.held /\ x.current = FALSE /\ x.revision = l.revision
      BY <3>1, <3>2 DEF LoadRecords
    <3> QED
      BY <1>1, <3>2, <3>3 DEF LoadOK
  <2> HIDE DEF older
  <2>4. PageTypeOK' /\ \A l \in loads' : LoadOK(l)'
    <3>1. loading' \in BOOLEAN /\ loadingMore' \in BOOLEAN
      BY ONLY <2>1
    <3> QED
      BY <1>1, <2>1, <2>2, <2>3, <3>1 DEF PageInv, PageTypeOK
  <2>5. OneCounts(loads')
    BY <2>1, <2>3 DEF OneCounts
  <2>6. new.current /\ new.kind = kind /\ new \in loads'
    BY <2>1
  <2>7. (starting => recent # Key("initial"))'
    BY <1>1 DEF PageInv, Key
  <2>8. Spinning'
    BY <2>1, <2>6 DEF Spinning
  <2> QED
    BY <2>4, <2>5, <2>7, <2>8 DEF PageInv
<1> QED
  BY <1>3, <1>4

(* A load that is read, answered or lost: the others are what they were.     *)
LEMMA Lessened ==
  ASSUME PageInv, NEW S \in SUBSET loads, loads' = S,
         UNCHANGED <<serverVars, filter, starting>>,
         PageTypeOK', (starting => recent # Key("initial"))',
         \A l \in S : l.current => shown' = shown, Spinning'
  PROVE  PageInv'
<1>1. filter' = filter /\ starting' = starting /\ mine' = mine
  BY DEF serverVars
<1>2. ASSUME NEW l \in S
      PROVE  LoadOK(l)'
  <2>1. LoadOK(l)
    BY DEF PageInv
  <2> QED
    BY <1>1, <2>1 DEF LoadOK
<1>3. OneCounts(loads')
  BY DEF PageInv, OneCounts
<1> QED
  BY <1>1, <1>2, <1>3 DEF PageInv

LEMMA ServerReadsKeeps ==
  ASSUME PageInv, ServerReads
  PROVE  PageInv'
<1>1. PICK l \in loads : l.revision = 0 /\ loads' = (loads \ {l}) \cup {[l EXCEPT !.revision = mine]}
  BY DEF ServerReads
<1> PICK m : m = [l EXCEPT !.revision = mine]
  OBVIOUS
<1>2. /\ filter' = filter /\ starting' = starting /\ mine' = mine /\ stamp' = stamp
      /\ recent' = recent /\ loading' = loading /\ loadingMore' = loadingMore /\ shown' = shown
  BY DEF ServerReads, serverVars
<1>3. l \in LoadRecords /\ LoadOK(l) /\ mine \in Nat /\ shown.head.revision <= mine
  BY DEF PageInv, PageTypeOK
<1>4. /\ m \in LoadRecords /\ m.key = l.key /\ m.kind = l.kind /\ m.filter = l.filter /\ m.held = l.held
      /\ m.current = l.current /\ m.revision = mine
  BY <1>3 DEF LoadRecords
<1>5. loads' = (loads \ {l}) \cup {m}
  BY <1>1
<1>6. LoadOK(m)'
  BY <1>2, <1>3, <1>4 DEF LoadOK
<1>7. \A x \in loads' : LoadOK(x)'
  BY <1>2, <1>5, <1>6 DEF PageInv, LoadOK
<1>8. OneCounts(loads')
  BY <1>4, <1>5 DEF PageInv, OneCounts
<1>9. PageTypeOK'
  <2>1. PageTypeOK
    BY DEF PageInv
  <2>2. \A x \in loads' : x = m \/ x \in loads
    BY ONLY <1>5
  <2>3. m.revision <= mine
    BY ONLY <1>3, <1>4
  <2>4. loads' \subseteq LoadRecords /\ \A x \in loads' : x.revision <= mine
    BY ONLY <1>4, <2>1, <2>2, <2>3 DEF PageTypeOK
  <2> QED
    BY ONLY <1>2, <2>1, <2>4 DEF PageTypeOK
<1>10. Spinning'
  BY <1>2, <1>4, <1>5 DEF PageInv, Spinning
<1> QED
  BY <1>2, <1>7, <1>8, <1>9, <1>10 DEF PageInv, Key

(* The rows after an answer are rows that were there and rows it brought. A  *)
(* mark has fields of its own, so that what it is stays hidden.              *)
LEMMA MergedRows ==
  ASSUME shown \in RowRecords, NEW l \in LoadRecords, NEW rows \in Merged(l),
         NEW mark, mark = Mark(l.filter, l.revision)
  PROVE  /\ rows \in RowRecords /\ rows.head \in {mark, shown.head}
         /\ ({rows.head} \cup rows.tail) \subseteq (Marks \cup {mark})
<1>1. mark \in AnyMark /\ shown.head \in AnyMark /\ shown.tail \subseteq AnyMark /\ shown.page \in Nat \ {0}
  BY DEF Mark, AnyMark, LoadRecords, RowRecords
<1>2. CASE l.kind = "initial"
  <2>1. rows = [head |-> mark, tail |-> {}, page |-> 1]
    BY <1>2 DEF Merged
  <2> QED
    BY <1>1, <2>1 DEF RowRecords
<1>3. CASE l.kind = "append"
  <2>1. rows = [shown EXCEPT !.tail = shown.tail \cup {mark}, !.page = shown.page + 1]
    BY <1>3 DEF Merged
  <2>2. rows = [head |-> shown.head, tail |-> shown.tail \cup {mark}, page |-> shown.page + 1]
    BY <2>1 DEF RowRecords
  <2>3. rows.head = shown.head /\ rows.tail = shown.tail \cup {mark} /\ rows \in RowRecords
    BY <1>1, <2>2 DEF RowRecords
  <2> QED
    BY <2>3 DEF Marks
<1>4. CASE l.kind = "refresh"
  <2>1. PICK n \in 1 .. shown.page :
            rows \in {[head |-> mark, tail |-> kept, page |-> n] :
                        kept \in IF n > RefreshPages THEN SUBSET Marks ELSE {{}}}
    BY <1>4 DEF Merged
  <2>2. PICK kept \in SUBSET Marks : rows = [head |-> mark, tail |-> kept, page |-> n]
    BY <2>1
  <2>3. Marks \subseteq AnyMark /\ n \in Nat \ {0}
    BY <1>1 DEF Marks
  <2> QED
    BY <1>1, <2>2, <2>3 DEF RowRecords
<1> QED
  BY <1>2, <1>3, <1>4 DEF LoadRecords, LoadKinds

(* Only the latest load may show its rows, and they are not older than those *)
(* at the head of the page.                                                  *)
LEMMA AnswerKeeps ==
  ASSUME PageInv, Answer
  PROVE  PageInv' /\ Onward
<1>1. PICK l \in loads :
        /\ l.revision > 0
        /\ loads' = loads \ {l}
        /\ IF l.current
           THEN /\ shown' \in Merged(l)
                /\ recent' = l.key
                /\ loading' = FALSE
                /\ loadingMore' = (loadingMore /\ l.kind # "append")
           ELSE UNCHANGED <<shown, recent, loading, loadingMore>>
  BY DEF Answer
<1>2. /\ filter' = filter /\ starting' = starting /\ mine' = mine /\ stamp' = stamp
      /\ UNCHANGED serverVars
  BY DEF Answer, serverVars
<1>3. l \in LoadRecords /\ LoadOK(l) /\ PageTypeOK
  BY DEF PageInv, PageTypeOK
<1>4. CASE l.current
  <2> PICK mark : mark = Mark(l.filter, l.revision)
    OBVIOUS
  <2>1. /\ mark.filter = filter /\ mark.revision = l.revision /\ l.revision \in Nat
        /\ shown.head.revision \in Nat /\ shown.head.revision <= l.revision /\ l.revision <= mine
    BY <1>1, <1>3, <1>4 DEF LoadOK, LoadRecords, Mark, PageTypeOK, RowRecords, AnyMark
  <2>2. /\ shown' \in RowRecords /\ shown'.head \in {mark, shown.head}
        /\ Marks' \subseteq (Marks \cup {mark})
    <3>1. ({shown'.head} \cup shown'.tail) \subseteq (Marks \cup {mark}) /\ shown' \in RowRecords
          /\ shown'.head \in {mark, shown.head}
      BY <1>1, <1>3, <1>4, MergedRows DEF PageTypeOK
    <3> QED
      BY <3>1 DEF Marks
  <2>3. Onward
    BY <1>2, <2>1, <2>2 DEF Onward, OfFilter
  <2>4. starting => recent' # Key("initial")
    <3>1. starting => recent'[1] # "initial"
      BY <1>1, <1>3, <1>4 DEF LoadOK
    <3>2. Key("initial")[1] = "initial"
      BY DEF Key
    <3> QED
      BY <3>1, <3>2
  <2>5. \A x \in loads' : ~x.current
    BY <1>1, <1>4 DEF PageInv, OneCounts
  <2>6. PageTypeOK'
    <3>1. loading' \in BOOLEAN /\ loadingMore' \in BOOLEAN /\ recent' \in LoadKeys
      BY <1>1, <1>3, <1>4 DEF LoadRecords
    <3>2. shown'.head.revision <= mine
      BY <2>1, <2>2, <1>3 DEF PageTypeOK
    <3> QED
      BY <1>1, <1>2, <1>3, <2>2, <3>1, <3>2 DEF PageTypeOK
  <2>7. Spinning'
    <3>1. ~loading'
      BY <1>1, <1>4
    <3>2. loadingMore' => starting
      <4>1. CASE l.kind = "append"
        BY <1>1, <1>4, <4>1
      <4>2. CASE l.kind # "append"
        BY <1>1, <1>4, <4>2 DEF PageInv, Spinning, OneCounts
      <4> QED
        BY <4>1, <4>2
    <3> QED
      BY <1>2, <3>1, <3>2 DEF Spinning
  <2>8. PageInv'
    BY <1>1, <1>2, <2>4, <2>5, <2>6, <2>7, Lessened DEF Key
  <2> QED
    BY <2>3, <2>8
<1>5. CASE ~l.current
  <2>1. shown' = shown /\ recent' = recent /\ loading' = loading /\ loadingMore' = loadingMore
    BY <1>1, <1>5
  <2>2. PageTypeOK'
    BY <1>1, <1>2, <1>3, <2>1 DEF PageTypeOK
  <2>3. (starting => recent # Key("initial"))'
    BY <1>2, <2>1 DEF PageInv, Key
  <2>4. Spinning'
    BY <1>1, <1>2, <1>5, <2>1 DEF PageInv, Spinning
  <2>5. PageInv'
    BY <1>1, <1>2, <2>1, <2>2, <2>3, <2>4, Lessened
  <2> QED
    BY <2>1, <2>5, RowsStay
<1> QED
  BY <1>4, <1>5

LEMMA AnswerFailsKeeps ==
  ASSUME PageInv, AnswerFails
  PROVE  PageInv'
<1>1. PICK l \in loads :
        /\ loads' = loads \ {l}
        /\ loading' = (loading /\ ~l.current)
        /\ loadingMore' = (loadingMore /\ ~(l.current /\ l.kind = "append"))
  BY DEF AnswerFails
<1>2. /\ filter' = filter /\ starting' = starting /\ mine' = mine /\ stamp' = stamp
      /\ UNCHANGED serverVars /\ recent' = recent /\ shown' = shown
  BY DEF AnswerFails, serverVars
<1>3. PageTypeOK'
  <2>1. loading' \in BOOLEAN /\ loadingMore' \in BOOLEAN
    BY ONLY <1>1
  <2> QED
    BY <1>1, <1>2, <2>1 DEF PageInv, PageTypeOK
<1>4. (starting => recent # Key("initial"))'
  BY <1>2 DEF PageInv, Key
<1>5. Spinning'
  <2>1. loading' => starting \/ \E x \in loads' : x.current
    BY <1>1 DEF PageInv, Spinning
  <2>2. loadingMore' => starting \/ \E x \in loads' : x.current /\ x.kind = "append"
    BY <1>1 DEF PageInv, Spinning
  <2> QED
    BY <1>2, <2>1, <2>2 DEF Spinning
<1> QED
  BY <1>1, <1>2, <1>3, <1>4, <1>5, Lessened

LEMMA RecentPassesKeeps ==
  ASSUME PageInv, RecentPasses
  PROVE  PageInv'
<1>1. /\ filter' = filter /\ starting' = starting /\ mine' = mine /\ stamp' = stamp
      /\ UNCHANGED serverVars /\ recent' = <<>> /\ shown' = shown /\ loads' = loads
      /\ loading' = loading /\ loadingMore' = loadingMore
  BY DEF RecentPasses, serverVars
<1>2. PageTypeOK' /\ <<>> # Key("initial")'
  BY <1>1 DEF PageInv, PageTypeOK, Key
<1>3. Spinning'
  BY <1>1 DEF PageInv, Spinning
<1> QED
  BY <1>1, <1>2, <1>3, Lessened

LEMMA ChooseKeeps ==
  ASSUME PageInv, Choose
  PROVE  PageInv' /\ Onward
<1>1. /\ filter' \in Filters /\ filter' # filter /\ starting' = TRUE
      /\ mine' = mine /\ stamp' = stamp
      /\ recent' = <<>> /\ shown' \in {shown, Nothing} /\ loading' \in {loading, TRUE}
      /\ loadingMore' = loadingMore
      /\ loads' = {[l EXCEPT !.current = FALSE, !.held = FALSE] : l \in loads}
  BY DEF Choose, serverVars
<1>2. ASSUME NEW x \in loads'
      PROVE  x \in LoadRecords /\ LoadOK(x)' /\ ~x.current /\ x.revision <= mine
  <2>1. PICK l \in loads : x = [l EXCEPT !.current = FALSE, !.held = FALSE]
    BY <1>1
  <2>2. l \in LoadRecords /\ LoadOK(l) /\ l.revision <= mine
    BY DEF PageInv, PageTypeOK
  <2>3. /\ x \in LoadRecords /\ x.key = l.key /\ x.kind = l.kind /\ x.filter = l.filter
        /\ x.held = FALSE /\ x.current = FALSE /\ x.revision = l.revision
    BY <2>1, <2>2 DEF LoadRecords
  <2> QED
    BY <1>1, <2>2, <2>3 DEF LoadOK
<1>3. PageTypeOK' /\ <<>> # Key("initial")'
  <2>1. shown' \in RowRecords /\ shown'.head.revision <= mine
    <3>1. CASE shown' = shown
      BY <3>1 DEF PageInv, PageTypeOK
    <3>2. CASE shown' = Nothing
      BY <3>2, NoRows DEF PageInv, PageTypeOK
    <3> QED
      BY <1>1, <3>1, <3>2
  <2> QED
    BY <1>1, <1>2, <2>1 DEF PageInv, PageTypeOK, Key
<1>4. Spinning'
  BY <1>1 DEF Spinning
<1> QED
  BY <1>1, <1>2, <1>3, <1>4 DEF PageInv, OneCounts, Onward

LEMMA PageStep ==
  ASSUME PageInv, [PageNext]_clientVars
  PROVE  PageInv' /\ Onward
<1>1. CASE \/ Publish \/ Connection \/ Reject \/ Lose \/ Heartbeat \/ ServerRestarts \/ Poll
           \/ UNCHANGED clientVars
  BY <1>1, ElsewhereSteps, RowsStay
<1>2. CASE StartInitialLoad
  BY <1>2, Starts, RowsStay DEF StartInitialLoad, LoadKinds
<1>3. CASE StartRefresh
  BY <1>3, Starts, RowsStay DEF StartRefresh, LoadKinds
<1>4. CASE StartAppend
  BY <1>4, Starts, RowsStay DEF StartAppend, LoadKinds
<1>5. CASE ServerReads
  BY <1>5, ServerReadsKeeps, RowsStay DEF ServerReads
<1>6. CASE Answer
  BY <1>6, AnswerKeeps
<1>7. CASE AnswerFails
  BY <1>7, AnswerFailsKeeps, RowsStay DEF AnswerFails
<1>8. CASE RecentPasses
  BY <1>8, RecentPassesKeeps, RowsStay DEF RecentPasses
<1>9. CASE Choose
  BY <1>9, ChooseKeeps
<1> QED
  BY <1>1, <1>2, <1>3, <1>4, <1>5, <1>6, <1>7, <1>8, <1>9 DEF PageNext, Loading

LEMMA PageAlways == PageSpec => []PageInv
<1>1. PageInv /\ [PageNext]_clientVars => PageInv'
  BY PageStep
<1> QED
  BY <1>1, InitPage, PTL DEF PageSpec

LEMMA PageMeans == PageInv => SpinnerEnds
<1> SUFFICES ASSUME PageInv PROVE SpinnerEnds
  OBVIOUS
<1> DEFINE S == {l \in loads : l.current}
<1>1. CASE S = {}
  <2>1. Cardinality(S) = 0
    BY ONLY <1>1, FS_EmptySet
  <2> QED
    BY <2>1 DEF SpinnerEnds, PageInv, Spinning
<1>2. ASSUME NEW l \in S
      PROVE  SpinnerEnds
  <2>1. S = {l}
    BY DEF PageInv, OneCounts
  <2>2. Cardinality(S) = 1
    BY ONLY <2>1, FS_Singleton
  <2> QED
    BY <2>2 DEF SpinnerEnds, PageInv, Spinning
<1> QED
  BY <1>1, <1>2

(* However loads overlap, fail and are superseded: the page says that it     *)
(* loads, or that it loads more, only while its latest request is open or    *)
(* about to be made (loadAlerts).                                            *)
THEOREM LoadingEnds == PageSpec => []SpinnerEnds
<1> QED
  BY PageAlways, PageMeans, PTL

(* Whatever answers overtake each other, pages are appended and refreshes    *)
(* merge: rows come only from the filter that is asked for, never older than *)
(* the head of the page, and rows of a filter that was left do not come back *)
(* once they are gone (loadAlerts).                                          *)
THEOREM PagesGoForward == PageSpec => PageForward
<1>1. PageInv /\ [PageNext]_clientVars => [Onward]_clientVars
  BY PageStep
<1> QED
  BY <1>1, PageAlways, PTL DEF PageSpec, PageForward, Onward
=============================================================================
