--------------------------- MODULE QueryPoolProofs ---------------------------
(***************************************************************************)
(* For any finite set of queries and any number of workers: client and     *)
(* slots agree, the number of processes stays bounded, and no query waits  *)
(* for a place that is free.                                               *)
(*                                                                         *)
(* dispatch() is a loop and an abort runs a list of listeners, so the      *)
(* proofs are inductions over their rounds.                                *)
(***************************************************************************)
EXTENDS QueryPool, FiniteSetTheorems, SequenceTheorems, WellFoundedInduction, TLAPS

-----------------------------------------------------------------------------
(* Natural numbers and sequences.                                            *)

(* A set that starts at 0 and has with a number the next one.  (The library  *)
(* states induction for an operator; a set is what the provers instantiate.) *)
LEMMA SetInduction ==
  ASSUME NEW S, 0 \in S, \A n \in Nat : n \in S => n + 1 \in S
  PROVE  Nat \subseteq S
<1> DEFINE T == Nat \ S
           R == OpToRel(<, Nat)
<1> SUFFICES ASSUME T # {} PROVE FALSE
  OBVIOUS
<1>1. \E x \in T : \A y \in T : <<y, x>> \notin R
  <2>1. IsWellFoundedOn(R, Nat)
    BY NatLessThanWellFounded
  <2> HIDE DEF R
  <2> QED
    BY <2>1, WFMin
<1>2. PICK x \in T : \A y \in T : ~ (y < x)
  BY <1>1 DEF OpToRel
<1>3. x # 0 /\ x - 1 \in Nat /\ x - 1 < x /\ x = (x - 1) + 1
  OBVIOUS
<1> QED
  BY <1>2, <1>3

LEMMA LeastNumber ==
  ASSUME NEW I \in SUBSET Nat, I # {}
  PROVE  Min(I) \in I
<1> DEFINE S == {n \in Nat : \A i \in I : i >= n}
<1>1. \E x \in I : \A y \in I : x <= y
  <2> SUFFICES ASSUME \A x \in I : \E y \in I : ~ (x <= y)
               PROVE  FALSE
    OBVIOUS
  <2>1. 0 \in S
    OBVIOUS
  <2>2. ASSUME NEW n \in Nat, n \in S
        PROVE  n + 1 \in S
    <3>1. n \notin I
      BY <2>2
    <3> QED
      BY <2>2, <3>1
  <2>3. Nat \subseteq S
    <3> HIDE DEF S
    <3> QED
      BY <2>1, <2>2, SetInduction
  <2>4. PICK i \in I : TRUE
    OBVIOUS
  <2> QED
    BY <2>3, <2>4
<1> QED
  BY <1>1 DEF Min

(* Where a sequence has its first element of a kind.                         *)
LEMMA FirstIdle ==
  ASSUME NEW p \in Pools
  PROVE  \/ Idle(p) = 0 /\ \A s \in ToSet(p.workers) : s \in p.retiring \/ p.current[s] # None
         \/ /\ Idle(p) \in 1 .. Len(p.workers)
            /\ p.workers[Idle(p)] \notin p.retiring /\ p.current[p.workers[Idle(p)]] = None
<1> DEFINE I == {i \in 1 .. Len(p.workers) : p.workers[i] \notin p.retiring /\ p.current[p.workers[i]] = None}
<1>1. Idle(p) = IF I # {} THEN Min(I) ELSE 0
  BY DEF Idle, SelectInSeq
<1>2. p.workers \in Seq(Queries) /\ DOMAIN p.workers = 1 .. Len(p.workers) /\ Len(p.workers) \in Nat
  BY DEF Pools
<1>3. CASE I = {}
  BY <1>1, <1>2, <1>3 DEF ToSet
<1>4. CASE I # {}
  <2>1. I \in SUBSET Nat
    BY <1>2
  <2>2. Min(I) \in I
    BY <1>4, <2>1, LeastNumber
  <2> QED
    BY <1>1, <1>4, <2>2
<1> QED
  BY <1>3, <1>4

LEMMA EndsOf ==
  ASSUME NEW S, NEW s \in Seq(S), s # <<>>, IsInjective(s)
  PROVE  /\ Head(s) \in ToSet(s) /\ Head(s) \in S
         /\ Tail(s) \in Seq(S) /\ Len(Tail(s)) = Len(s) - 1 /\ Len(s) \in Nat \ {0}
         /\ ToSet(Tail(s)) = ToSet(s) \ {Head(s)}
         /\ IsInjective(Tail(s))
<1> DEFINE n == Len(s)
<1>1. /\ n \in Nat \ {0} /\ DOMAIN s = 1 .. n
      /\ Head(s) = s[1] /\ 1 \in 1 .. n /\ s[1] \in S
      /\ \A i, j \in 1 .. n : s[i] = s[j] => i = j
  BY DEF IsInjective
<1>2. /\ Tail(s) \in Seq(S) /\ Len(Tail(s)) = n - 1 /\ DOMAIN Tail(s) = 1 .. n - 1
      /\ \A i \in 1 .. n - 1 : Tail(s)[i] = s[i + 1] /\ i + 1 \in 1 .. n /\ i + 1 # 1
  BY <1>1
<1>3. \A j \in 1 .. n : j # 1 => j - 1 \in 1 .. n - 1 /\ (j - 1) + 1 = j
  BY <1>1
<1> HIDE DEF n
<1>4. ToSet(Tail(s)) \subseteq ToSet(s) \ {Head(s)}
  BY <1>1, <1>2 DEF ToSet
<1>5. ASSUME NEW x \in ToSet(s), x # Head(s)
      PROVE  x \in ToSet(Tail(s))
  <2>1. PICK j \in 1 .. n : x = s[j] /\ j # 1
    BY <1>1, <1>5 DEF ToSet
  <2>2. Tail(s)[j - 1] = x /\ j - 1 \in DOMAIN Tail(s)
    BY <1>2, <1>3, <2>1
  <2> QED
    BY <2>2 DEF ToSet
<1>6. IsInjective(Tail(s))
  BY <1>1, <1>2 DEF IsInjective
<1>7. Head(s) \in ToSet(s)
  BY <1>1 DEF ToSet
<1> QED
  BY <1>1, <1>2, <1>4, <1>5, <1>6, <1>7 DEF n

LEMMA Appended ==
  ASSUME NEW S, NEW s \in Seq(S), NEW e \in S, IsInjective(s), e \notin ToSet(s)
  PROVE  /\ Append(s, e) \in Seq(S) /\ Len(Append(s, e)) = Len(s) + 1
         /\ ToSet(Append(s, e)) = ToSet(s) \cup {e}
         /\ IsInjective(Append(s, e))
<1> DEFINE n == Len(s)
           t == Append(s, e)
<1>1. /\ n \in Nat /\ DOMAIN s = 1 .. n /\ \A i, j \in 1 .. n : s[i] = s[j] => i = j
      /\ \A i \in 1 .. n : s[i] # e
  BY DEF IsInjective, ToSet
<1>2. /\ t \in Seq(S) /\ Len(t) = n + 1 /\ DOMAIN t = 1 .. n + 1
      /\ t[n + 1] = e /\ \A i \in 1 .. n : t[i] = s[i]
  BY <1>1
<1>3. \A i : i \in 1 .. n + 1 <=> i \in 1 .. n \/ i = n + 1
  BY <1>1
<1> HIDE DEF t, n
<1>4. ToSet(t) = ToSet(s) \cup {e}
  <2>1. ToSet(t) \subseteq ToSet(s) \cup {e}
    BY <1>1, <1>2, <1>3 DEF ToSet
  <2>2. ToSet(s) \subseteq ToSet(t)
    BY <1>1, <1>2, <1>3 DEF ToSet
  <2>3. e \in ToSet(t)
    BY <1>2, <1>3 DEF ToSet
  <2> QED
    BY <2>1, <2>2, <2>3
<1>5. IsInjective(t)
  BY <1>1, <1>2, <1>3 DEF IsInjective
<1> QED
  BY <1>2, <1>4, <1>5 DEF t, n

(* Taking the element at place k out of a sequence.                          *)
LEMMA SpliceOut ==
  ASSUME NEW S, NEW s \in Seq(S), NEW k \in DOMAIN s, IsInjective(s)
  PROVE  /\ RemoveAt(s, k) \in Seq(S) /\ Len(RemoveAt(s, k)) = Len(s) - 1
         /\ ToSet(RemoveAt(s, k)) = ToSet(s) \ {s[k]}
         /\ IsInjective(RemoveAt(s, k))
<1> DEFINE n == Len(s)
           a == SubSeq(s, 1, k - 1)
           b == SubSeq(s, k + 1, n)
           t == RemoveAt(s, k)
           old(i) == IF i < k THEN i ELSE i + 1
           new(i) == IF i < k THEN i ELSE i - 1
<1>1. n \in Nat /\ DOMAIN s = 1 .. n /\ k \in 1 .. n /\ \A i, j \in 1 .. n : s[i] = s[j] => i = j
  BY DEF IsInjective
<1>2. a \in Seq(S) /\ Len(a) = k - 1 /\ \A i \in 1 .. k - 1 : a[i] = s[i]
  BY <1>1
<1>3. b \in Seq(S) /\ Len(b) = n - k /\ \A i \in 1 .. n - k : b[i] = s[k + i]
  BY <1>1
<1>4. t = a \o b
  BY DEF RemoveAt
<1> HIDE DEF a, b, t
<1>5. t \in Seq(S) /\ Len(t) = n - 1 /\ DOMAIN t = 1 .. n - 1
  <2>1. t \in Seq(S) /\ Len(t) = Len(a) + Len(b)
    BY <1>2, <1>3, <1>4, ConcatProperties
  <2> QED
    BY <1>1, <1>2, <1>3, <2>1
<1>6. \A i \in 1 .. n - 1 : t[i] = s[old(i)]
  <2>1. ASSUME NEW i \in 1 .. n - 1, i < k
        PROVE  t[i] = s[i]
    <3>1. i \in 1 .. Len(a) + Len(b) /\ i <= Len(a) /\ i \in 1 .. k - 1
      BY <1>1, <1>2, <1>3, <2>1
    <3>2. t[i] = a[i]
      BY <1>2, <1>3, <1>4, <3>1, ConcatProperties
    <3> QED
      BY <1>2, <3>1, <3>2
  <2>2. ASSUME NEW i \in 1 .. n - 1, ~(i < k)
        PROVE  t[i] = s[i + 1]
    <3>1. /\ i \in 1 .. Len(a) + Len(b) /\ ~(i <= Len(a))
          /\ i - Len(a) \in 1 .. n - k /\ k + (i - Len(a)) = i + 1
      BY <1>1, <1>2, <1>3, <2>2
    <3>2. t[i] = b[i - Len(a)]
      BY <1>2, <1>3, <1>4, <3>1, ConcatProperties
    <3>3. b[i - Len(a)] = s[k + (i - Len(a))]
      BY <1>3, <3>1
    <3> QED
      BY <3>1, <3>2, <3>3
  <2> QED
    BY <1>1, <2>1, <2>2
<1>7. \A i \in 1 .. n - 1 : old(i) \in 1 .. n /\ old(i) # k
  BY <1>1
<1>8. \A i \in 1 .. n : i # k => new(i) \in 1 .. n - 1 /\ old(new(i)) = i
  BY <1>1
<1>9. \A i, j \in 1 .. n - 1 : old(i) = old(j) => i = j
  BY <1>1
<1> HIDE DEF old, new, n
<1>10. ToSet(t) \subseteq ToSet(s) \ {s[k]}
  BY <1>1, <1>5, <1>6, <1>7 DEF ToSet
<1>11. ASSUME NEW x \in ToSet(s), x # s[k]
       PROVE  x \in ToSet(t)
  <2>1. PICK i \in 1 .. n : x = s[i]
    BY <1>1 DEF ToSet
  <2>2. new(i) \in 1 .. n - 1 /\ t[new(i)] = x
    BY <1>6, <1>8, <1>11, <2>1
  <2> QED
    BY <1>5, <2>2 DEF ToSet
<1>12. IsInjective(t)
  BY <1>1, <1>5, <1>6, <1>7, <1>9 DEF IsInjective
<1> QED
  BY <1>5, <1>10, <1>11, <1>12 DEF t, n

LEMMA FirstRemoved ==
  ASSUME NEW S, NEW s \in Seq(S), NEW e, IsInjective(s)
  PROVE  /\ RemoveFirst(s, e) \in Seq(S) /\ Len(RemoveFirst(s, e)) <= Len(s)
         /\ ToSet(RemoveFirst(s, e)) = ToSet(s) \ {e}
         /\ IsInjective(RemoveFirst(s, e))
         /\ e \notin ToSet(s) => RemoveFirst(s, e) = s
<1> DEFINE I == {i \in 1 .. Len(s) : s[i] = e}
<1>1. Len(s) \in Nat /\ DOMAIN s = 1 .. Len(s)
  OBVIOUS
<1>2. CASE I = {}
  <2>1. RemoveFirst(s, e) = s
    BY <1>2 DEF RemoveFirst
  <2>2. e \notin ToSet(s)
    BY <1>1, <1>2 DEF ToSet
  <2> QED
    BY <1>1, <2>1, <2>2
<1>3. CASE I # {}
  <2>1. I \in SUBSET Nat
    BY <1>1
  <2>2. Min(I) \in I
    BY <1>3, <2>1, LeastNumber
  <2> PICK k \in DOMAIN s : k = Min(I) /\ s[k] = e
    BY <1>1, <2>2
  <2>3. RemoveFirst(s, e) = RemoveAt(s, k)
    BY <1>3 DEF RemoveFirst, SelectInSeq
  <2>4. e \in ToSet(s)
    BY DEF ToSet
  <2>5. /\ RemoveAt(s, k) \in Seq(S) /\ Len(RemoveAt(s, k)) = Len(s) - 1
        /\ ToSet(RemoveAt(s, k)) = ToSet(s) \ {e} /\ IsInjective(RemoveAt(s, k))
    BY SpliceOut
  <2> HIDE DEF I
  <2> QED
    BY <1>1, <2>3, <2>4, <2>5
<1> QED
  BY <1>2, <1>3

(* A sequence names no more than its length.                                 *)
LEMMA NamesAtMost ==
  ASSUME NEW S, NEW s \in Seq(S)
  PROVE  IsFiniteSet(ToSet(s)) /\ Cardinality(ToSet(s)) \in Nat /\ Cardinality(ToSet(s)) <= Len(s)
<1> DEFINE n == Len(s)
<1>1. n \in Nat /\ DOMAIN s = 1 .. n
  OBVIOUS
<1>2. [i \in 1 .. n |-> s[i]] \in Surjection(1 .. n, ToSet(s))
  BY <1>1 DEF Surjection, ToSet
<1>3. ExistsSurjection(1 .. n, ToSet(s))
  BY <1>2 DEF ExistsSurjection
<1>4. IsFiniteSet(ToSet(s))
  BY <1>1, <1>3, FS_NatSurjection
<1> QED
  BY <1>1, <1>3, <1>4, FS_SurjCardinalityBound, FS_CardinalityType

-----------------------------------------------------------------------------
(* The rounds of dispatch() and of an abort are what their recursion says.   *)

LEMMA RoundsAre ==
  ASSUME NEW p, NEW n \in Nat, Len(p.queue) = n
  PROVE  /\ Rounds(p)[0] = p
         /\ \A i \in 0 .. n - 1 : Rounds(p)[i + 1] = NextRound(Rounds(p)[i])
<1> DEFINE Are(f, m) == f = [i \in 0 .. m |-> IF i = 0 THEN p ELSE NextRound(f[i - 1])]
           S == {m \in Nat : \E f : Are(f, m)}
<1>1. 0 \in S
  <2> DEFINE f == [i \in 0 .. 0 |-> p]
  <2>1. Are(f, 0)
    OBVIOUS
  <2> QED
    BY <2>1
<1>2. ASSUME NEW m \in Nat, m \in S
      PROVE  m + 1 \in S
  <2> PICK f : Are(f, m)
    BY <1>2
  <2> DEFINE g == [i \in 0 .. m + 1 |-> IF i = m + 1 THEN NextRound(f[m]) ELSE f[i]]
  <2>1. \A i \in 0 .. m + 1 : g[i] = IF i = 0 THEN p ELSE NextRound(g[i - 1])
    <3>1. f[0] = p /\ \A i \in 1 .. m : f[i] = NextRound(f[i - 1])
      OBVIOUS
    <3>2. g[0] = p /\ \A i \in 0 .. m : g[i] = f[i]
      BY <3>1
    <3>3. g[m + 1] = NextRound(g[m])
      BY <3>2
    <3>4. \A i \in 1 .. m : i - 1 \in 0 .. m
      OBVIOUS
    <3> HIDE DEF g
    <3>5. \A i \in 1 .. m : g[i] = NextRound(g[i - 1])
      BY <3>1, <3>2, <3>4
    <3> QED
      BY <3>2, <3>3, <3>5
  <2>2. g = [i \in 0 .. m + 1 |-> g[i]]
    OBVIOUS
  <2>3. Are(g, m + 1)
    <3> HIDE DEF g
    <3> QED
      BY <2>1, <2>2
  <2> HIDE DEF g, Are
  <2> QED
    BY <2>3
<1>3. n \in S
  <2> HIDE DEF S
  <2> QED
    BY <1>1, <1>2, SetInduction
<1>4. Are(Rounds(p), n)
  <2>1. \E f : Are(f, n)
    BY <1>3
  <2>2. Rounds(p) = CHOOSE f : Are(f, n)
    BY DEF Rounds
  <2> QED
    BY <2>1, <2>2
<1> HIDE DEF S
<1> DEFINE r == Rounds(p)
<1>5. r = [i \in 0 .. n |-> IF i = 0 THEN p ELSE NextRound(r[i - 1])]
  BY <1>4
<1> HIDE DEF r
<1>6. r[0] = p /\ \A i \in 1 .. n : r[i] = NextRound(r[i - 1])
  BY <1>5
<1>7. \A i \in 0 .. n - 1 : i + 1 \in 1 .. n /\ (i + 1) - 1 = i
  OBVIOUS
<1> QED
  BY <1>6, <1>7 DEF r

LEMMA AbortsAre ==
  ASSUME NEW p, NEW ls, NEW n \in Nat, Len(ls) = n
  PROVE  /\ Aborts(p, ls)[0] = p
         /\ \A i \in 0 .. n - 1 : Aborts(p, ls)[i + 1] = AbortPending(Aborts(p, ls)[i], ls[i + 1])
<1> DEFINE Are(f, m) == f = [i \in 0 .. m |-> IF i = 0 THEN p ELSE AbortPending(f[i - 1], ls[i])]
           S == {m \in Nat : \E f : Are(f, m)}
<1>1. 0 \in S
  <2> DEFINE f == [i \in 0 .. 0 |-> p]
  <2>1. Are(f, 0)
    OBVIOUS
  <2> QED
    BY <2>1
<1>2. ASSUME NEW m \in Nat, m \in S
      PROVE  m + 1 \in S
  <2> PICK f : Are(f, m)
    BY <1>2
  <2> DEFINE g == [i \in 0 .. m + 1 |-> IF i = m + 1 THEN AbortPending(f[m], ls[m + 1]) ELSE f[i]]
  <2>1. \A i \in 0 .. m + 1 : g[i] = IF i = 0 THEN p ELSE AbortPending(g[i - 1], ls[i])
    <3>1. f[0] = p /\ \A i \in 1 .. m : f[i] = AbortPending(f[i - 1], ls[i])
      OBVIOUS
    <3>2. g[0] = p /\ \A i \in 0 .. m : g[i] = f[i]
      BY <3>1
    <3>3. g[m + 1] = AbortPending(g[m], ls[m + 1])
      BY <3>2
    <3>4. \A i \in 1 .. m : i - 1 \in 0 .. m
      OBVIOUS
    <3> HIDE DEF g
    <3>5. \A i \in 1 .. m : g[i] = AbortPending(g[i - 1], ls[i])
      BY <3>1, <3>2, <3>4
    <3> QED
      BY <3>2, <3>3, <3>5
  <2>2. g = [i \in 0 .. m + 1 |-> g[i]]
    OBVIOUS
  <2>3. Are(g, m + 1)
    <3> HIDE DEF g
    <3> QED
      BY <2>1, <2>2
  <2> HIDE DEF g, Are
  <2> QED
    BY <2>3
<1>3. n \in S
  <2> HIDE DEF S
  <2> QED
    BY <1>1, <1>2, SetInduction
<1>4. Are(Aborts(p, ls), n)
  <2>1. \E f : Are(f, n)
    BY <1>3
  <2>2. Aborts(p, ls) = CHOOSE f : Are(f, n)
    BY DEF Aborts
  <2> QED
    BY <2>1, <2>2
<1> HIDE DEF S
<1> DEFINE r == Aborts(p, ls)
<1>5. r = [i \in 0 .. n |-> IF i = 0 THEN p ELSE AbortPending(r[i - 1], ls[i])]
  BY <1>4
<1> HIDE DEF r
<1>6. r[0] = p /\ \A i \in 1 .. n : r[i] = AbortPending(r[i - 1], ls[i])
  BY <1>5
<1>7. \A i \in 0 .. n - 1 : i + 1 \in 1 .. n /\ (i + 1) - 1 = i
  OBVIOUS
<1> QED
  BY <1>6, <1>7 DEF r

-----------------------------------------------------------------------------
(* The inductive invariant.                                                  *)

Live(p) == {s \in Queries : p.proc[s] \in {"running", "killed"}}

(* Everything about the pool but for what slot s and its query disagree on   *)
(* while the client gives one of them up.                                    *)
AgreeBut(p, s) ==
    /\ \A q \in Queries : p.stage[q] = "running" =>
          /\ p.current[p.on[q]] = q
          /\ p.on[q] # None
          /\ p.on[q] # s => p.on[q] \in ToSet(p.workers) /\ p.on[q] \notin p.retiring
    /\ \A w \in Queries : p.current[w] # None =>
          /\ w \notin p.retiring
          /\ p.on[p.current[w]] = w
          /\ w # s /\ w \in ToSet(p.workers) => p.stage[p.current[w]] = "running"

(* A slot is named after a query that has left the queue, and a query that   *)
(* has not left it belongs to nobody.                                        *)
Named(p) ==
    /\ \A q \in Queries : p.stage[q] \in {"idle", "queued"} => p.proc[q] = "unborn" /\ p.on[q] = None
    /\ \A w \in Queries : p.proc[w] = "unborn" => w \notin p.retiring /\ p.current[w] = None
    /\ \A w \in ToSet(p.workers) : p.proc[w] \notin {"unborn", "gone"}

(* Until close() the slots are the processes whose exit is not reported.     *)
Housed(p) ==
    /\ IsInjective(p.workers)
    /\ IF p.closed THEN p.workers = <<>> /\ p.queue = <<>>
       ELSE /\ Len(p.workers) <= MaxWorkers
            /\ \A w \in Queries : p.proc[w] \in {"running", "killed", "dead", "cut"} => w \in ToSet(p.workers)

Queued(p) ==
    /\ IsInjective(p.queue)
    /\ ToSet(p.queue) = {q \in Queries : p.stage[q] = "queued"}

PoolBut(p, s) == p \in Pools /\ AgreeBut(p, s) /\ Named(p) /\ Housed(p) /\ Queued(p)

PoolOK(p) == PoolBut(p, None)

Served(p) == p.queue # <<>> => ~HasPlace(p)

PoolInv ==
    /\ PoolOK(pool)
    /\ Served(pool)
    /\ Cardinality(Live(pool)) <= MaxWorkers
    /\ listeners \in Seq(Queries)
    /\ replies \in [Queries -> Queries \cup {None}]

LEMMA InvMeans ==
  ASSUME PoolInv
  PROVE  SlotsMatchQueries /\ BoundedProcesses /\ WorkConserving
<1>1. /\ pool \in Pools /\ AgreeBut(pool, None) /\ Named(pool) /\ Queued(pool)
  BY DEF PoolInv, PoolOK, PoolBut
<1>2. ToSet(pool.workers) \subseteq Queries
  BY <1>1 DEF Pools, ToSet
<1>3. SlotsMatchQueries
  <2>1. \A q \in Queries :
          pool.stage[q] = "running" => /\ pool.on[q] \in ToSet(pool.workers) \ pool.retiring
                                       /\ pool.current[pool.on[q]] = q
    BY <1>1 DEF AgreeBut
  <2>2. ASSUME NEW s \in ToSet(pool.workers), pool.current[s] # None
        PROVE  /\ s \notin pool.retiring
               /\ pool.stage[pool.current[s]] = "running"
               /\ pool.on[pool.current[s]] = s
    BY <1>1, <1>2, <2>2, PoolAssumption DEF AgreeBut
  <2> QED
    BY <1>1, <2>1, <2>2 DEF SlotsMatchQueries, Queued
<1> QED
  BY <1>3 DEF PoolInv, BoundedProcesses, Live, WorkConserving, Served

(* Taking a slot out of service.                                             *)
LEMMA RetireOK ==
  ASSUME NEW p, NEW s \in Queries, PoolBut(p, s), p.proc[s] # "unborn",
         \A q \in Queries : p.stage[q] = "running" => p.on[q] # s
  PROVE  /\ PoolOK(Retire(p, s))
         /\ Retire(p, s).queue = p.queue /\ Retire(p, s).workers = p.workers
         /\ Retire(p, s).closed = p.closed /\ Retire(p, s).on = p.on
         /\ Retire(p, s).stage = p.stage
         /\ Live(Retire(p, s)) \subseteq Live(p)
<1>1. p \in Pools /\ AgreeBut(p, s) /\ Named(p) /\ Housed(p) /\ Queued(p)
  BY DEF PoolBut
<1>2. CASE s \in p.retiring
  <2>1. Retire(p, s) = p
    BY <1>2 DEF Retire
  <2>2. AgreeBut(p, None)
    BY <1>1, <1>2 DEF AgreeBut
  <2> QED
    BY <1>1, <2>1, <2>2 DEF PoolOK, PoolBut
<1>3. CASE s \notin p.retiring
  <2> PICK r : r = Retire(p, s)
    OBVIOUS
  <2>1. /\ r.queue = p.queue /\ r.workers = p.workers /\ r.closed = p.closed /\ r.on = p.on
        /\ r.stage = p.stage /\ r.task = p.task
        /\ r.retiring = p.retiring \cup {s}
        /\ r.current = [p.current EXCEPT ![s] = None]
        /\ r.proc = [p.proc EXCEPT ![s] = IF @ = "running" THEN "killed" ELSE @]
        /\ r \in Pools
    BY <1>1, <1>3 DEF Retire, Terminate, Pools, ProcStates
  <2>2. /\ r.current[s] = None /\ \A w \in Queries : w # s => r.current[w] = p.current[w] /\ r.proc[w] = p.proc[w]
        /\ r.proc[s] = IF p.proc[s] = "running" THEN "killed" ELSE p.proc[s]
    BY <1>1, <2>1 DEF Pools
  <2>3. \A q \in Queries : p.on[q] \in Queries \cup {None}
    BY <1>1 DEF Pools
  <2>4. AgreeBut(r, None)
    BY <1>1, <2>1, <2>2, <2>3, PoolAssumption DEF AgreeBut
  <2>5. ToSet(p.workers) \subseteq Queries
    BY <1>1 DEF Pools, ToSet
  <2>6. Named(r)
    BY <1>1, <2>1, <2>2, <2>5 DEF Named
  <2>7. Housed(r)
    BY <1>1, <2>1, <2>2 DEF Housed
  <2>8. Queued(r) /\ Live(r) \subseteq Live(p)
    BY <1>1, <2>1, <2>2 DEF Queued, Live
  <2> QED
    BY <2>1, <2>4, <2>6, <2>7, <2>8 DEF PoolOK, PoolBut
<1> QED
  BY <1>2, <1>3

(* A query that was in nobody's hands or in its worker's is settled.         *)
LEMMA SettleFields ==
  ASSUME NEW p \in Pools, NEW q \in Queries, NEW outcome \in Stages
  PROVE  LET r == Settle(p, q, outcome)
         IN  /\ r \in Pools
             /\ r.queue = p.queue /\ r.workers = p.workers /\ r.closed = p.closed /\ r.on = p.on
             /\ r.current = p.current /\ r.retiring = p.retiring /\ r.proc = p.proc
             /\ r.stage = IF p.stage[q] \in {"queued", "running"} THEN [p.stage EXCEPT ![q] = outcome] ELSE p.stage
<1>1. CASE p.stage[q] \in {"queued", "running"}
  BY <1>1 DEF Settle, Pools
<1>2. CASE p.stage[q] \notin {"queued", "running"}
  BY <1>2 DEF Settle, Pools
<1> QED
  BY <1>1, <1>2

(* A running query is given up with its slot, or before it.                  *)
Rejected(p, q) == [p EXCEPT !.stage[q] = "rejected"]

LEMMA GiveUp ==
  ASSUME NEW p, NEW s \in Queries, PoolBut(p, s), NEW q \in Queries, p.on[q] = s, p.stage[q] = "running",
         NEW r, r = Rejected(p, q)
  PROVE  /\ PoolBut(r, s)
         /\ r.queue = p.queue /\ r.workers = p.workers /\ r.closed = p.closed /\ r.on = p.on
         /\ r.current = p.current /\ r.retiring = p.retiring /\ r.proc = p.proc
         /\ \A x \in Queries : r.stage[x] = "running" => r.on[x] # s
         /\ Live(r) = Live(p)
<1>1. p \in Pools /\ AgreeBut(p, s) /\ Named(p) /\ Housed(p) /\ Queued(p)
  BY DEF PoolBut
<1>2. /\ r \in Pools /\ r.stage = [p.stage EXCEPT ![q] = "rejected"]
      /\ r.queue = p.queue /\ r.workers = p.workers /\ r.closed = p.closed /\ r.on = p.on
      /\ r.current = p.current /\ r.retiring = p.retiring /\ r.proc = p.proc
  BY <1>1 DEF Pools, Stages, Rejected
<1>3. r.stage[q] = "rejected" /\ \A x \in Queries : x # q => r.stage[x] = p.stage[x]
  BY <1>2, <1>1 DEF Pools
<1>4. p.current[s] = q
  BY <1>1 DEF AgreeBut
<1>5. \A x \in Queries : r.stage[x] = "running" => r.on[x] # s
  BY <1>2, <1>1, <1>3, <1>4 DEF AgreeBut
<1>6. p.workers \in Seq(Queries) /\ \A w \in Queries : p.current[w] \in Queries \cup {None}
  BY <1>1 DEF Pools
<1>7. AgreeBut(r, s)
  <2>1. ASSUME NEW w \in Queries, r.current[w] # None, w # s, w \in ToSet(r.workers)
        PROVE  r.stage[r.current[w]] = "running"
    <3>1. p.current[w] \in Queries /\ p.stage[p.current[w]] = "running" /\ p.on[p.current[w]] = w
      BY <1>2, <1>1, <1>6, <2>1 DEF AgreeBut
    <3> QED
      BY <1>2, <1>3, <2>1, <3>1
  <2> QED
    BY <1>2, <1>1, <1>3, <2>1 DEF AgreeBut
<1>8. Named(r)
  BY <1>2, <1>1, <1>3 DEF Named
<1>9. Housed(r) /\ Queued(r) /\ Live(r) = Live(p)
  BY <1>2, <1>1, <1>3 DEF Housed, Queued, Live
<1> QED
  BY <1>2, <1>5, <1>7, <1>8, <1>9 DEF PoolBut

(* handleWorkerFailure().                                                    *)
LEMMA FailOK ==
  ASSUME NEW p, NEW s \in Queries, PoolBut(p, s), p.proc[s] # "unborn"
  PROVE  /\ PoolOK(Fail(p, s))
         /\ Fail(p, s).queue = p.queue /\ Fail(p, s).workers = p.workers
         /\ Fail(p, s).closed = p.closed /\ Fail(p, s).on = p.on
         /\ Live(Fail(p, s)) \subseteq Live(p)
<1>1. p \in Pools /\ AgreeBut(p, s) /\ Named(p)
  BY DEF PoolBut
<1>2. p.current[s] \in Queries \cup {None}
  BY <1>1 DEF Pools
<1>3. CASE p.current[s] # None /\ p.stage[p.current[s]] = "running"
  <2> PICK q \in Queries : q = p.current[s]
    BY <1>2, <1>3
  <2> PICK r : r = Rejected(p, q)
    OBVIOUS
  <2>1. p.on[q] = s
    BY <1>1, <1>3 DEF AgreeBut
  <2>2. /\ PoolBut(r, s)
        /\ \A x \in Queries : r.stage[x] = "running" => r.on[x] # s
        /\ Live(r) = Live(p)
        /\ r.queue = p.queue /\ r.workers = p.workers /\ r.closed = p.closed /\ r.on = p.on /\ r.proc = p.proc
    BY <1>3, <2>1, GiveUp
  <2>3. Settle(p, q, "rejected") = r
    BY <1>3 DEF Settle, Rejected
  <2>4. Fail(p, s) = Retire(r, s)
    BY <1>3, <2>3 DEF Fail
  <2>5. /\ PoolOK(Retire(r, s))
        /\ Retire(r, s).queue = r.queue /\ Retire(r, s).workers = r.workers
        /\ Retire(r, s).closed = r.closed /\ Retire(r, s).on = r.on
        /\ Live(Retire(r, s)) \subseteq Live(r)
    BY <2>2, RetireOK
  <2> QED
    BY <2>2, <2>4, <2>5
<1>4. CASE ~(p.current[s] # None /\ p.stage[p.current[s]] = "running")
  <2>1. Fail(p, s) = Retire(p, s)
    <3>1. CASE p.current[s] = None
      BY <3>1 DEF Fail
    <3>2. CASE p.current[s] # None
      <4>1. p.stage[p.current[s]] # "queued"
        BY <1>1, <1>2, <3>2, PoolAssumption DEF AgreeBut, Named
      <4> QED
        BY <1>4, <3>2, <4>1 DEF Fail, Settle
    <3> QED
      BY <3>1, <3>2
  <2>2. \A x \in Queries : p.stage[x] = "running" => p.on[x] # s
    BY <1>1, <1>4, PoolAssumption DEF AgreeBut
  <2> QED
    BY <2>1, <2>2, RetireOK
<1> QED
  BY <1>3, <1>4

LEMMA AgreesBut ==
  ASSUME NEW p, PoolOK(p), NEW s
  PROVE  PoolBut(p, s)
<1>1. p \in Pools /\ AgreeBut(p, None) /\ ToSet(p.workers) \subseteq Queries
  BY DEF PoolOK, PoolBut, Pools, ToSet
<1>2. AgreeBut(p, s)
  BY <1>1, PoolAssumption DEF AgreeBut
<1> QED
  BY <1>2 DEF PoolOK, PoolBut

(* One round of dispatch().                                                  *)
LEMMA StartOK ==
  ASSUME NEW p, PoolOK(p), ~p.closed, p.queue # <<>>, HasPlace(p)
  PROVE  /\ PoolOK(StartNext(p)) /\ ~StartNext(p).closed
         /\ Len(StartNext(p).queue) = Len(p.queue) - 1
<1>1. /\ p \in Pools /\ AgreeBut(p, None) /\ Named(p) /\ Housed(p) /\ Queued(p)
      /\ p.workers \in Seq(Queries) /\ p.queue \in Seq(Queries)
      /\ ToSet(p.workers) \subseteq Queries
      /\ IsInjective(p.workers) /\ IsInjective(p.queue)
      /\ p.retiring \subseteq Queries
  BY DEF PoolOK, PoolBut, Pools, Housed, Queued, ToSet
<1>2. /\ Head(p.queue) \in Queries /\ Tail(p.queue) \in Seq(Queries)
      /\ Len(Tail(p.queue)) = Len(p.queue) - 1
      /\ ToSet(Tail(p.queue)) = ToSet(p.queue) \ {Head(p.queue)} /\ IsInjective(Tail(p.queue))
      /\ Head(p.queue) \in ToSet(p.queue)
  BY <1>1, EndsOf
<1> PICK q \in Queries : q = Head(p.queue)
  BY <1>2
<1>3. /\ p.stage[q] = "queued" /\ p.proc[q] = "unborn" /\ p.on[q] = None
      /\ q \notin p.retiring /\ p.current[q] = None /\ q \notin ToSet(p.workers)
  BY <1>1, <1>2 DEF Queued, Named
<1> PICK new \in BOOLEAN : new = (Idle(p) = 0)
  OBVIOUS
<1> PICK s : s = IF new THEN q ELSE p.workers[Idle(p)]
  OBVIOUS
<1>4. /\ s \in Queries /\ s \notin p.retiring /\ p.current[s] = None
      /\ new => s = q /\ Len(p.workers) < MaxWorkers
      /\ ~new => s \in ToSet(p.workers)
  <2>1. CASE new
    BY <1>3, <2>1 DEF HasPlace
  <2>2. CASE ~new
    <3>1. /\ Idle(p) \in 1 .. Len(p.workers) /\ s = p.workers[Idle(p)]
          /\ p.workers[Idle(p)] \notin p.retiring /\ p.current[p.workers[Idle(p)]] = None
      BY <1>1, <2>2, FirstIdle
    <3>2. DOMAIN p.workers = 1 .. Len(p.workers)
      BY <1>1
    <3>3. s \in ToSet(p.workers)
      BY <3>1, <3>2 DEF ToSet
    <3> QED
      BY <1>1, <2>2, <3>1, <3>3
  <2> QED
    BY <2>1, <2>2
<1> DEFINE start == [p EXCEPT !.queue = Tail(@),
                              !.stage[q] = "running",
                              !.on[q] = s,
                              !.current[s] = q,
                              !.workers = IF new THEN Append(@, s) ELSE @,
                              !.proc[s] = IF new THEN "running" ELSE @]
<1> PICK r : r = start
  OBVIOUS
<1>5. IF new THEN /\ Append(p.workers, s) \in Seq(Queries) /\ Len(Append(p.workers, s)) = Len(p.workers) + 1
                  /\ ToSet(Append(p.workers, s)) = ToSet(p.workers) \cup {s}
                  /\ IsInjective(Append(p.workers, s))
      ELSE TRUE
  BY <1>1, <1>3, <1>4, Appended
<1>6. /\ r.queue = Tail(p.queue) /\ r.closed = p.closed /\ r.retiring = p.retiring
      /\ r.stage = [p.stage EXCEPT ![q] = "running"]
      /\ r.on = [p.on EXCEPT ![q] = s]
      /\ r.current = [p.current EXCEPT ![s] = q]
      /\ r.workers = IF new THEN Append(p.workers, s) ELSE p.workers
      /\ r.proc = [p.proc EXCEPT ![s] = IF new THEN "running" ELSE @]
      /\ r.task = p.task
  BY <1>1 DEF Pools
<1>7. /\ r.stage \in [Queries -> Stages] /\ r.on \in [Queries -> Queries \cup {None}]
      /\ r.current \in [Queries -> Queries \cup {None}] /\ r.proc \in [Queries -> ProcStates]
      /\ r.workers \in Seq(Queries)
  <2>1. /\ p.stage \in [Queries -> Stages] /\ p.on \in [Queries -> Queries \cup {None}]
        /\ p.current \in [Queries -> Queries \cup {None}] /\ p.proc \in [Queries -> ProcStates]
    BY <1>1 DEF Pools
  <2>2. "running" \in Stages /\ "running" \in ProcStates
    BY DEF Stages, ProcStates
  <2> QED
    BY <1>1, <1>4, <1>5, <1>6, <2>1, <2>2
<1>8. r \in Pools
  <2>1. r = [queue |-> r.queue, stage |-> r.stage, on |-> r.on, workers |-> r.workers, current |-> r.current,
             retiring |-> r.retiring, closed |-> r.closed, proc |-> r.proc, task |-> r.task]
    BY <1>1 DEF Pools
  <2>2. p.retiring \subseteq Queries /\ p.closed \in BOOLEAN /\ p.task \in [Queries -> Queries \cup {None}]
    BY <1>1 DEF Pools
  <2> QED
    BY <1>2, <1>6, <1>7, <2>1, <2>2 DEF Pools
<1>9. /\ r.stage[q] = "running" /\ \A x \in Queries : x # q => r.stage[x] = p.stage[x] /\ r.on[x] = p.on[x]
      /\ r.on[q] = s /\ r.current[s] = q
      /\ \A w \in Queries : w # s => r.current[w] = p.current[w] /\ r.proc[w] = p.proc[w]
      /\ r.proc[s] = IF new THEN "running" ELSE p.proc[s]
      /\ ToSet(r.workers) = ToSet(p.workers) \cup {s}
  <2>1. /\ p.stage \in [Queries -> Stages] /\ p.on \in [Queries -> Queries \cup {None}]
        /\ p.current \in [Queries -> Queries \cup {None}] /\ p.proc \in [Queries -> ProcStates]
    BY <1>1 DEF Pools
  <2> QED
    BY <1>4, <1>5, <1>6, <2>1
<1> HIDE DEF start
<1>10. AgreeBut(r, None)
  <2>1. ASSUME NEW x \in Queries, r.stage[x] = "running"
        PROVE  r.current[r.on[x]] = x /\ r.on[x] # None /\ r.on[x] \in ToSet(r.workers) /\ r.on[x] \notin r.retiring
    <3>1. CASE x = q
      BY <1>4, <1>6, <1>9, <3>1, PoolAssumption
    <3>2. CASE x # q
      <4>1. /\ p.current[p.on[x]] = x /\ p.on[x] # None /\ p.on[x] \in ToSet(p.workers) /\ p.on[x] \notin p.retiring
        BY <1>1, <1>9, <2>1, <3>2 DEF AgreeBut
      <4>2. p.on[x] # s /\ p.on[x] \in Queries
        BY <1>1, <1>4, <4>1, PoolAssumption
      <4> QED
        BY <1>6, <1>9, <3>2, <4>1, <4>2
    <3> QED
      BY <3>1, <3>2
  <2>2. ASSUME NEW w \in Queries, r.current[w] # None
        PROVE  /\ w \notin r.retiring /\ r.on[r.current[w]] = w
               /\ r.stage[r.current[w]] = "running" \/ w \notin ToSet(r.workers)
    <3>1. CASE w = s
      BY <1>4, <1>6, <1>9, <3>1
    <3>2. CASE w # s
      <4>1. /\ w \notin p.retiring /\ p.on[p.current[w]] = w /\ p.current[w] = r.current[w]
            /\ p.current[w] \in Queries
            /\ w \in ToSet(p.workers) => p.stage[p.current[w]] = "running"
        BY <1>1, <1>9, <2>2, <3>2, PoolAssumption DEF AgreeBut, Pools
      <4>2. p.current[w] # q
        BY <1>3, <4>1, PoolAssumption
      <4> QED
        BY <1>6, <1>9, <3>2, <4>1, <4>2
    <3> QED
      BY <3>1, <3>2
  <2> QED
    BY <2>1, <2>2 DEF AgreeBut
<1>11. Named(r)
  <2>1. \A x \in Queries : r.stage[x] \in {"idle", "queued"} => r.proc[x] = "unborn" /\ r.on[x] = None
    BY <1>1, <1>3, <1>4, <1>9 DEF Named
  <2>2. \A w \in Queries : r.proc[w] = "unborn" => w \notin r.retiring /\ r.current[w] = None
    BY <1>1, <1>4, <1>6, <1>9 DEF Named
  <2>3. \A w \in ToSet(r.workers) : r.proc[w] \notin {"unborn", "gone"}
    BY <1>1, <1>4, <1>9 DEF Named
  <2> QED
    BY <2>1, <2>2, <2>3 DEF Named
<1>12. Housed(r)
  <2>1. IsInjective(r.workers)
    BY <1>1, <1>5, <1>6
  <2>2. Len(r.workers) <= MaxWorkers
    BY <1>1, <1>4, <1>5, <1>6, PoolAssumption DEF Housed
  <2>3. \A w \in Queries : r.proc[w] \in {"running", "killed", "dead", "cut"} => w \in ToSet(r.workers)
    BY <1>1, <1>9 DEF Housed
  <2> QED
    BY <1>6, <2>1, <2>2, <2>3 DEF Housed
<1>13. Queued(r)
  BY <1>1, <1>2, <1>3, <1>6, <1>9 DEF Queued
<1>14. PoolOK(r)
  BY <1>8, <1>10, <1>11, <1>12, <1>13 DEF PoolOK, PoolBut
<1>15. StartNext(p) = CASE r.proc[s] = "cut"  -> Fail(r, s)
                        [] r.proc[s] = "dead" -> r
                        [] OTHER              -> [r EXCEPT !.task[s] = q]
  BY DEF StartNext, start
<1>16. CASE r.proc[s] = "cut"
  <2>1. PoolBut(r, s)
    BY <1>14, AgreesBut
  <2>2. PoolOK(Fail(r, s)) /\ Fail(r, s).queue = r.queue /\ Fail(r, s).closed = r.closed
    BY <1>4, <1>16, <2>1, FailOK
  <2>3. StartNext(p) = Fail(r, s)
    BY <1>15, <1>16
  <2> QED
    BY ZenonT(40), <1>2, <1>6, <2>2, <2>3
<1>17. CASE r.proc[s] = "dead"
  <2>1. StartNext(p) = r
    BY <1>15, <1>17
  <2> QED
    BY <1>2, <1>6, <1>14, <2>1
<1>18. CASE r.proc[s] \notin {"cut", "dead"}
  <2> PICK u : u = [r EXCEPT !.task[s] = q]
    OBVIOUS
  <2>1. StartNext(p) = u
    BY <1>15, <1>18
  <2>2. /\ u.queue = r.queue /\ u.stage = r.stage /\ u.on = r.on /\ u.workers = r.workers
        /\ u.current = r.current /\ u.retiring = r.retiring /\ u.closed = r.closed /\ u.proc = r.proc
        /\ u \in Pools
    BY <1>8 DEF Pools
  <2>3. PoolOK(u)
    BY <1>14, <2>2 DEF PoolOK, PoolBut, AgreeBut, Named, Housed, Queued
  <2>4. ~u.closed /\ Len(u.queue) = Len(p.queue) - 1
    BY ZenonT(40), <1>2, <1>6, <2>2
  <2> QED
    BY <2>1, <2>3, <2>4, Zenon
<1> QED
  BY <1>16, <1>17, <1>18

(* dispatch() as a whole: afterwards no query waits for a place that is free.*)
LEMMA DispatchOK ==
  ASSUME NEW p, PoolOK(p)
  PROVE  PoolOK(Dispatch(p)) /\ Served(Dispatch(p)) /\ Dispatch(p).closed = p.closed
<1>1. p.queue \in Seq(Queries) /\ p.closed \in BOOLEAN
  BY DEF PoolOK, PoolBut, Pools
<1>2. CASE p.closed
  <2>1. Dispatch(p) = p
    BY <1>2 DEF Dispatch
  <2>2. p.queue = <<>>
    BY <1>2 DEF PoolOK, PoolBut, Housed
  <2> QED
    BY <2>1, <2>2 DEF Served
<1>3. CASE ~p.closed
  <2> PICK n \in Nat : n = Len(p.queue)
    BY <1>1
  <2> PICK r : r = Rounds(p)
    OBVIOUS
  <2>1. r[0] = p /\ \A i \in 0 .. n - 1 : r[i + 1] = NextRound(r[i])
    BY RoundsAre
  <2> DEFINE Good(i) == /\ PoolOK(r[i]) /\ ~r[i].closed
                        /\ HasPlace(r[i]) => Len(r[i].queue) = n - i
             S == {i \in Nat : i <= n => Good(i)}
  <2>2. 0 \in S
    BY <1>3, <2>1
  <2>3. ASSUME NEW i \in Nat, i \in S
        PROVE  i + 1 \in S
    <3> SUFFICES ASSUME i + 1 <= n
                 PROVE  Good(i + 1)
      OBVIOUS
    <3>1. Good(i) /\ r[i + 1] = NextRound(r[i])
      BY <2>1, <2>3
    <3>2. CASE HasPlace(r[i])
      <4>1. r[i].queue # <<>> /\ Len(r[i].queue) = n - i
        <5>1. Len(r[i].queue) = n - i
          BY <3>1, <3>2
        <5> QED
          BY <5>1
      <4>2. /\ PoolOK(StartNext(r[i])) /\ ~StartNext(r[i]).closed
            /\ Len(StartNext(r[i]).queue) = Len(r[i].queue) - 1
        BY <3>1, <3>2, <4>1, StartOK
      <4>3. r[i + 1] = StartNext(r[i])
        BY <3>1, <3>2 DEF NextRound
      <4> QED
        BY <4>1, <4>2, <4>3
    <3>3. CASE ~HasPlace(r[i])
      <4>1. r[i + 1] = r[i]
        BY <3>1, <3>3 DEF NextRound
      <4> QED
        BY <3>1, <3>3, <4>1
    <3> QED
      BY <3>2, <3>3
  <2>4. n \in S
    <3> HIDE DEF S
    <3> QED
      BY <2>2, <2>3, SetInduction
  <2>5. Good(n)
    BY <2>4
  <2>6. Dispatch(p) = r[n]
    BY <1>3 DEF Dispatch
  <2>7. r[n].queue \in Seq(Queries)
    BY <2>5 DEF PoolOK, PoolBut, Pools
  <2>8. Served(r[n])
    <3> SUFFICES ASSUME HasPlace(r[n])
                 PROVE  r[n].queue = <<>>
      BY DEF Served
    <3>1. Len(r[n].queue) = 0
      BY <2>5
    <3> QED
      BY <2>7, <3>1
  <2>9. r[n].closed = p.closed
    <3>1. r[n].closed \in BOOLEAN
      BY <2>5 DEF PoolOK, PoolBut, Pools
    <3> QED
      BY <1>1, <1>3, <2>5, <3>1
  <2> QED
    BY <2>5, <2>6, <2>8, <2>9, Zenon
<1> QED
  BY <1>1, <1>2, <1>3

(* Where nobody waits for a free place it does nothing.                      *)
LEMMA NothingToDispatch ==
  ASSUME NEW p, p.queue \in Seq(Queries), Served(p)
  PROVE  Dispatch(p) = p
<1> PICK n \in Nat : n = Len(p.queue)
  OBVIOUS
<1> PICK r : r = Rounds(p)
  OBVIOUS
<1>1. r[0] = p /\ \A i \in 0 .. n - 1 : r[i + 1] = NextRound(r[i])
  BY RoundsAre
<1>2. r[n] = p
  <2>1. CASE n = 0
    BY <1>1, <2>1
  <2>2. CASE n # 0
    <3>1. ~HasPlace(p)
      BY <2>2 DEF Served
    <3>2. NextRound(p) = p
      BY <3>1 DEF NextRound
    <3> DEFINE S == {i \in Nat : i <= n => r[i] = p}
    <3>3. 0 \in S
      BY <1>1
    <3>4. ASSUME NEW i \in Nat, i \in S
          PROVE  i + 1 \in S
      <4> SUFFICES ASSUME i + 1 <= n
                   PROVE  r[i + 1] = p
        OBVIOUS
      <4>1. r[i] = p /\ r[i + 1] = NextRound(r[i])
        BY <1>1, <3>4
      <4> QED
        BY <3>2, <4>1
    <3>5. n \in S
      <4> HIDE DEF S
      <4> QED
        BY <3>3, <3>4, SetInduction
    <3> QED
      BY <3>5
  <2> QED
    BY <2>1, <2>2
<1> QED
  BY <1>2 DEF Dispatch

LEMMA PlaceMeans ==
  ASSUME NEW p \in Pools
  PROVE  HasPlace(p) <=> \/ Len(p.workers) < MaxWorkers
                         \/ \E w \in ToSet(p.workers) : w \notin p.retiring /\ p.current[w] = None
<1>1. DOMAIN p.workers = 1 .. Len(p.workers) /\ Len(p.workers) \in Nat
  BY DEF Pools
<1>2. Idle(p) # 0 <=> \E w \in ToSet(p.workers) : w \notin p.retiring /\ p.current[w] = None
  <2>1. CASE Idle(p) = 0 /\ \A s \in ToSet(p.workers) : s \in p.retiring \/ p.current[s] # None
    BY <2>1
  <2>2. CASE /\ Idle(p) \in 1 .. Len(p.workers)
             /\ p.workers[Idle(p)] \notin p.retiring /\ p.current[p.workers[Idle(p)]] = None
    <3>1. p.workers[Idle(p)] \in ToSet(p.workers) /\ Idle(p) # 0
      BY <1>1, <2>2 DEF ToSet
    <3> QED
      BY <2>2, <3>1
  <2> QED
    BY <2>1, <2>2, FirstIdle
<1> QED
  BY <1>2 DEF HasPlace

Dequeued(p, q) == [p EXCEPT !.stage[q] = "rejected", !.queue = RemoveFirst(@, q)]

(* A waiting query leaves the queue: by its timer, or given up.              *)
LEMMA LeaveQueue ==
  ASSUME NEW p, PoolOK(p), Served(p), NEW q \in Queries, p.stage[q] = "queued",
         NEW r, r = Dequeued(p, q)
  PROVE  /\ PoolOK(r) /\ Served(r)
         /\ r.on = p.on /\ r.closed = p.closed /\ r.proc = p.proc /\ r.queue \in Seq(Queries)
<1>1. /\ p \in Pools /\ AgreeBut(p, None) /\ Named(p) /\ Housed(p) /\ Queued(p)
      /\ p.queue \in Seq(Queries) /\ IsInjective(p.queue)
  BY DEF PoolOK, PoolBut, Pools, Queued
<1> PICK t : t = RemoveFirst(p.queue, q)
  OBVIOUS
<1>2. /\ t \in Seq(Queries) /\ Len(t) <= Len(p.queue) /\ ToSet(t) = ToSet(p.queue) \ {q} /\ IsInjective(t)
  BY <1>1, FirstRemoved
<1>3. /\ r.queue = t /\ r.stage = [p.stage EXCEPT ![q] = "rejected"] /\ r.on = p.on /\ r.workers = p.workers
      /\ r.current = p.current /\ r.retiring = p.retiring /\ r.closed = p.closed /\ r.proc = p.proc
      /\ r \in Pools
  BY <1>1, <1>2 DEF Pools, Stages, Dequeued
<1>4. r.stage[q] = "rejected" /\ \A x \in Queries : x # q => r.stage[x] = p.stage[x]
  BY <1>1, <1>3 DEF Pools
<1>5. AgreeBut(r, None)
  <2>1. \A w \in Queries : p.current[w] # q
    BY <1>1, PoolAssumption DEF AgreeBut, Named
  <2>2. \A w \in Queries : p.current[w] \in Queries \cup {None}
    BY <1>1 DEF Pools
  <2> QED
    BY <1>1, <1>3, <1>4, <2>1, <2>2 DEF AgreeBut
<1>6. Named(r)
  BY <1>1, <1>3, <1>4 DEF Named
<1>7. Housed(r)
  <2>1. p.queue = <<>> => t = <<>>
    BY <1>1, <1>2
  <2> QED
    BY <1>1, <1>3, <2>1 DEF Housed
<1>8. Queued(r)
  BY <1>1, <1>2, <1>3, <1>4 DEF Queued
<1>9. Served(r)
  <2>1. t # <<>> => p.queue # <<>>
    BY <1>1, <1>2
  <2>2. HasPlace(r) <=> HasPlace(p)
    <3>1. HasPlace(r) <=> \/ Len(p.workers) < MaxWorkers
                          \/ \E w \in ToSet(p.workers) : w \notin p.retiring /\ p.current[w] = None
      BY <1>3, PlaceMeans
    <3> QED
      BY <1>1, <3>1, PlaceMeans
  <2> QED
    BY <1>3, <2>1, <2>2 DEF Served
<1> QED
  BY <1>2, <1>3, <1>5, <1>6, <1>7, <1>8, <1>9 DEF PoolOK, PoolBut

(* A running query leaves its worker, which keeps its place until its exit.  *)
LEMMA LeaveWorker ==
  ASSUME NEW p, PoolOK(p), Served(p), NEW q \in Queries, p.stage[q] = "running",
         NEW r, r = Retire(Rejected(p, q), p.on[q])
  PROVE  /\ PoolOK(r) /\ Served(r)
         /\ r.on = p.on /\ r.closed = p.closed /\ Live(r) \subseteq Live(p) /\ r.queue \in Seq(Queries)
<1>1. /\ p \in Pools /\ AgreeBut(p, None) /\ Named(p)
      /\ p.queue \in Seq(Queries) /\ ToSet(p.workers) \subseteq Queries
  BY DEF PoolOK, PoolBut, Pools, ToSet
<1> PICK s \in Queries : s = p.on[q] /\ s \in ToSet(p.workers) /\ p.proc[s] # "unborn"
                         /\ s \notin p.retiring /\ p.current[s] = q
  BY <1>1 DEF AgreeBut, Named
<1> PICK g : g = Rejected(p, q)
  OBVIOUS
<1>2. /\ PoolBut(g, s)
      /\ \A x \in Queries : g.stage[x] = "running" => g.on[x] # s
      /\ Live(g) = Live(p)
      /\ g.queue = p.queue /\ g.workers = p.workers /\ g.closed = p.closed /\ g.on = p.on
      /\ g.current = p.current /\ g.retiring = p.retiring /\ g.proc = p.proc
  <2>1. PoolBut(p, s)
    BY AgreesBut
  <2> QED
    BY <2>1, GiveUp
<1>3. /\ PoolOK(r) /\ r.queue = p.queue /\ r.workers = p.workers
      /\ r.closed = p.closed /\ r.on = p.on /\ Live(r) \subseteq Live(p)
  <2>1. r = Retire(g, s) /\ g.proc[s] # "unborn"
    BY <1>2
  <2>2. /\ PoolOK(Retire(g, s))
        /\ Retire(g, s).queue = g.queue /\ Retire(g, s).workers = g.workers
        /\ Retire(g, s).closed = g.closed /\ Retire(g, s).on = g.on
        /\ Live(Retire(g, s)) \subseteq Live(g)
    BY <1>2, <2>1, RetireOK
  <2> QED
    BY <1>2, <2>1, <2>2
<1>4. /\ r.retiring = p.retiring \cup {s}
      /\ \A w \in Queries : w # s => r.current[w] = p.current[w]
  BY <1>1, <1>2 DEF Retire, Terminate, Pools
<1>5. HasPlace(r) => HasPlace(p)
  <2>1. r \in Pools
    BY <1>3 DEF PoolOK, PoolBut
  <2> QED
    BY <1>1, <1>3, <1>4, <2>1, PlaceMeans
<1>6. Served(r)
  BY <1>3, <1>5 DEF Served
<1> QED
  BY <1>1, <1>3, <1>6

(* Whoever is given up, nobody else is handed to a worker.                   *)
LEMMA AbortOK ==
  ASSUME NEW p, PoolOK(p), Served(p), NEW q \in Queries
  PROVE  LET r == AbortPending(p, q)
         IN  /\ PoolOK(r) /\ Served(r)
             /\ r.on = p.on /\ r.closed = p.closed /\ Live(r) \subseteq Live(p)
<1>1. /\ p \in Pools /\ AgreeBut(p, None) /\ Queued(p)
      /\ p.queue \in Seq(Queries) /\ IsInjective(p.queue)
  BY DEF PoolOK, PoolBut, Pools, Queued
<1> PICK given : given = [Settle(p, q, "rejected") EXCEPT !.queue = RemoveFirst(@, q)]
  OBVIOUS
<1>2. CASE p.stage[q] = "queued"
  <2>1. given = Dequeued(p, q)
    BY <1>1, <1>2 DEF Settle, Pools, Dequeued
  <2>2. /\ PoolOK(given) /\ Served(given) /\ given.queue \in Seq(Queries)
        /\ given.on = p.on /\ given.closed = p.closed /\ given.proc = p.proc
    BY <1>2, <2>1, LeaveQueue
  <2>3. AbortPending(p, q) = given
    <3>1. AbortPending(p, q) = Dispatch(given)
      BY <1>2 DEF AbortPending
    <3> QED
      BY <2>2, <3>1, NothingToDispatch
  <2> QED
    BY <2>2, <2>3 DEF Live
<1>3. CASE p.stage[q] = "running"
  <2>1. p.current[p.on[q]] = q
    BY <1>1, <1>3 DEF AgreeBut
  <2> PICK g : g = Rejected(p, q)
    OBVIOUS
  <2>2. given = g
    <3>1. q \notin ToSet(p.queue)
      BY <1>1, <1>3 DEF Queued
    <3>2. RemoveFirst(p.queue, q) = p.queue
      BY <1>1, <3>1, FirstRemoved
    <3>3. Settle(p, q, "rejected") = g
      BY <1>3 DEF Settle, Rejected
    <3>4. g.queue = p.queue /\ g \in Pools
      BY <1>1 DEF Pools, Stages, Rejected
    <3>5. given = [g EXCEPT !.queue = g.queue]
      BY <3>2, <3>3, <3>4
    <3> HIDE DEF Rejected
    <3> QED
      BY <3>4, <3>5 DEF Pools
  <2> PICK r : r = Retire(g, p.on[q])
    OBVIOUS
  <2>3. /\ PoolOK(r) /\ Served(r)
        /\ r.on = p.on /\ r.closed = p.closed /\ Live(r) \subseteq Live(p) /\ r.queue \in Seq(Queries)
    BY <1>3, LeaveWorker
  <2>4. Dispatch(r) = r
    BY <2>3, NothingToDispatch
  <2>5. given.current = p.current
    BY <1>1, <2>2 DEF Pools, Rejected
  <2>6. AbortPending(p, q) = r
    BY <1>3, <2>1, <2>2, <2>4, <2>5 DEF AbortPending
  <2> QED
    BY <2>3, <2>6
<1>4. CASE p.stage[q] \notin {"queued", "running"}
  BY <1>4 DEF AbortPending
<1> QED
  BY <1>2, <1>3, <1>4

-----------------------------------------------------------------------------
(* The events.  After each of them the pool is in order, nobody waits for a  *)
(* free place, and a closed pool has forked nothing.                         *)

Kept(p, n) ==
    /\ PoolOK(n)
    /\ Served(n)
    /\ n.closed => Live(n) \subseteq Live(p)

SamePlaces(p, n) ==
    n.workers = p.workers /\ n.retiring = p.retiring /\ n.current = p.current

LEMMA PlacesKept ==
  ASSUME NEW p \in Pools, NEW n \in Pools, SamePlaces(p, n)
  PROVE  HasPlace(n) <=> HasPlace(p)
<1>1. HasPlace(n) <=> \/ Len(p.workers) < MaxWorkers
                      \/ \E w \in ToSet(p.workers) : w \notin p.retiring /\ p.current[w] = None
  BY PlaceMeans DEF SamePlaces
<1> QED
  BY <1>1, PlaceMeans

LEMMA Dispatched ==
  ASSUME NEW p, NEW m, PoolOK(m), Live(m) \subseteq Live(p)
  PROVE  Kept(p, Dispatch(m))
<1>1. PoolOK(Dispatch(m)) /\ Served(Dispatch(m)) /\ Dispatch(m).closed = m.closed
  BY DispatchOK
<1>2. m.closed => Dispatch(m) = m
  BY DEF Dispatch
<1> QED
  BY <1>1, <1>2 DEF Kept

LEMMA AskRefused ==
  ASSUME NEW p, PoolOK(p), Served(p), NEW q \in Queries, p.stage[q] = "idle",
         NEW n, n = Rejected(p, q)
  PROVE  Kept(p, n)
<1>1. /\ p \in Pools /\ AgreeBut(p, None) /\ Named(p) /\ Housed(p) /\ Queued(p)
      /\ ToSet(p.workers) \subseteq Queries
  BY DEF PoolOK, PoolBut, Pools, ToSet
<1>2. /\ n \in Pools /\ n.stage = [p.stage EXCEPT ![q] = "rejected"] /\ n.queue = p.queue
      /\ n.workers = p.workers /\ n.closed = p.closed /\ n.on = p.on
      /\ n.current = p.current /\ n.retiring = p.retiring /\ n.proc = p.proc
  BY <1>1 DEF Pools, Stages, Rejected
<1>3. n.stage[q] = "rejected" /\ \A x \in Queries : x # q => n.stage[x] = p.stage[x]
  BY <1>1, <1>2 DEF Pools
<1>4. \A w \in Queries : p.current[w] \in Queries \cup {None} /\ p.current[w] # q
  BY <1>1, PoolAssumption DEF Pools, Named, AgreeBut
<1>5. AgreeBut(n, None)
  BY <1>1, <1>2, <1>3, <1>4 DEF AgreeBut
<1>6. Named(n) /\ Housed(n) /\ Queued(n)
  BY <1>1, <1>2, <1>3 DEF Named, Housed, Queued
<1>7. Served(n)
  BY <1>1, <1>2, PlacesKept DEF Served, SamePlaces
<1> QED
  BY <1>2, <1>5, <1>6, <1>7 DEF Kept, PoolOK, PoolBut, Live

LEMMA AskQueued ==
  ASSUME NEW p, PoolOK(p), NEW q \in Queries, p.stage[q] = "idle", ~p.closed,
         NEW m, m = [p EXCEPT !.stage[q] = "queued", !.queue = Append(@, q)]
  PROVE  Kept(p, Dispatch(m))
<1>1. /\ p \in Pools /\ AgreeBut(p, None) /\ Named(p) /\ Housed(p) /\ Queued(p)
      /\ ToSet(p.workers) \subseteq Queries
  BY DEF PoolOK, PoolBut, Pools, ToSet
<1> PICK t : t = Append(p.queue, q)
  OBVIOUS
<1>2. t \in Seq(Queries) /\ ToSet(t) = ToSet(p.queue) \cup {q} /\ IsInjective(t)
  BY <1>1, Appended DEF Queued, Pools
<1>3. /\ m \in Pools /\ m.stage = [p.stage EXCEPT ![q] = "queued"] /\ m.queue = t
      /\ m.workers = p.workers /\ m.closed = p.closed /\ m.on = p.on
      /\ m.current = p.current /\ m.retiring = p.retiring /\ m.proc = p.proc
  BY <1>1, <1>2 DEF Pools, Stages
<1>4. m.stage[q] = "queued" /\ \A x \in Queries : x # q => m.stage[x] = p.stage[x]
  BY <1>1, <1>3 DEF Pools
<1>5. \A w \in Queries : p.current[w] \in Queries \cup {None} /\ p.current[w] # q
  BY <1>1, PoolAssumption DEF Pools, Named, AgreeBut
<1>6. AgreeBut(m, None)
  BY <1>1, <1>3, <1>4, <1>5 DEF AgreeBut
<1>7. Named(m)
  BY <1>1, <1>3, <1>4 DEF Named
<1>8. Housed(m)
  BY <1>1, <1>3 DEF Housed
<1>9. Queued(m)
  BY <1>1, <1>2, <1>3, <1>4 DEF Queued
<1>10. PoolOK(m) /\ Live(m) \subseteq Live(p)
  BY <1>3, <1>6, <1>7, <1>8, <1>9 DEF PoolOK, PoolBut, Live
<1> QED
  BY <1>10, Dispatched

(* A query that is not at work frees the slot an answer names.               *)
LEMMA Freed ==
  ASSUME NEW p, PoolOK(p), NEW s \in Queries, NEW q \in Queries, p.stage[q] # "running",
         NEW m, m = [p EXCEPT !.current[s] = IF @ = q THEN None ELSE @]
  PROVE  PoolOK(m) /\ Live(m) = Live(p)
<1>1. p \in Pools /\ AgreeBut(p, None) /\ Named(p) /\ Housed(p) /\ Queued(p)
  BY DEF PoolOK, PoolBut
<1>2. /\ m \in Pools /\ m.current = [p.current EXCEPT ![s] = IF @ = q THEN None ELSE @]
      /\ m.queue = p.queue /\ m.workers = p.workers /\ m.closed = p.closed /\ m.on = p.on
      /\ m.stage = p.stage /\ m.retiring = p.retiring /\ m.proc = p.proc
  BY <1>1 DEF Pools
<1>3. \A w \in Queries : m.current[w] # p.current[w] => m.current[w] = None /\ p.current[w] = q
  BY <1>1, <1>2 DEF Pools
<1>4. AgreeBut(m, None)
  <2>1. ASSUME NEW x \in Queries, p.stage[x] = "running"
        PROVE  m.current[p.on[x]] = x
    <3>1. p.current[p.on[x]] = x /\ p.on[x] \in Queries
      BY <1>1, <2>1 DEF AgreeBut, Pools
    <3> QED
      BY <1>3, <2>1, <3>1
  <2> QED
    BY <1>1, <1>2, <1>3, <2>1 DEF AgreeBut
<1>5. Named(m)
  BY <1>1, <1>2, <1>3 DEF Named
<1> QED
  BY <1>1, <1>2, <1>4, <1>5 DEF PoolOK, PoolBut, Housed, Queued, Live

(* An answer that is in time settles its query and frees its slot.           *)
LEMMA Answered ==
  ASSUME NEW p, PoolOK(p), NEW q \in Queries, p.stage[q] = "running",
         NEW f, f = [p EXCEPT !.current[p.on[q]] = IF @ = q THEN None ELSE @],
         NEW m, m = Settle(f, q, "answered")
  PROVE  PoolOK(m) /\ Live(m) = Live(p)
<1>1. /\ p \in Pools /\ AgreeBut(p, None) /\ Named(p) /\ Housed(p) /\ Queued(p)
      /\ ToSet(p.workers) \subseteq Queries
  BY DEF PoolOK, PoolBut, Pools, ToSet
<1> PICK s \in Queries : s = p.on[q] /\ p.current[s] = q
  BY <1>1 DEF AgreeBut, Pools
<1>2. /\ f \in Pools /\ f.current = [p.current EXCEPT ![s] = None]
      /\ f.queue = p.queue /\ f.workers = p.workers /\ f.closed = p.closed /\ f.on = p.on
      /\ f.stage = p.stage /\ f.retiring = p.retiring /\ f.proc = p.proc
  BY <1>1 DEF Pools
<1>3. /\ m \in Pools /\ m.current = f.current /\ m.stage = [p.stage EXCEPT ![q] = "answered"]
      /\ m.queue = p.queue /\ m.workers = p.workers /\ m.closed = p.closed /\ m.on = p.on
      /\ m.retiring = p.retiring /\ m.proc = p.proc
  <2>1. /\ m \in Pools /\ m.current = f.current
        /\ m.stage = IF f.stage[q] \in {"queued", "running"} THEN [f.stage EXCEPT ![q] = "answered"] ELSE f.stage
        /\ m.queue = f.queue /\ m.workers = f.workers /\ m.closed = f.closed /\ m.on = f.on
        /\ m.retiring = f.retiring /\ m.proc = f.proc
    BY ONLY ZenonT(40), <1>2, SettleFields, m = Settle(f, q, "answered"), q \in Queries DEF Stages
  <2> QED
    BY <1>2, <2>1, Zenon
<1>4. /\ m.stage[q] = "answered" /\ \A x \in Queries : x # q => m.stage[x] = p.stage[x]
      /\ m.current[s] = None /\ \A w \in Queries : w # s => m.current[w] = p.current[w]
  <2>1. p.stage \in [Queries -> Stages] /\ p.current \in [Queries -> Queries \cup {None}]
    BY <1>1 DEF Pools
  <2> QED
    BY ONLY <1>2, <1>3, <2>1, q \in Queries, s \in Queries
<1>5. \A w \in Queries : p.current[w] \in Queries \cup {None} /\ p.on[w] \in Queries \cup {None}
  BY <1>1 DEF Pools
<1>6. AgreeBut(m, None)
  <2>1. ASSUME NEW x \in Queries, m.stage[x] = "running"
        PROVE  m.current[m.on[x]] = x
    <3>1. x # q /\ p.stage[x] = "running"
      BY <1>4, <2>1
    <3>2. p.current[p.on[x]] = x /\ p.on[x] \in Queries
      BY <1>1, <1>5, <3>1 DEF AgreeBut
    <3> QED
      BY <1>3, <1>4, <3>1, <3>2
  <2>2. ASSUME NEW w \in Queries, m.current[w] # None, w \in ToSet(m.workers)
        PROVE  m.stage[m.current[w]] = "running"
    <3>1. w # s /\ m.current[w] = p.current[w]
      BY <1>4, <2>2
    <3>2. p.stage[p.current[w]] = "running" /\ p.on[p.current[w]] = w /\ p.current[w] \in Queries
      BY <1>1, <1>3, <1>5, <2>2, <3>1, PoolAssumption DEF AgreeBut
    <3> QED
      BY <1>4, <3>1, <3>2
  <2> QED
    <3>1. \A x \in Queries : m.stage[x] = "running" => x # q /\ p.stage[x] = "running"
      BY <1>4
    <3>2. \A w \in Queries : m.current[w] # None => m.current[w] = p.current[w] /\ p.current[w] # None
      BY <1>4
    <3> HIDE DEF Settle
    <3> QED
      BY ONLY <1>1, <1>3, <2>1, <2>2, <3>1, <3>2 DEF AgreeBut
<1>7. Named(m)
  <2>1. /\ \A x \in Queries : m.stage[x] \in {"idle", "queued"} => p.stage[x] \in {"idle", "queued"}
        /\ \A w \in Queries : p.current[w] = None => m.current[w] = None
    BY <1>4
  <2> QED
    BY ONLY <1>1, <1>3, <2>1 DEF Named
<1>8. Housed(m) /\ Live(m) = Live(p)
  BY ONLY <1>1, <1>3 DEF Housed, Live
<1>9. Queued(m)
  <2>1. {x \in Queries : m.stage[x] = "queued"} = {x \in Queries : p.stage[x] = "queued"}
    BY ONLY <1>4, p.stage[q] = "running", q \in Queries
  <2> QED
    BY ONLY <1>1, <1>3, <2>1 DEF Queued
<1> QED
  BY ONLY <1>3, <1>6, <1>7, <1>8, <1>9 DEF PoolOK, PoolBut

(* A process has ended, or its channel is closed.                            *)
LEMMA EndedOK ==
  ASSUME NEW p, PoolOK(p), Served(p), NEW s \in Queries, p.proc[s] \notin {"unborn", "gone"},
         NEW st \in {"dead", "cut"}, NEW n \in Pools,
         n.proc = [p.proc EXCEPT ![s] = st], SamePlaces(p, n),
         n.queue = p.queue, n.stage = p.stage, n.on = p.on, n.closed = p.closed
  PROVE  Kept(p, n)
<1>1. /\ p \in Pools /\ AgreeBut(p, None) /\ Named(p) /\ Housed(p) /\ Queued(p)
      /\ ToSet(p.workers) \subseteq Queries
  BY DEF PoolOK, PoolBut, Pools, ToSet
<1>2. n.proc[s] = st /\ \A w \in Queries : w # s => n.proc[w] = p.proc[w]
  BY <1>1 DEF Pools
<1>3. AgreeBut(n, None) /\ Queued(n)
  BY <1>1 DEF AgreeBut, Queued, SamePlaces
<1>4. Named(n)
  BY <1>1, <1>2 DEF Named, SamePlaces
<1>5. Housed(n)
  <2>1. \A w \in Queries : n.proc[w] \in {"running", "killed", "dead", "cut"} =>
                             p.proc[w] \in {"running", "killed", "dead", "cut"}
    <3>1. p.proc[s] \in {"running", "killed", "dead", "cut"}
      BY <1>1 DEF Pools, ProcStates
    <3> QED
      BY <1>2, <3>1
  <2> QED
    BY <1>1, <2>1 DEF Housed, SamePlaces
<1>6. Served(n)
  BY <1>1, PlacesKept DEF Served
<1> QED
  BY <1>2, <1>3, <1>4, <1>5, <1>6 DEF Kept, PoolOK, PoolBut, Live

(* Its exit is reported.                                                     *)
LEMMA Exited ==
  ASSUME NEW p, PoolOK(p), NEW s \in Queries, p.proc[s] \in {"dead", "cut"},
         NEW m, m = [p EXCEPT !.workers = RemoveFirst(@, s), !.proc[s] = "gone"]
  PROVE  PoolBut(m, s) /\ Live(m) = Live(p) /\ m.proc[s] = "gone"
<1>1. /\ p \in Pools /\ AgreeBut(p, None) /\ Named(p) /\ Housed(p) /\ Queued(p)
      /\ p.workers \in Seq(Queries) /\ IsInjective(p.workers)
  BY DEF PoolOK, PoolBut, Pools, Housed
<1> PICK t : t = RemoveFirst(p.workers, s)
  OBVIOUS
<1>2. /\ t \in Seq(Queries) /\ Len(t) <= Len(p.workers) /\ ToSet(t) = ToSet(p.workers) \ {s} /\ IsInjective(t)
      /\ s \notin ToSet(p.workers) => t = p.workers
  BY <1>1, FirstRemoved
<1>3. /\ m \in Pools /\ m.workers = t /\ m.proc = [p.proc EXCEPT ![s] = "gone"]
      /\ m.queue = p.queue /\ m.stage = p.stage /\ m.closed = p.closed /\ m.on = p.on
      /\ m.current = p.current /\ m.retiring = p.retiring
  BY <1>1, <1>2 DEF Pools, ProcStates
<1>4. m.proc[s] = "gone" /\ \A w \in Queries : w # s => m.proc[w] = p.proc[w]
  BY <1>1, <1>3 DEF Pools
<1>5. AgreeBut(m, s)
  BY <1>1, <1>2, <1>3, PoolAssumption DEF AgreeBut
<1>6. Named(m)
  BY <1>1, <1>2, <1>3, <1>4 DEF Named
<1>7. Housed(m)
  <2>1. p.closed => t = <<>>
    <3>1. p.closed => p.workers = <<>>
      BY <1>1 DEF Housed
    <3>2. p.workers = <<>> => s \notin ToSet(p.workers)
      BY DEF ToSet
    <3> QED
      BY <1>2, <3>1, <3>2
  <2>2. ~p.closed => Len(t) <= MaxWorkers
    BY <1>1, <1>2, PoolAssumption DEF Housed
  <2> QED
    BY <1>1, <1>2, <1>3, <1>4, <2>1, <2>2 DEF Housed
<1> QED
  BY <1>1, <1>3, <1>4, <1>5, <1>6, <1>7 DEF PoolBut, Queued, Live

(* A worker fails, with its process still known or gone.                     *)
LEMMA FailedOK ==
  ASSUME NEW p, NEW m, NEW s \in Queries, PoolBut(m, s), m.proc[s] # "unborn", Live(m) \subseteq Live(p)
  PROVE  Kept(p, Dispatch(Fail(m, s)))
<1>1. PoolOK(Fail(m, s)) /\ Live(Fail(m, s)) \subseteq Live(p)
  BY FailOK
<1> QED
  BY <1>1, Dispatched

LEMMA ClosedOK ==
  ASSUME NEW p, PoolOK(p), ~p.closed,
         NEW n, n = [p EXCEPT
                       !.closed = TRUE,
                       !.queue = <<>>,
                       !.workers = <<>>,
                       !.stage = [q \in Queries |-> IF @[q] \in {"queued", "running"}
                                                    THEN "rejected" ELSE @[q]],
                       !.proc = [s \in Queries |-> IF @[s] = "running" /\ s \in ToSet(p.workers)
                                                   THEN "killed" ELSE @[s]]]
  PROVE  Kept(p, n)
<1>1. p \in Pools /\ AgreeBut(p, None) /\ Named(p) /\ Housed(p) /\ Queued(p)
  BY DEF PoolOK, PoolBut
<1> PICK st : st = [q \in Queries |-> IF p.stage[q] \in {"queued", "running"} THEN "rejected" ELSE p.stage[q]]
  OBVIOUS
<1> PICK pr : pr = [s \in Queries |-> IF p.proc[s] = "running" /\ s \in ToSet(p.workers)
                                      THEN "killed" ELSE p.proc[s]]
  OBVIOUS
<1>2. st \in [Queries -> Stages] /\ pr \in [Queries -> ProcStates]
  BY <1>1 DEF Pools, Stages, ProcStates
<1>3. <<>> \in Seq(Queries) /\ ToSet(<<>>) = {} /\ IsInjective(<<>>)
  BY DEF ToSet, IsInjective
<1>4. /\ n \in Pools /\ n.closed /\ n.queue = <<>> /\ n.workers = <<>> /\ n.stage = st /\ n.proc = pr
      /\ n.on = p.on /\ n.current = p.current /\ n.retiring = p.retiring
  BY <1>1, <1>2, <1>3 DEF Pools
<1>5. /\ \A q \in Queries : st[q] \notin {"queued", "running"} /\ (st[q] = "idle" => p.stage[q] = "idle")
      /\ \A s \in Queries : /\ pr[s] = "unborn" <=> p.proc[s] = "unborn"
                            /\ pr[s] \in {"running", "killed"} <=> p.proc[s] \in {"running", "killed"}
  OBVIOUS
<1>6. AgreeBut(n, None)
  BY <1>1, <1>3, <1>4, <1>5 DEF AgreeBut
<1>7. Named(n)
  BY <1>1, <1>3, <1>4, <1>5 DEF Named
<1>8. Housed(n) /\ Queued(n) /\ Served(n)
  BY <1>3, <1>4, <1>5 DEF Housed, Queued, Served
<1>9. Live(n) = Live(p)
  BY <1>4, <1>5 DEF Live
<1> QED
  BY <1>4, <1>6, <1>7, <1>8, <1>9 DEF Kept, PoolOK, PoolBut

(* The signal's listeners, one after the other: nobody is handed to a worker.*)
LEMMA AbortedOK ==
  ASSUME NEW p, PoolOK(p), Served(p), NEW ls \in Seq(Queries),
         NEW n, n = Aborts(p, ls)[Len(ls)]
  PROVE  Kept(p, n) /\ n.on = p.on
<1> PICK k \in Nat : k = Len(ls)
  OBVIOUS
<1> PICK r : r = Aborts(p, ls)
  OBVIOUS
<1>1. r[0] = p /\ \A i \in 0 .. k - 1 : r[i + 1] = AbortPending(r[i], ls[i + 1])
  BY AbortsAre
<1>2. \A i \in 0 .. k - 1 : ls[i + 1] \in Queries
  OBVIOUS
<1> DEFINE Good(i) == PoolOK(r[i]) /\ Served(r[i]) /\ r[i].on = p.on /\ Live(r[i]) \subseteq Live(p)
           S == {i \in Nat : i <= k => Good(i)}
<1>3. 0 \in S
  BY <1>1
<1>4. ASSUME NEW i \in Nat, i \in S
      PROVE  i + 1 \in S
  <2> SUFFICES ASSUME i + 1 <= k
               PROVE  Good(i + 1)
    OBVIOUS
  <2> PICK a : a = r[i]
    OBVIOUS
  <2> PICK q \in Queries : q = ls[i + 1]
    BY <1>2
  <2> PICK b : b = AbortPending(a, q)
    OBVIOUS
  <2>1. PoolOK(a) /\ Served(a) /\ a.on = p.on /\ Live(a) \subseteq Live(p)
    BY <1>4
  <2>2. PoolOK(b) /\ Served(b) /\ b.on = a.on /\ Live(b) \subseteq Live(a)
    BY <2>1, AbortOK
  <2>3. r[i + 1] = b
    BY <1>1
  <2> QED
    BY <2>1, <2>2, <2>3
<1>5. k \in S
  <2> HIDE DEF S
  <2> QED
    BY <1>3, <1>4, SetInduction
<1>6. Good(k) /\ n = r[k]
  BY <1>5
<1> QED
  BY <1>6 DEF Kept

(* Never more processes than slots; after close() none is forked.            *)
LEMMA LiveBounded ==
  ASSUME NEW p, Cardinality(Live(p)) <= MaxWorkers, NEW n, Kept(p, n)
  PROVE  Cardinality(Live(n)) <= MaxWorkers
<1>1. /\ n \in Pools /\ Housed(n) /\ n.workers \in Seq(Queries) /\ n.closed \in BOOLEAN
      /\ \A w \in Queries : n.proc[w] \in ProcStates
  BY DEF Kept, PoolOK, PoolBut, Pools
<1>2. IsFiniteSet(Live(p)) /\ IsFiniteSet(Live(n))
  BY PoolAssumption, FS_Subset DEF Live
<1>3. Cardinality(Live(p)) \in Nat /\ Cardinality(Live(n)) \in Nat
  BY <1>2, FS_CardinalityType
<1>4. CASE n.closed
  <2>1. Live(n) \subseteq Live(p)
    BY <1>4 DEF Kept
  <2>2. Cardinality(Live(n)) <= Cardinality(Live(p))
    BY <1>2, <2>1, FS_Subset
  <2> QED
    BY <1>3, <2>2, PoolAssumption
<1>5. CASE ~n.closed
  <2>1. Live(n) \subseteq ToSet(n.workers) /\ Len(n.workers) <= MaxWorkers
    BY <1>1, <1>5 DEF Housed, Live
  <2>2. /\ IsFiniteSet(ToSet(n.workers)) /\ Cardinality(ToSet(n.workers)) \in Nat
        /\ Cardinality(ToSet(n.workers)) <= Len(n.workers)
    BY <1>1, NamesAtMost
  <2>3. Cardinality(Live(n)) <= Cardinality(ToSet(n.workers))
    BY <2>1, <2>2, FS_Subset
  <2> QED
    BY <1>1, <1>3, <2>1, <2>2, <2>3, PoolAssumption
<1> QED
  BY <1>4, <1>5

-----------------------------------------------------------------------------
(* Each action.                                                              *)

LEMMA InitHolds ==
  ASSUME PoolInit
  PROVE  PoolInv
<1> PICK p : p = pool
  OBVIOUS
<1>1. /\ p.queue = <<>> /\ p.workers = <<>> /\ p.retiring = {} /\ p.closed = FALSE
      /\ p.stage = [q \in Queries |-> "idle"] /\ p.on = [q \in Queries |-> None]
      /\ p.current = [s \in Queries |-> None] /\ p.proc = [s \in Queries |-> "unborn"]
      /\ p \in Pools
  BY DEF PoolInit, Pools, Stages, ProcStates
<1>2. ToSet(<<>>) = {} /\ IsInjective(<<>>)
  BY DEF ToSet, IsInjective
<1>3. PoolOK(p) /\ Served(p)
  BY <1>1, <1>2, PoolAssumption DEF PoolOK, PoolBut, AgreeBut, Named, Housed, Queued, Served
<1>4. Live(p) = {}
  BY <1>1 DEF Live
<1>5. Cardinality(Live(p)) <= MaxWorkers
  BY <1>4, FS_EmptySet, PoolAssumption
<1> QED
  BY <1>3, <1>5 DEF PoolInit, PoolInv

LEMMA AskStep ==
  ASSUME PoolInv, NEW q \in Queries, Ask(q)
  PROVE  Kept(pool, pool')
<1> PICK p : p = pool
  OBVIOUS
<1> PICK n : n = pool'
  OBVIOUS
<1>1. PoolOK(p) /\ Served(p) /\ p.stage[q] = "idle"
  BY DEF PoolInv, Ask
<1>2. CASE p.closed \/ (q \in Abortable /\ aborted)
  <2>1. n = Rejected(p, q)
    BY <1>2 DEF Ask, Rejected
  <2> QED
    BY <1>1, <2>1, AskRefused
<1>3. CASE ~(p.closed \/ (q \in Abortable /\ aborted))
  <2>1. n = Dispatch([p EXCEPT !.stage[q] = "queued", !.queue = Append(@, q)])
    BY <1>3 DEF Ask
  <2> QED
    BY <1>1, <1>3, <2>1, AskQueued
<1> QED
  BY <1>2, <1>3

LEMMA QueueTimeoutStep ==
  ASSUME PoolInv, NEW q \in Queries, QueueTimeout(q)
  PROVE  Kept(pool, pool')
<1> PICK p : p = pool
  OBVIOUS
<1> PICK n : n = pool'
  OBVIOUS
<1>1. PoolOK(p) /\ Served(p) /\ p.stage[q] = "queued" /\ n = Dequeued(p, q)
  BY DEF PoolInv, QueueTimeout, Dequeued
<1>2. PoolOK(n) /\ Served(n) /\ n.proc = p.proc
  BY <1>1, LeaveQueue
<1> QED
  BY <1>2 DEF Kept, Live

LEMMA ExecutionTimeoutStep ==
  ASSUME PoolInv, NEW q \in Queries, ExecutionTimeout(q)
  PROVE  Kept(pool, pool')
<1> PICK p : p = pool
  OBVIOUS
<1> PICK n : n = pool'
  OBVIOUS
<1>1. PoolOK(p) /\ Served(p) /\ p.stage[q] = "running" /\ n = Dispatch(Retire(Rejected(p, q), p.on[q]))
  BY DEF PoolInv, ExecutionTimeout, Rejected
<1> PICK m : m = Retire(Rejected(p, q), p.on[q])
  OBVIOUS
<1>2. PoolOK(m) /\ Live(m) \subseteq Live(p)
  BY <1>1, LeaveWorker
<1>3. Kept(p, Dispatch(m))
  BY <1>2, Dispatched
<1> QED
  BY <1>1, <1>3

LEMMA AnswerStep ==
  ASSUME PoolInv, NEW s \in Queries, Answer(s)
  PROVE  Kept(pool, pool') /\ replies' \in [Queries -> Queries \cup {None}]
<1> PICK p : p = pool
  OBVIOUS
<1> PICK n : n = pool'
  OBVIOUS
<1>1. PoolOK(p) /\ Served(p) /\ replies \in [Queries -> Queries \cup {None}]
  BY DEF PoolInv
<1>2. replies' \in [Queries -> Queries \cup {None}]
  BY <1>1 DEF Answer
<1> PICK q \in Queries : q = replies[s]
  BY <1>1 DEF Answer
<1> PICK f : f = [p EXCEPT !.current[s] = IF @ = q THEN None ELSE @]
  OBVIOUS
<1>3. n = CASE s \in p.retiring          -> p
            [] p.stage[q] # "running"    -> Dispatch(f)
            [] p.on[q] # s               -> p
            [] OTHER                     -> Dispatch(Settle(f, q, "answered"))
  BY DEF Answer
<1>4. CASE n = p
  BY <1>1, <1>2, <1>4 DEF Kept
<1>5. CASE p.stage[q] # "running" /\ n = Dispatch(f)
  <2>1. PoolOK(f) /\ Live(f) = Live(p)
    BY <1>1, <1>5, Freed
  <2> QED
    BY <1>2, <1>5, <2>1, Dispatched
<1>6. CASE p.stage[q] = "running" /\ p.on[q] = s /\ n = Dispatch(Settle(f, q, "answered"))
  <2> PICK m : m = Settle(f, q, "answered")
    OBVIOUS
  <2>1. PoolOK(m) /\ Live(m) = Live(p)
    BY <1>1, <1>6, Answered
  <2>2. Kept(p, Dispatch(m))
    BY <2>1, Dispatched
  <2> QED
    BY <1>2, <1>6, <2>2
<1>7. \/ n = p
      \/ p.stage[q] # "running" /\ n = Dispatch(f)
      \/ p.stage[q] = "running" /\ p.on[q] = s /\ n = Dispatch(Settle(f, q, "answered"))
  BY <1>3, Zenon
<1> QED
  BY <1>2, <1>4, <1>5, <1>6, <1>7

LEMMA WorkerErrorStep ==
  ASSUME PoolInv, NEW s \in Queries, WorkerError(s)
  PROVE  Kept(pool, pool')
<1> PICK p : p = pool
  OBVIOUS
<1>1. PoolOK(p) /\ p.proc[s] # "unborn" /\ pool' = Dispatch(Fail(p, s))
  BY DEF PoolInv, WorkerError
<1>2. PoolBut(p, s)
  BY <1>1, AgreesBut
<1>3. Kept(p, Dispatch(Fail(p, s)))
  BY <1>1, <1>2, FailedOK
<1> QED
  BY <1>1, <1>3

LEMMA ExitStep ==
  ASSUME PoolInv, NEW s \in Queries, Exit(s)
  PROVE  Kept(pool, pool')
<1> PICK p : p = pool
  OBVIOUS
<1> PICK m : m = [p EXCEPT !.workers = RemoveFirst(@, s), !.proc[s] = "gone"]
  OBVIOUS
<1>1. PoolOK(p) /\ p.proc[s] \in {"dead", "cut"} /\ pool' = Dispatch(Fail(m, s))
  BY DEF PoolInv, Exit
<1>2. PoolBut(m, s) /\ Live(m) = Live(p) /\ m.proc[s] = "gone"
  BY ZenonT(40), <1>1, Exited
<1>3. Kept(p, Dispatch(Fail(m, s)))
  BY <1>2, FailedOK
<1> QED
  BY <1>1, <1>3

LEMMA DisconnectStep ==
  ASSUME PoolInv, NEW s \in Queries, Disconnect(s)
  PROVE  Kept(pool, pool')
<1> PICK p : p = pool
  OBVIOUS
<1> PICK n : n = pool'
  OBVIOUS
<1>1. PoolOK(p) /\ Served(p) /\ p \in Pools /\ p.proc[s] = "dead" /\ n = [p EXCEPT !.proc[s] = "cut"]
  BY DEF PoolInv, Disconnect, PoolOK, PoolBut
<1>2. /\ n \in Pools /\ n.proc = [p.proc EXCEPT ![s] = "cut"] /\ SamePlaces(p, n)
      /\ n.queue = p.queue /\ n.stage = p.stage /\ n.on = p.on /\ n.closed = p.closed
  BY ONLY <1>1, s \in Queries DEF Pools, ProcStates, SamePlaces
<1>3. p.proc[s] \notin {"unborn", "gone"} /\ "cut" \in {"dead", "cut"}
  BY <1>1
<1>4. Kept(p, n)
  BY <1>1, <1>2, <1>3, EndedOK
<1> QED
  BY <1>4

LEMMA DieStep ==
  ASSUME PoolInv, NEW s \in Queries, Die(s)
  PROVE  Kept(pool, pool')
<1> PICK p : p = pool
  OBVIOUS
<1> PICK n : n = pool'
  OBVIOUS
<1>1. /\ PoolOK(p) /\ Served(p) /\ p \in Pools
      /\ p.proc[s] \in {"running", "killed"} /\ n = [p EXCEPT !.proc[s] = "dead", !.task[s] = None]
  BY DEF PoolInv, Die, PoolOK, PoolBut
<1>2. /\ n \in Pools /\ n.proc = [p.proc EXCEPT ![s] = "dead"] /\ SamePlaces(p, n)
      /\ n.queue = p.queue /\ n.stage = p.stage /\ n.on = p.on /\ n.closed = p.closed
  BY ONLY <1>1, s \in Queries DEF Pools, ProcStates, SamePlaces
<1>3. p.proc[s] \notin {"unborn", "gone"} /\ "dead" \in {"dead", "cut"}
  BY <1>1
<1>4. Kept(p, n)
  BY <1>1, <1>2, <1>3, EndedOK
<1> QED
  BY <1>4

LEMMA ExecuteStep ==
  ASSUME PoolInv, NEW s \in Queries, Execute(s)
  PROVE  Kept(pool, pool') /\ replies' \in [Queries -> Queries \cup {None}]
<1> PICK p : p = pool
  OBVIOUS
<1> PICK n : n = pool'
  OBVIOUS
<1>1. PoolOK(p) /\ Served(p) /\ p \in Pools /\ n = [p EXCEPT !.task[s] = None]
  BY DEF PoolInv, Execute, PoolOK, PoolBut
<1>2. /\ n \in Pools /\ n.proc = p.proc /\ SamePlaces(p, n)
      /\ n.queue = p.queue /\ n.stage = p.stage /\ n.on = p.on /\ n.closed = p.closed
  BY ONLY <1>1, s \in Queries DEF Pools, SamePlaces
<1>3. PoolOK(n)
  BY <1>1, <1>2 DEF PoolOK, PoolBut, AgreeBut, Named, Housed, Queued, SamePlaces
<1>4. Served(n)
  BY <1>1, <1>2, PlacesKept DEF Served
<1>5. p.task[s] \in Queries \cup {None}
  BY <1>1 DEF Pools
<1>6. replies' \in [Queries -> Queries \cup {None}]
  BY <1>5 DEF PoolInv, Execute
<1> QED
  BY <1>2, <1>3, <1>4, <1>6 DEF Kept, Live

LEMMA AbortStep ==
  ASSUME PoolInv, Abort
  PROVE  Kept(pool, pool') /\ pool'.on = pool.on
<1> PICK p : p = pool
  OBVIOUS
<1> PICK n : n = pool'
  OBVIOUS
<1> PICK ls \in Seq(Queries) : ls = listeners
  BY DEF PoolInv
<1>1. PoolOK(p) /\ Served(p) /\ n = Aborts(p, ls)[Len(ls)]
  BY DEF PoolInv, Abort
<1>2. Kept(p, n) /\ n.on = p.on
  BY <1>1, AbortedOK
<1> QED
  BY <1>2

LEMMA CloseStep ==
  ASSUME PoolInv, Close
  PROVE  Kept(pool, pool')
<1> PICK p : p = pool
  OBVIOUS
<1> PICK n : n = pool'
  OBVIOUS
<1>1. PoolOK(p) /\ ~p.closed
  BY DEF PoolInv, Close
<1>2. n = [p EXCEPT
             !.closed = TRUE,
             !.queue = <<>>,
             !.workers = <<>>,
             !.stage = [q \in Queries |-> IF @[q] \in {"queued", "running"}
                                          THEN "rejected" ELSE @[q]],
             !.proc = [s \in Queries |-> IF @[s] = "running" /\ s \in ToSet(p.workers)
                                         THEN "killed" ELSE @[s]]]
  BY DEF Close
<1>3. Kept(p, n)
  BY <1>1, <1>2, ClosedOK
<1> QED
  BY <1>3

LEMMA StepKeeps ==
  ASSUME PoolInv, [Next]_vars
  PROVE  PoolInv'
<1>1. CASE /\ Kept(pool, pool')
           /\ listeners' \in Seq(Queries)
           /\ replies' \in [Queries -> Queries \cup {None}]
  <2> PICK p : p = pool
    OBVIOUS
  <2> PICK n : n = pool'
    OBVIOUS
  <2>1. Cardinality(Live(p)) <= MaxWorkers
    BY DEF PoolInv
  <2>2. Cardinality(Live(n)) <= MaxWorkers
    BY <1>1, <2>1, LiveBounded
  <2>3. PoolOK(n) /\ Served(n)
    BY <1>1 DEF Kept
  <2> QED
    BY <1>1, <2>2, <2>3 DEF PoolInv
<1>2. listeners \in Seq(Queries) /\ replies \in [Queries -> Queries \cup {None}]
  BY DEF PoolInv
<1>3. CASE UNCHANGED vars
  <2>1. PoolOK(pool) /\ Served(pool)
    BY DEF PoolInv
  <2>2. Kept(pool, pool)
    BY <2>1 DEF Kept
  <2> QED
    BY <1>1, <1>2, <1>3, <2>2 DEF vars
<1>4. ASSUME NEW q \in Queries, Ask(q)
      PROVE  PoolInv'
  <2>1. listeners' \in Seq(Queries) /\ replies' = replies
    BY <1>2, <1>4 DEF Ask
  <2> QED
    BY <1>1, <1>2, <1>4, <2>1, AskStep
<1>5. ASSUME NEW q \in Queries, QueueTimeout(q)
      PROVE  PoolInv'
  BY <1>1, <1>2, <1>5, QueueTimeoutStep DEF QueueTimeout
<1>6. ASSUME NEW q \in Queries, ExecutionTimeout(q)
      PROVE  PoolInv'
  BY <1>1, <1>2, <1>6, ExecutionTimeoutStep DEF ExecutionTimeout
<1>7. ASSUME NEW s \in Queries, Answer(s)
      PROVE  PoolInv'
  BY <1>1, <1>2, <1>7, AnswerStep DEF Answer
<1>8. ASSUME NEW s \in Queries, WorkerError(s)
      PROVE  PoolInv'
  BY <1>1, <1>2, <1>8, WorkerErrorStep DEF WorkerError
<1>9. ASSUME NEW s \in Queries, Disconnect(s)
      PROVE  PoolInv'
  BY <1>1, <1>2, <1>9, DisconnectStep DEF Disconnect
<1>10. ASSUME NEW s \in Queries, Exit(s)
       PROVE  PoolInv'
  BY <1>1, <1>2, <1>10, ExitStep DEF Exit
<1>11. ASSUME NEW s \in Queries, Execute(s)
       PROVE  PoolInv'
  BY <1>1, <1>2, <1>11, ExecuteStep DEF Execute
<1>12. ASSUME NEW s \in Queries, Die(s)
       PROVE  PoolInv'
  BY <1>1, <1>2, <1>12, DieStep DEF Die
<1>13. CASE Abort
  BY <1>1, <1>2, <1>13, AbortStep DEF Abort
<1>14. CASE Close
  BY <1>1, <1>2, <1>14, CloseStep DEF Close
<1> QED
  BY <1>3, <1>4, <1>5, <1>6, <1>7, <1>8, <1>9, <1>10, <1>11, <1>12, <1>13, <1>14 DEF Next

-----------------------------------------------------------------------------
(* The theorems.                                                             *)

LEMMA AlwaysInOrder == PoolSpec => []PoolInv
<1> QED
  BY InitHolds, StepKeeps, PTL DEF PoolSpec

(* Client and slots agree on who works for whom (query-worker-client.ts),    *)
(* whatever times out, is aborted, crashes or answers too late.              *)
THEOREM SlotsAgree == PoolSpec => []SlotsMatchQueries
<1>1. PoolInv => SlotsMatchQueries
  BY InvMeans
<1> QED
  BY <1>1, AlwaysInOrder, PTL

(* "Retiring processes count toward capacity until exit"                     *)
(* (query-worker-client.ts:284): never more processes than maxWorkers.       *)
THEOREM ProcessesAreBounded == PoolSpec => []BoundedProcesses
<1>1. PoolInv => BoundedProcesses
  BY InvMeans
<1> QED
  BY <1>1, AlwaysInOrder, PTL

(* Every listener that makes room dispatches: between two events nobody      *)
(* waits for a worker that is idle, or that may be forked.                   *)
THEOREM NoPlaceIsIdle == PoolSpec => []WorkConserving
<1>1. PoolInv => WorkConserving
  BY InvMeans
<1> QED
  BY <1>1, AlwaysInOrder, PTL

(* A request that is given up has none of its queries handed to a worker on  *)
(* the way, although abortPending() dispatches after each of them.           *)
THEOREM AbortsAreFinal == PoolSpec => AbortStartsNothing
<1>1. PoolInv /\ [Next]_vars => [aborted # aborted' => \A q \in Abortable : pool'.on[q] = pool.on[q]]_vars
  <2> SUFFICES ASSUME PoolInv, Next, aborted # aborted'
               PROVE  \A q \in Abortable : pool'.on[q] = pool.on[q]
    BY DEF vars
  <2>1. Abort
    BY DEF Next, Ask, QueueTimeout, ExecutionTimeout, Answer, WorkerError, Disconnect, Exit,
           Execute, Die, Close
  <2> QED
    BY <2>1, AbortStep
<1> QED
  BY <1>1, AlwaysInOrder, PTL DEF PoolSpec, AbortStartsNothing
=============================================================================
