-------------------------- MODULE CachedRowsProofs --------------------------
(* Which alerts and decisions the cache holds, and which it hides.           *)
(*                                                                           *)
(* For any configurations of the filters: what a synchronization stores, the *)
(* cleanup of the cache keeps, if the alert has at most one origin; and of   *)
(* those alerts the cache holds none that its filters do not let stay.       *)
(*                                                                           *)
(* For any decisions, keys and instances: hiding duplicates keeps one        *)
(* decision of every group; while no connection dies, a group whose flags    *)
(* are out of date is remembered; and, where changes and their refresh share *)
(* one turn of the operation queue, crashes change nothing about it.         *)
(*                                                                           *)
(* For any instances, alerts, decisions and sizes of fragments: a running    *)
(* synchronization keeps decision rows with the rows of their alerts, brings *)
(* back nothing that a user deleted, and reports what it changed unless a    *)
(* window failed or was split up after writing. With the primary instance    *)
(* alone, a window that is done mirrors what LAPI answered.                  *)
EXTENDS CachePruning, DuplicateFlags, WindowSync, FiniteSetTheorems, WellFoundedInduction, TLAPS

-----------------------------------------------------------------------------
(* The three applications of the filters agree.                              *)

LEMMA QueryFields ==
    ASSUME NEW o, NEW s
    PROVE  /\ Query(o, s).origin = o
           /\ Query(o, s).scenario = s
           /\ Query(o, s).capi = (o = CAPI)
BY DEF Query

(* In "new" mode the filter of the cache repeats that of the answers, but    *)
(* for CAPI's alerts, which only their own query brings.                     *)
LEMMA NewFilterAgrees ==
    ASSUME NEW env, IsEnvironment(env), env.hasNew, NEW alert,
           SingleOrigin(alert), Fetched(FilterConfig(env), alert)
    PROVE  KeptInCache(FilterConfig(env), alert)
<1> DEFINE config == FilterConfig(env)
<1>1. config = [mode |-> "new", include |-> env.include, exclude |-> env.exclude,
                includeCapi |-> env.includeCapi, includeEmpty |-> env.includeEmpty,
                excludeEmpty |-> env.excludeEmpty,
                origins |-> env.origins, scenarios |-> env.scenarios]
  BY DEF FilterConfig
<1>2. config.mode = "new" /\ config.includeCapi \in BOOLEAN
  BY <1>1 DEF IsEnvironment
<1> HIDE DEF config
<1>3. Stored(config, alert)
  BY DEF Fetched, config
<1>4. CASE HasExplicitIncludes(config)
  BY <1>2, <1>3, <1>4 DEF KeptInCache, AsRead, KeptByNew, Stored, config
<1>5. CASE ~HasExplicitIncludes(config)
  <2>1. PICK query \in SyncQueries(config) : Answers(query, alert)
    BY DEF Fetched, config
  <2>2. query \in NewQueries(config) \/ query = Query(Anything, Anything)
    BY <1>2, <2>1 DEF SyncQueries, ConfiguredQueries
  <2>3. query.capi => config.includeCapi
    <3>1. config.include = {}
      BY <1>5 DEF HasExplicitIncludes
    <3>2. query = Query(Anything, Anything) \/ \E o \in IncludedOrigins(config) : query = Query(o, Anything)
      BY <2>2 DEF NewQueries
    <3>3. ~Query(Anything, Anything).capi
      BY QueryFields DEF Anything, CAPI
    <3> QED
      BY <3>1, <3>2, <3>3 DEF IncludedOrigins
  <2>4. config.includeCapi \/ alert.origins # {CAPI}
    BY <2>1, <2>3 DEF Answers
  <2>5. ~Excluded(config, alert)
    BY <1>3 DEF Stored
  <2>6. alert.origins = {} => ~config.excludeEmpty
    BY <2>5 DEF Excluded
  <2>7. alert.origins # {} => alert.origins \ {CAPI} # {} \/ config.includeCapi
    BY <2>4
  <2> QED
    BY <1>2, <1>5, <2>5, <2>6, <2>7 DEF KeptInCache, AsRead, KeptByNew, config
<1> QED
  BY <1>4, <1>5

(* In "legacy" mode each query is kept by the clause of the cache's filter   *)
(* that mentions what was asked for.                                         *)
LEMMA LegacyFilterAgrees ==
    ASSUME NEW env, IsEnvironment(env), ~env.hasNew, env.hasLegacy, NEW alert,
           SingleOrigin(alert), Fetched(FilterConfig(env), alert)
    PROVE  KeptInCache(FilterConfig(env), alert)
<1> DEFINE config == FilterConfig(env)
<1>1. /\ config.mode = "legacy"
      /\ config.origins = env.origins
      /\ config.scenarios = env.scenarios
  BY DEF FilterConfig
<1>2. Anything \notin config.origins /\ Anything \notin config.scenarios
  BY <1>1 DEF IsEnvironment
<1>3. PICK query \in SyncQueries(config) : Answers(query, alert)
  BY DEF Fetched
<1> HIDE DEF config
<1>4. \/ \E o \in config.origins \ {Unfiltered} : query = Query(o, Anything)
      \/ LegacyUnfiltered(config) /\ query = Query(Anything, Anything)
      \/ \E s \in config.scenarios : query = Query(Anything, s)
  <2>1. CASE LegacyQueries(config) # {}
    <3>1. query \in LegacyQueries(config)
      BY <1>1, <1>3, <2>1 DEF SyncQueries, ConfiguredQueries
    <3> QED
      BY <3>1 DEF LegacyQueries, LegacyUnfiltered
  <2>2. CASE LegacyQueries(config) = {}
    <3>1. query = Query(Anything, Anything)
      BY <1>1, <1>3, <2>2 DEF SyncQueries, ConfiguredQueries
    <3>2. config.origins = {} /\ config.scenarios = {}
      BY <2>2 DEF LegacyQueries
    <3> QED
      BY <3>1, <3>2 DEF LegacyUnfiltered
  <2> QED
    BY <2>1, <2>2
<1>5. KeptByLegacy(config, alert)
  <2>1. CASE \E o \in config.origins : query = Query(o, Anything)
    <3>1. PICK o \in config.origins : query = Query(o, Anything)
      BY <2>1
    <3>2. o \in alert.origins
      BY <1>2, <1>3, <3>1, QueryFields DEF Answers
    <3> QED
      BY <3>1, <3>2 DEF KeptByLegacy
  <2>2. CASE LegacyUnfiltered(config) /\ query = Query(Anything, Anything)
    <3>1. alert.origins # {CAPI}
      BY <1>3, <2>2, QueryFields DEF Answers, Anything, CAPI
    <3> QED
      BY <2>2, <3>1 DEF KeptByLegacy
  <2>3. CASE \E s \in config.scenarios : query = Query(Anything, s)
    <3>1. PICK s \in config.scenarios : query = Query(Anything, s)
      BY <2>3
    <3>2. MatchesScenario(config, alert)
      BY <1>2, <1>3, <3>1, QueryFields DEF Answers, MatchesScenario
    <3>3. alert.origins # {CAPI}
      BY <1>3, <3>1, QueryFields DEF Answers, Anything, CAPI
    <3> QED
      BY <3>2, <3>3 DEF KeptByLegacy
  <2> QED
    BY <1>4, <2>1, <2>2, <2>3
<1> QED
  BY <1>1, <1>5 DEF KeptInCache, AsRead, config

LEMMA DefaultFilterAgrees ==
    ASSUME NEW env, ~env.hasNew, ~env.hasLegacy, NEW alert,
           SingleOrigin(alert), Fetched(FilterConfig(env), alert)
    PROVE  KeptInCache(FilterConfig(env), alert)
<1> DEFINE config == FilterConfig(env)
<1>1. config.mode = "default"
  BY DEF FilterConfig
<1>2. Answers(Query(Anything, Anything), alert)
  BY <1>1 DEF Fetched, SyncQueries, ConfiguredQueries
<1>3. alert.origins # {CAPI}
  BY <1>2, QueryFields DEF Answers, Anything, CAPI
<1> QED
  BY <1>1, <1>3 DEF KeptInCache, AsRead, KeptByDefault

LEMMA SingleIsKept ==
    ASSUME NEW env, IsEnvironment(env), NEW alert, SingleOrigin(alert),
           Fetched(FilterConfig(env), alert)
    PROVE  KeptInCache(FilterConfig(env), alert)
BY NewFilterAgrees, LegacyFilterAgrees, DefaultFilterAgrees DEF IsEnvironment

(* What is asked of the text that several origins are stored as.             *)
TextStays(config, alert) ==
    /\ config.mode = "new" =>
            /\ alert.joined \notin config.exclude
            /\ HasExplicitIncludes(config) => alert.joined \in config.include
    /\ config.mode = "legacy" =>
            \/ alert.joined \in config.origins
            \/ LegacyUnfiltered(config)
            \/ MatchesScenario(config, alert)

(* The cleanup tells an alert of several origins by their text alone: the    *)
(* alert stays in a configuration that names no origins to include and does  *)
(* not exclude that text, and where origins are named, only if the text is   *)
(* named too (pruneCachedEntriesForCurrentAlertFilters, record-index.ts:74). *)
THEOREM MixedIsKept ==
    ASSUME NEW env, IsEnvironment(env), NEW alert, IsAlert(alert), ~SingleOrigin(alert)
    PROVE  KeptInCache(FilterConfig(env), alert) <=> TextStays(FilterConfig(env), alert)
<1> PICK config : config = FilterConfig(env)
  OBVIOUS
<1>1. /\ config.mode \in Modes
      /\ config.includeCapi \in BOOLEAN
      /\ config.includeEmpty \in BOOLEAN /\ config.excludeEmpty \in BOOLEAN
  <2>1. CASE env.hasNew
    BY <2>1 DEF FilterConfig, IsEnvironment, Modes
  <2>2. CASE ~env.hasNew /\ env.hasLegacy
    BY <2>2 DEF FilterConfig, Modes
  <2>3. CASE ~env.hasNew /\ ~env.hasLegacy
    BY <2>3 DEF FilterConfig, Modes
  <2> QED
    BY <2>1, <2>2, <2>3
<1> PICK row : row = AsText(alert)
  OBVIOUS
<1>2. /\ AsRead(alert) = row
      /\ row.origins = {alert.joined} /\ alert.joined # CAPI
      /\ MatchesScenario(config, row) <=> MatchesScenario(config, alert)
  <2>1. AsRead(alert) = row
    BY DEF AsRead
  <2>2. row.origins = {alert.joined} /\ row.scenario = alert.scenario
    BY DEF AsText
  <2> QED
    BY <2>1, <2>2 DEF IsAlert, MatchesScenario
<1>3. CASE config.mode = "new"
  BY <1>1, <1>2, <1>3 DEF KeptInCache, KeptByNew, Included, Excluded, IncludedOrigins,
                          HasExplicitIncludes, TextStays
<1>4. CASE config.mode = "legacy"
  BY <1>1, <1>2, <1>4 DEF KeptInCache, KeptByLegacy, TextStays
<1>5. CASE config.mode = "default"
  BY <1>1, <1>2, <1>5 DEF KeptInCache, KeptByDefault, TextStays
<1> QED
  BY <1>1, <1>3, <1>4, <1>5 DEF Modes

(* Wherever a cleanup ended, the rows agree with the fingerprint.            *)
PruningInv ==
    /\ environment \in Environments
    /\ fingerprint = {} => cached = {}
    /\ \A e \in Environments : fingerprint = {FilterConfig(e)} =>
            \A a \in cached : SingleOrigin(a) => KeptInCache(FilterConfig(e), a)
    /\ phase = "cleaned" =>
            \A a \in cached : SingleOrigin(a) => KeptInCache(Filters, a)
    /\ phase = "syncing" => fingerprint = {Filters}

LEMMA PruningInductive ==
    ASSUME PruningConstants, PruningInv, [PruningNext]_pruningVars
    PROVE  PruningInv'
<1>1. CASE StartAgain
  BY <1>1 DEF StartAgain, PruningInv
<1>2. CASE FiltersUnchanged
  BY <1>2 DEF FiltersUnchanged, PruningInv, Filters
<1>3. CASE Prune
  BY <1>3 DEF Prune, PruningInv, Filters
<1>4. CASE Remember
  BY <1>4 DEF Remember, PruningInv, Filters
<1>5. CASE SyncWindow
  <2>1. PICK window \in SUBSET LapiAlerts :
            cached' = (cached \ window) \cup {a \in window : Fetched(Filters, a)}
    BY <1>5 DEF SyncWindow
  <2>2. phase = "syncing" /\ UNCHANGED <<environment, fingerprint, phase>> /\ Filters' = Filters
    BY <1>5 DEF SyncWindow, Filters
  <2>3. fingerprint = {Filters} /\ environment \in Environments /\ IsEnvironment(environment)
    BY <2>2 DEF PruningConstants, PruningInv
  <2>4. \A a \in cached' : SingleOrigin(a) => KeptInCache(Filters, a)
    <3> SUFFICES ASSUME NEW a \in cached', SingleOrigin(a) PROVE KeptInCache(Filters, a)
      OBVIOUS
    <3>1. CASE a \in cached
      BY <2>3, <3>1 DEF PruningInv, Filters
    <3>2. CASE Fetched(Filters, a)
      BY <2>3, <3>2, SingleIsKept DEF Filters
    <3> QED
      BY <2>1, <3>1, <3>2
  <2>5. \A e \in Environments : fingerprint = {FilterConfig(e)} => FilterConfig(e) = Filters
    BY <2>3
  <2> QED
    BY <2>2, <2>3, <2>4, <2>5 DEF PruningInv
<1>6. CASE UNCHANGED pruningVars
  BY <1>6 DEF pruningVars, PruningInv, Filters
<1> QED
  BY <1>1, <1>2, <1>3, <1>4, <1>5, <1>6 DEF PruningNext

(* In any environments, however often the process restarts in another one    *)
(* and wherever it ends, a process that synchronizes holds no alert of at    *)
(* most one origin that its own filters would not let stay                   *)
(* (pruneCachedEntriesIfAlertFiltersChanged, syncHistory).                   *)
THEOREM OnlyAllowedRemain == PruningConstants => (PruningSpec => []OnlyAllowed)
<1> SUFFICES ASSUME PruningConstants PROVE PruningSpec => []OnlyAllowed
  OBVIOUS
<1>1. PruningInit => PruningInv
  BY DEF PruningInit, PruningInv
<1>2. PruningInv /\ [PruningNext]_pruningVars => PruningInv'
  BY PruningInductive
<1>3. PruningInv => OnlyAllowed
  BY DEF PruningInv, OnlyAllowed, Filters
<1> QED
  BY <1>1, <1>2, <1>3, PTL DEF PruningSpec

(* What a synchronization stores, the cleanup after a change of the filters  *)
(* does not remove, in every mode and for every alert of at most one origin: *)
(* a restart never empties a cache that the next refresh fills with the same *)
(* alerts again (getAlertSyncQueries, isCachedAlertAllowedByCurrentFilter).  *)
THEOREM FetchedIsKept == PruningConstants => (PruningSpec => MatchingStay)
<1> SUFFICES ASSUME PruningConstants PROVE PruningSpec => MatchingStay
  OBVIOUS
<1>1. PruningInit => PruningInv
  BY DEF PruningInit, PruningInv
<1>2. PruningInv /\ [PruningNext]_pruningVars => PruningInv'
  BY PruningInductive
<1>3. PruningInv /\ Prune =>
        \A a \in cached : Fetched(Filters, a) /\ SingleOrigin(a) => a \in cached'
  BY SingleIsKept DEF PruningConstants, PruningInv, Prune, Filters
<1>4. PruningInv /\ [PruningNext]_pruningVars
        => [Prune => \A a \in cached :
              Fetched(Filters, a) /\ SingleOrigin(a) => a \in cached']_pruningVars
  BY <1>3
<1> QED
  BY <1>1, <1>2, <1>4, PTL DEF PruningSpec, MatchingStay

(* A decision without a cached alert is kept exactly if an alert with only   *)
(* that origin, and no scenario, would be: the cleanup treats the two tables *)
(* alike (isDecisionOriginAllowedByCurrentFilter).                           *)
THEOREM DecisionsFollowAlerts ==
    ASSUME NEW env, IsEnvironment(env), NEW origin
    PROVE  LET alert == [origins |-> IF origin = Anything THEN {} ELSE {origin}, scenario |-> Anything]
           IN  DecisionKept(FilterConfig(env), origin) <=> KeptInCache(FilterConfig(env), alert)
<1> DEFINE config == FilterConfig(env)
           alert == [origins |-> IF origin = Anything THEN {} ELSE {origin}, scenario |-> Anything]
<1>1. /\ config.mode \in Modes
      /\ config.includeCapi \in BOOLEAN
      /\ config.includeEmpty \in BOOLEAN /\ config.excludeEmpty \in BOOLEAN
  <2>1. CASE env.hasNew
    BY <2>1 DEF FilterConfig, IsEnvironment, Modes
  <2>2. CASE ~env.hasNew /\ env.hasLegacy
    BY <2>2 DEF FilterConfig, Modes
  <2>3. CASE ~env.hasNew /\ ~env.hasLegacy
    BY <2>3 DEF FilterConfig, Modes
  <2> QED
    BY <2>1, <2>2, <2>3
<1>2. /\ origin = Anything => alert.origins = {}
      /\ origin # Anything => alert.origins = {origin}
      /\ ~MatchesScenario(config, alert) /\ AsRead(alert) = alert
  BY DEF MatchesScenario, SingleOrigin, AsRead
<1> SUFFICES DecisionKept(config, origin) <=> KeptInCache(config, alert)
  OBVIOUS
<1> HIDE DEF config, alert
<1>3. CASE config.mode = "new"
  BY <1>1, <1>2, <1>3 DEF DecisionKept, KeptInCache, KeptByNew, Included, Excluded,
                          HasExplicitIncludes
<1>4. CASE config.mode = "legacy"
  BY <1>1, <1>2, <1>4 DEF DecisionKept, KeptInCache, KeptByLegacy
<1>5. CASE config.mode = "default"
  BY <1>1, <1>2, <1>5 DEF DecisionKept, KeptInCache, KeptByDefault
<1> QED
  BY <1>1, <1>3, <1>4, <1>5 DEF Modes

-----------------------------------------------------------------------------
(* Ranks. *)

(* The rows of a table have times.                                           *)
LEMMA TimesOfRows ==
  ASSUME DuplicateConstants, NEW t \in Tables
  PROVE  t.stored \subseteq Decisions /\ \A d \in Decisions : t.stop[d] \in Int
<1>1. t.stop \in [Decisions -> 0 .. Horizon] /\ t.stored \subseteq Decisions /\ Horizon \in Nat
  BY DEF Tables, Times, DuplicateConstants
<1>2. \A h \in Nat : \A n \in 0 .. h : n \in Int
  OBVIOUS
<1> QED
  BY <1>1, <1>2, Zenon

(* A bounded set of numbers that is not empty has a greatest element.        *)
LEMMA GreatestOf ==
  ASSUME NEW n \in Nat, NEW S \in SUBSET (0 .. n), S # {}
  PROVE  \E g \in S : \A m \in S : m <= g
<1> DEFINE T == {n - m : m \in S}
<1>1. OpToRel(<, Nat) = {p \in Nat \X Nat : p[1] < p[2]}
  BY Zenon DEF OpToRel
<1>2. IsWellFoundedOn({p \in Nat \X Nat : p[1] < p[2]}, Nat)
  BY <1>1, NatLessThanWellFounded
<1>3. T \in SUBSET Nat /\ T # {}
  <2>1. \A m \in S : n - m \in Nat
    OBVIOUS
  <2>2. PICK m \in S : TRUE
    OBVIOUS
  <2> QED
    BY <2>1, <2>2, Zenon
<1>4. \A R : IsWellFoundedOn(R, Nat) => \E t \in T : \A u \in T : ~ (<<u, t>> \in R)
  BY <1>3, WFMin, Zenon
<1>5. PICK t \in T : \A u \in T : ~ (<<u, t>> \in {p \in Nat \X Nat : p[1] < p[2]})
  BY <1>2, <1>4, Zenon
<1>6. PICK g \in S : t = n - g
  OBVIOUS
<1>7. ASSUME NEW m \in S PROVE m <= g
  <2>1. n - m \in T /\ n - m \in Nat /\ t \in Nat
    BY <1>3
  <2>2. <<n - m, t>> \in Nat \X Nat /\ <<n - m, t>>[1] = n - m /\ <<n - m, t>>[2] = t
    BY <2>1
  <2>3. ~ (n - m < t)
    BY <1>5, <2>1, <2>2, Zenon
  <2> QED
    BY <1>6, <2>1, <2>3
<1> QED
  BY <1>7

(* Some decision comes before all the others of a set.                       *)
LEMMA FirstOf ==
  ASSUME DuplicateConstants, NEW t \in Tables, NEW S \in SUBSET Decisions, S # {}
  PROVE  \E e \in S : \A x \in S : x = e \/ Before(t, e, x)
<1> USE DEF DuplicateConstants
<1>0. t.stop \in [Decisions -> 0 .. Horizon]
  BY DEF Tables, Times
<1>1. {t.stop[x] : x \in S} \in SUBSET (0 .. Horizon) /\ {t.stop[x] : x \in S} # {}
  <2>1. \A x \in S : t.stop[x] \in 0 .. Horizon
    BY <1>0
  <2>2. PICK x \in S : TRUE
    OBVIOUS
  <2> QED
    BY <2>1, <2>2, Zenon
<1>2. PICK s \in {t.stop[x] : x \in S} : \A m \in {t.stop[x] : x \in S} : m <= s
  BY <1>1, GreatestOf
<1> DEFINE L == {x \in S : t.stop[x] = s}
<1>3. L \in SUBSET (0 .. MaxDecision) /\ L # {}
  OBVIOUS
<1> HIDE DEF L
<1>4. PICK e \in L : \A x \in L : x <= e
  BY <1>3, GreatestOf
<1>5. ASSUME NEW x \in S PROVE x = e \/ Before(t, e, x)
  <2>1. t.stop[x] <= s /\ t.stop[x] \in Nat /\ s \in Nat /\ t.stop[e] = s /\ x \in Int /\ e \in Int
    BY <1>1, <1>2, <1>4 DEF L
  <2>2. CASE t.stop[x] = s
    BY <1>4, <2>1, <2>2 DEF L, Before
  <2>3. CASE t.stop[x] # s
    BY <2>1, <2>3 DEF Before
  <2> QED
    BY <2>2, <2>3
<1> QED
  BY <1>4, <1>5 DEF L

(* Two decisions are never before one another.                               *)
LEMMA OneWay ==
  ASSUME DuplicateConstants, NEW t \in Tables, NEW d \in Decisions, NEW e \in Decisions,
         Before(t, d, e)
  PROVE  ~Before(t, e, d) /\ d # e
  BY DEF Before, DuplicateConstants, Tables, Times

(* A decision that comes before an active one is active.                     *)
LEMMA EarlierIsActive ==
  ASSUME DuplicateConstants, NEW t \in Tables, NEW time \in Int,
         NEW d \in Active(t, time), NEW e \in t.stored, Before(t, e, d)
  PROVE  e \in Active(t, time)
  BY DEF Before, Active, DuplicateConstants, Tables, Times

-----------------------------------------------------------------------------
(* Flags that are right. *)

(* They depend on the rows alone.                                            *)
LEMMA SameRows ==
  ASSUME NEW t, NEW u, NEW k, NEW time,
         u.stored = t.stored, u.stop = t.stop, u.flag = t.flag
  PROVE  Right(u, k, time) <=> Right(t, k, time)
  BY DEF Right, Active, Outranked, Before

(* The first of a group outlives it: time alone makes no flag wrong.         *)
LEMMA TimeKeepsRight ==
  ASSUME DuplicateConstants, NEW t \in Tables, NEW time \in Int, NEW k, Right(t, k, time)
  PROVE  Right(t, k, time + 1)
<1> USE DEF DuplicateConstants
<1>0. t.stop \in [Decisions -> 0 .. Horizon] /\ t.stored \subseteq Decisions
  BY DEF Tables, Times
<1> SUFFICES ASSUME NEW d \in Active(t, time + 1), KeyOf[d] = k
             PROVE  t.flag[d] <=> Outranked(t, d, time + 1)
  BY DEF Right
<1>1. \A e \in t.stored : t.stop[e] \in Int /\ (e \in Active(t, time + 1) => e \in Active(t, time))
  <2>1. \A e \in t.stored : t.stop[e] \in Int
    BY TimesOfRows
  <2> QED
    BY <2>1 DEF Active
<1>2. d \in Active(t, time) /\ d \in t.stored
  BY <1>1 DEF Active
<1>3. Outranked(t, d, time) <=> Outranked(t, d, time + 1)
  <2>1. ASSUME NEW e \in Active(t, time), Before(t, e, d) PROVE e \in Active(t, time + 1)
    BY <2>1, EarlierIsActive, Active(t, time) \subseteq t.stored DEF Active
  <2>2. Active(t, time + 1) \subseteq Active(t, time)
    BY <1>1 DEF Active
  <2> QED
    BY <2>1, <2>2 DEF Outranked
<1> QED
  BY <1>2, <1>3 DEF Right

(* A change makes no flag wrong in a group it does not touch.                *)
LEMMA ChangeKeepsRight ==
  ASSUME DuplicateConstants, NEW t \in Tables, NEW m, NEW time \in Int,
         NEW put \in SUBSET Decisions, NEW gone \in SUBSET Decisions,
         NEW new \in [Decisions -> Times],
         NEW k, k \notin Touched(put, gone), Right(t, k, time)
  PROVE  Right(Changed(t, m, put, gone, new), k, time)
<1> DEFINE u == Changed(t, m, put, gone, new)
<1>1. /\ u.stored = (t.stored \cup put) \ gone
      /\ u.stop = [d \in Decisions |-> IF d \in put THEN new[d] ELSE t.stop[d]]
      /\ u.flag = [d \in Decisions |-> d \notin put /\ t.flag[d]]
      /\ t.stored \subseteq Decisions /\ t.flag \in [Decisions -> BOOLEAN]
  BY DEF Changed, Tables
<1> HIDE DEF u
<1>2. ASSUME NEW d \in Decisions, KeyOf[d] = k
      PROVE  /\ d \notin put /\ d \notin gone /\ u.stop[d] = t.stop[d] /\ (u.flag[d] <=> t.flag[d])
             /\ d \in u.stored <=> d \in t.stored
  <2>1. d \notin put /\ d \notin gone
    BY <1>2 DEF Touched
  <2> QED
    BY <1>1, <2>1
<1>3. \A d \in Decisions : KeyOf[d] = k => (d \in Active(u, time) <=> d \in Active(t, time))
  BY <1>2 DEF Active
<1>4. Active(u, time) \subseteq Decisions /\ Active(t, time) \subseteq Decisions
  BY <1>1 DEF Active
<1> SUFFICES ASSUME NEW d \in Active(u, time), KeyOf[d] = k
             PROVE  u.flag[d] <=> Outranked(u, d, time)
  BY DEF Right, u
<1>5. \A e \in Decisions : Alike(d, e) => KeyOf[e] = k
  BY DEF Alike
<1>6. Outranked(u, d, time) <=> Outranked(t, d, time)
  <2>1. ASSUME NEW e \in Decisions, Alike(d, e)
        PROVE  (e \in Active(u, time) /\ Before(u, e, d)) <=> (e \in Active(t, time) /\ Before(t, e, d))
    BY <1>2, <1>3, <1>4, <1>5, <2>1 DEF Before
  <2> QED
    BY <1>4, <2>1 DEF Outranked
<1>7. d \in Decisions /\ d \in Active(t, time)
  BY <1>3, <1>4
<1> QED
  BY <1>2, <1>6, <1>7 DEF Right

(* A refresh for an earlier moment makes flags right for a later one, and    *)
(* leaves those of other keys as they are.                                   *)
LEMMA RefreshMakesRight ==
  ASSUME DuplicateConstants, NEW t \in Tables, NEW K, NEW time \in Int, NEW then \in Int,
         then <= time, NEW k, k \in K \/ Right(t, k, time)
  PROVE  Right([t EXCEPT !.flag = Recomputed(t, K, then)], k, time)
<1> DEFINE u == [t EXCEPT !.flag = Recomputed(t, K, then)]
<1> USE DEF DuplicateConstants
<1>1. u.stored = t.stored /\ u.stop = t.stop /\ u.flag = Recomputed(t, K, then)
  BY DEF Tables
<1>2. t.stored \subseteq Decisions /\ t.stop \in [Decisions -> 0 .. Horizon]
  BY DEF Tables, Times
<1> HIDE DEF u
<1> SUFFICES ASSUME NEW d \in Active(t, time), KeyOf[d] = k
             PROVE  u.flag[d] <=> Outranked(t, d, time)
  BY <1>1 DEF Right, Active, Outranked, Before, u
<1>3. d \in t.stored /\ d \in Decisions /\ t.stop[d] \in Int /\ t.stop[d] > time
  <2>1. d \in t.stored /\ t.stop[d] > time
    BY DEF Active
  <2> QED
    BY <2>1, TimesOfRows
<1>4. CASE k \in K
  <2>1. d \in Active(t, then)
    BY <1>3 DEF Active
  <2>2. u.flag[d] <=> Outranked(t, d, then)
    BY <1>1, <1>3, <1>4, <2>1 DEF Recomputed
  <2>3. ASSUME NEW e \in t.stored, Before(t, e, d) PROVE e \in Active(t, time) /\ e \in Active(t, then)
    BY <2>1, <2>3, EarlierIsActive
  <2> QED
    BY <2>2, <2>3 DEF Outranked, Active
<1>5. CASE k \notin K
  BY <1>1, <1>3, <1>5 DEF Recomputed, Right
<1> QED
  BY <1>4, <1>5

(* Expired decisions rank nothing.                                           *)
LEMMA CleanupKeepsRight ==
  ASSUME DuplicateConstants, NEW t \in Tables, NEW time \in Int,
         NEW old \in SUBSET {d \in t.stored : t.stop[d] < time}, NEW k, Right(t, k, time)
  PROVE  Right([t EXCEPT !.stored = @ \ old], k, time)
<1> DEFINE u == [t EXCEPT !.stored = @ \ old]
<1>1. u.stored = t.stored \ old /\ u.stop = t.stop /\ u.flag = t.flag
  BY DEF Tables
<1>2. \A d \in t.stored : t.stop[d] \in Int
  BY DEF Tables, Times, DuplicateConstants
<1> HIDE DEF u
<1>3. Active(u, time) = Active(t, time)
  BY <1>1, <1>2 DEF Active
<1>4. \A d : Outranked(u, d, time) <=> Outranked(t, d, time)
  BY <1>1, <1>3 DEF Outranked, Before
<1> QED
  BY <1>1, <1>3, <1>4 DEF Right, u

-----------------------------------------------------------------------------
(* Hiding. *)

(* Where its flags are right, hiding duplicates shows exactly one of the     *)
(* active decisions of a group that match a request, whatever its filters    *)
(* are: none of the groups disappears and none is shown twice                *)
(* (buildDecisionListQuery(), query-service.ts).                             *)
THEOREM HidingKeepsOne ==
  ASSUME DuplicateConstants, NEW t \in Tables, NEW time \in Times, NEW r \in Requests,
         DecidesByFields(r, t, time), AllRight(t, time),
         NEW d \in Active(t, time) \cap r.rows
  PROVE  \E e \in Listed(t, r, time) \cap Active(t, time) :
             /\ Alike(d, e)
             /\ \A x \in Listed(t, r, time) \cap Active(t, time) : Alike(d, x) => x = e
<1>1. Active(t, time) \subseteq Decisions /\ Active(t, time) \subseteq t.stored /\ time \in Int
  <2>1. Horizon \in Nat /\ \A h \in Nat : \A n \in 0 .. h : n \in Int
    BY DEF DuplicateConstants
  <2> QED
    BY <2>1, TimesOfRows DEF Active, Times
<1>2. /\ Alike(d, d)
      /\ \A e, x : Alike(d, e) /\ Alike(d, x) => Alike(e, x)
      /\ \A e, x : Alike(d, e) /\ Alike(e, x) => Alike(d, x)
  BY DEF Alike
<1>3. CASE CanSplit(r)
  <2> DEFINE S == {e \in Active(t, time) \cap r.rows : Alike(d, e)}
  <2>1. S \in SUBSET Decisions /\ S # {}
    BY <1>1, <1>2
  <2>2. PICK e \in S : \A x \in S : x = e \/ Before(t, e, x)
    BY <2>1, FirstOf, Zenon
  <2>3. ASSUME NEW x \in r.rows \cap t.stored, Alike(e, x), Before(t, x, e) PROVE FALSE
    <3>1. x \in Active(t, time)
      BY <1>1, <2>2, <2>3, EarlierIsActive
    <3>2. x \in S
      BY <1>2, <2>2, <2>3, <3>1
    <3>3. e \in Decisions /\ x \in Decisions
      BY <2>1, <2>2, <3>2
    <3> QED
      BY <2>2, <2>3, <3>2, <3>3, OneWay
  <2>4. e \in Listed(t, r, time)
    BY <1>1, <1>3, <2>2, <2>3 DEF Listed
  <2>5. ASSUME NEW x \in Listed(t, r, time) \cap Active(t, time), Alike(d, x) PROVE x = e
    <3>1. x \in S
      BY <2>5 DEF Listed
    <3>2. Alike(x, e)
      BY <1>2, <2>2, <2>5
    <3>3. e \in r.rows \cap Active(t, time)
      BY <2>2
    <3>4. ~Before(t, e, x)
      BY <1>3, <2>5, <3>2, <3>3 DEF Listed
    <3> QED
      BY <2>2, <3>1, <3>4
  <2> QED
    BY <2>2, <2>4, <2>5
<1>4. CASE ~CanSplit(r)
  <2> DEFINE S == {e \in Active(t, time) : Alike(d, e)}
  <2>1. S \in SUBSET Decisions /\ S # {}
    BY <1>1, <1>2
  <2>2. PICK e \in S : \A x \in S : x = e \/ Before(t, e, x)
    BY <2>1, FirstOf, Zenon
  <2>3. S \subseteq r.rows
    <3> SUFFICES ASSUME NEW x \in S PROVE x \in r.rows
      OBVIOUS
    <3>1. r.fields \subseteq {"instance", "ip", "sim", "status"}
      BY <1>4 DEF CanSplit, GroupFields
    <3>2. SameField("instance", d, x, t, time)
      BY DEF SameField, Alike
    <3>3. SameField("ip", d, x, t, time) /\ SameField("sim", d, x, t, time)
      BY DEF SameField, Alike
    <3>4. SameField("status", d, x, t, time)
      BY DEF SameField
    <3>5. \A f \in r.fields : SameField(f, d, x, t, time)
      BY <3>1, <3>2, <3>3, <3>4
    <3> QED
      BY <1>1, <3>5 DEF DecidesByFields
  <2>4. ASSUME NEW x \in S PROVE (t.flag[x] <=> Outranked(t, x, time))
    <3>1. KeyOf[x] \in Keys
      BY <1>1, <2>4 DEF DuplicateConstants
    <3> QED
      BY <2>4, <3>1 DEF AllRight, Right
  <2>5. ~Outranked(t, e, time)
    <3> SUFFICES ASSUME NEW x \in Active(t, time), Alike(e, x), Before(t, x, e) PROVE FALSE
      BY DEF Outranked
    <3>1. x \in S
      BY <1>2, <2>2
    <3>2. e \in Decisions /\ x \in Decisions
      BY <2>1, <2>2, <3>1
    <3> QED
      BY <2>2, <3>1, <3>2, OneWay
  <2>6. e \in Listed(t, r, time)
    BY <1>4, <2>2, <2>3, <2>4, <2>5 DEF Listed
  <2>7. ASSUME NEW x \in Listed(t, r, time) \cap Active(t, time), Alike(d, x) PROVE x = e
    <3>1. x \in S /\ ~t.flag[x]
      BY <1>4, <2>7 DEF Listed
    <3>2. ~Outranked(t, x, time)
      BY <2>4, <3>1
    <3>3. Alike(x, e) /\ e \in Active(t, time)
      BY <1>2, <2>2, <2>7
    <3>4. ~Before(t, e, x)
      BY <3>2, <3>3 DEF Outranked
    <3> QED
      BY <2>2, <3>1, <3>4
  <2> QED
    BY <2>2, <2>6, <2>7
<1> QED
  BY <1>3, <1>4

-----------------------------------------------------------------------------
(* Types, and what the operations on a connection's memory do. *)

(* Loading the marker.                                                       *)
LEMMA LoadFields ==
  ASSUME NEW m \in Fields, NEW t \in Tables
  PROVE  /\ Load(m, t) \in Fields /\ Load(m, t).up = m.up /\ Load(m, t).keys = m.keys
         /\ Load(m, t).init = Clean(t) /\ Load(m, t).dirty = ~Clean(t)
<1>1. Clean(t) \in BOOLEAN /\ t.at \in Times \cup {Never}
  BY DEF Clean, Tables
<1> QED
  BY <1>1 DEF Load, Fields

(* A connection that is opened.                                              *)
LEMMA OpenedFields ==
  ASSUME NEW t \in Tables
  PROVE  /\ Opened(t) \in Fields /\ Opened(t).up /\ Opened(t).keys = {}
         /\ Opened(t).init = Clean(t) /\ Opened(t).dirty = ~Clean(t)
<1> DEFINE m == [up |-> TRUE, keys |-> {}, init |-> FALSE, dirty |-> TRUE,
                 owns |-> FALSE, last |-> Never]
<1>1. m \in Fields /\ m.up /\ m.keys = {}
  BY DEF Fields
<1> QED
  BY <1>1, LoadFields DEF Opened

(* A connection that doubts everything looks at the marker again.            *)
LEMMA CurrentFields ==
  ASSUME NEW m \in Fields, NEW t \in Tables
  PROVE  /\ Current(m, t) \in Fields
         /\ Current(m, t).up = m.up /\ Current(m, t).keys = m.keys
         /\ m.keys # {} => Current(m, t) = m
         /\ ~m.init /\ ~Clean(t) => ~Current(m, t).init
         /\ m.keys = {} /\ (m.init => ~m.dirty) => (Current(m, t).dirty => ~Clean(t))
  BY LoadFields DEF Current

(* Marking adds to what is remembered.                                       *)
LEMMA MarkedFields ==
  ASSUME NEW m \in Fields, NEW t \in Tables, NEW K \in SUBSET Keys
  PROVE  /\ Marked(m, K, t) \in Fields
         /\ Marked(m, K, t).up = m.up /\ Marked(m, K, t).keys = m.keys \cup K
         /\ ~m.init /\ ~Clean(t) => ~Marked(m, K, t).init
<1>1. CASE K = {}
  BY <1>1 DEF Marked
<1>2. CASE K # {}
  <2> DEFINE c == Current(m, t)
  <2>1. /\ c \in Fields /\ c.up = m.up /\ c.keys = m.keys
        /\ ~m.init /\ ~Clean(t) => ~c.init
    BY CurrentFields
  <2> HIDE DEF c
  <2>2. Marked(m, K, t) = [c EXCEPT !.keys = @ \cup K, !.dirty = TRUE, !.owns = @ \/ ~c.dirty]
    BY <1>2 DEF Marked, c
  <2> QED
    BY <2>1, <2>2 DEF Fields
<1> QED
  BY <1>1, <1>2

(* A refresh forgets everything.                                             *)
LEMMA RefreshedFields ==
  ASSUME NEW m \in Fields, NEW time \in Times
  PROVE  /\ Refreshed(m, time) \in Fields /\ Refreshed(m, time).up = m.up
         /\ Refreshed(m, time).keys = {} /\ Refreshed(m, time).init /\ ~Refreshed(m, time).dirty
  BY DEF Refreshed, Fields

(* A connection that ends.                                                   *)
LEMMA GoneFields ==
  ASSUME NEW m \in Fields
  PROVE  Gone(m) \in Fields /\ ~Gone(m).up /\ Gone(m).keys = {}
  BY DEF Gone, Fields

(* The keys a change touches.                                                *)
LEMMA TouchedKeys ==
  ASSUME DuplicateConstants, NEW put \in SUBSET Decisions, NEW gone \in SUBSET Decisions
  PROVE  Touched(put, gone) \in SUBSET Keys
  BY DEF Touched, DuplicateConstants

(* A change of the rows.                                                     *)
LEMMA ChangedTable ==
  ASSUME DuplicateConstants, NEW m \in Fields, NEW t \in Tables,
         NEW put \in SUBSET Decisions, NEW gone \in SUBSET Decisions,
         NEW new \in [Decisions -> Times]
  PROVE  /\ Changed(t, m, put, gone, new) \in Tables
         /\ Changed(t, m, put, gone, new).at = t.at
         /\ Changed(t, m, put, gone, new).dirty = Marker(m, Touched(put, gone), t)
         /\ ~Clean(t) => ~Clean(Changed(t, m, put, gone, new))
<1>1. Marker(m, Touched(put, gone), t) \in BOOLEAN /\ (t.dirty => Marker(m, Touched(put, gone), t))
  BY CurrentFields DEF Marker, Tables, Fields
<1>2. /\ (t.stored \cup put) \ gone \in SUBSET Decisions
      /\ [d \in Decisions |-> IF d \in put THEN new[d] ELSE t.stop[d]] \in [Decisions -> Times]
      /\ [d \in Decisions |-> d \notin put /\ t.flag[d]] \in [Decisions -> BOOLEAN]
  BY DEF Tables
<1> HIDE DEF Marker
<1> QED
  BY <1>1, <1>2 DEF Changed, Tables, Clean

(* A refresh of the flags, and of the marker.                                *)
LEMMA RefreshedTable ==
  ASSUME NEW t \in Tables, NEW m, NEW time, NEW at \in Times
  PROVE  /\ Reflagged(t, m, time) \in Tables
         /\ Persisted(Reflagged(t, m, time), at) \in Tables
         /\ Clean(Reflagged(t, m, time)) = Clean(t)
<1>1. Recomputed(t, Due(Current(m, t), t, time), time) \in [Decisions -> BOOLEAN]
  <2>1. ASSUME NEW K PROVE Recomputed(t, K, time) \in [Decisions -> BOOLEAN]
    <3>1. \A d \in Decisions : (d \in Active(t, time) /\ Outranked(t, d, time)) \in BOOLEAN
      OBVIOUS
    <3>2. t.flag \in [Decisions -> BOOLEAN]
      BY DEF Tables
    <3> QED
      BY <3>1, <3>2 DEF Recomputed
  <2> QED
    BY <2>1
<1> QED
  BY <1>1 DEF Reflagged, Persisted, Tables, Clean
(* The type invariant holds at the beginning.                                *)
LEMMA TypeInit == ASSUME DuplicateConstants, DuplicateInit PROVE TypeOK
<1>1. disk \in Tables /\ 0 \in Times
  BY DEF DuplicateInit, DuplicateConstants, Times
<1>2. Opened(disk) \in Fields /\ Gone(Opened(disk)) \in Fields
  BY <1>1, OpenedFields, GoneFields
<1> QED
  BY <1>1, <1>2 DEF DuplicateInit, TypeOK

(* Every step keeps it.                                                      *)
LEMMA TypeStep == ASSUME DuplicateConstants, TypeOK, DuplicateNext PROVE TypeOK'
<1>0. /\ now \in Times /\ disk \in Tables /\ saved \in Tables
      /\ mem \in [Connections -> Fields] /\ mem["main"] \in Fields /\ mem["worker"] \in Fields
      /\ queue \in {"free", "deletion", "transaction", "refreshed"} /\ interrupted \in BOOLEAN
      /\ disk.stored \in SUBSET Decisions /\ disk.stop \in [Decisions -> Times]
  BY DEF TypeOK, Connections, Tables
<1>1. CASE DeleteForUser
  <2>1. PICK gone \in SUBSET disk.stored :
            /\ disk' = Changed(disk, mem["main"], {}, gone, disk.stop)
            /\ mem' = [mem EXCEPT !["main"] = Marked(@, Touched({}, gone), disk)]
    BY <1>1 DEF DeleteForUser
  <2>2. gone \in SUBSET Decisions /\ Touched({}, gone) \in SUBSET Keys
    BY <1>0, TouchedKeys
  <2>3. disk' \in Tables
    BY <1>0, <2>1, <2>2, ChangedTable
  <2>4. Marked(mem["main"], Touched({}, gone), disk) \in Fields
    BY <1>0, <2>2, MarkedFields
  <2> QED
    BY <1>0, <1>1, <2>1, <2>3, <2>4 DEF DeleteForUser, TypeOK
<1>2. CASE RefreshAfterDeletion
  <2>1. disk' \in Tables /\ Refreshed(mem["main"], now) \in Fields
    BY <1>0, <1>2, RefreshedTable, RefreshedFields DEF RefreshAfterDeletion
  <2> QED
    BY <1>0, <1>2, <2>1 DEF RefreshAfterDeletion, TypeOK
<1>3. CASE RefreshThrows
  <2>1. Reflagged(disk, mem["main"], now) \in Tables /\ Refreshed(mem["main"], now) \in Fields
    BY <1>0, RefreshedTable, RefreshedFields
  <2> QED
    BY <1>0, <1>3, <2>1 DEF RefreshThrows, TypeOK
<1>4. CASE DeletionThrows
  <2>1. ASSUME NEW gone \in SUBSET disk.stored
        PROVE  /\ Marked(mem["main"], Touched({}, gone), disk) \in Fields
               /\ Refreshed(Marked(mem["main"], Touched({}, gone), disk), now) \in Fields
    <3>1. gone \in SUBSET Decisions /\ Touched({}, gone) \in SUBSET Keys
      BY <1>0, TouchedKeys
    <3> QED
      BY <1>0, <3>1, MarkedFields, RefreshedFields
  <2> QED
    BY <1>0, <1>4, <2>1 DEF DeletionThrows, TypeOK
<1>5. CASE StartWorker
  BY <1>0, <1>5, OpenedFields DEF StartWorker, TypeOK
<1>6. CASE BeginTransaction
  BY <1>0, <1>6 DEF BeginTransaction, TypeOK
<1>7. CASE Persist
  <2>0. PICK put \in SUBSET Decisions, new \in [Decisions -> Times] :
         \E gone \in SUBSET (disk.stored \cup put) :
            /\ disk' = Changed(disk, mem["worker"], put, gone, new)
            /\ mem' = [mem EXCEPT !["worker"] = Marked(@, Touched(put, gone), disk)]
    BY <1>7 DEF Persist
  <2>1. PICK gone \in SUBSET (disk.stored \cup put) :
            /\ disk' = Changed(disk, mem["worker"], put, gone, new)
            /\ mem' = [mem EXCEPT !["worker"] = Marked(@, Touched(put, gone), disk)]
    BY <2>0
  <2>2. gone \in SUBSET Decisions
    BY <1>0, <2>1
  <2>3. disk' \in Tables
    BY <1>0, <2>1, <2>2, ChangedTable
  <2>4. Marked(mem["worker"], Touched(put, gone), disk) \in Fields
    BY <1>0, <2>2, MarkedFields, TouchedKeys
  <2> QED
    BY <1>0, <1>7, <2>1, <2>3, <2>4 DEF Persist, TypeOK
<1>8. CASE PersistThrows
  <2>1. PICK K \in SUBSET Keys : mem' = [mem EXCEPT !["worker"] = Marked(@, K, disk)]
    BY <1>8 DEF PersistThrows
  <2>2. Marked(mem["worker"], K, disk) \in Fields
    BY <1>0, MarkedFields
  <2> QED
    BY <1>0, <1>8, <2>1, <2>2 DEF PersistThrows, TypeOK
<1>9. CASE RefreshFlags
  <2>1. PICK time \in 0 .. now :
            /\ disk' = Persisted(Reflagged(disk, mem["worker"], time), time)
            /\ mem' = [mem EXCEPT !["worker"] = Refreshed(@, time)]
    BY <1>9 DEF RefreshFlags
  <2>2. time \in Times
    BY <1>0 DEF Times, DuplicateConstants
  <2>3. disk' \in Tables /\ Refreshed(mem["worker"], time) \in Fields
    BY <1>0, <2>1, <2>2, RefreshedTable, RefreshedFields
  <2> QED
    BY <1>0, <1>9, <2>1, <2>3 DEF RefreshFlags, TypeOK
<1>10. CASE RefreshFlagsThrows
  BY <1>0, <1>10, RefreshedTable, RefreshedFields DEF RefreshFlagsThrows, TypeOK
<1>11. CASE Commit
  BY <1>0, <1>11 DEF Commit, TypeOK
<1>12. CASE Cleanup
  BY <1>0, <1>12 DEF Cleanup, TypeOK, Tables
<1>13. CASE ClearSyncData
  BY <1>0, <1>13 DEF ClearSyncData, TypeOK, Tables, Fields
<1>14. CASE WorkerLost
  BY <1>0, <1>14, GoneFields DEF WorkerLost, Restored, TypeOK
<1>15. CASE Crash
  BY <1>0, <1>15, GoneFields, OpenedFields DEF Crash, Restored, TypeOK
<1>16. CASE Tick
  BY <1>0, <1>16 DEF Tick, TypeOK, Times, DuplicateConstants
<1> QED
  BY <1>1, <1>2, <1>3, <1>4, <1>5, <1>6, <1>7, <1>8, <1>9, <1>10, <1>11, <1>12, <1>13,
     <1>14, <1>15, <1>16 DEF DuplicateNext, MainStep, WorkerStep

-----------------------------------------------------------------------------
(* What is remembered. *)

(* A connection that changes rows remembers the groups it touched.           *)
LEMMA ChangeRemembers ==
  ASSUME DuplicateConstants, TypeOK, StaleIsRemembered, NEW c \in Connections, mem[c].up,
         NEW put \in SUBSET Decisions, NEW gone \in SUBSET Decisions,
         NEW new \in [Decisions -> Times],
         disk' = Changed(disk, mem[c], put, gone, new),
         mem' = [mem EXCEPT ![c] = Marked(@, Touched(put, gone), disk)], now' = now
  PROVE  StaleIsRemembered'
<1> DEFINE K == Touched(put, gone)
<1>0. disk \in Tables /\ now \in Int /\ K \in SUBSET Keys /\ \A x \in Connections : mem[x] \in Fields
  BY TouchedKeys DEF TypeOK, Times
<1> HIDE DEF K
<1>1. /\ mem'[c].up /\ mem'[c].keys = mem[c].keys \cup K
      /\ ~mem[c].init /\ ~Clean(disk) => ~mem'[c].init
      /\ \A x \in Connections : x # c => mem'[x] = mem[x]
  <2>1. mem'[c] = Marked(mem[c], K, disk) /\ \A x \in Connections : x # c => mem'[x] = mem[x]
    BY DEF TypeOK, K
  <2> QED
    BY <1>0, <2>1, MarkedFields
<1>2. CASE AllDoubted
  <2>1. ~Clean(disk')
    BY <1>0, <1>2, ChangedTable DEF AllDoubted
  <2>2. \A x \in Connections : mem'[x].up => ~mem'[x].init
    BY <1>1, <1>2 DEF AllDoubted
  <2> QED
    BY <2>1, <2>2 DEF StaleIsRemembered, AllDoubted, Clean
<1>3. ASSUME NEW k \in Keys, Right(disk, k, now) \/ Remembered(k)
      PROVE  Right(disk', k, now) \/ Remembered(k)'
  <2>1. CASE k \in K
    BY <1>1, <2>1 DEF Remembered
  <2>2. CASE Right(disk, k, now) /\ k \notin K
    BY <1>0, <2>2, ChangeKeepsRight DEF K
  <2>3. CASE Remembered(k)
    BY <1>1, <2>3 DEF Remembered
  <2> QED
    BY <1>3, <2>1, <2>2, <2>3
<1> QED
  BY <1>2, <1>3 DEF StaleIsRemembered

(* A refresh forgets only groups whose flags it has made right.              *)
LEMMA RefreshRemembers ==
  ASSUME DuplicateConstants, TypeOK, StaleIsRemembered, NEW c \in Connections,
         NEW time \in 0 .. now, NEW at \in Times,
         \/ disk' = Reflagged(disk, mem[c], time)
         \/ disk' = Persisted(Reflagged(disk, mem[c], time), at),
         mem' = [mem EXCEPT ![c] = Refreshed(@, at)], now' = now, mem[c].up
  PROVE  StaleIsRemembered' /\ (AllDoubted => AllRight(disk', now))
<1> DEFINE K == Due(Current(mem[c], disk), disk, time)
<1>0. /\ disk \in Tables /\ now \in Int /\ \A x \in Connections : mem[x] \in Fields
      /\ time \in Int /\ time <= now
  BY DEF TypeOK, Times
<1>1. \A x \in Connections : x # c => mem'[x] = mem[x]
  BY DEF TypeOK
<1>2. \A k : k \in K \/ Right(disk, k, now) => Right(disk', k, now)
  <2>1. \A k : k \in K \/ Right(disk, k, now)
                => Right([disk EXCEPT !.flag = Recomputed(disk, K, time)], k, now)
    BY <1>0, RefreshMakesRight
  <2>2. /\ disk'.stored = [disk EXCEPT !.flag = Recomputed(disk, K, time)].stored
        /\ disk'.stop = [disk EXCEPT !.flag = Recomputed(disk, K, time)].stop
        /\ disk'.flag = [disk EXCEPT !.flag = Recomputed(disk, K, time)].flag
    BY <1>0 DEF Reflagged, Persisted, Tables
  <2> QED
    BY <2>1, <2>2, SameRows
<1>3. \A k \in mem[c].keys : k \in Keys => k \in K
  <2> SUFFICES ASSUME NEW k \in mem[c].keys, k \in Keys PROVE k \in K
    OBVIOUS
  <2>1. Current(mem[c], disk) = mem[c]
    BY DEF Current
  <2> QED
    BY <2>1 DEF Due
<1>4. AllDoubted => \A k \in Keys : k \in K
  <2> SUFFICES ASSUME AllDoubted PROVE \A k \in Keys : k \in K
    OBVIOUS
  <2>1. ~Current(mem[c], disk).init
    BY <1>0, CurrentFields DEF AllDoubted
  <2> QED
    BY <2>1 DEF Due
<1> HIDE DEF K
<1>5. AllDoubted => AllRight(disk', now)
  BY <1>2, <1>4 DEF AllRight
<1>6. ASSUME NEW k \in Keys, Right(disk, k, now) \/ Remembered(k)
      PROVE  Right(disk', k, now) \/ Remembered(k)'
  <2>1. CASE Right(disk, k, now)
    BY <1>2, <2>1
  <2>2. CASE Remembered(k)
    <3>1. PICK x \in Connections : mem[x].up /\ k \in mem[x].keys
      BY <2>2 DEF Remembered
    <3>2. CASE x = c
      BY <1>2, <1>3, <3>1, <3>2
    <3>3. CASE x # c
      BY <1>1, <3>1, <3>3 DEF Remembered
    <3> QED
      BY <3>2, <3>3
  <2> QED
    BY <1>6, <2>1, <2>2
<1> QED
  BY <1>5, <1>6 DEF StaleIsRemembered, AllRight
(* A marked key is remembered though nothing was written.                    *)
LEMMA MarkRemembers ==
  ASSUME TypeOK, StaleIsRemembered, NEW c \in Connections, NEW K \in SUBSET Keys,
         mem' = [mem EXCEPT ![c] = Marked(@, K, disk)], disk' = disk, now' = now
  PROVE  StaleIsRemembered'
<1>0. disk \in Tables /\ \A x \in Connections : mem[x] \in Fields
  BY DEF TypeOK
<1>1. mem'[c] = Marked(mem[c], K, disk) /\ \A x \in Connections : x # c => mem'[x] = mem[x]
  BY DEF TypeOK
<1>2. /\ mem'[c].up = mem[c].up /\ mem'[c].keys = mem[c].keys \cup K
      /\ ~mem[c].init /\ ~Clean(disk) => ~mem'[c].init
  BY <1>0, <1>1, MarkedFields
<1>3. AllDoubted => AllDoubted'
  BY <1>1, <1>2 DEF AllDoubted, Clean
<1>4. \A k : Remembered(k) => Remembered(k)'
  BY <1>1, <1>2 DEF Remembered
<1>5. \A k : Right(disk, k, now) => Right(disk', k, now')
  OBVIOUS
<1> QED
  BY <1>3, <1>4, <1>5 DEF StaleIsRemembered

(* Time makes no flag wrong.                                                 *)
LEMMA TickRemembers ==
  ASSUME DuplicateConstants, TypeOK, StaleIsRemembered,
         now' = now + 1, disk' = disk, mem' = mem
  PROVE  StaleIsRemembered'
<1>0. disk \in Tables /\ now \in Int
  BY DEF TypeOK, Times
<1>1. \A k : Right(disk, k, now) => Right(disk', k, now')
  BY <1>0, TimeKeepsRight
<1>2. (AllDoubted => AllDoubted') /\ \A k : Remembered(k) => Remembered(k)'
  BY DEF AllDoubted, Clean, Remembered
<1> QED
  BY <1>1, <1>2 DEF StaleIsRemembered

(* A writer process that starts knows what the marker says.                  *)
LEMMA StartRemembers ==
  ASSUME TypeOK, StaleIsRemembered, StartWorker
  PROVE  StaleIsRemembered'
<1>0. disk \in Tables /\ disk' = disk /\ now' = now /\ ~mem["worker"].up
      /\ mem'["worker"] = Opened(disk) /\ mem'["main"] = mem["main"]
  BY DEF TypeOK, StartWorker, Connections
<1>1. AllDoubted => AllDoubted'
  BY <1>0, OpenedFields DEF AllDoubted, Clean, Connections
<1>2. \A k : Remembered(k) => Remembered(k)'
  BY <1>0 DEF Remembered, Connections
<1>3. \A k : Right(disk, k, now) => Right(disk', k, now')
  BY <1>0
<1> QED
  BY <1>1, <1>2, <1>3 DEF StaleIsRemembered

(* The removal of expired decisions makes no flag wrong.                     *)
LEMMA CleanupRemembers ==
  ASSUME DuplicateConstants, TypeOK, StaleIsRemembered, Cleanup
  PROVE  StaleIsRemembered'
<1>0. disk \in Tables /\ now \in Int /\ now' = now /\ mem' = mem
  BY DEF TypeOK, Times, Cleanup
<1>1. PICK old \in SUBSET {d \in disk.stored : disk.stop[d] < now} :
          disk' = [disk EXCEPT !.stored = @ \ old]
  BY DEF Cleanup
<1>2. \A k : Right(disk, k, now) => Right(disk', k, now')
  BY <1>0, <1>1, CleanupKeepsRight
<1>3. disk'.at = disk.at /\ disk'.dirty = disk.dirty
  BY <1>0, <1>1 DEF Tables
<1>4. (AllDoubted => AllDoubted') /\ \A k : Remembered(k) => Remembered(k)'
  BY <1>0, <1>3 DEF AllDoubted, Clean, Remembered
<1> QED
  BY <1>2, <1>4 DEF StaleIsRemembered

(* An empty table has no wrong flag.                                         *)
LEMMA ClearRemembers ==
  ASSUME TypeOK, ClearSyncData
  PROVE  StaleIsRemembered'
<1>1. disk'.stored = {}
  BY DEF TypeOK, Tables, ClearSyncData
<1>2. \A k : Right(disk', k, now')
  BY <1>1 DEF Right, Active
<1> QED
  BY <1>2 DEF StaleIsRemembered

(* No step forgets a group, but for those that end a connection.             *)
LEMMA StepRemembers ==
  ASSUME DuplicateConstants, TypeOK, mem["main"].up, StaleIsRemembered,
         MainStep \/ WorkerStep \/ Tick \/ UNCHANGED vars, DeletionThrows => ~interrupted'
  PROVE  StaleIsRemembered'
<1>0. /\ TypeOK /\ mem["main"].up /\ mem["main"] \in Fields /\ mem["worker"] \in Fields
      /\ "main" \in Connections /\ "worker" \in Connections
      /\ DOMAIN mem = Connections /\ disk \in Tables /\ now \in Times /\ now \in 0 .. now
      /\ disk.stored \in SUBSET Decisions /\ disk.stop \in [Decisions -> Times]
      /\ StaleIsRemembered
  BY DEF TypeOK, Connections, Tables, Times
<1>1. CASE DeleteForUser
  <2>1. PICK gone \in SUBSET disk.stored :
          /\ disk' = Changed(disk, mem["main"], {}, gone, disk.stop)
          /\ mem' = [mem EXCEPT !["main"] = Marked(@, Touched({}, gone), disk)]
    BY <1>1 DEF DeleteForUser
  <2>2. now' = now /\ gone \in SUBSET Decisions /\ {} \in SUBSET Decisions
    BY <1>0, <1>1 DEF DeleteForUser
  <2> QED
    BY <1>0, <2>1, <2>2, ChangeRemembers
<1>2. CASE RefreshAfterDeletion
  BY <1>0, <1>2, RefreshRemembers DEF RefreshAfterDeletion
<1>3. CASE RefreshThrows
  <2>1. CASE UNCHANGED <<disk, mem>>
    BY <1>0, <1>3, <2>1 DEF RefreshThrows, StaleIsRemembered, AllDoubted, Clean, Remembered
  <2>2. CASE ~UNCHANGED <<disk, mem>>
    BY <1>0, <1>3, <2>2, RefreshRemembers DEF RefreshThrows
  <2> QED
    BY <2>1, <2>2
<1>4. CASE DeletionThrows
  <2>1. PICK gone \in SUBSET disk.stored :
          mem' = [mem EXCEPT !["main"] = Marked(@, Touched({}, gone), disk)]
    BY <1>4 DEF DeletionThrows
  <2>2. Touched({}, gone) \in SUBSET Keys
    BY <1>0, TouchedKeys
  <2> QED
    BY <1>0, <1>4, <2>1, <2>2, MarkRemembers DEF DeletionThrows
<1>5. CASE StartWorker
  BY <1>0, <1>5, StartRemembers
<1>6. CASE BeginTransaction \/ Commit \/ UNCHANGED vars
  BY <1>0, <1>6 DEF BeginTransaction, Commit, vars, StaleIsRemembered, AllDoubted, Clean, Remembered
<1>7. CASE Persist
  <2>1. PICK put \in SUBSET Decisions, new \in [Decisions -> Times] :
       \E gone \in SUBSET (disk.stored \cup put) :
          /\ disk' = Changed(disk, mem["worker"], put, gone, new)
          /\ mem' = [mem EXCEPT !["worker"] = Marked(@, Touched(put, gone), disk)]
    BY <1>7 DEF Persist
  <2>2. PICK gone \in SUBSET (disk.stored \cup put) :
          /\ disk' = Changed(disk, mem["worker"], put, gone, new)
          /\ mem' = [mem EXCEPT !["worker"] = Marked(@, Touched(put, gone), disk)]
    BY <2>1
  <2>3. now' = now /\ gone \in SUBSET Decisions /\ mem["worker"].up
    BY <1>0, <1>7 DEF Persist, WorkerMayWrite
  <2> QED
    BY <1>0, <2>2, <2>3, ChangeRemembers
<1>8. CASE PersistThrows
  BY <1>0, <1>8, MarkRemembers DEF PersistThrows
<1>9. CASE RefreshFlags
  <2>1. PICK time \in 0 .. now :
          /\ disk' = Persisted(Reflagged(disk, mem["worker"], time), time)
          /\ mem' = [mem EXCEPT !["worker"] = Refreshed(@, time)]
    BY <1>9 DEF RefreshFlags
  <2>2. time \in Times /\ now' = now /\ mem["worker"].up
    BY <1>0, <1>9 DEF RefreshFlags, WorkerMayWrite, Times, DuplicateConstants
  <2> QED
    BY <1>0, <2>1, <2>2, RefreshRemembers
<1>10. CASE RefreshFlagsThrows
  BY <1>0, <1>10, RefreshRemembers DEF RefreshFlagsThrows
<1>11. CASE Cleanup
  BY <1>0, <1>11, CleanupRemembers
<1>12. CASE ClearSyncData
  BY <1>0, <1>12, ClearRemembers
<1>13. CASE Tick
  BY <1>0, <1>13, TickRemembers DEF Tick
<1> QED
  BY <1>1, <1>2, <1>3, <1>4, <1>5, <1>6, <1>7, <1>8, <1>9, <1>10, <1>11, <1>12,
     <1>13 DEF MainStep, WorkerStep

-----------------------------------------------------------------------------
(* While no connection dies. *)

Remembering == TypeOK /\ mem["main"].up /\ (interrupted \/ StaleIsRemembered)

(* Every step keeps what is remembered.                                      *)
LEMMA RememberingStep ==
  ASSUME DuplicateConstants, Remembering, [DuplicateNext]_vars
  PROVE  Remembering'
<1>0. /\ TypeOK /\ mem["main"].up /\ mem["main"] \in Fields /\ mem["worker"] \in Fields
      /\ "main" \in Connections /\ "worker" \in Connections
      /\ DOMAIN mem = Connections /\ disk \in Tables /\ now \in Times /\ now \in 0 .. now
      /\ disk.stored \in SUBSET Decisions /\ disk.stop \in [Decisions -> Times]
  BY DEF Remembering, TypeOK, Connections, Tables, Times
<1>1. TypeOK'
  <2>1. CASE DuplicateNext
    BY <1>0, <2>1, TypeStep
  <2>2. CASE UNCHANGED vars
    BY <1>0, <2>2 DEF TypeOK, vars
  <2> QED
    BY <2>1, <2>2
<1>2. mem'["main"].up
  <2>1. \A m \in Fields, K \in SUBSET Keys : Marked(m, K, disk).up = m.up
    BY <1>0, MarkedFields
  <2>2. \A m \in Fields : Refreshed(m, now).up = m.up
    BY <1>0, RefreshedFields
  <2>3. \A gone \in SUBSET disk.stored : Touched({}, gone) \in SUBSET Keys
    BY <1>0, TouchedKeys
  <2>4. Restored \in Tables
    BY DEF Remembering, TypeOK, Restored
  <2>5. CASE DeleteForUser
    BY <1>0, <2>1, <2>3, <2>5 DEF DeleteForUser
  <2>6. CASE RefreshAfterDeletion
    BY <1>0, <2>2, <2>6 DEF RefreshAfterDeletion
  <2>7. CASE RefreshThrows
    BY <1>0, <2>2, <2>7 DEF RefreshThrows
  <2>8. CASE DeletionThrows
    <3>1. PICK gone \in SUBSET disk.stored :
             \/ mem' = [mem EXCEPT !["main"] = Marked(@, Touched({}, gone), disk)]
             \/ mem' = [mem EXCEPT !["main"] = Refreshed(Marked(@, Touched({}, gone), disk), now)]
      BY <2>8 DEF DeletionThrows
    <3>2. /\ Marked(mem["main"], Touched({}, gone), disk) \in Fields
          /\ Marked(mem["main"], Touched({}, gone), disk).up
      BY <1>0, <2>3, MarkedFields
    <3> QED
      BY <1>0, <2>2, <3>1, <3>2
  <2>9. CASE Crash
    BY <1>0, <2>4, <2>9, OpenedFields DEF Crash
  <2>10. CASE WorkerStep \/ WorkerLost \/ Tick \/ UNCHANGED vars
    BY <1>0, <2>10 DEF WorkerStep, WorkerLost, Tick, vars, StartWorker, BeginTransaction,
       Persist, PersistThrows, RefreshFlags, RefreshFlagsThrows, Commit, Cleanup, ClearSyncData
  <2> QED
    BY <2>5, <2>6, <2>7, <2>8, <2>9, <2>10 DEF DuplicateNext, MainStep
<1>3. ASSUME ~interrupted' PROVE StaleIsRemembered'
  <2>1. /\ ~interrupted /\ StaleIsRemembered
        /\ MainStep \/ WorkerStep \/ Tick \/ UNCHANGED vars
        /\ DeletionThrows => ~interrupted'
    BY <1>0, <1>3 DEF Remembering, TypeOK, DuplicateNext, MainStep, WorkerStep, vars,
       DeleteForUser, RefreshAfterDeletion, RefreshThrows, DeletionThrows, StartWorker,
       BeginTransaction, Persist, PersistThrows, RefreshFlags, RefreshFlagsThrows, Commit,
       Cleanup, ClearSyncData, WorkerLost, Crash, Tick
  <2> QED
    BY <1>0, <2>1, StepRemembers
<1> QED
  BY <1>1, <1>2, <1>3 DEF Remembering

(* Until a connection dies, or a batch that had refreshed the flags is       *)
(* rolled back, a group whose flags are out of date is remembered by a       *)
(* connection that will refresh it, or no connection trusts the flags,       *)
(* whatever the interleaving of user deletions, bulk deletions, history and  *)
(* refreshes (markDecisionDuplicateKey(), refreshDecisionDuplicateFlags(),   *)
(* database.ts).                                                             *)
THEOREM RememberedUntilInterrupted ==
  ASSUME DuplicateConstants
  PROVE  DuplicateSpec => [](interrupted \/ StaleIsRemembered)
<1>1. DuplicateInit => Remembering
  <2> SUFFICES ASSUME DuplicateInit PROVE Remembering
    OBVIOUS
  <2>1. TypeOK
    BY TypeInit
  <2>2. Opened(disk).up /\ ~Opened(disk).init /\ ~Clean(disk) /\ ~Gone(Opened(disk)).up
    BY OpenedFields, GoneFields DEF DuplicateInit
  <2>3. mem["main"] = Opened(disk) /\ mem["worker"] = Gone(Opened(disk))
    BY DEF DuplicateInit, Connections
  <2> QED
    BY <2>1, <2>2, <2>3 DEF Remembering, StaleIsRemembered, AllDoubted, Connections
<1>2. Remembering /\ [DuplicateNext]_vars => Remembering'
  BY RememberingStep
<1>3. Remembering => interrupted \/ StaleIsRemembered
  BY DEF Remembering
<1> QED
  BY <1>1, <1>2, <1>3, PTL DEF DuplicateSpec
-----------------------------------------------------------------------------
(* Where every change is followed by its refresh in the same turn. *)

(* A connection that is not in its turn remembers nothing.                   *)
Idle(c) == mem[c].up => mem[c].keys = {} /\ (mem[c].init => ~mem[c].dirty)
OthersIdle ==
    /\ queue # "deletion" => Idle("main")
    /\ queue # "transaction" => Idle("worker")
SavedIsSafe ==
    InTransaction => /\ mem["worker"].up
                     /\ AllRight(saved, now) \/ (~Clean(saved) /\ ~mem["main"].init)
DiskIsMarked == ~InTransaction /\ Clean(disk) => AllRight(disk, now)
DisciplinedInv ==
    /\ TypeOK /\ mem["main"].up /\ StaleIsRemembered
    /\ OthersIdle /\ SavedIsSafe /\ DiskIsMarked
(* An idle connection that changes a group leaves the marker, or there was   *)
(* no clean state to leave.                                                  *)
LEMMA ChangeIsMarked ==
  ASSUME DuplicateConstants, NEW m \in Fields, NEW t \in Tables, NEW time \in Int,
         m.keys = {}, m.init => ~m.dirty, Clean(t) => AllRight(t, time),
         NEW put \in SUBSET Decisions, NEW gone \in SUBSET Decisions,
         NEW new \in [Decisions -> Times]
  PROVE  Clean(Changed(t, m, put, gone, new)) => AllRight(Changed(t, m, put, gone, new), time)
<1> DEFINE u == Changed(t, m, put, gone, new)
<1> SUFFICES ASSUME Clean(u) PROVE AllRight(u, time)
  OBVIOUS
<1>1. ~u.dirty /\ Clean(t) /\ u.dirty = Marker(m, Touched(put, gone), t)
  BY ChangedTable DEF Clean
<1>2. ~Current(m, t).dirty
  BY <1>1, CurrentFields
<1>3. Touched(put, gone) = {}
  BY <1>1, <1>2 DEF Marker
<1>4. \A k \in Keys : Right(u, k, time)
  BY <1>1, <1>3, ChangeKeepsRight DEF AllRight
<1> QED
  BY <1>4 DEF AllRight

(* Where all are idle, flags are right or doubted by all.                    *)
LEMMA AllIdle ==
  ASSUME TypeOK, StaleIsRemembered, \A c \in Connections : mem[c].up => mem[c].keys = {}
  PROVE  AllDoubted \/ AllRight(disk, now)
  BY DEF StaleIsRemembered, Remembered, AllRight

(* A connection that is opened on a database whose marker is true.           *)
LEMMA OpenedIsSafe ==
  ASSUME NEW t \in Tables, NEW time, Clean(t) => AllRight(t, time)
  PROVE  AllRight(t, time) \/ (~Clean(t) /\ ~Opened(t).init)
  BY OpenedFields

(* The beginning.                                                            *)
LEMMA DisciplinedInit == ASSUME DuplicateConstants, DuplicateInit PROVE DisciplinedInv
<1>1. TypeOK /\ disk \in Tables
  BY TypeInit DEF TypeOK
<1>2. /\ mem["main"] = Opened(disk) /\ mem["worker"] = Gone(Opened(disk)) /\ ~Clean(disk)
      /\ queue = "free" /\ Opened(disk) \in Fields
  BY <1>1, OpenedFields DEF DuplicateInit, Connections
<1>3. mem["main"].up /\ mem["main"].keys = {} /\ ~mem["main"].init /\ ~mem["worker"].up
  BY <1>1, <1>2, OpenedFields, GoneFields
<1> QED
  BY <1>1, <1>2, <1>3 DEF DisciplinedInv, OthersIdle, Idle, SavedIsSafe, DiskIsMarked,
     StaleIsRemembered, AllDoubted, Connections, InTransaction

(* Every step.                                                               *)
LEMMA DisciplinedStep ==
  ASSUME DuplicateConstants, Disciplined, DisciplinedInv, [DuplicateNext]_vars
  PROVE  DisciplinedInv'
<1>0. /\ TypeOK /\ mem["main"].up /\ mem["main"] \in Fields /\ mem["worker"] \in Fields
      /\ "main" \in Connections /\ "worker" \in Connections /\ StaleIsRemembered
      /\ DOMAIN mem = Connections /\ disk \in Tables /\ saved \in Tables
      /\ now \in Times /\ now \in Int
      /\ disk.stored \in SUBSET Decisions /\ disk.stop \in [Decisions -> Times]
      /\ queue \in {"free", "deletion", "transaction", "refreshed"}
      /\ OthersIdle /\ SavedIsSafe /\ DiskIsMarked
  BY DEF DisciplinedInv, TypeOK, Connections, Tables, Times
<1>1. TypeOK' /\ mem'["main"].up
  <2>1. Remembering
    BY <1>0 DEF Remembering
  <2> QED
    BY <2>1, RememberingStep DEF Remembering
<1>2. ~RefreshThrows /\ ~DeletionThrows /\ ~PersistThrows /\ ~RefreshFlagsThrows
  BY DEF Disciplined, RefreshThrows, DeletionThrows, PersistThrows, RefreshFlagsThrows
<1>3. MainStep \/ WorkerStep \/ Tick \/ UNCHANGED vars => StaleIsRemembered'
  BY <1>0, <1>2, StepRemembers
<1>4. queue = "free" => AllDoubted \/ AllRight(disk, now)
  BY <1>0, AllIdle DEF OthersIdle, Idle, Connections
<1>5. CASE DeleteForUser
  <2>1. PICK gone \in SUBSET disk.stored :
            /\ disk' = Changed(disk, mem["main"], {}, gone, disk.stop)
            /\ mem' = [mem EXCEPT !["main"] = Marked(@, Touched({}, gone), disk)]
    BY <1>5 DEF DeleteForUser
  <2>2. /\ queue = "free" /\ queue' = "deletion" /\ now' = now
        /\ mem'["worker"] = mem["worker"] /\ gone \in SUBSET Decisions
    BY <1>0, <1>5, <2>1 DEF DeleteForUser, Disciplined
  <2>3. DiskIsMarked'
    BY <1>0, <2>1, <2>2, ChangeIsMarked DEF OthersIdle, Idle, DiskIsMarked, InTransaction
  <2>4. StaleIsRemembered'
    BY <1>3, <1>5 DEF MainStep
  <2> QED
    BY <1>0, <1>1, <2>2, <2>3, <2>4 DEF DisciplinedInv, OthersIdle, Idle, SavedIsSafe, InTransaction
<1>6. CASE RefreshAfterDeletion
  <2>1. /\ disk' = Persisted(Reflagged(disk, mem["main"], now), now)
        /\ mem' = [mem EXCEPT !["main"] = Refreshed(@, now)]
        /\ queue = "deletion" /\ queue' = "free" /\ now' = now
    BY <1>0, <1>6 DEF RefreshAfterDeletion, MainMayRefresh, Disciplined
  <2>2. StaleIsRemembered' /\ mem'["worker"] = mem["worker"] /\ mem'["main"] = Refreshed(mem["main"], now)
    BY <1>0, <1>3, <1>6, <2>1 DEF MainStep
  <2>3. OthersIdle'
    BY <1>0, <2>1, <2>2, RefreshedFields DEF OthersIdle, Idle
  <2>4. disk'.at = now /\ ~disk'.dirty /\ now # Never
    BY <1>0, <2>1 DEF Persisted, Reflagged, Tables, Times, Never
  <2>5. ~AllDoubted'
    BY <2>4 DEF AllDoubted, Clean
  <2>6. DiskIsMarked'
    BY <1>1, <2>1, <2>2, <2>3, <2>5 DEF DiskIsMarked, OthersIdle, Idle, StaleIsRemembered,
       Remembered, AllRight, Connections
  <2> QED
    BY <1>1, <2>1, <2>2, <2>3, <2>6 DEF DisciplinedInv, SavedIsSafe, InTransaction
<1>7. CASE StartWorker
  <2>1. /\ queue = "free" /\ queue' = "free" /\ now' = now /\ disk' = disk
        /\ mem'["worker"] = Opened(disk) /\ mem'["main"] = mem["main"]
    BY <1>0, <1>7 DEF StartWorker
  <2>2. OthersIdle'
    BY <1>0, <2>1, OpenedFields DEF OthersIdle, Idle
  <2>3. StaleIsRemembered'
    BY <1>0, <1>7, StartRemembers
  <2> QED
    BY <1>0, <1>1, <2>1, <2>2, <2>3 DEF DisciplinedInv, SavedIsSafe, InTransaction, DiskIsMarked
<1>8. CASE BeginTransaction
  <2>1. /\ queue = "free" /\ queue' = "transaction" /\ UNCHANGED <<now, disk, mem>>
        /\ saved' = disk /\ mem["worker"].up
    BY <1>8 DEF BeginTransaction
  <2>2. StaleIsRemembered'
    BY <1>0, <2>1 DEF StaleIsRemembered, AllDoubted, Clean, Remembered
  <2>3. SavedIsSafe'
    BY <1>0, <1>4, <2>1 DEF SavedIsSafe, AllDoubted, Clean
  <2> QED
    BY <1>0, <1>1, <2>1, <2>2, <2>3 DEF DisciplinedInv, OthersIdle, Idle, InTransaction, DiskIsMarked
<1>9. CASE Persist
  <2>1. PICK K : mem' = [mem EXCEPT !["worker"] = Marked(@, K, disk)] /\ K \in SUBSET Keys
    <3>1. PICK put \in SUBSET Decisions, new \in [Decisions -> Times] :
             \E gone \in SUBSET (disk.stored \cup put) :
                mem' = [mem EXCEPT !["worker"] = Marked(@, Touched(put, gone), disk)]
      BY <1>9 DEF Persist
    <3>2. PICK gone \in SUBSET (disk.stored \cup put) :
             mem' = [mem EXCEPT !["worker"] = Marked(@, Touched(put, gone), disk)]
      BY <3>1
    <3>3. gone \in SUBSET Decisions
      BY <1>0
    <3> QED
      BY <3>2, <3>3, TouchedKeys
  <2>2. /\ queue = "transaction" /\ queue' = queue /\ now' = now /\ saved' = saved
        /\ mem["worker"].up /\ mem'["main"] = mem["main"] /\ mem'["worker"].up
    BY <1>0, <1>9, <2>1, MarkedFields DEF Persist, WorkerMayWrite, Disciplined
  <2>3. StaleIsRemembered'
    BY <1>3, <1>9 DEF WorkerStep
  <2> QED
    BY <1>0, <1>1, <2>2, <2>3 DEF DisciplinedInv, OthersIdle, Idle, SavedIsSafe, DiskIsMarked,
       InTransaction
<1>10. CASE RefreshFlags
  <2>1. PICK time \in 0 .. now :
            /\ disk' = Persisted(Reflagged(disk, mem["worker"], time), time)
            /\ mem' = [mem EXCEPT !["worker"] = Refreshed(@, time)]
    BY <1>10 DEF RefreshFlags
  <2>2. /\ queue = "transaction" /\ queue' = "refreshed" /\ now' = now /\ saved' = saved
        /\ mem["worker"].up /\ mem'["main"] = mem["main"]
        /\ mem'["worker"] = Refreshed(mem["worker"], time) /\ time \in Times
    BY <1>0, <1>10, <2>1 DEF RefreshFlags, WorkerMayWrite, Disciplined, Times, DuplicateConstants
  <2>3. StaleIsRemembered'
    BY <1>3, <1>10 DEF WorkerStep
  <2>4. mem'["worker"].up /\ mem'["worker"].keys = {} /\ ~mem'["worker"].dirty
    BY <1>0, <2>2, RefreshedFields
  <2> QED
    BY <1>0, <1>1, <2>2, <2>3, <2>4 DEF DisciplinedInv, OthersIdle, Idle, SavedIsSafe,
       DiskIsMarked, InTransaction
<1>11. CASE Commit
  <2>1. queue = "refreshed" /\ queue' = "free" /\ UNCHANGED <<now, disk, saved, mem>>
    BY <1>11 DEF Commit
  <2>2. AllDoubted \/ AllRight(disk, now)
    BY <1>0, <2>1, AllIdle DEF OthersIdle, Idle, Connections
  <2>3. StaleIsRemembered'
    BY <1>3, <1>11 DEF WorkerStep
  <2> QED
    BY <1>0, <1>1, <2>1, <2>2, <2>3 DEF DisciplinedInv, OthersIdle, Idle, SavedIsSafe,
       DiskIsMarked, InTransaction, AllDoubted, Clean
<1>12. CASE Cleanup
  <2>1. queue = "free" /\ queue' = "free" /\ UNCHANGED <<now, saved, mem>>
    BY <1>12 DEF Cleanup
  <2>2. PICK old \in SUBSET {d \in disk.stored : disk.stop[d] < now} :
            disk' = [disk EXCEPT !.stored = @ \ old]
    BY <1>12 DEF Cleanup
  <2>3. (Clean(disk') <=> Clean(disk)) /\ \A k \in Keys : Right(disk, k, now) => Right(disk', k, now)
    BY <1>0, <2>2, CleanupKeepsRight DEF Clean, Tables
  <2>4. StaleIsRemembered'
    BY <1>3, <1>12 DEF WorkerStep
  <2>5. DiskIsMarked'
    BY <1>0, <2>1, <2>3 DEF DiskIsMarked, InTransaction, AllRight
  <2> QED
    BY <1>0, <1>1, <2>1, <2>4, <2>5 DEF DisciplinedInv, OthersIdle, Idle, SavedIsSafe, InTransaction
<1>13. CASE ClearSyncData
  <2>1. /\ queue = "free" /\ queue' = "free" /\ UNCHANGED <<now, saved>>
        /\ mem'["main"] = mem["main"] /\ ~mem'["worker"].init /\ mem'["worker"].keys = {}
    BY <1>0, <1>13 DEF ClearSyncData, Fields
  <2>2. ~Clean(disk')
    BY <1>0, <1>13 DEF ClearSyncData, Clean, Tables
  <2>3. StaleIsRemembered'
    BY <1>0, <1>13, ClearRemembers
  <2> QED
    BY <1>0, <1>1, <2>1, <2>2, <2>3 DEF DisciplinedInv, OthersIdle, Idle, SavedIsSafe,
       InTransaction, DiskIsMarked, Clean
<1>14. Restored \in Tables /\ (Clean(Restored) => AllRight(Restored, now))
  BY <1>0 DEF Restored, SavedIsSafe, DiskIsMarked
<1>15. CASE WorkerLost
  <2>1. /\ disk' = Restored /\ now' = now /\ saved' = saved /\ queue' \in {"free", "deletion"}
        /\ mem'["main"] = mem["main"] /\ ~mem'["worker"].up
        /\ queue' = IF InTransaction THEN "free" ELSE queue
    BY <1>0, <1>15, GoneFields DEF WorkerLost, InTransaction
  <2>2. StaleIsRemembered'
    <3>1. CASE InTransaction
      BY <1>0, <2>1, <3>1 DEF SavedIsSafe, Restored, StaleIsRemembered, AllDoubted, Clean,
         AllRight, Connections
    <3>2. CASE ~InTransaction
      <4>1. disk' = disk
        BY <2>1, <3>2 DEF Restored
      <4>2. mem["worker"].up => mem["worker"].keys = {}
        BY <1>0, <3>2 DEF OthersIdle, Idle, InTransaction
      <4>3. AllDoubted => AllDoubted'
        BY <2>1, <4>1 DEF AllDoubted, Clean, Connections
      <4>4. \A k : Remembered(k) => Remembered(k)'
        BY <2>1, <4>2 DEF Remembered, Connections
      <4> QED
        BY <1>0, <2>1, <4>1, <4>3, <4>4 DEF StaleIsRemembered
    <3> QED
      BY <3>1, <3>2
  <2> QED
    BY <1>0, <1>1, <1>14, <2>1, <2>2 DEF DisciplinedInv, OthersIdle, Idle, SavedIsSafe,
       InTransaction, DiskIsMarked, Clean
<1>16. CASE Crash
  <2>1. /\ disk' = Restored /\ now' = now /\ queue' = "free"
        /\ mem'["main"] = Opened(Restored) /\ ~mem'["worker"].up
    BY <1>0, <1>16, GoneFields DEF Crash
  <2>2. /\ Opened(Restored).keys = {} /\ Opened(Restored).init = Clean(Restored)
        /\ Opened(Restored).dirty = ~Clean(Restored)
    BY <1>14, OpenedFields
  <2>3. Clean(disk') = Clean(Restored) /\ (Clean(disk') => AllRight(disk', now'))
    BY <1>14, <2>1
  <2>4. StaleIsRemembered'
    BY <2>1, <2>2, <2>3 DEF StaleIsRemembered, AllDoubted, AllRight, Connections, Clean
  <2> QED
    BY <1>0, <1>1, <2>1, <2>2, <2>3, <2>4 DEF DisciplinedInv, OthersIdle, Idle, SavedIsSafe,
       InTransaction, DiskIsMarked, Clean
<1>17. CASE Tick
  <2>1. now' = now + 1 /\ UNCHANGED <<disk, saved, mem, queue>>
    BY <1>17 DEF Tick
  <2>2. StaleIsRemembered'
    BY <1>3, <1>17
  <2>3. \A t \in Tables : AllRight(t, now) => AllRight(t, now')
    BY <1>0, <2>1, TimeKeepsRight DEF AllRight
  <2> QED
    BY <1>0, <1>1, <2>1, <2>2, <2>3 DEF DisciplinedInv, OthersIdle, Idle, SavedIsSafe,
       InTransaction, DiskIsMarked, Clean
<1>18. CASE UNCHANGED vars
  BY <1>0, <1>1, <1>3, <1>18 DEF vars, DisciplinedInv, OthersIdle, Idle, SavedIsSafe,
     InTransaction, DiskIsMarked, Clean
<1> QED
  BY <1>2, <1>5, <1>6, <1>7, <1>8, <1>9, <1>10, <1>11, <1>12, <1>13, <1>15, <1>16, <1>17,
     <1>18 DEF DuplicateNext, MainStep, WorkerStep

(* Where a change and its refresh share one turn of the operation queue, as  *)
(* a user's single deletion, a queue chunk and a window's transaction do,    *)
(* crashes, retired writer processes and rolled back transactions lose no    *)
(* group whose flags are out of date, and what a restart takes for clean is  *)
(* (refreshDecisionDuplicateFlags(), loadDecisionDuplicateRefreshState(),    *)
(* database.ts).                                                             *)
THEOREM DisciplineSurvivesCrashes ==
  ASSUME DuplicateConstants, Disciplined
  PROVE  DuplicateSpec => [](StaleIsRemembered /\ MarkerIsTrue)
<1>1. DuplicateInit => DisciplinedInv
  BY DisciplinedInit
<1>2. DisciplinedInv /\ [DuplicateNext]_vars => DisciplinedInv'
  BY DisciplinedStep
<1>3. DisciplinedInv => StaleIsRemembered /\ MarkerIsTrue
  BY DEF DisciplinedInv, MarkerIsTrue, Restored, SavedIsSafe, DiskIsMarked
<1> QED
  BY <1>1, <1>2, <1>3, PTL DEF DuplicateSpec

-----------------------------------------------------------------------------
(* The sequences that a synchronization puts its writes in.                  *)

(* What holds for 0, and for n + 1 if it does for n, holds for every number. *)
LEMMA EveryNumber ==
  ASSUME NEW S, 0 \in S, \A n \in Nat : n \in S => n + 1 \in S
  PROVE  Nat \subseteq S
<1> DEFINE T == Nat \ S
<1> SUFFICES ASSUME T # {} PROVE FALSE
  OBVIOUS
<1>1. OpToRel(<, Nat) = {p \in Nat \X Nat : p[1] < p[2]}
  BY Zenon DEF OpToRel
<1>2. PICK x \in T : \A y \in T : <<y, x>> \notin {p \in Nat \X Nat : p[1] < p[2]}
  <2>1. IsWellFoundedOn({p \in Nat \X Nat : p[1] < p[2]}, Nat)
    BY <1>1, NatLessThanWellFounded
  <2> QED
    BY <2>1, WFMin
<1>3. x \in Nat /\ x # 0
  OBVIOUS
<1>4. x - 1 \in Nat /\ x - 1 < x /\ x = (x - 1) + 1
  BY <1>3
<1>5. x - 1 \in T
  BY <1>3, <1>4
<1>6. <<x - 1, x>> \in {p \in Nat \X Nat : p[1] < p[2]}
  BY <1>3, <1>4
<1> QED
  BY <1>2, <1>5, <1>6

(* SetToSeq lists a finite set.                                              *)
LEMMA SetListed ==
  ASSUME NEW S, IsFiniteSet(S), NEW n, n = Cardinality(S), NEW s, s = SetToSeq(S)
  PROVE  /\ n \in Nat /\ s \in [1 .. n -> S]
         /\ \A x \in S : \E k \in 1 .. n : s[k] = x
         /\ s \in Seq(S) /\ Len(s) = n /\ DOMAIN s = 1 .. n
<1>1. n \in Nat /\ \E f \in [1 .. n -> S] : IsInjective(f)
  <2>1. n \in Nat /\ ExistsBijection(1 .. n, S)
    BY FS_CardinalityType
  <2> QED
    BY <2>1 DEF ExistsBijection, Bijection, Injection
<1>2. s \in [1 .. n -> S] /\ IsInjective(s)
  BY <1>1 DEF SetToSeq
<1>3. s \in Injection(1 .. n, S)
  BY <1>2 DEF Injection
<1>4. Cardinality(1 .. n) = n /\ IsFiniteSet(1 .. n)
  BY <1>1, FS_Interval
<1>5. s \in Surjection(1 .. n, S)
  BY <1>3, <1>4, FS_Injection
<1>6. s \in Seq(S)
  BY <1>1, <1>2
<1> QED
  BY <1>1, <1>2, <1>5, <1>6 DEF Surjection

(* FlattenSeq is what its recursion says.                                    *)
LEMMA FlattenIs ==
  ASSUME NEW seqs, NEW n \in Nat \ {0}, Len(seqs) = n
  PROVE  \E f : /\ f[1] = seqs[1]
                /\ \A i \in 1 .. n : i > 1 => f[i] = f[i - 1] \o seqs[i]
                /\ FlattenSeq(seqs) = f[n]
<1> DEFINE Are(f, m) == f = [i \in 1 .. m |-> IF i = 1 THEN seqs[i] ELSE f[i - 1] \o seqs[i]]
           S == {m \in Nat : \E f : Are(f, m)}
<1>1. 0 \in S
  <2> DEFINE f == [i \in 1 .. 0 |-> <<>>]
  <2>1. Are(f, 0)
    OBVIOUS
  <2> QED
    BY <2>1
<1>2. ASSUME NEW m \in Nat, m \in S
      PROVE  m + 1 \in S
  <2> PICK f : Are(f, m)
    BY <1>2
  <2> DEFINE last == IF m = 0 THEN seqs[1] ELSE f[m] \o seqs[m + 1]
             g == [i \in 1 .. m + 1 |-> IF i = m + 1 THEN last ELSE f[i]]
  <2>1. \A i \in 1 .. m + 1 : g[i] = IF i = 1 THEN seqs[i] ELSE g[i - 1] \o seqs[i]
    <3>1. \A i \in 1 .. m : f[i] = IF i = 1 THEN seqs[i] ELSE f[i - 1] \o seqs[i]
      OBVIOUS
    <3>2. g[m + 1] = last /\ \A i \in 1 .. m : g[i] = f[i]
      <4> HIDE DEF last, Are
      <4> QED
        OBVIOUS
    <3> HIDE DEF g
    <3>3. \A i \in 1 .. m : i # 1 => i - 1 \in 1 .. m
      OBVIOUS
    <3>4. \A i \in 1 .. m : g[i] = IF i = 1 THEN seqs[i] ELSE g[i - 1] \o seqs[i]
      BY <3>1, <3>2, <3>3
    <3>5. g[m + 1] = IF m + 1 = 1 THEN seqs[m + 1] ELSE g[(m + 1) - 1] \o seqs[m + 1]
      <4>1. CASE m = 0
        BY <3>2, <4>1
      <4>2. CASE m # 0
        <5>1. m \in 1 .. m /\ (m + 1) - 1 = m /\ m + 1 # 1
          BY <4>2
        <5> QED
          BY <3>2, <4>2, <5>1
      <4> QED
        BY <4>1, <4>2
    <3> QED
      BY SMTT(40), <3>4, <3>5
  <2>2. g = [i \in 1 .. m + 1 |-> g[i]]
    OBVIOUS
  <2>3. Are(g, m + 1)
    <3> HIDE DEF g
    <3> QED
      BY <2>1, <2>2
  <2> HIDE DEF g, Are
  <2> QED
    BY <2>3
<1>3. n \in S
  <2> HIDE DEF S
  <2> QED
    BY <1>1, <1>2, EveryNumber
<1> DEFINE r == CHOOSE f : Are(f, n)
<1>4. Are(r, n)
  BY <1>3
<1>5. FlattenSeq(seqs) = r[n]
  BY DEF FlattenSeq
<1> HIDE DEF r
<1>6. r = [i \in 1 .. n |-> IF i = 1 THEN seqs[i] ELSE r[i - 1] \o seqs[i]]
  BY <1>4
<1> HIDE DEF Are
<1>7. \A i \in 1 .. n : r[i] = IF i = 1 THEN seqs[i] ELSE r[i - 1] \o seqs[i]
  BY ONLY <1>6, Zenon
<1>8. 1 \in 1 .. n /\ \A i \in 1 .. n : i > 1 => i # 1
  OBVIOUS
<1>9. r[1] = seqs[1] /\ \A i \in 1 .. n : i > 1 => r[i] = r[i - 1] \o seqs[i]
  BY <1>7, <1>8
<1> QED
  BY <1>5, <1>9

(* The elements of two sequences, one after the other.                       *)
LEMMA Concatenated ==
  ASSUME NEW T, NEW s \in Seq(T), NEW t \in Seq(T)
  PROVE  /\ s \o t \in Seq(T)
         /\ \A j \in DOMAIN (s \o t) :
               \/ j \in DOMAIN s /\ (s \o t)[j] = s[j]
               \/ j - Len(s) \in DOMAIN t /\ (s \o t)[j] = t[j - Len(s)]
         /\ \A j \in DOMAIN s : j \in DOMAIN (s \o t) /\ (s \o t)[j] = s[j]
         /\ \A j \in DOMAIN t :
               j + Len(s) \in DOMAIN (s \o t) /\ (s \o t)[j + Len(s)] = t[j]
<1>1. s \o t \in Seq(T) /\ Len(s \o t) = Len(s) + Len(t)
  OBVIOUS
<1>2. DOMAIN s = 1 .. Len(s) /\ DOMAIN t = 1 .. Len(t) /\ DOMAIN (s \o t) = 1 .. Len(s) + Len(t)
  BY <1>1
<1>3. Len(s) \in Nat /\ Len(t) \in Nat
  OBVIOUS
<1>4. \A j \in 1 .. Len(s) + Len(t) : (s \o t)[j] = IF j <= Len(s) THEN s[j] ELSE t[j - Len(s)]
  OBVIOUS
<1> DEFINE c == s \o t
<1> HIDE DEF c
<1>5. \A j \in DOMAIN c :
         \/ j \in DOMAIN s /\ c[j] = s[j]
         \/ j - Len(s) \in DOMAIN t /\ c[j] = t[j - Len(s)]
  BY <1>2, <1>3, <1>4 DEF c
<1>6. \A j \in DOMAIN s : j \in DOMAIN c /\ c[j] = s[j]
  BY <1>2, <1>3, <1>4 DEF c
<1>7. \A j \in DOMAIN t : j + Len(s) \in DOMAIN c /\ c[j + Len(s)] = t[j]
  BY <1>2, <1>3, <1>4 DEF c
<1> QED
  BY <1>1, <1>5, <1>6, <1>7 DEF c

(* The elements of r are those of n sequences.                               *)
Gathers(r, n, seqs) ==
    /\ \A j \in DOMAIN r : \E k \in 1 .. n : \E m \in DOMAIN seqs[k] : r[j] = seqs[k][m]
    /\ \A k \in 1 .. n : \A m \in DOMAIN seqs[k] : \E j \in DOMAIN r : r[j] = seqs[k][m]

(* What FlattenSeq returns has the elements of its sequences, and no others. *)
LEMMA Flattened ==
  ASSUME NEW T, NEW n \in Nat, NEW seqs \in [1 .. n -> Seq(T)], NEW r, r = FlattenSeq(seqs)
  PROVE  r \in Seq(T) /\ Gathers(r, n, seqs)
<1> USE DEF Gathers
<1>0. seqs \in Seq(Seq(T)) /\ Len(seqs) = n /\ DOMAIN seqs = 1 .. n
  OBVIOUS
<1>1. CASE n = 0
  <2>1. FlattenSeq(seqs) = seqs /\ seqs = <<>>
    BY <1>0, <1>1 DEF FlattenSeq
  <2> QED
    BY <1>1, <2>1
<1>2. CASE n # 0
  <2>1. PICK f : /\ f[1] = seqs[1]
                 /\ \A i \in 1 .. n : i > 1 => f[i] = f[i - 1] \o seqs[i]
                 /\ FlattenSeq(seqs) = f[n]
    <3>1. n \in Nat \ {0}
      BY <1>2
    <3> QED
      BY <1>0, <3>1, FlattenIs
  <2> DEFINE From(s, m) == \A j \in DOMAIN s : \E k \in 1 .. m : \E x \in DOMAIN seqs[k] : s[j] = seqs[k][x]
             Has(s, m) == \A k \in 1 .. m : \A x \in DOMAIN seqs[k] : \E j \in DOMAIN s : s[j] = seqs[k][x]
             Good(m) == f[m] \in Seq(T) /\ From(f[m], m) /\ Has(f[m], m)
             S == {m \in Nat : m \in 1 .. n => Good(m)}
  <2>2. 0 \in S
    OBVIOUS
  <2>3. ASSUME NEW m \in Nat, m \in S
        PROVE  m + 1 \in S
    <3> SUFFICES ASSUME m + 1 \in 1 .. n PROVE Good(m + 1)
      BY SMTT(40)
    <3> DEFINE new == seqs[m + 1]
    <3>1. new \in Seq(T)
      OBVIOUS
    <3>2. CASE m = 0
      <4>1. f[m + 1] = new
        BY <2>1, <3>2
      <4> HIDE DEF new
      <4>2. From(new, m + 1) /\ Has(new, m + 1)
        <5>1. 1 .. m + 1 = {1} /\ new = seqs[1]
          BY <3>2 DEF new
        <5> QED
          BY <5>1
      <4> QED
        BY <3>1, <4>1, <4>2
    <3>3. CASE m # 0
      <4>1. m \in 1 .. n /\ m + 1 > 1 /\ (m + 1) - 1 = m
        BY <3>3
      <4> DEFINE old == f[m]
      <4>2. old \in Seq(T) /\ From(old, m) /\ Has(old, m)
        BY <2>3, <4>1
      <4>3. f[m + 1] = old \o new
        BY <2>1, <4>1
      <4>4. /\ old \o new \in Seq(T)
            /\ \A j \in DOMAIN (old \o new) :
                  \/ j \in DOMAIN old /\ (old \o new)[j] = old[j]
                  \/ j - Len(old) \in DOMAIN new /\ (old \o new)[j] = new[j - Len(old)]
            /\ \A j \in DOMAIN old :
                  j \in DOMAIN (old \o new) /\ (old \o new)[j] = old[j]
            /\ \A j \in DOMAIN new :
                  j + Len(old) \in DOMAIN (old \o new) /\ (old \o new)[j + Len(old)] = new[j]
        <5>1. PICK o : o = old
          OBVIOUS
        <5>2. PICK w : w = new
          OBVIOUS
        <5>3. o \in Seq(T) /\ w \in Seq(T)
          BY <3>1, <4>2, <5>1, <5>2
        <5> HIDE DEF old, new
        <5> QED
          BY ONLY <5>1, <5>2, <5>3, Concatenated
      <4>5. \A k \in 1 .. m + 1 : k \in 1 .. m \/ k = m + 1
        OBVIOUS
      <4>6. m + 1 \in 1 .. m + 1 /\ \A k \in 1 .. m : k \in 1 .. m + 1
        OBVIOUS
      <4> DEFINE both == old \o new
      <4>7. From(both, m + 1)
        <5> SUFFICES ASSUME NEW j \in DOMAIN both
                     PROVE  \E k \in 1 .. m + 1 : \E x \in DOMAIN seqs[k] : both[j] = seqs[k][x]
          OBVIOUS
        <5>1. CASE j \in DOMAIN old /\ both[j] = old[j]
          <6> HIDE DEF both, old, new
          <6> QED
            BY <4>2, <4>6, <5>1
        <5>2. CASE j - Len(old) \in DOMAIN new /\ both[j] = new[j - Len(old)]
          BY <4>6, <5>2
        <5> QED
          BY <4>4, <5>1, <5>2
      <4>8. Has(both, m + 1)
        <5> SUFFICES ASSUME NEW k \in 1 .. m + 1, NEW x \in DOMAIN seqs[k]
                     PROVE  \E j \in DOMAIN both : both[j] = seqs[k][x]
          OBVIOUS
        <5>1. CASE k \in 1 .. m
          <6>1. PICK j \in DOMAIN old : old[j] = seqs[k][x]
            BY <4>2, <5>1
          <6> QED
            BY <4>4, <6>1
        <5>2. CASE k = m + 1
          <6>1. x \in DOMAIN new /\ seqs[k][x] = new[x]
            BY <5>2
          <6> HIDE DEF new
          <6> QED
            BY <4>4, <6>1
        <5> QED
          BY <4>5, <5>1, <5>2
      <4> HIDE DEF From, Has, old, new
      <4> QED
        BY <4>3, <4>4, <4>7, <4>8
    <3> QED
      BY <3>2, <3>3
  <2>4. n \in S
    <3> HIDE DEF S
    <3> QED
      BY <2>2, <2>3, EveryNumber
  <2> QED
    BY <1>2, <2>1, <2>4
<1> QED
  BY <1>1, <1>2
-----------------------------------------------------------------------------
(* One synchronization of alert windows (WindowSync).                        *)

SyncWindows == [start : Nat, end : Nat]

SyncFragments == [alert : Alerts, first : BOOLEAN, last : BOOLEAN, reconcile : BOOLEAN,
                  decisions : SUBSET DecisionIds]

LapiContents == [versions : [Alerts -> Nat], decisions : [DecisionIds -> {"none", "active", "ended"}]]

(* LAPI has no decision without its alert.                                   *)
Consistent(c) == \A d \in DecisionIds : c.decisions[d] # "none" => c.versions[AlertOf[d]] > 0

Syncs == [phase : {"idle", "fetch", "compare", "persist", "prune", "done"},
          todo : Seq(SyncWindows), fetched : LapiContents, fragments : Seq(SyncFragments),
          removed : SUBSET DecisionIds, bulk : BOOLEAN]

(* The answers of LAPI are about the window, once it is read.                *)
SyncOK(s) ==
    /\ s \in Syncs
    /\ s.phase # "idle" => s.todo # <<>>
    /\ Consistent(s.fetched)
    /\ s.phase \notin {"idle", "fetch"} =>
          \A a \in Alerts : s.fetched.versions[a] > 0 => InWindow(a, s.todo[1])

AlertRecords == [instance : Instances, alert : Alerts, version : Nat]
DecisionRecords == [key : DecisionIds \cup (Instances \X DecisionIds), instance : Instances,
                    decision : DecisionIds, ended : BOOLEAN, version : Nat]

TablesOK ==
    /\ alertRows \subseteq AlertRecords
    /\ decisionRows \subseteq DecisionRecords
    /\ \A r, s \in alertRows : r.instance = s.instance /\ r.alert = s.alert => r = s
    /\ \A r, s \in decisionRows : r.instance = s.instance /\ r.decision = s.decision => r = s
    /\ \A r \in decisionRows : /\ r.key = DecisionKey(r.instance, r.decision)
                               /\ AlertRowsOf(r.instance, AlertOf[r.decision]) # {}
    /\ \A t \in tombs : AlertRowsOf(t[1], t[2]) = {}

(* The fragments of an alert follow the one that writes its row.             *)
Follows(fs) ==
    \A k \in DOMAIN fs : k > 1 /\ ~fs[k].first => fs[k - 1].alert = fs[k].alert

FragmentOK(i, f) ==
    /\ f.alert \in FetchedAlerts(i)
    /\ f.decisions \subseteq Incoming(i, f.alert)

FragmentsOK(i) ==
    sync[i].phase = "persist" =>
        /\ \A k \in DOMAIN sync[i].fragments : FragmentOK(i, sync[i].fragments[k])
        /\ Follows(sync[i].fragments)
        /\ sync[i].fragments # <<>> /\ ~sync[i].fragments[1].first =>
              LET a == sync[i].fragments[1].alert
              IN  <<i, a>> \in tombs \/ AlertRowsOf(i, a) # {}

WindowInv ==
    /\ lapi \in [Instances -> LapiContents]
    /\ \A i \in Instances : Consistent(lapi[i])
    /\ DOMAIN sync = Instances
    /\ \A i \in Instances : SyncOK(sync[i])
    /\ tombs \subseteq Instances \X Alerts
    /\ TablesOK
    /\ \A i \in Instances : FragmentsOK(i)

(* What the writes still to come do for alert a.                             *)
Coming(i, a) == {k \in DOMAIN sync[i].fragments : sync[i].fragments[k].alert = a}

AlertComing(i, a) ==
    \/ \E k \in Coming(i, a) : sync[i].fragments[k].first
    \/ \E r \in AlertRowsOf(i, a) : r.version = Version(i, a)

DecisionComing(i, a, d) ==
    \/ \E k \in Coming(i, a) : d \in sync[i].fragments[k].decisions
    \/ d \in CachedDecisions(i, a) /\ (Ended(i, d) => CachedEnded(i, d))

Leaving(i, a, d) ==
    \/ d \in sync[i].removed
    \/ \E k \in Coming(i, a) : sync[i].fragments[k].reconcile

(* What is in the cache, with what is still to come, is what LAPI answered.  *)
Converging(i, a) ==
    /\ AlertComing(i, a)
    /\ \A d \in Incoming(i, a) : DecisionComing(i, a, d)
    /\ ~sync[i].bulk => \A d \in CachedDecisions(i, a) \ Incoming(i, a) : Leaving(i, a, d)

-----------------------------------------------------------------------------
(* A sequence of fragments that writes the row of an alert before the rest.  *)
Chained(fs) == \A k \in DOMAIN fs : ~fs[k].first => k > 1 /\ fs[k - 1].alert = fs[k].alert

LEMMA ChainedTogether ==
  ASSUME NEW s \in Seq(SyncFragments), NEW t \in Seq(SyncFragments), Chained(s), Chained(t)
  PROVE  Chained(s \o t)
<1> PICK c : c = s \o t
  OBVIOUS
<1>1. /\ c \in Seq(SyncFragments)
      /\ \A j \in DOMAIN c :
            \/ j \in DOMAIN s /\ c[j] = s[j]
            \/ j - Len(s) \in DOMAIN t /\ c[j] = t[j - Len(s)]
      /\ \A j \in DOMAIN s : j \in DOMAIN c /\ c[j] = s[j]
      /\ \A j \in DOMAIN t : j + Len(s) \in DOMAIN c /\ c[j + Len(s)] = t[j]
  BY Concatenated
<1>2. /\ DOMAIN s = 1 .. Len(s) /\ DOMAIN t = 1 .. Len(t) /\ DOMAIN c = 1 .. Len(c)
      /\ Len(s) \in Nat /\ Len(t) \in Nat /\ Len(c) \in Nat
  BY <1>1
<1> SUFFICES ASSUME NEW k \in DOMAIN c, ~c[k].first
             PROVE  k > 1 /\ c[k - 1].alert = c[k].alert
  BY DEF Chained
<1>3. CASE k \in DOMAIN s /\ c[k] = s[k]
  <2>1. k > 1 /\ s[k - 1].alert = s[k].alert
    BY <1>3 DEF Chained
  <2>2. k - 1 \in DOMAIN s
    BY <1>2, <1>3, <2>1
  <2> QED
    BY <1>1, <1>3, <2>1, <2>2
<1>4. CASE k - Len(s) \in DOMAIN t /\ c[k] = t[k - Len(s)]
  <2> PICK j : j = k - Len(s)
    OBVIOUS
  <2>1. j \in DOMAIN t /\ c[k] = t[j] /\ k \in Nat
    BY <1>2, <1>4
  <2>2. j > 1 /\ t[j - 1].alert = t[j].alert
    BY <2>1 DEF Chained
  <2>3. j - 1 \in DOMAIN t
    BY <1>2, <2>1, <2>2
  <2>4. c[(j - 1) + Len(s)] = t[j - 1]
    BY <1>1, <2>3
  <2>5. (j - 1) + Len(s) = k - 1 /\ k > 1
    <3> PICK l : l = Len(s)
      OBVIOUS
    <3>1. l \in Nat /\ k \in Nat /\ j = k - l /\ j > 1
      BY <1>2, <2>1, <2>2
    <3>2. (j - 1) + l = k - 1 /\ k > 1
      BY ONLY <3>1
    <3> QED
      BY ONLY <3>2, l = Len(s)
  <2> QED
    BY <2>1, <2>2, <2>4, <2>5
<1> QED
  BY <1>1, <1>3, <1>4

LEMMA ChainedFlat ==
  ASSUME NEW n \in Nat, NEW seqs \in [1 .. n -> Seq(SyncFragments)],
         \A k \in 1 .. n : Chained(seqs[k])
  PROVE  Chained(FlattenSeq(seqs))
<1>0. seqs \in Seq(Seq(SyncFragments)) /\ Len(seqs) = n
  OBVIOUS
<1>1. CASE n = 0
  <2>1. FlattenSeq(seqs) = <<>>
    BY <1>0, <1>1 DEF FlattenSeq
  <2> QED
    BY <2>1 DEF Chained
<1>2. CASE n # 0
  <2>1. PICK f : /\ f[1] = seqs[1]
                 /\ \A i \in 1 .. n : i > 1 => f[i] = f[i - 1] \o seqs[i]
                 /\ FlattenSeq(seqs) = f[n]
    <3>1. n \in Nat \ {0}
      BY <1>2
    <3> QED
      BY <1>0, <3>1, FlattenIs
  <2> DEFINE S == {m \in Nat : m \in 1 .. n => f[m] \in Seq(SyncFragments) /\ Chained(f[m])}
  <2>2. 0 \in S
    OBVIOUS
  <2>3. ASSUME NEW m \in Nat, m \in S
        PROVE  m + 1 \in S
    <3> SUFFICES ASSUME m + 1 \in 1 .. n
                 PROVE  f[m + 1] \in Seq(SyncFragments) /\ Chained(f[m + 1])
      OBVIOUS
    <3>1. seqs[m + 1] \in Seq(SyncFragments) /\ Chained(seqs[m + 1])
      OBVIOUS
    <3>2. CASE m = 0
      BY <2>1, <3>1, <3>2
    <3>3. CASE m # 0
      <4>1. m \in 1 .. n /\ m + 1 > 1 /\ (m + 1) - 1 = m
        BY <3>3
      <4>2. f[m] \in Seq(SyncFragments) /\ Chained(f[m])
        BY <2>3, <4>1
      <4>3. f[m + 1] = f[m] \o seqs[m + 1]
        BY <2>1, <4>1
      <4>4. f[m] \o seqs[m + 1] \in Seq(SyncFragments)
        BY <3>1, <4>2
      <4>5. Chained(f[m] \o seqs[m + 1])
        BY <3>1, <4>2, ChainedTogether
      <4> QED
        BY <4>3, <4>4, <4>5
    <3> QED
      BY <3>2, <3>3
  <2>4. n \in S
    <3> HIDE DEF S
    <3> QED
      BY <2>2, <2>3, EveryNumber
  <2> QED
    BY <1>2, <2>1, <2>4
<1> QED
  BY <1>1, <1>2

(* The number of fragments of FragmentSize that hold an element.             *)
LEMMA InFragment ==
  ASSUME NEW n \in Nat, NEW size \in Nat \ {0}, NEW j \in 1 .. n
  PROVE  /\ (j - 1) \div size \in Nat
         /\ (n + size - 1) \div size \in Nat
         /\ (j - 1) \div size + 1 <= (n + size - 1) \div size
<1> DEFINE q == (j - 1) \div size
           p == (n + size - 1) \div size
           a == j - 1
           b == n + size - 1
<1>1. a \in Nat /\ b \in Nat /\ a + size <= b /\ size > 0
  OBVIOUS
<1>2. q \in Nat /\ p \in Nat /\ size * q <= a /\ b < size * p + size
  BY <1>1
<1> HIDE DEF q, p, a, b
<1>3. size * q + size < size * p + size
  BY <1>1, <1>2
<1>4. q < p
  BY <1>1, <1>2, <1>3
<1> QED
  BY <1>2, <1>4 DEF q, p, a, b

(* The fragments of a write: they hold its decisions, the first one has the  *)
(* row of the alert and the last one is known as such.                       *)
LEMMA ChunksAre ==
  ASSUME NEW a \in Alerts, NEW ds, ds \subseteq DecisionIds, NEW c, c = Chunks(a, ds)
  PROVE  \E n \in Nat \ {0} :
            /\ c \in [1 .. n -> SyncFragments]
            /\ \A k \in 1 .. n : /\ c[k].alert = a /\ c[k].decisions \subseteq ds
                                /\ (c[k].first <=> k = 1)
                                /\ (c[k].last <=> k = n)
            /\ \A d \in ds : \E k \in 1 .. n : d \in c[k].decisions
<1>1. IsFiniteSet(ds)
  BY WindowSyncAssumption, FS_Subset
<1> PICK m : m = Cardinality(ds)
  OBVIOUS
<1> PICK seq : seq = SetToSeq(ds)
  OBVIOUS
<1>2. /\ m \in Nat /\ seq \in [1 .. m -> ds] /\ Len(seq) = m /\ DOMAIN seq = 1 .. m
      /\ \A d \in ds : \E j \in 1 .. m : seq[j] = d
  BY <1>1, SetListed
<1> PICK n : n = IF ds = {} THEN 1 ELSE (m + FragmentSize - 1) \div FragmentSize
  OBVIOUS
<1>3. FragmentSize \in Nat \ {0}
  BY WindowSyncAssumption
<1>4. n \in Nat \ {0} /\ \A j \in 1 .. m : (j - 1) \div FragmentSize + 1 \in 1 .. n
  <2>1. CASE ds = {}
    <3>1. 1 .. m = {}
      BY <1>2, <2>1
    <3> QED
      BY <2>1, <3>1
  <2>2. CASE ds # {}
    <3>1. \A j \in 1 .. m : /\ (j - 1) \div FragmentSize \in Nat
                           /\ (m + FragmentSize - 1) \div FragmentSize \in Nat
                           /\ (j - 1) \div FragmentSize + 1 <= (m + FragmentSize - 1) \div FragmentSize
      BY <1>2, <1>3, InFragment
    <3>2. 1 \in 1 .. m
      BY <1>2, <2>2
    <3>3. n = (m + FragmentSize - 1) \div FragmentSize
      BY <2>2
    <3>4. n \in Nat /\ \A j \in 1 .. m : /\ (j - 1) \div FragmentSize \in Nat
                                        /\ (j - 1) \div FragmentSize + 1 <= n
      BY <3>1, <3>2, <3>3
    <3>5. ASSUME NEW q \in Nat, q + 1 <= n
          PROVE  q + 1 \in 1 .. n /\ n # 0
      BY <3>4, <3>5
    <3> QED
      BY <3>2, <3>4, <3>5
  <2> QED
    BY <2>1, <2>2
<1> DEFINE held(k) == {seq[j] : j \in {x \in 1 .. m : (x - 1) \div FragmentSize = k - 1}}
<1>5. c = [k \in 1 .. n |-> [alert |-> a, first |-> k = 1, last |-> k = n, reconcile |-> FALSE,
                             decisions |-> held(k)]]
  BY <1>2 DEF Chunks
<1>6. \A k \in 1 .. n : held(k) \subseteq ds
  BY <1>2
<1>7. \A d \in ds : \E k \in 1 .. n : d \in held(k)
  <2> SUFFICES ASSUME NEW d \in ds PROVE \E k \in 1 .. n : d \in held(k)
    OBVIOUS
  <2> PICK j \in 1 .. m : seq[j] = d
    BY <1>2
  <2> PICK q : q = (j - 1) \div FragmentSize
    OBVIOUS
  <2>1. q + 1 \in 1 .. n
    BY <1>4
  <2>2. q \in Int
    BY <1>2, <1>3
  <2>3. q = (q + 1) - 1
    BY <2>2
  <2>4. d \in held(q + 1)
    BY <2>3
  <2> QED
    BY <2>1, <2>4
<1> HIDE DEF held
<1>8. \A k \in 1 .. n : c[k] = [alert |-> a, first |-> k = 1, last |-> k = n, reconcile |-> FALSE,
                               decisions |-> held(k)]
  BY <1>5
<1>9. \A k \in 1 .. n : /\ c[k].alert = a /\ c[k].decisions = held(k)
                       /\ (c[k].first <=> k = 1)
                       /\ (c[k].last <=> k = n)
                       /\ c[k] \in SyncFragments
  <2> SUFFICES ASSUME NEW k \in 1 .. n
               PROVE  /\ c[k].alert = a /\ c[k].decisions = held(k)
                      /\ (c[k].first <=> k = 1)
                      /\ (c[k].last <=> k = n)
                      /\ c[k] \in SyncFragments
    OBVIOUS
  <2> PICK p : p = (k = 1)
    OBVIOUS
  <2> PICK q : q = (k = n)
    OBVIOUS
  <2> PICK h : h = held(k)
    OBVIOUS
  <2>1. c[k] = [alert |-> a, first |-> p, last |-> q, reconcile |-> FALSE, decisions |-> h]
    BY <1>8
  <2>2. p \in BOOLEAN /\ q \in BOOLEAN /\ h \in SUBSET DecisionIds
    BY <1>6
  <2>3. c[k].alert = a /\ c[k].decisions = h /\ c[k].first = p /\ c[k].last = q
    BY ONLY <2>1
  <2>4. c[k] \in SyncFragments
    BY ONLY <2>1, <2>2, a \in Alerts DEF SyncFragments
  <2> QED
    BY <2>3, <2>4
<1>10. c = [k \in 1 .. n |-> c[k]]
  BY <1>5
<1>11. c \in [1 .. n -> SyncFragments]
  BY <1>9, <1>10
<1> QED
  BY <1>4, <1>6, <1>7, <1>9, <1>11

(* What Compare puts in the fragments of an alert.                           *)
LEMMA FragmentsAre ==
  ASSUME NEW i \in Instances, NEW a \in Alerts, Added(i, a) \subseteq DecisionIds,
         NEW c, c = Fragments(i, a)
  PROVE  /\ c \in Seq(SyncFragments) /\ Chained(c)
         /\ \A k \in DOMAIN c : c[k].alert = a /\ c[k].decisions \subseteq Added(i, a)
         /\ \A d \in Added(i, a) : \E k \in DOMAIN c : d \in c[k].decisions
         /\ \E k \in DOMAIN c : c[k].first
         /\ Full(i, a) /\ ~sync[i].bulk => \E k \in DOMAIN c : c[k].reconcile
<1> PICK full : full = (Full(i, a) /\ ~sync[i].bulk)
  OBVIOUS
<1>0. full \in BOOLEAN
  BY Zenon DEF Full
<1> PICK b : b = Chunks(a, Added(i, a))
  OBVIOUS
<1> PICK n \in Nat \ {0} :
            /\ b \in [1 .. n -> SyncFragments]
            /\ \A k \in 1 .. n : /\ b[k].alert = a /\ b[k].decisions \subseteq Added(i, a)
                                /\ (b[k].first <=> k = 1)
                                /\ (b[k].last <=> k = n)
            /\ \A d \in Added(i, a) : \E k \in 1 .. n : d \in b[k].decisions
  BY ChunksAre
<1>1. c = [k \in 1 .. n |-> [b[k] EXCEPT !.reconcile = b[k].last /\ full]]
  BY DEF Fragments
<1>2. \A k \in 1 .. n : /\ c[k] \in SyncFragments
                       /\ c[k].alert = a /\ c[k].decisions = b[k].decisions
                       /\ (c[k].first <=> k = 1)
                       /\ (k = n /\ full => c[k].reconcile)
  <2> SUFFICES ASSUME NEW k \in 1 .. n
               PROVE  /\ c[k] \in SyncFragments
                      /\ c[k].alert = a /\ c[k].decisions = b[k].decisions
                      /\ (c[k].first <=> k = 1)
                      /\ (k = n /\ full => c[k].reconcile)
    OBVIOUS
  <2> PICK e : e = b[k]
    OBVIOUS
  <2> PICK r : r = (e.last /\ full)
    OBVIOUS
  <2>1. e \in SyncFragments /\ e.alert = a /\ (e.first <=> k = 1) /\ (e.last <=> k = n)
    OBVIOUS
  <2>2. r \in BOOLEAN
    BY <1>0, <2>1, Zenon DEF SyncFragments
  <2>3. c[k] = [e EXCEPT !.reconcile = r]
    BY <1>1
  <2>4. c[k] \in SyncFragments /\ c[k].alert = e.alert /\ c[k].decisions = e.decisions
        /\ c[k].first = e.first /\ c[k].reconcile = r
    BY ONLY <2>1, <2>2, <2>3 DEF SyncFragments
  <2>5. k = n /\ full => c[k].reconcile
    BY <2>1, <2>4
  <2> QED
    BY <2>1, <2>4, <2>5
<1>3. c = [k \in 1 .. n |-> c[k]]
  BY <1>1
<1>4. c \in [1 .. n -> SyncFragments] /\ DOMAIN c = 1 .. n
  BY <1>2, <1>3
<1>5. c \in Seq(SyncFragments)
  BY <1>4
<1>6. Chained(c)
  <2> SUFFICES ASSUME NEW k \in 1 .. n, ~c[k].first
               PROVE  k > 1 /\ c[k - 1].alert = c[k].alert
    BY <1>4 DEF Chained
  <2>1. k # 1
    BY <1>2
  <2>2. k > 1 /\ k - 1 \in 1 .. n
    BY <2>1
  <2> QED
    BY <1>2, <2>2
<1>7. 1 \in DOMAIN c /\ n \in DOMAIN c
  BY <1>4
<1>8. /\ \A k \in DOMAIN c : c[k].alert = a /\ c[k].decisions \subseteq Added(i, a)
      /\ \A d \in Added(i, a) : \E k \in DOMAIN c : d \in c[k].decisions
  BY <1>2, <1>4
<1>9. /\ \E k \in DOMAIN c : c[k].first
      /\ full => \E k \in DOMAIN c : c[k].reconcile
  BY <1>2, <1>4, <1>7
<1> QED
  BY <1>5, <1>6, <1>8, <1>9

(* The fragments fs write what the alerts deltas need.                       *)
Writes(i, deltas, fs) ==
    /\ fs \in Seq(SyncFragments) /\ Chained(fs)
    /\ \A k \in DOMAIN fs : /\ fs[k].alert \in deltas
                            /\ fs[k].decisions \subseteq Added(i, fs[k].alert)
    /\ \A a \in deltas :
          /\ \E k \in DOMAIN fs : fs[k].alert = a /\ fs[k].first
          /\ \A d \in Added(i, a) :
                \E k \in DOMAIN fs : fs[k].alert = a /\ d \in fs[k].decisions
          /\ Full(i, a) /\ ~sync[i].bulk =>
                \E k \in DOMAIN fs : fs[k].alert = a /\ fs[k].reconcile

(* What Compare puts in all the fragments of a window.                       *)
LEMMA ComparedFragments ==
  ASSUME NEW i \in Instances, NEW deltas, deltas \subseteq Alerts,
         \A a \in deltas : Added(i, a) \subseteq DecisionIds,
         NEW fs, fs = FlattenSeq([k \in 1 .. Cardinality(deltas) |->
                                    Fragments(i, SetToSeq(deltas)[k])])
  PROVE  Writes(i, deltas, fs)
<1> PICK n : n = Cardinality(deltas)
  OBVIOUS
<1> PICK s : s = SetToSeq(deltas)
  OBVIOUS
<1>1. IsFiniteSet(deltas)
  BY WindowSyncAssumption, FS_Subset
<1>2. /\ n \in Nat /\ s \in [1 .. n -> deltas]
      /\ \A a \in deltas : \E k \in 1 .. n : s[k] = a
  BY <1>1, SetListed
<1> PICK seqs : seqs = [k \in 1 .. n |-> Fragments(i, s[k])]
  OBVIOUS
<1>3. fs = FlattenSeq(seqs)
  OBVIOUS
<1>4. \A k \in 1 .. n : s[k] \in deltas /\ s[k] \in Alerts /\ seqs[k] = Fragments(i, s[k])
  BY <1>2
<1>5. ASSUME NEW k \in 1 .. n
      PROVE  /\ seqs[k] \in Seq(SyncFragments) /\ Chained(seqs[k])
             /\ \A m \in DOMAIN seqs[k] : /\ seqs[k][m].alert = s[k]
                                          /\ seqs[k][m].decisions \subseteq Added(i, s[k])
             /\ \A d \in Added(i, s[k]) : \E m \in DOMAIN seqs[k] : d \in seqs[k][m].decisions
             /\ \E m \in DOMAIN seqs[k] : seqs[k][m].first
             /\ Full(i, s[k]) /\ ~sync[i].bulk => \E m \in DOMAIN seqs[k] : seqs[k][m].reconcile
  <2> PICK a : a = s[k]
    OBVIOUS
  <2> PICK c : c = seqs[k]
    OBVIOUS
  <2>1. a \in Alerts /\ Added(i, a) \subseteq DecisionIds /\ c = Fragments(i, a)
    BY <1>4
  <2>2. /\ c \in Seq(SyncFragments) /\ Chained(c)
        /\ \A m \in DOMAIN c : c[m].alert = a /\ c[m].decisions \subseteq Added(i, a)
        /\ \A d \in Added(i, a) : \E m \in DOMAIN c : d \in c[m].decisions
        /\ \E m \in DOMAIN c : c[m].first
        /\ Full(i, a) /\ ~sync[i].bulk => \E m \in DOMAIN c : c[m].reconcile
    BY <2>1, FragmentsAre
  <2> QED
    BY ONLY <2>2, a = s[k], c = seqs[k]
<1>6. seqs \in [1 .. n -> Seq(SyncFragments)] /\ \A k \in 1 .. n : Chained(seqs[k])
  <2>1. \A k \in 1 .. n : seqs[k] \in Seq(SyncFragments) /\ Chained(seqs[k])
    BY <1>5
  <2>2. seqs = [k \in 1 .. n |-> seqs[k]]
    OBVIOUS
  <2> QED
    BY ONLY <2>1, <2>2
<1>7. Chained(fs)
  BY <1>2, <1>3, <1>6, ChainedFlat
<1>8. /\ fs \in Seq(SyncFragments)
      /\ \A j \in DOMAIN fs : \E k \in 1 .. n : \E m \in DOMAIN seqs[k] : fs[j] = seqs[k][m]
      /\ \A k \in 1 .. n : \A m \in DOMAIN seqs[k] : \E j \in DOMAIN fs : fs[j] = seqs[k][m]
  <2>1. Gathers(fs, n, seqs) /\ fs \in Seq(SyncFragments)
    BY <1>2, <1>3, <1>6, Flattened
  <2> QED
    BY <2>1 DEF Gathers
<1>9. ASSUME NEW j \in DOMAIN fs
      PROVE  fs[j].alert \in deltas /\ fs[j].decisions \subseteq Added(i, fs[j].alert)
  <2> PICK k \in 1 .. n : \E m \in DOMAIN seqs[k] : fs[j] = seqs[k][m]
    BY <1>8
  <2> PICK m \in DOMAIN seqs[k] : fs[j] = seqs[k][m]
    OBVIOUS
  <2> PICK a : a = s[k]
    OBVIOUS
  <2> PICK c : c = seqs[k]
    OBVIOUS
  <2>1. \A x \in DOMAIN c : c[x].alert = a /\ c[x].decisions \subseteq Added(i, a)
    BY ONLY <1>5, k \in 1 .. n, a = s[k], c = seqs[k]
  <2>2. fs[j] = c[m] /\ m \in DOMAIN c /\ a \in deltas
    BY <1>4
  <2>3. fs[j].alert = a /\ fs[j].decisions \subseteq Added(i, a)
    BY ONLY <2>1, <2>2
  <2> QED
    BY <2>2, <2>3
<1>10. ASSUME NEW a \in deltas
       PROVE  /\ \E j \in DOMAIN fs : fs[j].alert = a /\ fs[j].first
              /\ \A d \in Added(i, a) :
                    \E j \in DOMAIN fs : fs[j].alert = a /\ d \in fs[j].decisions
              /\ Full(i, a) /\ ~sync[i].bulk =>
                    \E j \in DOMAIN fs : fs[j].alert = a /\ fs[j].reconcile
  <2> PICK k \in 1 .. n : s[k] = a
    BY <1>2
  <2> PICK c : c = seqs[k]
    OBVIOUS
  <2>1. /\ \A m \in DOMAIN c : c[m].alert = a
        /\ \A d \in Added(i, a) : \E m \in DOMAIN c : d \in c[m].decisions
        /\ \E m \in DOMAIN c : c[m].first
        /\ Full(i, a) /\ ~sync[i].bulk => \E m \in DOMAIN c : c[m].reconcile
    BY ONLY <1>5, k \in 1 .. n, s[k] = a, c = seqs[k]
  <2>2. \A m \in DOMAIN c : \E j \in DOMAIN fs : fs[j] = c[m]
    BY ZenonT(40), <1>8
  <2>3. \E j \in DOMAIN fs : fs[j].alert = a /\ fs[j].first
    BY ONLY <2>1, <2>2
  <2>4. ASSUME NEW d \in Added(i, a)
        PROVE  \E j \in DOMAIN fs : fs[j].alert = a /\ d \in fs[j].decisions
    <3> PICK m \in DOMAIN c : d \in c[m].decisions
      BY ONLY <2>1, <2>4
    <3> QED
      BY ONLY <2>1, <2>2, m \in DOMAIN c, d \in c[m].decisions
  <2>5. ASSUME Full(i, a) /\ ~sync[i].bulk
        PROVE  \E j \in DOMAIN fs : fs[j].alert = a /\ fs[j].reconcile
    BY ONLY <2>1, <2>2, <2>5
  <2> QED
    BY ONLY <2>3, <2>4, <2>5
<1> QED
  BY <1>7, <1>8, <1>9, <1>10 DEF Writes

-----------------------------------------------------------------------------
(* The records of a synchronization.                                         *)
LEMMA SyncRecord ==
  ASSUME NEW p \in {"idle", "fetch", "compare", "persist", "prune", "done"},
         NEW t \in Seq(SyncWindows), NEW f \in LapiContents, NEW fs \in Seq(SyncFragments),
         NEW rm \in SUBSET DecisionIds, NEW b \in BOOLEAN
  PROVE  [phase |-> p, todo |-> t, fetched |-> f, fragments |-> fs,
          removed |-> rm, bulk |-> b] \in Syncs
BY Zenon DEF Syncs

LEMMA SyncFields ==
  ASSUME NEW s \in Syncs
  PROVE  /\ s.phase \in {"idle", "fetch", "compare", "persist", "prune", "done"}
         /\ s.todo \in Seq(SyncWindows) /\ s.fetched \in LapiContents
         /\ s.fragments \in Seq(SyncFragments) /\ s.removed \in SUBSET DecisionIds
         /\ s.bulk \in BOOLEAN
         /\ s = [phase |-> s.phase, todo |-> s.todo, fetched |-> s.fetched,
                 fragments |-> s.fragments, removed |-> s.removed, bulk |-> s.bulk]
BY DEF Syncs

LEMMA NoSyncOK == SyncOK(NoSync)
<1>1. Absent \in [Alerts -> Nat] /\ NoDecisions \in [DecisionIds -> {"none", "active", "ended"}]
  BY DEF Absent, NoDecisions
<1> PICK e : e = [versions |-> Absent, decisions |-> NoDecisions]
  OBVIOUS
<1>2. e \in LapiContents
  BY <1>1 DEF LapiContents
<1>3. Consistent(e)
  BY DEF Consistent, NoDecisions
<1>4. NoSync = [phase |-> "idle", todo |-> <<>>, fetched |-> e, fragments |-> <<>>,
                removed |-> {}, bulk |-> FALSE]
  BY DEF NoSync
<1>5. <<>> \in Seq(SyncWindows) /\ <<>> \in Seq(SyncFragments) /\ {} \in SUBSET DecisionIds
  OBVIOUS
<1>6. NoSync \in Syncs
  BY <1>2, <1>4, <1>5, SyncRecord
<1>7. NoSync.phase = "idle" /\ NoSync.fetched = e
  BY <1>4
<1> QED
  BY <1>3, <1>6, <1>7 DEF SyncOK

(* The next window starts with nothing written and nothing to write.         *)
NextWindow(s, t) == [s EXCEPT !.phase = "fetch", !.todo = t, !.fragments = <<>>,
                              !.removed = {}]

LEMMA NextWindowOK ==
  ASSUME NEW s, SyncOK(s), NEW t \in Seq(SyncWindows), t # <<>>, NEW z, z = NextWindow(s, t)
  PROVE  SyncOK(z) /\ z.phase = "fetch"
<1>1. s \in Syncs /\ Consistent(s.fetched)
  BY DEF SyncOK
<1>2. z = [phase |-> "fetch", todo |-> t, fetched |-> s.fetched, fragments |-> <<>>,
           removed |-> {}, bulk |-> s.bulk]
  <2>1. s = [phase |-> s.phase, todo |-> s.todo, fetched |-> s.fetched,
             fragments |-> s.fragments, removed |-> s.removed, bulk |-> s.bulk]
    BY <1>1, SyncFields
  <2> QED
    BY <2>1 DEF NextWindow
<1>3. <<>> \in Seq(SyncFragments) /\ {} \in SUBSET DecisionIds
  OBVIOUS
<1>4. s.fetched \in LapiContents /\ s.bulk \in BOOLEAN
  BY <1>1, SyncFields
<1>5. z \in Syncs
  BY ONLY <1>2, <1>3, <1>4, t \in Seq(SyncWindows), SyncRecord, Zenon
<1>6. z.phase = "fetch" /\ z.todo = t /\ z.fetched = s.fetched
  BY <1>2
<1> QED
  BY <1>1, <1>5, <1>6 DEF SyncOK

LEMMA OnwardOK ==
  ASSUME NEW s, SyncOK(s), s.phase # "idle"
  PROVE  SyncOK(Onward(s)) /\ Onward(s).phase \in {"idle", "fetch"}
<1>1. s \in Syncs /\ s.todo \in Seq(SyncWindows) /\ s.todo # <<>>
  BY SyncFields DEF SyncOK
<1>2. CASE Len(s.todo) = 1
  <2>1. Onward(s) = NoSync
    BY <1>2 DEF Onward
  <2>2. NoSync.phase = "idle"
    BY DEF NoSync
  <2> QED
    BY <2>1, <2>2, NoSyncOK
<1>3. CASE Len(s.todo) # 1
  <2> PICK t : t = Tail(s.todo)
    OBVIOUS
  <2>1. t \in Seq(SyncWindows) /\ t # <<>>
    <3> PICK q : q = s.todo
      OBVIOUS
    <3>1. q \in Seq(SyncWindows) /\ q # <<>> /\ Len(q) # 1 /\ t = Tail(q)
      BY <1>1, <1>3
    <3>2. Len(q) \in Nat /\ Len(q) # 0
      BY ONLY <3>1
    <3>3. t \in Seq(SyncWindows) /\ Len(t) = Len(q) - 1
      BY ONLY <3>1, <3>2
    <3>4. Len(t) # 0
      BY ONLY <3>1, <3>2, <3>3
    <3> QED
      BY ONLY <3>3, <3>4
  <2>2. Onward(s) = NextWindow(s, t)
    BY <1>3 DEF Onward, NextWindow
  <2> PICK z : z = Onward(s)
    OBVIOUS
  <2>3. SyncOK(z) /\ z.phase = "fetch"
    BY <2>1, <2>2, NextWindowOK
  <2> QED
    BY <2>3
<1> QED
  BY <1>2, <1>3

LEMMA SplitUpOK ==
  ASSUME NEW s, SyncOK(s), s.phase # "idle"
  PROVE  SyncOK(SplitUp(s)) /\ SplitUp(s).phase = "fetch"
<1>1. s \in Syncs /\ s.todo \in Seq(SyncWindows) /\ s.todo # <<>>
  BY SyncFields DEF SyncOK
<1>2. s.todo[1] \in SyncWindows /\ Tail(s.todo) \in Seq(SyncWindows)
  BY <1>1
<1> PICK w : w = s.todo[1]
  OBVIOUS
<1> PICK middle : middle = (w.start + w.end) \div 2
  OBVIOUS
<1>3. w.start \in Nat /\ w.end \in Nat
  BY <1>2 DEF SyncWindows
<1>4. middle \in Nat
  BY <1>3
<1> PICK h : h = Halves(w)
  OBVIOUS
<1>5. h = <<[start |-> w.start, end |-> middle], [start |-> middle, end |-> w.end]>>
  BY DEF Halves
<1>6. /\ [start |-> w.start, end |-> middle] \in SyncWindows
      /\ [start |-> middle, end |-> w.end] \in SyncWindows
  BY <1>3, <1>4 DEF SyncWindows
<1>7. h \in Seq(SyncWindows) /\ h # <<>>
  BY <1>5, <1>6
<1> PICK t : t = h \o Tail(s.todo)
  OBVIOUS
<1>8. t \in Seq(SyncWindows) /\ t # <<>>
  BY <1>2, <1>7
<1>9. SplitUp(s) = NextWindow(s, t)
  BY DEF SplitUp, NextWindow
<1> PICK z : z = SplitUp(s)
  OBVIOUS
<1>10. SyncOK(z) /\ z.phase = "fetch"
  BY <1>8, <1>9, NextWindowOK
<1> QED
  BY <1>10

(* A synchronization that is neither comparing nor writing leaves the rest   *)
(* as it is.                                                                 *)
LEMMA SyncAlone ==
  ASSUME WindowInv, NEW i \in Instances, NEW z, SyncOK(z), z.phase # "persist",
         sync' = [sync EXCEPT ![i] = z],
         UNCHANGED <<lapi, alertRows, decisionRows, tombs>>
  PROVE  WindowInv'
<1>1. DOMAIN sync = Instances /\ \A j \in Instances : SyncOK(sync[j])
  BY DEF WindowInv
<1>2. DOMAIN sync' = Instances /\ \A j \in Instances : sync'[j] = IF j = i THEN z ELSE sync[j]
  BY <1>1
<1>3. \A j \in Instances : SyncOK(sync'[j])
  BY <1>1, <1>2
<1>4. (\A j \in Instances : SyncOK(sync[j]))'
  BY <1>3
<1>5. TablesOK'
  BY DEF WindowInv, TablesOK, AlertRowsOf
<1>6. ASSUME NEW j \in Instances
      PROVE  FragmentsOK(j)'
  <2>1. CASE j = i
    BY <1>2, <2>1 DEF FragmentsOK
  <2>2. CASE j # i
    <3>1. sync'[j] = sync[j]
      BY <1>2, <2>2
    <3>2. FragmentsOK(j)
      BY DEF WindowInv
    <3> QED
      BY <3>1, <3>2 DEF FragmentsOK, FragmentOK, FetchedAlerts, Incoming, AlertRowsOf
  <2> QED
    BY <2>1, <2>2
<1> QED
  BY <1>2, <1>4, <1>5, <1>6 DEF WindowInv

LEMMA WindowInvInit ==
  ASSUME WindowSyncInit
  PROVE  WindowInv
<1>1. \A c \in Contents : c \in LapiContents /\ Consistent(c)
  BY DEF Contents, LapiContents, Consistent
<1>2. lapi \in [Instances -> LapiContents] /\ \A i \in Instances : Consistent(lapi[i])
  BY <1>1 DEF WindowSyncInit
<1>3. DOMAIN sync = Instances /\ \A i \in Instances : sync[i] = NoSync
  BY DEF WindowSyncInit
<1>4. \A i \in Instances : SyncOK(sync[i])
  BY <1>3, NoSyncOK
<1>5. TablesOK
  BY DEF WindowSyncInit, TablesOK, AlertRowsOf
<1>6. \A i \in Instances : FragmentsOK(i)
  BY <1>3 DEF FragmentsOK, NoSync
<1> QED
  BY <1>2, <1>3, <1>4, <1>5, <1>6 DEF WindowInv, WindowSyncInit

LEMMA InvStart ==
  ASSUME WindowInv, NEW i \in Instances, Start(i)
  PROVE  WindowInv'
<1> PICK b : b = (alertRows = {} /\ decisionRows = {})
  OBVIOUS
<1> PICK t : t = <<[start |-> 0, end |-> Lookback]>>
  OBVIOUS
<1> PICK z : z = [NoSync EXCEPT !.phase = "fetch", !.todo = t, !.bulk = b]
  OBVIOUS
<1>1. sync' = [sync EXCEPT ![i] = z] /\ UNCHANGED <<lapi, alertRows, decisionRows, tombs>>
  BY DEF Start
<1>2. NoSync \in Syncs /\ Consistent(NoSync.fetched)
  BY NoSyncOK DEF SyncOK, NoSync
<1>3. b \in BOOLEAN /\ t \in Seq(SyncWindows) /\ t # <<>>
  BY WindowSyncAssumption DEF SyncWindows
<1> PICK f : f = NoSync.fetched
  OBVIOUS
<1>4. z = [phase |-> "fetch", todo |-> t, fetched |-> f, fragments |-> <<>>,
           removed |-> {}, bulk |-> b]
  BY DEF NoSync
<1>5. /\ <<>> \in Seq(SyncFragments) /\ {} \in SUBSET DecisionIds
      /\ f \in LapiContents
  BY <1>2, SyncFields
<1>6. z \in Syncs
  BY ONLY <1>3, <1>4, <1>5, SyncRecord, Zenon
<1>7. z.phase = "fetch" /\ z.todo = t /\ z.fetched = f
  BY ONLY <1>4
<1>8. SyncOK(z) /\ z.phase # "persist"
  BY <1>2, <1>3, <1>6, <1>7 DEF SyncOK
<1> QED
  BY <1>1, <1>8, SyncAlone

(* What is fetched is about the window, and has no decision without its      *)
(* alert.                                                                    *)
LEMMA InvFetch ==
  ASSUME WindowInv, NEW i \in Instances, Fetch(i)
  PROVE  WindowInv'
<1> PICK s : s = sync[i]
  OBVIOUS
<1> PICK l : l = lapi[i]
  OBVIOUS
<1> PICK v : v = [a \in Alerts |-> IF InWindow(a, s.todo[1]) THEN l.versions[a] ELSE 0]
  OBVIOUS
<1> PICK d : d = [e \in DecisionIds |->
                    IF InWindow(AlertOf[e], s.todo[1]) THEN l.decisions[e] ELSE "none"]
  OBVIOUS
<1> PICK f : f = [versions |-> v, decisions |-> d]
  OBVIOUS
<1> PICK z : z = [s EXCEPT !.phase = "compare", !.fetched = f]
  OBVIOUS
<1>1. s.phase = "fetch" /\ UNCHANGED <<lapi, alertRows, decisionRows, tombs>>
  BY DEF Fetch
<1>2. SyncOK(s) /\ DOMAIN sync = Instances /\ l \in LapiContents /\ Consistent(l)
  BY DEF WindowInv
<1>3. sync' = [sync EXCEPT ![i] = z]
  BY DEF Fetch, Window
<1>4. AlertOf \in [DecisionIds -> Alerts]
  BY WindowSyncAssumption
<1>5. f \in LapiContents /\ Consistent(f)
  <2>1. /\ l.versions \in [Alerts -> Nat]
        /\ l.decisions \in [DecisionIds -> {"none", "active", "ended"}]
    BY <1>2 DEF LapiContents
  <2>2. /\ v \in [Alerts -> Nat] /\ d \in [DecisionIds -> {"none", "active", "ended"}]
        /\ \A e \in DecisionIds : d[e] # "none" => v[AlertOf[e]] > 0
    BY <1>2, <1>4, <2>1 DEF Consistent
  <2>3. f.versions = v /\ f.decisions = d
    OBVIOUS
  <2> QED
    BY <2>2, <2>3 DEF LapiContents, Consistent
<1>6. \A a \in Alerts : f.versions[a] > 0 => InWindow(a, s.todo[1])
  OBVIOUS
<1>7. s \in Syncs /\ s.todo # <<>>
  BY <1>1, <1>2 DEF SyncOK
<1>8. z = [phase |-> "compare", todo |-> s.todo, fetched |-> f, fragments |-> s.fragments,
           removed |-> s.removed, bulk |-> s.bulk]
  <2>1. s = [phase |-> s.phase, todo |-> s.todo, fetched |-> s.fetched,
             fragments |-> s.fragments, removed |-> s.removed, bulk |-> s.bulk]
    BY <1>7, SyncFields
  <2> QED
    BY <2>1
<1>9. z \in Syncs
  <2>1. /\ s.todo \in Seq(SyncWindows) /\ s.fragments \in Seq(SyncFragments)
        /\ s.removed \in SUBSET DecisionIds
        /\ s.bulk \in BOOLEAN
    BY <1>7, SyncFields
  <2> QED
    BY ONLY <1>5, <1>8, <2>1, SyncRecord, ZenonT(40)
<1>10. z.phase = "compare" /\ z.todo = s.todo /\ z.fetched = f
  BY <1>8
<1>11. SyncOK(z) /\ z.phase # "persist"
  BY <1>2, <1>5, <1>6, <1>7, <1>9, <1>10 DEF SyncOK
<1> QED
  BY <1>3, <1>1, <1>11, SyncAlone

LEMMA InvWindowFails ==
  ASSUME WindowInv, NEW i \in Instances, WindowFails(i)
  PROVE  WindowInv'
<1> PICK s : s = sync[i]
  OBVIOUS
<1>1. SyncOK(s) /\ s.phase # "idle"
  BY DEF WindowInv, WindowFails
<1>2. PICK z : sync' = [sync EXCEPT ![i] = z] /\ z \in {Onward(s), SplitUp(s)}
  BY DEF WindowFails
<1>3. SyncOK(z) /\ z.phase # "persist"
  BY <1>1, <1>2, OnwardOK, SplitUpOK
<1>4. UNCHANGED <<lapi, alertRows, decisionRows, tombs>>
  BY DEF WindowFails
<1> QED
  BY <1>2, <1>3, <1>4, SyncAlone

LEMMA InvWindowDone ==
  ASSUME WindowInv, NEW i \in Instances, WindowDone(i)
  PROVE  WindowInv'
<1> PICK s : s = sync[i]
  OBVIOUS
<1>1. SyncOK(s) /\ s.phase # "idle"
  BY DEF WindowInv, WindowDone
<1> PICK z : z = Onward(s)
  OBVIOUS
<1>2. sync' = [sync EXCEPT ![i] = z] /\ UNCHANGED <<lapi, alertRows, decisionRows, tombs>>
  BY DEF WindowDone
<1>3. SyncOK(z) /\ z.phase # "persist"
  BY <1>1, OnwardOK
<1> QED
  BY <1>2, <1>3, SyncAlone

(* A later phase of the same window.                                         *)
LEMMA LaterPhase ==
  ASSUME NEW s, SyncOK(s), s.phase \notin {"idle", "fetch"},
         NEW p \in {"compare", "persist", "prune", "done"}, NEW fs \in Seq(SyncFragments),
         NEW rm \in SUBSET DecisionIds, NEW z,
         z = [phase |-> p, todo |-> s.todo, fetched |-> s.fetched, fragments |-> fs,
              removed |-> rm, bulk |-> s.bulk]
  PROVE  SyncOK(z)
<1>1. s \in Syncs
  BY DEF SyncOK
<1>2. s.todo \in Seq(SyncWindows) /\ s.fetched \in LapiContents /\ s.bulk \in BOOLEAN
  BY <1>1, SyncFields
<1> PICK t : t = s.todo
  OBVIOUS
<1> PICK f : f = s.fetched
  OBVIOUS
<1> PICK b : b = s.bulk
  OBVIOUS
<1>3. p \in {"idle", "fetch", "compare", "persist", "prune", "done"}
  OBVIOUS
<1>4. z = [phase |-> p, todo |-> t, fetched |-> f, fragments |-> fs,
           removed |-> rm, bulk |-> b]
  OBVIOUS
<1>5. t \in Seq(SyncWindows) /\ f \in LapiContents /\ b \in BOOLEAN
  BY <1>2
<1>6. z \in Syncs
  BY ONLY <1>3, <1>4, <1>5, fs \in Seq(SyncFragments), rm \in SUBSET DecisionIds,
          Zenon DEF Syncs
<1>7. z.phase = p /\ z.todo = s.todo /\ z.fetched = s.fetched
  BY <1>4
<1> QED
  BY <1>6, <1>7 DEF SyncOK

LEMMA InvBulkDone ==
  ASSUME WindowInv, NEW i \in Instances, BulkDone(i)
  PROVE  WindowInv'
<1> PICK s : s = sync[i]
  OBVIOUS
<1> PICK z : z = [s EXCEPT !.phase = "done"]
  OBVIOUS
<1>1. sync' = [sync EXCEPT ![i] = z] /\ UNCHANGED <<lapi, alertRows, decisionRows, tombs>>
  BY DEF BulkDone, WindowInv
<1>2. SyncOK(s) /\ s.phase = "persist"
  BY DEF WindowInv, BulkDone
<1>3. s \in Syncs
  BY <1>2 DEF SyncOK
<1>4. z = [phase |-> "done", todo |-> s.todo, fetched |-> s.fetched, fragments |-> s.fragments,
           removed |-> s.removed, bulk |-> s.bulk]
  <2>1. s = [phase |-> s.phase, todo |-> s.todo, fetched |-> s.fetched,
             fragments |-> s.fragments, removed |-> s.removed, bulk |-> s.bulk]
    BY <1>3, SyncFields
  <2> QED
    BY <2>1
<1>5. /\ s.fragments \in Seq(SyncFragments) /\ s.removed \in SUBSET DecisionIds
  BY <1>2, <1>3, SyncFields DEF SyncOK
<1>6. SyncOK(z) /\ z.phase # "persist"
  <2>1. s.phase \notin {"idle", "fetch"} /\ "done" \in {"compare", "persist", "prune", "done"}
    BY <1>2
  <2>2. SyncOK(z)
    BY ONLY <1>2, <1>4, <1>5, <2>1, LaterPhase, ZenonT(40)
  <2> QED
    BY <2>2, <1>4
<1> QED
  BY <1>1, <1>6, SyncAlone

(* The records of a synchronization, whatever happens to the rest.           *)
LEMMA SyncOf ==
  ASSUME WindowInv, NEW i \in Instances, NEW s, s = sync[i]
  PROVE  /\ SyncOK(s) /\ s \in Syncs /\ s.fragments \in Seq(SyncFragments)
         /\ s.removed \in SUBSET DecisionIds /\ s.fetched \in LapiContents
         /\ s.bulk \in BOOLEAN
         /\ DOMAIN sync = Instances
         /\ s = [phase |-> s.phase, todo |-> s.todo, fetched |-> s.fetched,
                 fragments |-> s.fragments, removed |-> s.removed, bulk |-> s.bulk]
BY SyncFields DEF WindowInv, SyncOK

(* Where nothing is fetched anew, the answers stay as they are.              *)
LEMMA SameAnswers ==
  ASSUME NEW i \in Instances, sync'[i].fetched = sync[i].fetched
  PROVE  /\ FetchedAlerts(i)' = FetchedAlerts(i)
         /\ \A a : Incoming(i, a)' = Incoming(i, a)
         /\ \A a : Version(i, a)' = Version(i, a)
         /\ \A d : Ended(i, d)' = Ended(i, d)
         /\ \A f : FragmentOK(i, f)' <=> FragmentOK(i, f)
BY DEF FetchedAlerts, Incoming, Version, Ended, FragmentOK

(* The fragments of a synchronization stay in order while others write.      *)
LEMMA FragmentsElsewhere ==
  ASSUME WindowInv, NEW i \in Instances, sync'[i] = sync[i], tombs \subseteq tombs',
         \A a \in Alerts : AlertRowsOf(i, a) # {} => AlertRowsOf(i, a)' # {}
  PROVE  FragmentsOK(i)'
<1> PICK s : s = sync[i]
  OBVIOUS
<1>1. s.fragments \in Seq(SyncFragments) /\ FragmentsOK(i)
  BY SyncOf DEF WindowInv
<1>2. \A f : FragmentOK(i, f)' <=> FragmentOK(i, f)
  BY SameAnswers
<1>3. s.fragments # <<>> => s.fragments[1] \in SyncFragments
  BY <1>1
<1>4. s.fragments # <<>> => s.fragments[1].alert \in Alerts
  BY <1>3 DEF SyncFragments
<1> QED
  BY <1>1, <1>2, <1>4 DEF FragmentsOK

(* What happens outside touches no synchronization but by ending it.         *)
LEMMA InvElsewhere ==
  ASSUME WindowInv, LapiChanges \/ UserDeletes \/ ProcessDies
  PROVE  WindowInv'
<1>1. CASE LapiChanges
  <2> PICK i \in Instances, a \in Alerts :
        /\ \/ \E v \in 1..MaxVersion : lapi' = [lapi EXCEPT ![i].versions[a] = v]
           \/ /\ lapi[i].versions[a] > 0
              /\ \E d \in DecisionsOf(a), s \in {"none", "active", "ended"} :
                    lapi' = [lapi EXCEPT ![i].decisions[d] = s]
           \/ /\ lapi[i].versions[a] > 0
              /\ lapi' = [lapi EXCEPT
                    ![i].versions[a] = 0,
                    ![i].decisions = [d \in DecisionIds |->
                                        IF AlertOf[d] = a THEN "none" ELSE @[d]]]
        /\ UNCHANGED <<alertRows, decisionRows, tombs, sync>>
    BY ZenonT(40), <1>1 DEF LapiChanges
  <2>1. lapi \in [Instances -> LapiContents] /\ \A j \in Instances : Consistent(lapi[j])
    BY DEF WindowInv
  <2> PICK l : l = lapi[i]
    OBVIOUS
  <2>2. /\ l \in LapiContents /\ Consistent(l)
        /\ l.versions \in [Alerts -> Nat]
        /\ l.decisions \in [DecisionIds -> {"none", "active", "ended"}]
        /\ l = [versions |-> l.versions, decisions |-> l.decisions]
    BY <2>1 DEF LapiContents
  <2>3. AlertOf \in [DecisionIds -> Alerts] /\ MaxVersion \in Nat
    BY WindowSyncAssumption
  <2>4. \E c : lapi' = [lapi EXCEPT ![i] = c] /\ c \in LapiContents /\ Consistent(c)
    <3>1. CASE \E v \in 1..MaxVersion : lapi' = [lapi EXCEPT ![i].versions[a] = v]
      <4> PICK v \in 1..MaxVersion : lapi' = [lapi EXCEPT ![i].versions[a] = v]
        BY <3>1
      <4> PICK vs : vs = [l.versions EXCEPT ![a] = v]
        OBVIOUS
      <4> PICK c : c = [versions |-> vs, decisions |-> l.decisions]
        OBVIOUS
      <4>1. c = [l EXCEPT !.versions[a] = v]
        BY ONLY <2>2, vs = [l.versions EXCEPT ![a] = v],
                c = [versions |-> vs, decisions |-> l.decisions]
      <4>2. lapi' = [lapi EXCEPT ![i] = c]
        BY <4>1
      <4>3. vs \in [Alerts -> Nat] /\ \A x \in Alerts : l.versions[x] > 0 => vs[x] > 0
        BY SMTT(40), <2>2, <2>3
      <4>4. c \in LapiContents /\ Consistent(c)
        BY <2>2, <2>3, <4>3 DEF LapiContents, Consistent
      <4> QED
        BY <4>2, <4>4
    <3>2. CASE /\ lapi[i].versions[a] > 0
               /\ \E d \in DecisionsOf(a), s \in {"none", "active", "ended"} :
                     lapi' = [lapi EXCEPT ![i].decisions[d] = s]
      <4> PICK d \in DecisionsOf(a), s \in {"none", "active", "ended"} :
                     lapi' = [lapi EXCEPT ![i].decisions[d] = s]
        BY <3>2
      <4> PICK ds : ds = [l.decisions EXCEPT ![d] = s]
        OBVIOUS
      <4> PICK c : c = [versions |-> l.versions, decisions |-> ds]
        OBVIOUS
      <4>1. c = [l EXCEPT !.decisions[d] = s]
        BY ONLY <2>2, ds = [l.decisions EXCEPT ![d] = s],
                c = [versions |-> l.versions, decisions |-> ds]
      <4>2. lapi' = [lapi EXCEPT ![i] = c]
        BY <4>1
      <4>3. /\ ds \in [DecisionIds -> {"none", "active", "ended"}]
            /\ \A e \in DecisionIds : e # d => ds[e] = l.decisions[e]
            /\ AlertOf[d] = a /\ l.versions[a] > 0
        BY <2>2, <3>2 DEF DecisionsOf
      <4>4. c \in LapiContents /\ Consistent(c)
        BY <2>2, <2>3, <4>3 DEF LapiContents, Consistent
      <4> QED
        BY <4>2, <4>4
    <3>3. CASE lapi' = [lapi EXCEPT
                    ![i].versions[a] = 0,
                    ![i].decisions = [d \in DecisionIds |->
                                        IF AlertOf[d] = a THEN "none" ELSE @[d]]]
      <4> PICK vs : vs = [l.versions EXCEPT ![a] = 0]
        OBVIOUS
      <4> PICK ds : ds = [d \in DecisionIds |-> IF AlertOf[d] = a THEN "none" ELSE l.decisions[d]]
        OBVIOUS
      <4> PICK c : c = [versions |-> vs, decisions |-> ds]
        OBVIOUS
      <4>1. lapi' = [lapi EXCEPT ![i] = c]
        <5>1. PICK c1 : c1 = [l EXCEPT !.versions[a] = 0]
          OBVIOUS
        <5>2. c1 = [versions |-> vs, decisions |-> l.decisions]
          BY ONLY <2>2, <5>1, vs = [l.versions EXCEPT ![a] = 0]
        <5>3. PICK c2 : c2 = [c1 EXCEPT !.decisions = ds]
          OBVIOUS
        <5>4. c2 = c
          BY ONLY <5>2, <5>3, c = [versions |-> vs, decisions |-> ds]
        <5>5. PICK l1 : l1 = [lapi EXCEPT ![i] = c1]
          OBVIOUS
        <5>6. l1[i] = c1 /\ l1 = [lapi EXCEPT ![i].versions[a] = 0]
          BY <2>1, <5>1, <5>5
        <5>7. lapi' = [l1 EXCEPT ![i] = c2]
          BY <3>3, <5>2, <5>3, <5>6
        <5> QED
          BY <2>1, <5>4, <5>5, <5>7
      <4>2. /\ vs \in [Alerts -> Nat] /\ \A x \in Alerts : x # a => vs[x] = l.versions[x]
            /\ ds \in [DecisionIds -> {"none", "active", "ended"}]
            /\ \A e \in DecisionIds : ds[e] = IF AlertOf[e] = a THEN "none" ELSE l.decisions[e]
        BY <2>2
      <4>3. c \in LapiContents /\ Consistent(c)
        BY <2>2, <2>3, <4>2 DEF LapiContents, Consistent
      <4> QED
        BY <4>1, <4>3
    <3> QED
      BY <3>1, <3>2, <3>3
  <2>5. lapi' \in [Instances -> LapiContents] /\ \A j \in Instances : Consistent(lapi'[j])
    BY <2>1, <2>4
  <2>6. (\A j \in Instances : SyncOK(sync[j]))'
    BY DEF WindowInv
  <2>7. TablesOK'
    BY DEF WindowInv, TablesOK, AlertRowsOf
  <2>8. ASSUME NEW j \in Instances
        PROVE  FragmentsOK(j)'
    <3>1. \A b \in Alerts : AlertRowsOf(j, b)' = AlertRowsOf(j, b)
      BY DEF AlertRowsOf
    <3> QED
      BY <3>1, FragmentsElsewhere
  <2> QED
    BY <2>5, <2>6, <2>7, <2>8 DEF WindowInv
<1>2. CASE UserDeletes
  <2> PICK i \in Instances, a \in Alerts :
        /\ tombs' = tombs \cup {<<i, a>>}
        /\ alertRows' = alertRows \ AlertRowsOf(i, a)
        /\ decisionRows' = decisionRows \ DecisionRowsOf(i, a)
        /\ UNCHANGED <<lapi, sync>>
    BY <1>2 DEF UserDeletes
  <2>1. /\ tombs' \subseteq Instances \X Alerts
        /\ \A j \in Instances, b \in Alerts :
              AlertRowsOf(j, b)' = IF j = i /\ b = a THEN {} ELSE AlertRowsOf(j, b)
    BY DEF WindowInv, AlertRowsOf
  <2>2. TablesOK'
    <3>1. TablesOK
      BY DEF WindowInv
    <3>2. \A r \in decisionRows' : r \in decisionRows /\ ~(r.instance = i /\ AlertOf[r.decision] = a)
      BY DEF DecisionRowsOf
    <3>3. \A r \in decisionRows : r.instance \in Instances /\ AlertOf[r.decision] \in Alerts
      BY <3>1, WindowSyncAssumption DEF TablesOK, DecisionRecords
    <3>4. \A r \in decisionRows' : AlertRowsOf(r.instance, AlertOf[r.decision])' # {}
      BY <2>1, <3>1, <3>2, <3>3 DEF TablesOK
    <3>5. \A t \in tombs' : AlertRowsOf(t[1], t[2])' = {}
      <4>1. \A t \in tombs' : t[1] \in Instances /\ t[2] \in Alerts
        BY <2>1
      <4>2. \A t \in tombs' : t \in tombs \/ (t[1] = i /\ t[2] = a)
        OBVIOUS
      <4> QED
        BY <2>1, <3>1, <4>1, <4>2 DEF TablesOK
    <3>6. alertRows' \subseteq alertRows
      OBVIOUS
    <3> QED
      BY <3>1, <3>2, <3>4, <3>5, <3>6 DEF TablesOK
  <2>3. ASSUME NEW j \in Instances
        PROVE  FragmentsOK(j)'
    <3>1. FragmentsOK(j) /\ sync' = sync
      BY DEF WindowInv
    <3>2. \A b \in Alerts : (<<j, b>> \in tombs \/ AlertRowsOf(j, b) # {})
                                => (<<j, b>> \in tombs' \/ AlertRowsOf(j, b)' # {})
      BY <2>1
    <3>3. FetchedAlerts(j)' = FetchedAlerts(j) /\ FetchedAlerts(j) \subseteq Alerts
          /\ \A b : Incoming(j, b)' = Incoming(j, b)
      BY <3>1 DEF FetchedAlerts, Incoming
    <3>4. \A f : FragmentOK(j, f)' <=> FragmentOK(j, f)
      BY <3>3 DEF FragmentOK
    <3>5. SUFFICES ASSUME sync[j].phase = "persist" PROVE FragmentsOK(j)'
      BY <3>1 DEF FragmentsOK
    <3> PICK fs : fs = sync[j].fragments
      OBVIOUS
    <3>6. fs \in Seq(SyncFragments)
      BY SyncFields DEF WindowInv, SyncOK
    <3>7. fs # <<>> => fs[1] \in SyncFragments
      BY <3>6
    <3>8. fs # <<>> => fs[1].alert \in Alerts
      BY <3>7 DEF SyncFragments
    <3> QED
      BY <3>1, <3>2, <3>4, <3>5, <3>8 DEF FragmentsOK
  <2>4. (\A j \in Instances : SyncOK(sync[j]))'
    BY DEF WindowInv
  <2> QED
    BY <2>1, <2>2, <2>3, <2>4 DEF WindowInv
<1>3. CASE ProcessDies
  <2>1. /\ DOMAIN sync' = Instances /\ \A j \in Instances : sync'[j] = NoSync
        /\ UNCHANGED <<lapi, alertRows, decisionRows, tombs>>
    BY <1>3 DEF ProcessDies
  <2>2. \A j \in Instances : SyncOK(sync'[j]) /\ sync'[j].phase = "idle"
    <3> PICK z : z = NoSync
      OBVIOUS
    <3>1. SyncOK(z) /\ z.phase = "idle"
      BY NoSyncOK DEF NoSync
    <3> QED
      BY <2>1, <3>1
  <2>3. (\A j \in Instances : SyncOK(sync[j]))'
    BY <2>2
  <2>4. (\A j \in Instances : FragmentsOK(j))'
    BY <2>2 DEF FragmentsOK
  <2>5. TablesOK'
    BY <2>1 DEF WindowInv, TablesOK, AlertRowsOf
  <2> QED
    BY <2>1, <2>3, <2>4, <2>5 DEF WindowInv
<1> QED
  BY <1>1, <1>2, <1>3

(* What Compare decides to write and to remove.                              *)
ComparedTo(i, deltas, fs, rm, s, z) ==
    /\ deltas = {a \in FetchedAlerts(i) :
                    Full(i, a) \/ Added(i, a) # {} \/ Removed(i, a) # {}}
    /\ rm = UNION {Removed(i, a) : a \in deltas}
    /\ Writes(i, deltas, fs)
    /\ s = sync[i] /\ s.phase = "compare"
    /\ z = [phase |-> "persist", todo |-> s.todo, fetched |-> s.fetched,
            fragments |-> fs, removed |-> rm, bulk |-> s.bulk]
    /\ sync' = [sync EXCEPT ![i] = z]

LEMMA Compared ==
  ASSUME WindowInv, NEW i \in Instances, Compare(i)
  PROVE  /\ UNCHANGED <<lapi, alertRows, decisionRows, tombs>>
         /\ \E deltas, fs, rm, s, z : ComparedTo(i, deltas, fs, rm, s, z)
<1> PICK deltas : deltas = {a \in FetchedAlerts(i) :
                              Full(i, a) \/ Added(i, a) # {} \/ Removed(i, a) # {}}
  OBVIOUS
<1> PICK rm : rm = UNION {Removed(i, a) : a \in deltas}
  OBVIOUS
<1> PICK fs : fs = FlattenSeq([k \in 1 .. Cardinality(deltas) |->
                                 Fragments(i, SetToSeq(deltas)[k])])
  OBVIOUS
<1> PICK s : s = sync[i]
  OBVIOUS
<1> PICK z : z = [s EXCEPT !.phase = "persist", !.fragments = fs, !.removed = rm]
  OBVIOUS
<1>1. DOMAIN sync = Instances
      /\ s = [phase |-> s.phase, todo |-> s.todo, fetched |-> s.fetched,
              fragments |-> s.fragments, removed |-> s.removed, bulk |-> s.bulk]
  BY SyncOf
<1>2. z = [phase |-> "persist", todo |-> s.todo, fetched |-> s.fetched,
           fragments |-> fs, removed |-> rm, bulk |-> s.bulk]
  BY <1>1
<1>3. sync' = [sync EXCEPT ![i].phase = "persist", ![i].fragments = fs, ![i].removed = rm]
      /\ s.phase = "compare" /\ UNCHANGED <<lapi, alertRows, decisionRows, tombs>>
  BY DEF Compare
<1>4. sync' = [sync EXCEPT ![i] = z]
  BY <1>1, <1>3
<1>5. deltas \subseteq Alerts /\ \A a \in deltas : Added(i, a) \subseteq DecisionIds
  BY DEF FetchedAlerts, Added, Incoming, DecisionsOf
<1>6. Writes(i, deltas, fs)
  BY <1>5, ComparedFragments
<1>7. rm = UNION {Removed(i, a) : a \in deltas}
  OBVIOUS
<1>8. deltas = {a \in FetchedAlerts(i) :
                  Full(i, a) \/ Added(i, a) # {} \/ Removed(i, a) # {}}
  OBVIOUS
<1>9. ComparedTo(i, deltas, fs, rm, s, z)
  BY <1>2, <1>3, <1>4, <1>6, <1>7, <1>8 DEF ComparedTo
<1> QED
  BY ONLY <1>3, <1>9

LEMMA InvCompare ==
  ASSUME WindowInv, NEW i \in Instances, Compare(i)
  PROVE  WindowInv'
<1> PICK deltas, fs, rm, s, z : ComparedTo(i, deltas, fs, rm, s, z)
  BY Compared
<1>1. /\ UNCHANGED <<lapi, alertRows, decisionRows, tombs>>
      /\ sync' = [sync EXCEPT ![i] = z] /\ s = sync[i] /\ s.phase = "compare"
  BY Compared DEF ComparedTo
<1>2. SyncOK(s) /\ DOMAIN sync = Instances
  BY <1>1, SyncOf DEF SyncOK
<1>3. DOMAIN sync' = Instances /\ sync'[i] = z /\ \A j \in Instances : j # i => sync'[j] = sync[j]
  BY <1>1, <1>2
<1>4. z = [phase |-> "persist", todo |-> s.todo, fetched |-> s.fetched, fragments |-> fs,
           removed |-> rm, bulk |-> s.bulk]
  BY DEF ComparedTo
<1>5. fs \in Seq(SyncFragments) /\ Chained(fs) /\ rm \in SUBSET DecisionIds
      /\ \A k \in DOMAIN fs : /\ fs[k].alert \in FetchedAlerts(i)
                              /\ fs[k].decisions \subseteq Incoming(i, fs[k].alert)
  <2>1. rm \in SUBSET DecisionIds
    <3>1. TablesOK
      BY DEF WindowInv
    <3>2. \A a : Removed(i, a) \subseteq DecisionIds
      BY <3>1 DEF Removed, CachedDecisions, DecisionRowsOf, TablesOK, DecisionRecords
    <3> QED
      BY <3>2 DEF ComparedTo
  <2>2. \A a : Added(i, a) \subseteq Incoming(i, a)
    BY DEF Added
  <2>3. deltas \subseteq FetchedAlerts(i) /\ Writes(i, deltas, fs)
    BY DEF ComparedTo
  <2>4. \A k \in DOMAIN fs : /\ fs[k].alert \in FetchedAlerts(i)
                             /\ fs[k].decisions \subseteq Incoming(i, fs[k].alert)
    BY <2>2, <2>3 DEF Writes
  <2> QED
    BY <2>1, <2>3, <2>4 DEF Writes
<1>6. SyncOK(z)
  <2>1. s.phase \notin {"idle", "fetch"} /\ "persist" \in {"compare", "persist", "prune", "done"}
    BY <1>1
  <2>2. fs \in Seq(SyncFragments) /\ rm \in SUBSET DecisionIds
    BY <1>5
  <2> QED
    BY ONLY <1>2, <1>4, <2>1, <2>2, LaterPhase, ZenonT(40)
<1>7. \A j \in Instances : SyncOK(sync'[j])
  BY <1>3, <1>6 DEF WindowInv
<1>8. (\A j \in Instances : SyncOK(sync[j]))'
  BY <1>7
<1>9. TablesOK'
  BY <1>1 DEF WindowInv, TablesOK, AlertRowsOf
<1>10. ASSUME NEW j \in Instances
       PROVE  FragmentsOK(j)'
  <2>1. CASE j # i
    <3>1. sync'[j] = sync[j] /\ tombs \subseteq tombs'
          /\ \A a \in Alerts : AlertRowsOf(j, a) # {} => AlertRowsOf(j, a)' # {}
      BY <1>1, <1>3, <2>1 DEF AlertRowsOf
    <3> QED
      BY <3>1, FragmentsElsewhere
  <2>2. CASE j = i
    <3>1. z.fragments = fs /\ z.fetched = s.fetched
      BY <1>4
    <3>2. \A f : FragmentOK(i, f)' <=> FragmentOK(i, f)
      BY <1>1, <1>3, <3>1, SameAnswers
    <3>3. (\A k \in DOMAIN sync[i].fragments : FragmentOK(i, sync[i].fragments[k]))'
      BY <1>3, <1>5, <3>1, <3>2 DEF FragmentOK
    <3>4. Follows(fs)
      BY <1>5 DEF Chained, Follows
    <3>5. fs # <<>> => fs[1].first
      <4>1. fs # <<>> => 1 \in DOMAIN fs
        BY <1>5
      <4> QED
        BY <1>5, <4>1 DEF Chained
    <3>6. FragmentsOK(i)'
      BY <1>3, <3>1, <3>3, <3>4, <3>5 DEF FragmentsOK
    <3> QED
      BY <2>2, <3>6
  <2> QED
    BY <2>1, <2>2
<1>11. (/\ lapi \in [Instances -> LapiContents] /\ \A j \in Instances : Consistent(lapi[j])
        /\ tombs \subseteq Instances \X Alerts)'
  BY <1>1 DEF WindowInv
<1> QED
  BY <1>3, <1>8, <1>9, <1>10, <1>11 DEF WindowInv

(* What PersistFragment does to a synchronization.                           *)
PersistedTo(i, s, f, z) ==
    /\ s = sync[i] /\ s.phase = "persist" /\ s.fragments # <<>> /\ f = s.fragments[1]
    /\ z = [phase |-> "persist", todo |-> s.todo, fetched |-> s.fetched,
            fragments |-> Tail(s.fragments), removed |-> s.removed, bulk |-> s.bulk]
    /\ SyncOK(z)
    /\ sync' = [sync EXCEPT ![i] = z]
    /\ UNCHANGED <<lapi, tombs>>

LEMMA FragmentPersisted ==
  ASSUME WindowInv, NEW i \in Instances, PersistFragment(i)
  PROVE  \E s, f, z : PersistedTo(i, s, f, z)
<1> PICK s : s = sync[i]
  OBVIOUS
<1> PICK f : f = s.fragments[1]
  OBVIOUS
<1> PICK fs : fs = Tail(s.fragments)
  OBVIOUS
<1> PICK z : z = [s EXCEPT !.fragments = fs]
  OBVIOUS
<1>1. /\ SyncOK(s) /\ DOMAIN sync = Instances /\ s.fragments \in Seq(SyncFragments)
      /\ s.removed \in SUBSET DecisionIds
      /\ s = [phase |-> s.phase, todo |-> s.todo, fetched |-> s.fetched,
              fragments |-> s.fragments, removed |-> s.removed, bulk |-> s.bulk]
  BY SyncOf
<1>2. s.phase = "persist" /\ s.fragments # <<>> /\ UNCHANGED <<lapi, tombs>>
  BY DEF PersistFragment
<1>3. sync' = [sync EXCEPT ![i] = z]
  <2>1. sync' = [sync EXCEPT ![i].fragments = Tail(@)]
    BY DEF PersistFragment
  <2> QED
    BY <1>1, <2>1
<1>4. z = [phase |-> "persist", todo |-> s.todo, fetched |-> s.fetched, fragments |-> fs,
           removed |-> s.removed, bulk |-> s.bulk]
  BY <1>1, <1>2
<1>5. fs \in Seq(SyncFragments)
  BY <1>1, <1>2
<1>6. s.phase \notin {"idle", "fetch"} /\ "persist" \in {"compare", "persist", "prune", "done"}
  BY <1>2
<1>7. SyncOK(z)
  BY ONLY <1>1, <1>4, <1>5, <1>6, LaterPhase, ZenonT(40)
<1>8. PersistedTo(i, s, f, z)
  BY <1>2, <1>3, <1>4, <1>7 DEF PersistedTo
<1> QED
  BY <1>8

(* The rows after PersistFragment: those of the fragment's alert, unless it  *)
(* has a tombstone, and no others.                                           *)
Rewritten(i, f) ==
    /\ \A r \in alertRows' : r \in alertRows \/ r = NewAlertRow(i, f.alert)
    /\ \A r \in decisionRows' :
          r \in decisionRows \/ \E d \in f.decisions : r = NewDecisionRow(i, d)
    /\ \A j \in Instances, b \in Alerts :
          j # i \/ b # f.alert => /\ AlertRowsOf(j, b)' = AlertRowsOf(j, b)
                                  /\ DecisionRowsOf(j, b)' = DecisionRowsOf(j, b)
    /\ <<i, f.alert>> \notin tombs =>
          /\ AlertRowsOf(i, f.alert)' =
                IF f.first THEN {NewAlertRow(i, f.alert)} ELSE AlertRowsOf(i, f.alert)
          /\ \A r \in DecisionRowsOf(i, f.alert)' :
                \/ /\ r \in DecisionRowsOf(i, f.alert) /\ r.decision \notin f.decisions
                   /\ f.reconcile => r.decision \in Incoming(i, f.alert)
                \/ \E d \in f.decisions : r = NewDecisionRow(i, d)
          /\ \A r \in DecisionRowsOf(i, f.alert) :
                r.decision \notin f.decisions /\ r.decision \in Incoming(i, f.alert)
                    => r \in DecisionRowsOf(i, f.alert)'
          /\ \A d \in f.decisions : NewDecisionRow(i, d) \in DecisionRowsOf(i, f.alert)'
    /\ <<i, f.alert>> \in tombs =>
          alertRows' = alertRows /\ decisionRows' \subseteq decisionRows

(* The first fragment is about an alert that was fetched.                    *)
LEMMA FirstFragment ==
  ASSUME WindowInv, NEW i \in Instances, NEW s, NEW f, NEW z, PersistedTo(i, s, f, z)
  PROVE  /\ f \in SyncFragments /\ f.alert \in Alerts /\ f.decisions \subseteq DecisionIds
         /\ FragmentOK(i, f)
         /\ \A d \in f.decisions : AlertOf[d] = f.alert
         /\ ~f.first => <<i, f.alert>> \in tombs \/ AlertRowsOf(i, f.alert) # {}
<1>1. /\ s.fragments \in Seq(SyncFragments) /\ s.fragments # <<>> /\ f = s.fragments[1]
      /\ s = sync[i] /\ s.phase = "persist"
  BY SyncOf DEF PersistedTo
<1>2. 1 \in DOMAIN s.fragments /\ f \in SyncFragments
  BY <1>1
<1>3. FragmentOK(i, f) /\ (~f.first => <<i, f.alert>> \in tombs \/ AlertRowsOf(i, f.alert) # {})
  BY <1>1, <1>2 DEF WindowInv, FragmentsOK
<1>4. f.alert \in Alerts /\ f.decisions \subseteq DecisionIds
  BY <1>2 DEF SyncFragments
<1>5. \A d \in f.decisions : AlertOf[d] = f.alert
  BY <1>3 DEF FragmentOK, Incoming, DecisionsOf
<1> QED
  BY <1>2, <1>3, <1>4, <1>5

LEMMA PersistRewrites ==
  ASSUME WindowInv, NEW i \in Instances, PersistFragment(i),
         NEW s, NEW f, NEW z, PersistedTo(i, s, f, z)
  PROVE  Rewritten(i, f)
<1>1. /\ f.alert \in Alerts /\ f.decisions \subseteq DecisionIds /\ FragmentOK(i, f)
      /\ \A d \in f.decisions : AlertOf[d] = f.alert
  BY FirstFragment
<1> PICK a : a = f.alert
  OBVIOUS
<1> PICK ds : ds = f.decisions
  OBVIOUS
<1> PICK new : new = {NewDecisionRow(i, d) : d \in ds}
  OBVIOUS
<1> PICK stale : stale = IF f.reconcile
                         THEN {r \in DecisionRowsOf(i, a) : r.decision \notin Incoming(i, a)}
                         ELSE {}
  OBVIOUS
<1>2. f = sync[i].fragments[1]
  BY DEF PersistedTo
<1>3. /\ alertRows' = IF f.first /\ <<i, a>> \notin tombs
                      THEN (alertRows \ AlertRowsOf(i, a)) \cup {NewAlertRow(i, a)}
                      ELSE alertRows
      /\ decisionRows' = (IF <<i, a>> \in tombs THEN decisionRows
                          ELSE (decisionRows \ {r \in decisionRows : r.instance = i /\ r.decision \in ds})
                                 \cup new) \ stale
  BY <1>2, Zenon DEF PersistFragment
<1>4. ds \subseteq Incoming(i, a) /\ \A d \in ds : AlertOf[d] = a
  BY <1>1 DEF FragmentOK
<1>5. \A r \in new : r.instance = i /\ r.decision \in ds /\ AlertOf[r.decision] = a
  BY <1>4 DEF NewDecisionRow
<1>6. NewAlertRow(i, a).instance = i /\ NewAlertRow(i, a).alert = a
  BY DEF NewAlertRow
<1>7. \A r \in stale : /\ r \in decisionRows /\ r.instance = i /\ AlertOf[r.decision] = a
                       /\ r.decision \notin Incoming(i, a) /\ f.reconcile
  BY DEF DecisionRowsOf
<1>8. \A r \in decisionRows : f.reconcile /\ r.instance = i /\ AlertOf[r.decision] = a
                              /\ r.decision \notin Incoming(i, a) => r \in stale
  BY DEF DecisionRowsOf
<1>9. ASSUME NEW j \in Instances, NEW b \in Alerts, j # i \/ b # a
      PROVE  /\ AlertRowsOf(j, b)' = AlertRowsOf(j, b)
             /\ DecisionRowsOf(j, b)' = DecisionRowsOf(j, b)
  <2>1. AlertRowsOf(j, b)' = AlertRowsOf(j, b)
    BY <1>3, <1>6, <1>9 DEF AlertRowsOf
  <2>2. \A r : r.instance = j /\ AlertOf[r.decision] = b => (r \in decisionRows' <=> r \in decisionRows)
    BY <1>3, <1>4, <1>5, <1>7, <1>9
  <2>3. DecisionRowsOf(j, b)' = DecisionRowsOf(j, b)
    BY <2>2 DEF DecisionRowsOf
  <2> QED
    BY <2>1, <2>3
<1>10. ASSUME <<i, a>> \notin tombs
       PROVE  /\ AlertRowsOf(i, a)' = IF f.first THEN {NewAlertRow(i, a)} ELSE AlertRowsOf(i, a)
              /\ \A r \in DecisionRowsOf(i, a)' :
                    \/ /\ r \in DecisionRowsOf(i, a) /\ r.decision \notin ds
                       /\ f.reconcile => r.decision \in Incoming(i, a)
                    \/ \E d \in ds : r = NewDecisionRow(i, d)
              /\ \A r \in DecisionRowsOf(i, a) :
                    r.decision \notin ds /\ r.decision \in Incoming(i, a)
                        => r \in DecisionRowsOf(i, a)'
              /\ \A d \in ds : NewDecisionRow(i, d) \in DecisionRowsOf(i, a)'
  <2>1. AlertRowsOf(i, a)' = IF f.first THEN {NewAlertRow(i, a)} ELSE AlertRowsOf(i, a)
    BY <1>3, <1>6, <1>10 DEF AlertRowsOf
  <2>2. decisionRows' = ((decisionRows \ {r \in decisionRows : r.instance = i /\ r.decision \in ds})
                                 \cup new) \ stale
    BY <1>3, <1>10
  <2>3. \A r \in new : r \notin stale
    BY <1>4, <1>5, <1>7
  <2>4. \A r : r \in decisionRows' <=>
                 \/ r \in decisionRows /\ ~(r.instance = i /\ r.decision \in ds) /\ r \notin stale
                 \/ r \in new
    BY <2>2, <2>3
  <2>5. \A r : r \in DecisionRowsOf(i, a)' <=>
                 r \in decisionRows' /\ r.instance = i /\ AlertOf[r.decision] = a
    BY DEF DecisionRowsOf
  <2>6. \A r : r \in DecisionRowsOf(i, a) <=>
                 r \in decisionRows /\ r.instance = i /\ AlertOf[r.decision] = a
    BY DEF DecisionRowsOf
  <2>7. \A r \in DecisionRowsOf(i, a)' :
            \/ /\ r \in DecisionRowsOf(i, a) /\ r.decision \notin ds
               /\ f.reconcile => r.decision \in Incoming(i, a)
            \/ r \in new
    BY <1>8, <2>4, <2>5, <2>6
  <2>8. \A r \in DecisionRowsOf(i, a) :
            r.decision \notin ds /\ r.decision \in Incoming(i, a) => r \in DecisionRowsOf(i, a)'
    BY <1>7, <2>4, <2>5, <2>6
  <2>9. \A r \in new : r \in DecisionRowsOf(i, a)'
    BY <1>5, <2>4, <2>5
  <2> QED
    BY <2>1, <2>7, <2>8, <2>9
<1>11. <<i, a>> \in tombs => alertRows' = alertRows /\ decisionRows' \subseteq decisionRows
  BY <1>3
<1>12. \A r \in alertRows' : r \in alertRows \/ r = NewAlertRow(i, a)
  BY <1>3
<1>13. \A r \in decisionRows' : r \in decisionRows \/ \E d \in ds : r = NewDecisionRow(i, d)
  BY <1>3
<1> QED
  BY <1>9, <1>10, <1>11, <1>12, <1>13 DEF Rewritten

LEMMA RowsRewritten ==
  ASSUME WindowInv, NEW i \in Instances, NEW f, Rewritten(i, f), FragmentOK(i, f),
         f.alert \in Alerts, f.decisions \subseteq DecisionIds,
         \A d \in f.decisions : AlertOf[d] = f.alert,
         ~f.first => <<i, f.alert>> \in tombs \/ AlertRowsOf(i, f.alert) # {},
         tombs' = tombs
  PROVE  TablesOK'
<1> PICK a : a = f.alert
  OBVIOUS
<1>1. /\ sync[i].fetched.versions \in [Alerts -> Nat]
      /\ sync[i].fetched.decisions \in [DecisionIds -> {"none", "active", "ended"}]
  BY SyncOf DEF LapiContents
<1>2. TablesOK /\ tombs \subseteq Instances \X Alerts /\ AlertOf \in [DecisionIds -> Alerts]
  BY WindowSyncAssumption DEF WindowInv
<1>3. NewAlertRow(i, a) \in AlertRecords
  BY <1>1 DEF NewAlertRow, AlertRecords, Version
<1>4. ASSUME NEW d \in f.decisions
      PROVE  /\ NewDecisionRow(i, d) \in DecisionRecords
             /\ NewDecisionRow(i, d).key = DecisionKey(i, d)
             /\ NewDecisionRow(i, d).instance = i /\ NewDecisionRow(i, d).decision = d
  <2>1. d \in DecisionIds /\ AlertOf[d] \in Alerts
    BY <1>2, <1>4
  <2> PICK k : k = DecisionKey(i, d)
    OBVIOUS
  <2> PICK e : e = Ended(i, d)
    OBVIOUS
  <2> PICK v : v = Version(i, AlertOf[d])
    OBVIOUS
  <2>2. k \in DecisionIds \cup (Instances \X DecisionIds)
    BY <2>1 DEF DecisionKey
  <2>3. e \in BOOLEAN
    BY Zenon DEF Ended
  <2>4. v \in Nat
    BY <1>1, <2>1 DEF Version
  <2>5. NewDecisionRow(i, d) = [key |-> k, instance |-> i, decision |-> d, ended |-> e, version |-> v]
    BY DEF NewDecisionRow
  <2>6. [key |-> k, instance |-> i, decision |-> d, ended |-> e, version |-> v] \in DecisionRecords
    BY ONLY <2>1, <2>2, <2>3, <2>4, i \in Instances, Zenon DEF DecisionRecords
  <2> QED
    BY <2>5, <2>6
<1>5. alertRows' \subseteq AlertRecords
  BY <1>2, <1>3 DEF Rewritten, TablesOK
<1>6. decisionRows' \subseteq DecisionRecords
  BY <1>2, <1>4 DEF Rewritten, TablesOK
<1>7. \A r \in alertRows' : /\ r.instance \in Instances /\ r.alert \in Alerts
                            /\ r \in AlertRowsOf(r.instance, r.alert)'
  BY <1>5 DEF AlertRecords, AlertRowsOf
<1>8. \A r \in decisionRows' : /\ r.instance \in Instances /\ AlertOf[r.decision] \in Alerts
                               /\ r \in DecisionRowsOf(r.instance, AlertOf[r.decision])'
  BY <1>2, <1>6 DEF DecisionRecords, DecisionRowsOf
<1>9. ASSUME NEW j \in Instances, NEW b \in Alerts
      PROVE  /\ \A r, s \in AlertRowsOf(j, b)' : r = s
             /\ \A r, s \in DecisionRowsOf(j, b)' : r.decision = s.decision => r = s
             /\ \A r \in DecisionRowsOf(j, b)' : r.key = DecisionKey(j, r.decision)
             /\ DecisionRowsOf(j, b)' # {} => AlertRowsOf(j, b)' # {}
             /\ <<j, b>> \in tombs => AlertRowsOf(j, b)' = {}
  <2>1. /\ \A r, s \in AlertRowsOf(j, b) : r = s
        /\ \A r, s \in DecisionRowsOf(j, b) : r.decision = s.decision => r = s
        /\ \A r \in DecisionRowsOf(j, b) : r.key = DecisionKey(j, r.decision)
        /\ DecisionRowsOf(j, b) # {} => AlertRowsOf(j, b) # {}
        /\ <<j, b>> \in tombs => AlertRowsOf(j, b) = {}
    BY <1>2 DEF TablesOK, AlertRowsOf, DecisionRowsOf
  <2>2. CASE j # i \/ b # a
    BY <2>1, <2>2 DEF Rewritten
  <2>3. CASE j = i /\ b = a /\ <<i, a>> \in tombs
    <3>1. AlertRowsOf(j, b)' = AlertRowsOf(j, b) /\ DecisionRowsOf(j, b)' \subseteq DecisionRowsOf(j, b)
      BY <2>3 DEF Rewritten, AlertRowsOf, DecisionRowsOf
    <3> QED
      BY <2>1, <3>1
  <2>4. CASE j = i /\ b = a /\ <<i, a>> \notin tombs
    <3>1. AlertRowsOf(i, a)' = IF f.first THEN {NewAlertRow(i, a)} ELSE AlertRowsOf(i, a)
      BY <2>4 DEF Rewritten
    <3>2. \A r \in DecisionRowsOf(i, a)' :
              \/ r \in DecisionRowsOf(i, a) /\ r.decision \notin f.decisions
              \/ \E d \in f.decisions : r = NewDecisionRow(i, d)
      BY <2>4 DEF Rewritten
    <3>3. \A r \in DecisionRowsOf(i, a)' : r.key = DecisionKey(i, r.decision)
      BY <1>4, <2>1, <2>4, <3>2
    <3>4. ASSUME NEW r \in DecisionRowsOf(i, a)', NEW s \in DecisionRowsOf(i, a)',
                 r.decision = s.decision
          PROVE  r = s
      <4>1. CASE r \in DecisionRowsOf(i, a) /\ r.decision \notin f.decisions
        BY <1>4, <2>1, <2>4, <3>2, <3>4, <4>1
      <4>2. CASE \E d \in f.decisions : r = NewDecisionRow(i, d)
        BY <1>4, <3>2, <3>4, <4>2
      <4> QED
        BY <3>2, <4>1, <4>2
    <3>5. AlertRowsOf(i, a)' # {}
      BY <2>4, <3>1
    <3>6. \A r, s \in AlertRowsOf(i, a)' : r = s
      BY <2>1, <2>4, <3>1
    <3> QED
      BY <2>4, <3>3, <3>4, <3>5, <3>6
  <2> QED
    BY <2>2, <2>3, <2>4
<1>10. ASSUME NEW r \in alertRows', NEW s \in alertRows', r.instance = s.instance, r.alert = s.alert
       PROVE  r = s
  <2>1. r.instance \in Instances /\ r.alert \in Alerts
    BY <1>7
  <2>2. r \in AlertRowsOf(r.instance, r.alert)' /\ s \in AlertRowsOf(r.instance, r.alert)'
    BY <1>7, <1>10
  <2> QED
    BY ZenonT(40), <1>9, <2>1, <2>2
<1>11. ASSUME NEW r \in decisionRows', NEW s \in decisionRows',
              r.instance = s.instance, r.decision = s.decision
       PROVE  r = s
  <2>1. r.instance \in Instances /\ AlertOf[r.decision] \in Alerts
    BY <1>8
  <2>2. /\ r \in DecisionRowsOf(r.instance, AlertOf[r.decision])'
        /\ s \in DecisionRowsOf(r.instance, AlertOf[r.decision])'
    BY <1>8, <1>11
  <2>3. \A p, q \in DecisionRowsOf(r.instance, AlertOf[r.decision])' : p.decision = q.decision => p = q
    BY <1>9, <2>1
  <2> QED
    BY ONLY <1>11, <2>2, <2>3, Zenon
<1>12. (\A r \in decisionRows : /\ r.key = DecisionKey(r.instance, r.decision)
                                /\ AlertRowsOf(r.instance, AlertOf[r.decision]) # {})'
  BY <1>8, <1>9 DEF DecisionKey
<1>13. (\A t \in tombs : AlertRowsOf(t[1], t[2]) = {})'
  <2>1. \A t \in tombs : t[1] \in Instances /\ t[2] \in Alerts /\ t = <<t[1], t[2]>>
    BY <1>2
  <2> QED
    BY <1>9, <2>1
<1> QED
  BY <1>5, <1>6, <1>10, <1>11, <1>12, <1>13 DEF TablesOK, AlertRecords, DecisionRecords

LEMMA InvPersist ==
  ASSUME WindowInv, NEW i \in Instances, PersistFragment(i)
  PROVE  WindowInv'
<1> PICK s, f, z : PersistedTo(i, s, f, z)
  BY FragmentPersisted
<1>1. /\ f \in SyncFragments /\ f.alert \in Alerts /\ f.decisions \subseteq DecisionIds
      /\ FragmentOK(i, f)
      /\ \A d \in f.decisions : AlertOf[d] = f.alert
      /\ ~f.first => <<i, f.alert>> \in tombs \/ AlertRowsOf(i, f.alert) # {}
  BY FirstFragment
<1>2. Rewritten(i, f)
  BY PersistRewrites
<1>3. /\ s = sync[i] /\ s.phase = "persist" /\ s.fragments # <<>> /\ f = s.fragments[1]
      /\ sync' = [sync EXCEPT ![i] = z] /\ SyncOK(z) /\ UNCHANGED <<lapi, tombs>>
      /\ z = [phase |-> "persist", todo |-> s.todo, fetched |-> s.fetched,
              fragments |-> Tail(s.fragments), removed |-> s.removed, bulk |-> s.bulk]
  BY DEF PersistedTo
<1>4. /\ DOMAIN sync = Instances /\ s.fragments \in Seq(SyncFragments)
      /\ \A j \in Instances : SyncOK(sync[j])
  BY <1>3, SyncOf DEF WindowInv
<1>5. DOMAIN sync' = Instances /\ sync'[i] = z /\ \A j \in Instances : j # i => sync'[j] = sync[j]
  BY <1>3, <1>4
<1>6. \A j \in Instances : SyncOK(sync'[j])
  BY <1>3, <1>4, <1>5
<1>7. (\A j \in Instances : SyncOK(sync[j]))'
  BY <1>6
<1>8. TablesOK'
  BY <1>1, <1>2, <1>3, RowsRewritten
<1>9. \A j \in Instances, b \in Alerts : AlertRowsOf(j, b) # {} => AlertRowsOf(j, b)' # {}
  <2> SUFFICES ASSUME NEW j \in Instances, NEW b \in Alerts, AlertRowsOf(j, b) # {}
               PROVE  AlertRowsOf(j, b)' # {}
    OBVIOUS
  <2>1. CASE j # i \/ b # f.alert
    BY <1>2, <2>1 DEF Rewritten
  <2>2. CASE <<i, f.alert>> \in tombs
    BY <1>2, <2>2 DEF Rewritten, AlertRowsOf
  <2>3. CASE j = i /\ b = f.alert /\ <<i, f.alert>> \notin tombs
    <3>1. AlertRowsOf(i, f.alert)' =
             IF f.first THEN {NewAlertRow(i, f.alert)} ELSE AlertRowsOf(i, f.alert)
      BY <1>2, <2>3 DEF Rewritten
    <3> QED
      BY <2>3, <3>1
  <2> QED
    BY <2>1, <2>2, <2>3
<1>10. ASSUME NEW j \in Instances
       PROVE  FragmentsOK(j)'
  <2>1. CASE j # i
    BY <1>3, <1>5, <1>9, <2>1, FragmentsElsewhere
  <2>2. CASE j = i
    <3> PICK fs : fs = s.fragments
      OBVIOUS
    <3> PICK ts : ts = Tail(fs)
      OBVIOUS
    <3>1. z.fragments = ts /\ z.fetched = s.fetched
      BY <1>3
    <3>2. \A g : FragmentOK(i, g)' <=> FragmentOK(i, g)
      BY <1>3, <1>5, <3>1, SameAnswers
    <3>3. FragmentsOK(i) /\ sync[i].phase = "persist" /\ sync[i].fragments = fs
      BY <1>3 DEF WindowInv
    <3>4. (\A k \in DOMAIN fs : FragmentOK(i, fs[k])) /\ Follows(fs)
      BY <3>3 DEF FragmentsOK
    <3>5. /\ fs \in Seq(SyncFragments) /\ fs # <<>> /\ ts \in Seq(SyncFragments)
          /\ \A k \in DOMAIN ts : k \in Nat /\ k >= 1 /\ k + 1 \in DOMAIN fs /\ ts[k] = fs[k + 1]
          /\ 1 \in DOMAIN fs
      BY <1>3, <1>4
    <3>6. \A k \in DOMAIN ts : FragmentOK(i, ts[k])
      BY <3>4, <3>5
    <3>7. \A k \in DOMAIN ts : ~ts[k].first => fs[k].alert = ts[k].alert
      <4> SUFFICES ASSUME NEW k \in DOMAIN ts, ~ts[k].first PROVE fs[k].alert = ts[k].alert
        OBVIOUS
      <4> PICK m : m = k + 1
        OBVIOUS
      <4>1. m \in DOMAIN fs /\ m > 1 /\ ts[k] = fs[m] /\ m - 1 = k
        BY <3>5
      <4>2. fs[m - 1].alert = fs[m].alert
        BY <3>4, <4>1 DEF Follows
      <4> QED
        BY <4>1, <4>2
    <3>8. Follows(ts)
      <4> SUFFICES ASSUME NEW k \in DOMAIN ts, k > 1, ~ts[k].first
                   PROVE  ts[k - 1].alert = ts[k].alert
        BY DEF Follows
      <4>1. k - 1 \in DOMAIN ts
        BY <3>5
      <4>2. ts[k - 1] = fs[k]
        <5> PICK m : m = k - 1
          OBVIOUS
        <5>1. m \in DOMAIN ts /\ m + 1 = k
          BY <3>5, <4>1
        <5> QED
          BY <3>5, <5>1
      <4> QED
        BY <3>7, <4>2
    <3>9. ts # <<>> /\ ~ts[1].first => ts[1].alert = f.alert
      <4>1. ts # <<>> => 1 \in DOMAIN ts
        BY <3>5
      <4> QED
        BY <1>3, <3>7, <4>1
    <3>10. <<i, f.alert>> \in tombs \/ AlertRowsOf(i, f.alert)' # {}
      <4>1. CASE <<i, f.alert>> \notin tombs
        <5>1. AlertRowsOf(i, f.alert)' =
                 IF f.first THEN {NewAlertRow(i, f.alert)} ELSE AlertRowsOf(i, f.alert)
          BY <1>2, <4>1 DEF Rewritten
        <5> QED
          BY <1>1, <4>1, <5>1
      <4> QED
        BY <4>1
    <3>11. (\A k \in DOMAIN sync[i].fragments : FragmentOK(i, sync[i].fragments[k]))'
      BY <1>5, <3>1, <3>2, <3>6
    <3>12. FragmentsOK(i)'
      BY <1>3, <1>5, <3>1, <3>8, <3>9, <3>10, <3>11 DEF FragmentsOK
    <3> QED
      BY <2>2, <3>12
  <2> QED
    BY <2>1, <2>2
<1>11. (/\ lapi \in [Instances -> LapiContents] /\ \A j \in Instances : Consistent(lapi[j])
        /\ tombs \subseteq Instances \X Alerts)'
  BY <1>3 DEF WindowInv
<1> QED
  BY <1>5, <1>7, <1>8, <1>10, <1>11 DEF WindowInv

(* What the last two writes of a window do to a synchronization.             *)
PhaseTo(i, s, p, z) ==
    /\ s = sync[i]
    /\ z = [phase |-> p, todo |-> s.todo, fetched |-> s.fetched, fragments |-> s.fragments,
            removed |-> s.removed, bulk |-> s.bulk]
    /\ SyncOK(z)
    /\ sync' = [sync EXCEPT ![i] = z]
    /\ UNCHANGED <<lapi, tombs>>

LEMMA PhaseMoves ==
  ASSUME WindowInv, NEW i \in Instances, NEW p \in {"prune", "done"},
         sync[i].phase \in {"persist", "prune"}, UNCHANGED <<lapi, tombs>>,
         sync' = [sync EXCEPT ![i].phase = p]
  PROVE  \E s, z : PhaseTo(i, s, p, z)
<1> PICK s : s = sync[i]
  OBVIOUS
<1> PICK z : z = [s EXCEPT !.phase = p]
  OBVIOUS
<1>1. /\ SyncOK(s) /\ DOMAIN sync = Instances /\ s.fragments \in Seq(SyncFragments)
      /\ s.removed \in SUBSET DecisionIds
      /\ s = [phase |-> s.phase, todo |-> s.todo, fetched |-> s.fetched,
              fragments |-> s.fragments, removed |-> s.removed, bulk |-> s.bulk]
  BY SyncOf
<1>2. sync' = [sync EXCEPT ![i] = z]
  BY <1>1
<1>3. z = [phase |-> p, todo |-> s.todo, fetched |-> s.fetched, fragments |-> s.fragments,
           removed |-> s.removed, bulk |-> s.bulk]
  BY <1>1
<1>4. s.phase \notin {"idle", "fetch"} /\ p \in {"compare", "persist", "prune", "done"}
  OBVIOUS
<1>5. SyncOK(z)
  BY ONLY <1>1, <1>3, <1>4, LaterPhase, ZenonT(40)
<1>6. PhaseTo(i, s, p, z)
  BY <1>2, <1>3, <1>5 DEF PhaseTo
<1> QED
  BY <1>6

LEMMA InvPhase ==
  ASSUME WindowInv, NEW i \in Instances, NEW p \in {"prune", "done"},
         NEW s, NEW z, PhaseTo(i, s, p, z), TablesOK',
         \A j \in Instances, b \in Alerts : j # i /\ AlertRowsOf(j, b) # {} => AlertRowsOf(j, b)' # {}
  PROVE  WindowInv'
<1>1. /\ sync' = [sync EXCEPT ![i] = z] /\ SyncOK(z) /\ UNCHANGED <<lapi, tombs>> /\ z.phase = p
  BY DEF PhaseTo
<1>2. DOMAIN sync = Instances /\ \A j \in Instances : SyncOK(sync[j])
  BY DEF WindowInv
<1>3. DOMAIN sync' = Instances /\ sync'[i] = z /\ \A j \in Instances : j # i => sync'[j] = sync[j]
  BY <1>1, <1>2
<1>4. \A j \in Instances : SyncOK(sync'[j])
  BY <1>1, <1>2, <1>3
<1>5. (\A j \in Instances : SyncOK(sync[j]))'
  BY <1>4
<1>6. ASSUME NEW j \in Instances
      PROVE  FragmentsOK(j)'
  <2>1. CASE j # i
    BY <1>1, <1>3, <2>1, FragmentsElsewhere
  <2>2. CASE j = i
    BY <1>1, <1>3, <2>2 DEF FragmentsOK
  <2> QED
    BY <2>1, <2>2
<1>7. (/\ lapi \in [Instances -> LapiContents] /\ \A j \in Instances : Consistent(lapi[j])
       /\ tombs \subseteq Instances \X Alerts)'
  BY <1>1 DEF WindowInv
<1> QED
  BY <1>3, <1>5, <1>6, <1>7 DEF WindowInv

LEMMA InvRemoveDecisions ==
  ASSUME WindowInv, NEW i \in Instances, RemoveDecisions(i)
  PROVE  WindowInv'
<1>1. \E s, z : PhaseTo(i, s, "prune", z)
  <2>1. /\ sync' = [sync EXCEPT ![i].phase = "prune"]
        /\ sync[i].phase \in {"persist", "prune"} /\ UNCHANGED <<lapi, tombs>>
    BY DEF RemoveDecisions
  <2> PICK p : p = "prune"
    OBVIOUS
  <2> QED
    BY <2>1, PhaseMoves
<1> PICK s, z : PhaseTo(i, s, "prune", z)
  BY <1>1
<1>2. alertRows' = alertRows /\ decisionRows' \subseteq decisionRows
  BY DEF RemoveDecisions
<1>3. UNCHANGED tombs
  BY DEF RemoveDecisions
<1>4. TablesOK'
  BY <1>2, <1>3 DEF WindowInv, TablesOK, AlertRowsOf
<1>5. \A j \in Instances, b \in Alerts : AlertRowsOf(j, b)' = AlertRowsOf(j, b)
  BY <1>2 DEF AlertRowsOf
<1> QED
  BY <1>4, <1>5, InvPhase

LEMMA InvDeleteMissing ==
  ASSUME WindowInv, NEW i \in Instances, DeleteMissing(i)
  PROVE  WindowInv'
<1>1. \E s, z : PhaseTo(i, s, "done", z)
  <2>1. /\ sync' = [sync EXCEPT ![i].phase = "done"]
        /\ sync[i].phase \in {"persist", "prune"} /\ UNCHANGED <<lapi, tombs>>
    BY DEF DeleteMissing
  <2> QED
    BY <2>1, PhaseMoves
<1> PICK s, z : PhaseTo(i, s, "done", z)
  BY <1>1
<1> PICK m : m = Missing(i)
  OBVIOUS
<1>2. /\ alertRows' = {r \in alertRows : ~(r.instance = i /\ r.alert \in m)}
      /\ decisionRows' = {r \in decisionRows : ~(r.instance = i /\ AlertOf[r.decision] \in m)}
      /\ UNCHANGED tombs
  BY DEF DeleteMissing
<1>3. \A j, b : AlertRowsOf(j, b)' = IF j = i /\ b \in m THEN {} ELSE AlertRowsOf(j, b)
  BY <1>2 DEF AlertRowsOf
<1>4. TablesOK'
  <2>1. TablesOK
    BY DEF WindowInv
  <2>2. alertRows' \subseteq alertRows /\ decisionRows' \subseteq decisionRows
    BY <1>2
  <2>3. \A r \in decisionRows' : AlertRowsOf(r.instance, AlertOf[r.decision])' # {}
    BY <1>2, <1>3, <2>1 DEF TablesOK
  <2>4. \A t \in tombs' : AlertRowsOf(t[1], t[2])' = {}
    BY <1>2, <1>3, <2>1 DEF TablesOK
  <2> QED
    BY <2>1, <2>2, <2>3, <2>4 DEF TablesOK
<1> QED
  BY <1>3, <1>4, InvPhase

(* Every state of a synchronization has its records and tables in order.     *)
THEOREM WindowsInOrder == WindowSyncSpec => []WindowInv
<1>1. WindowSyncInit => WindowInv
  BY WindowInvInit
<1>2. WindowInv /\ [WindowSyncNext]_syncVars => WindowInv'
  <2> SUFFICES ASSUME WindowInv, [WindowSyncNext]_syncVars PROVE WindowInv'
    OBVIOUS
  <2>1. CASE UNCHANGED syncVars
    BY <2>1 DEF syncVars, WindowInv, TablesOK, FragmentsOK, FragmentOK, FetchedAlerts,
                Incoming, AlertRowsOf
  <2>2. CASE LapiChanges \/ UserDeletes \/ ProcessDies
    BY <2>2, InvElsewhere
  <2>3. ASSUME NEW i \in Instances, Step(i)
        PROVE  WindowInv'
    BY <2>3, InvStart, InvFetch, InvWindowFails, InvCompare, InvPersist, InvRemoveDecisions,
       InvDeleteMissing, InvBulkDone, InvWindowDone DEF Step, Write
  <2> QED
    BY <2>1, <2>2, <2>3 DEF WindowSyncNext
<1> QED
  BY <1>1, <1>2, PTL DEF WindowSyncSpec

LEMMA InOrderBelong ==
  ASSUME WindowInv
  PROVE  RowsBelong
<1>1. TablesOK
  BY DEF WindowInv
<1>2. ASSUME NEW r \in decisionRows, NEW s \in decisionRows, r.key = s.key
      PROVE  r = s
  <2>1. /\ r.instance \in Instances /\ r.decision \in DecisionIds
        /\ s.instance \in Instances /\ s.decision \in DecisionIds
        /\ r.key = DecisionKey(r.instance, r.decision)
        /\ s.key = DecisionKey(s.instance, s.decision)
    BY <1>1 DEF TablesOK, DecisionRecords
  <2>2. r.instance = s.instance /\ r.decision = s.decision
    <3> PICK i, d, j, e : i = r.instance /\ d = r.decision /\ j = s.instance /\ e = s.decision
      OBVIOUS
    <3>1. /\ i \in Instances /\ d \in DecisionIds /\ j \in Instances /\ e \in DecisionIds
          /\ DecisionKey(i, d) = DecisionKey(j, e)
      BY <1>2, <2>1
    <3>2. d # <<j, e>> /\ e # <<i, d>>
      BY <3>1, KeysDiffer
    <3>3. CASE i = Primary
      <4>1. j = Primary
        BY <3>1, <3>2, <3>3 DEF DecisionKey
      <4> QED
        BY <3>1, <3>3, <4>1 DEF DecisionKey
    <3>4. CASE i # Primary
      <4>1. j # Primary
        BY <3>1, <3>2, <3>4 DEF DecisionKey
      <4>2. <<i, d>> = <<j, e>>
        BY <3>1, <3>4, <4>1 DEF DecisionKey
      <4> QED
        BY <4>2
    <3> QED
      BY <3>3, <3>4
  <2> QED
    BY <1>1, <2>2 DEF TablesOK
<1>3. ASSUME NEW i \in Instances, NEW a \in Alerts
      PROVE  /\ Cardinality(AlertRowsOf(i, a)) <= 1
             /\ <<i, a>> \in tombs => AlertRowsOf(i, a) = {} /\ DecisionRowsOf(i, a) = {}
  <2>1. \A r, s \in AlertRowsOf(i, a) : r = s
    BY <1>1 DEF TablesOK, AlertRowsOf
  <2>2. Cardinality(AlertRowsOf(i, a)) <= 1
    <3>1. CASE AlertRowsOf(i, a) = {}
      BY <3>1, FS_EmptySet
    <3>2. CASE AlertRowsOf(i, a) # {}
      <4> PICK r : r \in AlertRowsOf(i, a)
        BY <3>2
      <4>1. AlertRowsOf(i, a) = {r}
        BY <2>1
      <4> QED
        BY <4>1, FS_Singleton
    <3> QED
      BY <3>1, <3>2
  <2>3. <<i, a>> \in tombs => AlertRowsOf(i, a) = {}
    <3> PICK t : t = <<i, a>>
      OBVIOUS
    <3>1. t[1] = i /\ t[2] = a
      OBVIOUS
    <3> QED
      BY <1>1, <3>1 DEF TablesOK
  <2>4. DecisionRowsOf(i, a) # {} => AlertRowsOf(i, a) # {}
    BY <1>1 DEF TablesOK, DecisionRowsOf
  <2> QED
    BY <2>2, <2>3, <2>4
<1>4. \A r \in decisionRows : AlertRowsOf(r.instance, AlertOf[r.decision]) # {}
  BY <1>1 DEF TablesOK
<1> QED
  BY <1>2, <1>3, <1>4 DEF RowsBelong

(* Keys are unique, a row of a decision has the row of its alert, and what   *)
(* the user deleted stays out of the cache: for any number of instances, of  *)
(* records and of decisions in a fragment.                                   *)
THEOREM RowsStayWithAlerts == WindowSyncSpec => []RowsBelong
BY WindowsInOrder, InOrderBelong, PTL

-----------------------------------------------------------------------------
(* What a synchronization says it changed.                                   *)
ReportOK(p) == p.wrote => p.window \/ p.summary \/ p.dropped

Reports == [window : BOOLEAN, summary : BOOLEAN, wrote : BOOLEAN, dropped : BOOLEAN]

ReportInv == report \in [Instances -> Reports] /\ \A i \in Instances : ReportOK(report[i])

(* The rows differ only after statements that count a row.                   *)
LEMMA RowsCounted ==
  ASSUME NEW i \in Instances, NEW c \in BOOLEAN, ReportInv, Report(i, c),
         <<alertRows, decisionRows>>' # <<alertRows, decisionRows>> => c
  PROVE  ReportInv'
<1> PICK w : w = (<<alertRows, decisionRows>>' # <<alertRows, decisionRows>>)
  OBVIOUS
<1> PICK p : p = report[i]
  OBVIOUS
<1> PICK q : q = [p EXCEPT !.window = p.window \/ c, !.wrote = p.wrote \/ w]
  OBVIOUS
<1>1. p \in Reports /\ ReportOK(p) /\ w \in BOOLEAN /\ (w => c)
  BY DEF ReportInv
<1>2. q \in Reports /\ ReportOK(q)
  BY ONLY <1>1, c \in BOOLEAN, q = [p EXCEPT !.window = p.window \/ c, !.wrote = p.wrote \/ w]
     DEF Reports, ReportOK
<1>3. report' = [report EXCEPT ![i] = q]
  BY DEF Report, ReportInv
<1> QED
  BY <1>2, <1>3 DEF ReportInv

LEMMA FragmentCounted ==
  ASSUME WindowInv, NEW i \in Instances, ReportInv, PersistFragment(i)
  PROVE  ReportInv'
<1> PICK f : f = sync[i].fragments[1]
  OBVIOUS
<1> PICK refused : refused = (<<i, f.alert>> \in tombs)
  OBVIOUS
<1> PICK stale : stale = IF f.reconcile
                         THEN {r \in DecisionRowsOf(i, f.alert) : r.decision \notin Incoming(i, f.alert)}
                         ELSE {}
  OBVIOUS
<1> PICK c : c = \/ stale # {}
                 \/ ~refused /\ f.first /\ NewAlertRow(i, f.alert) \notin alertRows
                 \/ ~refused /\ \E d \in f.decisions : NewDecisionRow(i, d) \notin decisionRows
  OBVIOUS
<1>1. /\ alertRows' = IF f.first /\ ~refused
                      THEN (alertRows \ AlertRowsOf(i, f.alert)) \cup {NewAlertRow(i, f.alert)}
                      ELSE alertRows
      /\ decisionRows' = (IF refused THEN decisionRows
                          ELSE (decisionRows \ {r \in decisionRows : r.instance = i /\ r.decision \in f.decisions})
                                  \cup {NewDecisionRow(i, d) : d \in f.decisions}) \ stale
      /\ Report(i, c)
  BY Zenon DEF PersistFragment
<1>2. ASSUME ~c
      PROVE  <<alertRows, decisionRows>>' = <<alertRows, decisionRows>>
  <2>1. /\ stale = {}
        /\ ~refused /\ f.first => NewAlertRow(i, f.alert) \in alertRows
        /\ ~refused => \A d \in f.decisions : NewDecisionRow(i, d) \in decisionRows
    BY <1>2
  <2>2. ASSUME f.first, ~refused
        PROVE  AlertRowsOf(i, f.alert) = {NewAlertRow(i, f.alert)}
    <3>1. NewAlertRow(i, f.alert).instance = i /\ NewAlertRow(i, f.alert).alert = f.alert
      BY DEF NewAlertRow
    <3>2. NewAlertRow(i, f.alert) \in AlertRowsOf(i, f.alert)
      BY <2>1, <2>2, <3>1 DEF AlertRowsOf
    <3>3. \A r \in AlertRowsOf(i, f.alert) : r = NewAlertRow(i, f.alert)
      BY <2>1, <2>2, <3>1 DEF AlertRowsOf, WindowInv, TablesOK
    <3> QED
      BY <3>2, <3>3
  <2>3. alertRows' = alertRows
    BY <1>1, <2>1, <2>2
  <2>4. ASSUME ~refused, NEW r \in decisionRows, r.instance = i, r.decision \in f.decisions
        PROVE  r = NewDecisionRow(i, r.decision)
    <3>1. /\ NewDecisionRow(i, r.decision).instance = i
          /\ NewDecisionRow(i, r.decision).decision = r.decision
      BY DEF NewDecisionRow
    <3>2. NewDecisionRow(i, r.decision) \in decisionRows
      BY <2>1, <2>4
    <3> QED
      BY <2>4, <3>1, <3>2 DEF WindowInv, TablesOK
  <2>5. decisionRows' = decisionRows
    <3>1. CASE refused
      BY <1>1, <2>1, <3>1
    <3>2. CASE ~refused
      <4>1. decisionRows' = (decisionRows \ {r \in decisionRows : r.instance = i /\ r.decision \in f.decisions})
                                \cup {NewDecisionRow(i, d) : d \in f.decisions}
        BY <1>1, <2>1, <3>2
      <4>2. {NewDecisionRow(i, d) : d \in f.decisions} \subseteq decisionRows
        BY <2>1, <3>2
      <4>3. {r \in decisionRows : r.instance = i /\ r.decision \in f.decisions}
                \subseteq {NewDecisionRow(i, d) : d \in f.decisions}
        BY <2>4, <3>2
      <4> QED
        BY <4>1, <4>2, <4>3
    <3> QED
      BY <3>1, <3>2
  <2> QED
    BY <2>3, <2>5
<1>3. c \in BOOLEAN
  OBVIOUS
<1> QED
  BY <1>1, <1>2, <1>3, RowsCounted

LEMMA RemovalCounted ==
  ASSUME NEW i \in Instances, ReportInv, RemoveDecisions(i)
  PROVE  ReportInv'
<1> PICK c : c = (\E r \in decisionRows : r.key \in sync[i].removed)
  OBVIOUS
<1>1. /\ decisionRows' = {r \in decisionRows : r.key \notin sync[i].removed}
      /\ alertRows' = alertRows /\ Report(i, c)
  BY DEF RemoveDecisions
<1>2. ASSUME ~c PROVE <<alertRows, decisionRows>>' = <<alertRows, decisionRows>>
  BY <1>1, <1>2
<1> QED
  BY <1>1, <1>2, RowsCounted

LEMMA PruningCounted ==
  ASSUME WindowInv, NEW i \in Instances, ReportInv, DeleteMissing(i)
  PROVE  ReportInv'
<1> PICK c : c = (\E a \in Missing(i) : AlertRowsOf(i, a) # {} \/ DecisionRowsOf(i, a) # {})
  OBVIOUS
<1>1. /\ alertRows' = {r \in alertRows : ~(r.instance = i /\ r.alert \in Missing(i))}
      /\ decisionRows' = {r \in decisionRows :
                            ~(r.instance = i /\ AlertOf[r.decision] \in Missing(i))}
      /\ Report(i, c)
  BY DEF DeleteMissing
<1>2. ASSUME ~c PROVE <<alertRows, decisionRows>>' = <<alertRows, decisionRows>>
  <2>1. \A a \in Missing(i) : AlertRowsOf(i, a) = {} /\ DecisionRowsOf(i, a) = {}
    BY <1>2
  <2>2. \A r \in alertRows : ~(r.instance = i /\ r.alert \in Missing(i))
    BY <2>1 DEF AlertRowsOf
  <2>3. \A r \in decisionRows : ~(r.instance = i /\ AlertOf[r.decision] \in Missing(i))
    BY <2>1 DEF DecisionRowsOf
  <2> QED
    BY <1>1, <2>2, <2>3
<1> QED
  BY <1>1, <1>2, RowsCounted

(* What a failed attempt would have reported is counted as dropped.          *)
LEMMA ReportKept ==
  ASSUME NEW i \in Instances, ReportInv, WindowFails(i) \/ WindowDone(i)
  PROVE  ReportInv'
<1> PICK p : p = report[i]
  OBVIOUS
<1>1. p \in Reports /\ ReportOK(p)
  BY DEF ReportInv
<1>2. CASE WindowFails(i)
  <2> PICK q : q = [p EXCEPT !.window = FALSE, !.dropped = p.dropped \/ p.window]
    OBVIOUS
  <2>1. q \in Reports /\ ReportOK(q)
    BY ONLY <1>1, q = [p EXCEPT !.window = FALSE, !.dropped = p.dropped \/ p.window]
       DEF Reports, ReportOK
  <2>2. report' = [report EXCEPT ![i] = q]
    BY <1>2 DEF WindowFails, ReportInv
  <2> QED
    BY <2>1, <2>2 DEF ReportInv
<1>3. CASE WindowDone(i)
  <2> PICK q : q = [p EXCEPT !.window = FALSE, !.summary = p.summary \/ p.window]
    OBVIOUS
  <2>1. q \in Reports /\ ReportOK(q)
    BY ONLY <1>1, q = [p EXCEPT !.window = FALSE, !.summary = p.summary \/ p.window]
       DEF Reports, ReportOK
  <2>2. report' = [report EXCEPT ![i] = q]
    BY <1>3 DEF WindowDone, ReportInv
  <2> QED
    BY <2>1, <2>2 DEF ReportInv
<1> QED
  BY <1>2, <1>3

LEMMA ReportNew == NoReport \in Reports /\ ReportOK(NoReport)
BY DEF NoReport, Reports, ReportOK

(* Through all its windows, a synchronization that reports no change has     *)
(* left every row as it was, unless a window failed or was split up after a  *)
(* part of it was written. A statement that changes a row counts it, which   *)
(* rests on rows being unique: a row that is written over is the one that is *)
(* read (persistChangedAlerts, syncAlertWindow, combineWindowSummaries).     *)
THEOREM WritesAreReported == WindowSyncSpec => []ChangesReported
<1>1. WindowSyncInit => ReportInv
  BY ReportNew DEF WindowSyncInit, ReportInv
<1>2. WindowInv /\ ReportInv /\ [WindowSyncNext]_syncVars => ReportInv'
  <2> SUFFICES ASSUME WindowInv, ReportInv, [WindowSyncNext]_syncVars
               PROVE  ReportInv'
    OBVIOUS
  <2>1. CASE UNCHANGED report
    BY <2>1 DEF ReportInv
  <2>2. CASE ProcessDies
    BY <2>2, ReportNew DEF ProcessDies, ReportInv
  <2>3. ASSUME NEW i \in Instances, Start(i)
        PROVE  ReportInv'
    BY <2>3, ReportNew DEF Start, ReportInv
  <2>4. ASSUME NEW i \in Instances, Write(i)
        PROVE  ReportInv'
    BY <2>4, FragmentCounted, RemovalCounted, PruningCounted DEF Write
  <2>5. ASSUME NEW i \in Instances, WindowFails(i) \/ WindowDone(i)
        PROVE  ReportInv'
    BY <2>5, ReportKept
  <2>6. LapiChanges \/ UserDeletes => UNCHANGED report
    BY DEF LapiChanges, UserDeletes
  <2>7. \A i \in Instances : Fetch(i) \/ Compare(i) \/ BulkDone(i) => UNCHANGED report
    BY DEF Fetch, Compare, BulkDone
  <2> QED
    BY <2>1, <2>2, <2>3, <2>4, <2>5, <2>6, <2>7 DEF WindowSyncNext, Step, syncVars
<1>3. ReportInv => ChangesReported
  BY DEF ReportInv, ReportOK, ChangesReported
<1> QED
  BY <1>1, <1>2, <1>3, WindowsInOrder, PTL DEF WindowSyncSpec

-----------------------------------------------------------------------------
(* What the cache holds, with what is still to be written, is what LAPI      *)
(* answered.                                                                 *)

(* The rows of alert a tell whether one of its decisions is known as ended.  *)
LEMMA EndedRows ==
  ASSUME NEW i, NEW a, NEW d, AlertOf[d] = a
  PROVE  CachedEnded(i, d) <=> \E r \in DecisionRowsOf(i, a) : r.decision = d /\ r.ended
BY DEF CachedEnded, DecisionRowsOf

LEMMA SameMirror ==
  ASSUME WindowInv, NEW i \in Instances, NEW a \in Alerts,
         sync'[i].fetched = sync[i].fetched, sync'[i].bulk = sync[i].bulk,
         AlertRowsOf(i, a)' = AlertRowsOf(i, a), DecisionRowsOf(i, a)' = DecisionRowsOf(i, a)
  PROVE  /\ Mirrors(i, a)' <=> Mirrors(i, a)
         /\ sync'[i].fragments = sync[i].fragments /\ sync'[i].removed = sync[i].removed
               => (Converging(i, a)' <=> Converging(i, a))
<1>1. /\ Incoming(i, a)' = Incoming(i, a) /\ Version(i, a)' = Version(i, a)
      /\ \A d : Ended(i, d)' = Ended(i, d)
  BY SameAnswers
<1>2. CachedDecisions(i, a)' = CachedDecisions(i, a)
  BY DEF CachedDecisions
<1>3. \A d : AlertOf[d] = a => (CachedEnded(i, d)' <=> CachedEnded(i, d))
  <2> SUFFICES ASSUME NEW d, AlertOf[d] = a PROVE CachedEnded(i, d)' <=> CachedEnded(i, d)
    OBVIOUS
  <2>1. CachedEnded(i, d) <=> \E r \in DecisionRowsOf(i, a) : r.decision = d /\ r.ended
    BY EndedRows
  <2>2. CachedEnded(i, d)' <=> \E r \in DecisionRowsOf(i, a)' : r.decision = d /\ r.ended
    BY DEF CachedEnded, DecisionRowsOf
  <2> QED
    BY <2>1, <2>2
<1>4. \A d \in Incoming(i, a) : AlertOf[d] = a
  BY DEF Incoming, DecisionsOf
<1>5. Mirrors(i, a)' <=> Mirrors(i, a)
  BY <1>1, <1>2, <1>3, <1>4 DEF Mirrors
<1>6. ASSUME sync'[i].fragments = sync[i].fragments, sync'[i].removed = sync[i].removed
      PROVE  Converging(i, a)' <=> Converging(i, a)
  <2>1. Coming(i, a)' = Coming(i, a)
    BY <1>6 DEF Coming
  <2>2. AlertComing(i, a)' <=> AlertComing(i, a)
    BY <1>1, <1>6, <2>1 DEF AlertComing
  <2>3. \A d \in Incoming(i, a) : DecisionComing(i, a, d)' <=> DecisionComing(i, a, d)
    BY <1>1, <1>2, <1>3, <1>4, <1>6, <2>1 DEF DecisionComing
  <2>4. \A d : Leaving(i, a, d)' <=> Leaving(i, a, d)
    BY <1>6, <2>1 DEF Leaving
  <2> QED
    BY <1>1, <1>2, <2>2, <2>3, <2>4 DEF Converging
<1> QED
  BY <1>5, <1>6

(* The window of a synchronization that is writing is mirrored in the end.   *)
MirrorOf(i) ==
    /\ sync[i].phase = "persist" =>
          /\ \A a \in FetchedAlerts(i) : <<i, a>> \notin tombs => Converging(i, a)
          /\ \A d \in sync[i].removed : d \notin Incoming(i, AlertOf[d])
    /\ sync[i].phase = "prune" =>
          /\ ~sync[i].bulk
          /\ \A a \in FetchedAlerts(i) : <<i, a>> \notin tombs => Mirrors(i, a)
    /\ sync[i].phase = "done" =>
          \A a \in Alerts : InWindow(a, Window(i)) /\ <<i, a>> \notin tombs => Mirrors(i, a)

MirrorInv == \A i \in Instances : MirrorOf(i)

(* Nothing is said of a synchronization that has written nothing.            *)
LEMMA MirrorNothing ==
  ASSUME NEW i, sync'[i].phase \notin {"persist", "prune", "done"}
  PROVE  MirrorOf(i)'
BY DEF MirrorOf

LEMMA MirrorElsewhere ==
  ASSUME WindowInv, NEW i \in Instances, MirrorOf(i), sync' = sync, tombs \subseteq tombs',
         \A a \in Alerts : <<i, a>> \notin tombs' =>
            /\ AlertRowsOf(i, a)' = AlertRowsOf(i, a)
            /\ DecisionRowsOf(i, a)' = DecisionRowsOf(i, a)
  PROVE  MirrorOf(i)'
<1>1. FetchedAlerts(i)' = FetchedAlerts(i) /\ \A a : Incoming(i, a)' = Incoming(i, a)
  BY SameAnswers
<1>2. FetchedAlerts(i) \subseteq Alerts /\ Window(i)' = Window(i)
  BY DEF FetchedAlerts, Window
<1>3. \A a \in Alerts : <<i, a>> \notin tombs' =>
         /\ <<i, a>> \notin tombs
         /\ Mirrors(i, a)' <=> Mirrors(i, a)
         /\ Converging(i, a)' <=> Converging(i, a)
  BY SameMirror
<1> QED
  BY <1>1, <1>2, <1>3 DEF MirrorOf

LEMMA MirrorCompare ==
  ASSUME WindowInv, NEW i \in Instances, Compare(i)
  PROVE  MirrorOf(i)'
<1> PICK deltas, fs, rm, s, z : ComparedTo(i, deltas, fs, rm, s, z)
  BY Compared
<1>1. /\ UNCHANGED <<lapi, alertRows, decisionRows, tombs>>
      /\ sync' = [sync EXCEPT ![i] = z] /\ s = sync[i]
      /\ deltas = {a \in FetchedAlerts(i) :
                    Full(i, a) \/ Added(i, a) # {} \/ Removed(i, a) # {}}
      /\ rm = UNION {Removed(i, a) : a \in deltas}
      /\ Writes(i, deltas, fs)
  BY Compared DEF ComparedTo
<1>2. DOMAIN sync = Instances
  BY SyncOf
<1>3. /\ z.phase = "persist" /\ z.fetched = s.fetched /\ z.fragments = fs
      /\ z.removed = rm /\ z.bulk = s.bulk /\ sync'[i] = z
  BY <1>1, <1>2 DEF ComparedTo
<1>4. /\ FetchedAlerts(i)' = FetchedAlerts(i)
      /\ \A a : Incoming(i, a)' = Incoming(i, a) /\ Version(i, a)' = Version(i, a)
      /\ \A d : Ended(i, d)' = Ended(i, d)
  BY <1>1, <1>3, SameAnswers
<1>5. /\ \A a : AlertRowsOf(i, a)' = AlertRowsOf(i, a)
      /\ \A a : CachedDecisions(i, a)' = CachedDecisions(i, a)
      /\ \A d : CachedEnded(i, d)' <=> CachedEnded(i, d)
  BY <1>1 DEF AlertRowsOf, CachedDecisions, DecisionRowsOf, CachedEnded
<1>6. /\ \A a \in deltas :
            /\ \E k \in DOMAIN fs : fs[k].alert = a /\ fs[k].first
            /\ \A d \in Added(i, a) :
                  \E k \in DOMAIN fs : fs[k].alert = a /\ d \in fs[k].decisions
            /\ Full(i, a) /\ ~sync[i].bulk =>
                  \E k \in DOMAIN fs : fs[k].alert = a /\ fs[k].reconcile
  BY <1>1 DEF Writes
<1>7. ASSUME NEW a \in FetchedAlerts(i)
      PROVE  Converging(i, a)'
  <2>0. Coming(i, a)' = {k \in DOMAIN fs : fs[k].alert = a}
    BY <1>3 DEF Coming
  <2>1. AlertComing(i, a)'
    <3>1. CASE a \in deltas
      <4>1. \E k \in DOMAIN fs : fs[k].alert = a /\ fs[k].first
        BY <1>6, <3>1
      <4> QED
        BY <1>3, <2>0, <4>1 DEF AlertComing
    <3>2. CASE a \notin deltas
      <4>1. ~Full(i, a)
        BY <1>1, <3>2
      <4>2. \E r \in AlertRowsOf(i, a) : r.version = Version(i, a)
        BY <4>1 DEF Full, Version
      <4> QED
        BY <1>4, <1>5, <4>2 DEF AlertComing
    <3> QED
      BY <3>1, <3>2
  <2>2. ASSUME NEW d \in Incoming(i, a)
        PROVE  DecisionComing(i, a, d)'
    <3>1. CASE d \in Added(i, a)
      <4>1. a \in deltas
        BY <1>1, <3>1
      <4>2. \E k \in DOMAIN fs : fs[k].alert = a /\ d \in fs[k].decisions
        BY <1>6, <3>1, <4>1
      <4> QED
        BY <1>3, <2>0, <4>2 DEF DecisionComing
    <3>2. CASE d \notin Added(i, a)
      <4>1. d \in CachedDecisions(i, a) /\ (Ended(i, d) => CachedEnded(i, d))
        BY <3>2 DEF Added
      <4> QED
        BY <1>4, <1>5, <4>1 DEF DecisionComing
    <3> QED
      BY <3>1, <3>2
  <2>3. ASSUME ~sync[i].bulk, NEW d \in CachedDecisions(i, a) \ Incoming(i, a)
        PROVE  Leaving(i, a, d)'
    <3>1. CASE Full(i, a)
      <4>1. \E k \in DOMAIN fs : fs[k].alert = a /\ fs[k].reconcile
        BY <1>1, <1>6, <2>3, <3>1
      <4> QED
        BY <1>3, <2>0, <4>1 DEF Leaving
    <3>2. CASE ~Full(i, a)
      <4>1. d \in Removed(i, a)
        BY <3>2 DEF Removed
      <4>2. a \in deltas
        BY <1>1, <4>1
      <4>3. d \in rm
        BY <1>1, <4>1, <4>2
      <4> QED
        BY <1>3, <4>3 DEF Leaving
    <3> QED
      BY <3>1, <3>2
  <2> QED
    BY <1>1, <1>3, <1>4, <1>5, <2>1, <2>2, <2>3 DEF Converging
<1>8. ASSUME NEW d \in rm
      PROVE  d \notin Incoming(i, AlertOf[d])
  <2> PICK a \in deltas : d \in Removed(i, a)
    BY <1>1
  <2>1. d \in CachedDecisions(i, a) /\ d \notin Incoming(i, a)
    BY DEF Removed
  <2>2. AlertOf[d] = a
    BY <2>1 DEF CachedDecisions, DecisionRowsOf
  <2> QED
    BY <2>1, <2>2
<1> QED
  BY <1>3, <1>4, <1>7, <1>8 DEF MirrorOf

(* A fragment that is written no longer has to come.                         *)
LEMMA MirrorPersist ==
  ASSUME WindowInv, NEW i \in Instances, MirrorOf(i), PersistFragment(i)
  PROVE  MirrorOf(i)'
<1> PICK s, f, z : PersistedTo(i, s, f, z)
  BY FragmentPersisted
<1>1. /\ f \in SyncFragments /\ f.alert \in Alerts /\ f.decisions \subseteq DecisionIds
      /\ FragmentOK(i, f)
      /\ \A d \in f.decisions : AlertOf[d] = f.alert
  BY FirstFragment
<1>2. Rewritten(i, f)
  BY PersistRewrites
<1>3. /\ s = sync[i] /\ s.phase = "persist" /\ s.fragments # <<>> /\ f = s.fragments[1]
      /\ sync' = [sync EXCEPT ![i] = z] /\ UNCHANGED tombs
      /\ z.phase = "persist" /\ z.fetched = s.fetched /\ z.fragments = Tail(s.fragments)
      /\ z.removed = s.removed /\ z.bulk = s.bulk
  BY DEF PersistedTo
<1>4. DOMAIN sync = Instances /\ s.fragments \in Seq(SyncFragments) /\ sync'[i] = z
  BY <1>3, SyncOf
<1> PICK fs : fs = s.fragments
  OBVIOUS
<1> PICK ts : ts = Tail(fs)
  OBVIOUS
<1>5. /\ 1 \in DOMAIN fs /\ fs[1] = f
      /\ \A k \in DOMAIN fs : k = 1 \/ \E m \in DOMAIN ts : ts[m] = fs[k]
  <2>1. /\ fs \in Seq(SyncFragments) /\ fs # <<>> /\ Len(ts) = Len(fs) - 1 /\ 1 \in DOMAIN fs
        /\ \A k \in DOMAIN fs : k = 1 \/ (k - 1 \in DOMAIN ts /\ ts[k - 1] = fs[k])
    BY <1>3, <1>4
  <2> QED
    BY <1>3, <2>1
<1>6. /\ FetchedAlerts(i)' = FetchedAlerts(i)
      /\ \A a : Incoming(i, a)' = Incoming(i, a) /\ Version(i, a)' = Version(i, a)
      /\ \A d : Ended(i, d)' = Ended(i, d)
  BY <1>3, <1>4, SameAnswers
<1>7. \A a \in FetchedAlerts(i) : <<i, a>> \notin tombs => Converging(i, a)
  BY <1>3 DEF MirrorOf
<1>8. ASSUME NEW a \in FetchedAlerts(i), <<i, a>> \notin tombs
      PROVE  Converging(i, a)'
  <2>0. a \in Alerts
    BY DEF FetchedAlerts
  <2>1. /\ AlertComing(i, a)
        /\ \A d \in Incoming(i, a) : DecisionComing(i, a, d)
        /\ ~sync[i].bulk => \A d \in CachedDecisions(i, a) \ Incoming(i, a) : Leaving(i, a, d)
    BY <1>7, <1>8 DEF Converging
  <2>2. /\ Coming(i, a) = {k \in DOMAIN fs : fs[k].alert = a}
        /\ Coming(i, a)' = {k \in DOMAIN ts : ts[k].alert = a}
    BY <1>3, <1>4 DEF Coming
  <2>3. \A k \in Coming(i, a) : (k = 1 /\ f.alert = a) \/ \E m \in Coming(i, a)' : ts[m] = fs[k]
    BY <1>5, <2>2
  <2>4. sync[i].fragments = fs /\ sync'[i].fragments = ts
    BY <1>3, <1>4
  <2>5. CASE a # f.alert
    <3>1. AlertRowsOf(i, a)' = AlertRowsOf(i, a) /\ DecisionRowsOf(i, a)' = DecisionRowsOf(i, a)
      BY <1>2, <2>0, <2>5 DEF Rewritten
    <3>2. \A k \in Coming(i, a) : \E m \in Coming(i, a)' : ts[m] = fs[k]
      BY <2>3, <2>5
    <3>3. AlertComing(i, a)'
      <4>1. CASE \E k \in Coming(i, a) : fs[k].first
        <5>1. \E m \in Coming(i, a)' : ts[m].first
          BY <3>2, <4>1
        <5> QED
          BY <2>4, <5>1 DEF AlertComing
      <4>2. CASE \E r \in AlertRowsOf(i, a) : r.version = Version(i, a)
        BY <1>6, <3>1, <4>2 DEF AlertComing
      <4> QED
        BY <2>1, <2>4, <4>1, <4>2 DEF AlertComing
    <3>4. CachedDecisions(i, a)' = CachedDecisions(i, a)
      BY <3>1 DEF CachedDecisions
    <3>5. ASSUME NEW d \in Incoming(i, a)
          PROVE  DecisionComing(i, a, d)'
      <4>1. AlertOf[d] = a
        BY DEF Incoming, DecisionsOf
      <4>2. CachedEnded(i, d) <=> \E r \in DecisionRowsOf(i, a) : r.decision = d /\ r.ended
        BY <4>1, EndedRows
      <4>3. CachedEnded(i, d)' <=> \E r \in DecisionRowsOf(i, a)' : r.decision = d /\ r.ended
        BY <4>1 DEF CachedEnded, DecisionRowsOf
      <4> QED
        BY <1>6, <2>1, <2>4, <3>1, <3>2, <3>4, <4>2, <4>3 DEF DecisionComing
    <3>6. ASSUME NEW d, Leaving(i, a, d)
          PROVE  Leaving(i, a, d)'
      <4>1. CASE d \in sync[i].removed
        BY <1>3, <1>4, <4>1 DEF Leaving
      <4>2. CASE \E k \in Coming(i, a) : fs[k].reconcile
        <5>1. \E m \in Coming(i, a)' : ts[m].reconcile
          BY <3>2, <4>2
        <5> QED
          BY <2>4, <5>1 DEF Leaving
      <4> QED
        BY <2>4, <3>6, <4>1, <4>2 DEF Leaving
    <3> QED
      BY <1>3, <1>4, <1>6, <2>1, <3>3, <3>4, <3>5, <3>6 DEF Converging
  <2>6. CASE a = f.alert
    <3>1. /\ AlertRowsOf(i, a)' = IF f.first THEN {NewAlertRow(i, a)} ELSE AlertRowsOf(i, a)
          /\ \A r \in DecisionRowsOf(i, a)' :
                \/ /\ r \in DecisionRowsOf(i, a) /\ r.decision \notin f.decisions
                   /\ f.reconcile => r.decision \in Incoming(i, a)
                \/ \E d \in f.decisions : r = NewDecisionRow(i, d)
          /\ \A r \in DecisionRowsOf(i, a) :
                r.decision \notin f.decisions /\ r.decision \in Incoming(i, a)
                    => r \in DecisionRowsOf(i, a)'
          /\ \A d \in f.decisions : NewDecisionRow(i, d) \in DecisionRowsOf(i, a)'
      BY <1>2, <1>8, <2>6 DEF Rewritten
    <3>2. AlertComing(i, a)'
      <4>1. CASE f.first
        <5>1. NewAlertRow(i, a).version = Version(i, a)
          BY DEF NewAlertRow
        <5> QED
          BY <1>6, <3>1, <4>1, <5>1 DEF AlertComing
      <4>2. CASE ~f.first
        <5>1. CASE \E k \in Coming(i, a) : fs[k].first
          <6>1. \E m \in Coming(i, a)' : ts[m].first
            BY <1>5, <2>3, <4>2, <5>1
          <6> QED
            BY <2>4, <6>1 DEF AlertComing
        <5>2. CASE \E r \in AlertRowsOf(i, a) : r.version = Version(i, a)
          BY <1>6, <3>1, <4>2, <5>2 DEF AlertComing
        <5> QED
          BY <2>1, <2>4, <5>1, <5>2 DEF AlertComing
      <4> QED
        BY <4>1, <4>2
    <3>3. ASSUME NEW d \in Incoming(i, a)
          PROVE  DecisionComing(i, a, d)'
      <4>1. AlertOf[d] = a
        BY DEF Incoming, DecisionsOf
      <4>2. CachedEnded(i, d) <=> \E r \in DecisionRowsOf(i, a) : r.decision = d /\ r.ended
        BY <4>1, EndedRows
      <4>3. CachedEnded(i, d)' <=> \E r \in DecisionRowsOf(i, a)' : r.decision = d /\ r.ended
        BY <4>1 DEF CachedEnded, DecisionRowsOf
      <4>4. CASE d \in f.decisions
        <5> PICK r : r = NewDecisionRow(i, d)
          OBVIOUS
        <5>1. r \in DecisionRowsOf(i, a)' /\ r.decision = d /\ r.ended = Ended(i, d)
          BY <3>1, <4>4 DEF NewDecisionRow
        <5>2. d \in CachedDecisions(i, a)'
          BY <5>1 DEF CachedDecisions
        <5>3. Ended(i, d) => CachedEnded(i, d)'
          BY <4>3, <5>1
        <5> QED
          BY <1>6, <5>2, <5>3 DEF DecisionComing
      <4>5. CASE d \notin f.decisions
        <5>1. CASE \E k \in Coming(i, a) : d \in fs[k].decisions
          <6>1. \E m \in Coming(i, a)' : d \in ts[m].decisions
            BY <1>5, <2>3, <4>5, <5>1
          <6> QED
            BY <2>4, <6>1 DEF DecisionComing
        <5>2. CASE d \in CachedDecisions(i, a) /\ (Ended(i, d) => CachedEnded(i, d))
          <6>1. \A r \in DecisionRowsOf(i, a) : r.decision = d => r \in DecisionRowsOf(i, a)'
            BY <3>1, <3>3, <4>5
          <6>2. d \in CachedDecisions(i, a)'
            BY <5>2, <6>1 DEF CachedDecisions
          <6>3. CachedEnded(i, d) => CachedEnded(i, d)'
            BY <4>2, <4>3, <6>1
          <6> QED
            BY <1>6, <5>2, <6>2, <6>3 DEF DecisionComing
        <5> QED
          BY <2>1, <2>4, <3>3, <5>1, <5>2 DEF DecisionComing
      <4> QED
        BY <4>4, <4>5
    <3>4. ASSUME ~sync[i].bulk, NEW d \in CachedDecisions(i, a)', d \notin Incoming(i, a)
          PROVE  Leaving(i, a, d)'
      <4>1. PICK r \in DecisionRowsOf(i, a)' : r.decision = d
        BY <3>4 DEF CachedDecisions
      <4>2. ~\E e \in f.decisions : r = NewDecisionRow(i, e)
        <5>1. f.decisions \subseteq Incoming(i, a)
          BY <1>1, <2>6 DEF FragmentOK
        <5>2. \A e : NewDecisionRow(i, e).decision = e
          BY DEF NewDecisionRow
        <5> QED
          BY <3>4, <4>1, <5>1, <5>2
      <4>3. r \in DecisionRowsOf(i, a) /\ ~f.reconcile
        BY <3>1, <3>4, <4>1, <4>2
      <4>4. d \in CachedDecisions(i, a)
        BY <4>1, <4>3 DEF CachedDecisions
      <4>5. Leaving(i, a, d)
        BY <2>1, <3>4, <4>4
      <4>6. CASE d \in sync[i].removed
        BY <1>3, <1>4, <4>6 DEF Leaving
      <4>7. CASE \E k \in Coming(i, a) : fs[k].reconcile
        <5>1. \E m \in Coming(i, a)' : ts[m].reconcile
          BY <1>5, <2>3, <4>3, <4>7
        <5> QED
          BY <2>4, <5>1 DEF Leaving
      <4> QED
        BY <2>4, <4>5, <4>6, <4>7 DEF Leaving
    <3> QED
      BY <1>3, <1>4, <1>6, <3>2, <3>3, <3>4 DEF Converging
  <2> QED
    BY <2>5, <2>6
<1>9. \A d \in s.removed : d \notin Incoming(i, AlertOf[d])
  BY <1>3 DEF MirrorOf
<1> QED
  BY <1>3, <1>4, <1>6, <1>8, <1>9 DEF MirrorOf

(* Without fragments to write, the deltas of a delta sync are all that is    *)
(* still to be removed.                                                      *)
LEMMA NothingComing ==
  ASSUME NEW i, NEW a, Converging(i, a), sync[i].fragments = <<>>
  PROVE  /\ \E r \in AlertRowsOf(i, a) : r.version = Version(i, a)
         /\ \A d \in Incoming(i, a) :
               d \in CachedDecisions(i, a) /\ (Ended(i, d) => CachedEnded(i, d))
         /\ ~sync[i].bulk => \A d \in CachedDecisions(i, a) \ Incoming(i, a) : d \in sync[i].removed
<1>1. Coming(i, a) = {}
  BY DEF Coming
<1> QED
  BY <1>1 DEF Converging, AlertComing, DecisionComing, Leaving

(* Only the keys of the primary instance are upstream IDs.                   *)
LEMMA MirrorRemove ==
  ASSUME WindowInv, NEW i \in Instances, i = Primary, MirrorOf(i), RemoveDecisions(i)
  PROVE  MirrorOf(i)'
<1> PICK rm : rm = sync[i].removed
  OBVIOUS
<1>1. /\ sync[i].phase = "persist" /\ sync[i].fragments = <<>> /\ ~sync[i].bulk
      /\ decisionRows' = {r \in decisionRows : r.key \notin rm} /\ UNCHANGED <<alertRows, tombs>>
      /\ sync' = [sync EXCEPT ![i].phase = "prune"]
  BY DEF RemoveDecisions
<1>2. \E s, z : PhaseTo(i, s, "prune", z)
  <2>1. sync[i].phase \in {"persist", "prune"} /\ UNCHANGED <<lapi, tombs>>
    BY DEF RemoveDecisions
  <2> PICK p : p = "prune"
    OBVIOUS
  <2> QED
    BY <1>1, <2>1, PhaseMoves
<1> PICK s, z : PhaseTo(i, s, "prune", z)
  BY <1>2
<1>3. /\ s = sync[i] /\ sync' = [sync EXCEPT ![i] = z] /\ DOMAIN sync = Instances
      /\ z.phase = "prune" /\ z.fetched = s.fetched /\ z.bulk = s.bulk
  BY SyncOf DEF PhaseTo
<1>4. sync'[i] = z
  BY <1>3
<1>5. /\ FetchedAlerts(i)' = FetchedAlerts(i)
      /\ \A a : Incoming(i, a)' = Incoming(i, a) /\ Version(i, a)' = Version(i, a)
      /\ \A d : Ended(i, d)' = Ended(i, d)
  BY <1>3, <1>4, SameAnswers
<1>6. \A r \in decisionRows : r.instance = i => r.key = r.decision
  BY DEF WindowInv, TablesOK, DecisionKey
<1>7. /\ \A a \in FetchedAlerts(i) : <<i, a>> \notin tombs => Converging(i, a)
      /\ \A d \in rm : d \notin Incoming(i, AlertOf[d])
  BY <1>1 DEF MirrorOf
<1>8. ASSUME NEW a \in FetchedAlerts(i), <<i, a>> \notin tombs
      PROVE  Mirrors(i, a)'
  <2>1. /\ \E r \in AlertRowsOf(i, a) : r.version = Version(i, a)
        /\ \A d \in Incoming(i, a) :
              d \in CachedDecisions(i, a) /\ (Ended(i, d) => CachedEnded(i, d))
        /\ \A d \in CachedDecisions(i, a) \ Incoming(i, a) : d \in rm
    BY <1>1, <1>7, <1>8, NothingComing
  <2>2. AlertRowsOf(i, a)' = AlertRowsOf(i, a)
    BY <1>1 DEF AlertRowsOf
  <2>3. \A d \in Incoming(i, a) : AlertOf[d] = a
    BY DEF Incoming, DecisionsOf
  <2>4. \A r \in decisionRows : r.instance = i /\ r.decision \in Incoming(i, a) => r \in decisionRows'
    BY <1>1, <1>6, <1>7, <2>3
  <2>5. Incoming(i, a) \subseteq CachedDecisions(i, a)'
    BY <2>1, <2>4 DEF CachedDecisions, DecisionRowsOf
  <2>6. \A d \in Incoming(i, a) : CachedEnded(i, d) => CachedEnded(i, d)'
    BY <2>4 DEF CachedEnded
  <2>7. CachedDecisions(i, a)' \subseteq Incoming(i, a)
    <3> SUFFICES ASSUME NEW d \in CachedDecisions(i, a)', d \notin Incoming(i, a) PROVE FALSE
      OBVIOUS
    <3>1. PICK r \in decisionRows' : r.instance = i /\ AlertOf[r.decision] = a /\ r.decision = d
      BY DEF CachedDecisions, DecisionRowsOf
    <3>2. r \in decisionRows /\ r.key \notin rm /\ r.key = d
      BY <1>1, <1>6, <3>1
    <3>3. d \in CachedDecisions(i, a)
      BY <3>1, <3>2 DEF CachedDecisions, DecisionRowsOf
    <3> QED
      BY <2>1, <3>2, <3>3
  <2>8. Version(i, a) > 0
    BY DEF FetchedAlerts, Version
  <2> QED
    BY <1>5, <2>1, <2>2, <2>5, <2>6, <2>7, <2>8 DEF Mirrors
<1> QED
  BY <1>1, <1>3, <1>4, <1>5, <1>8 DEF MirrorOf

(* An alert that was not fetched has no decisions in the answer.             *)
LEMMA NotFetched ==
  ASSUME WindowInv, NEW i \in Instances, NEW a \in Alerts, a \notin FetchedAlerts(i)
  PROVE  Version(i, a) = 0 /\ Incoming(i, a) = {}
<1>1. /\ sync[i].fetched.versions \in [Alerts -> Nat] /\ Consistent(sync[i].fetched)
  BY SyncOf DEF LapiContents, SyncOK
<1>2. Version(i, a) \in Nat /\ ~(Version(i, a) > 0)
  BY <1>1 DEF Version, FetchedAlerts
<1>3. Incoming(i, a) = {}
  BY <1>1, <1>2 DEF Incoming, DecisionsOf, Consistent, Version
<1> QED
  BY <1>2, <1>3

LEMMA MirrorDelete ==
  ASSUME WindowInv, NEW i \in Instances, MirrorOf(i), DeleteMissing(i)
  PROVE  MirrorOf(i)'
<1> PICK m : m = Missing(i)
  OBVIOUS
<1>1. /\ sync[i].phase = "prune"
      /\ alertRows' = {r \in alertRows : ~(r.instance = i /\ r.alert \in m)}
      /\ decisionRows' = {r \in decisionRows : ~(r.instance = i /\ AlertOf[r.decision] \in m)}
      /\ sync' = [sync EXCEPT ![i].phase = "done"]
      /\ UNCHANGED <<lapi, tombs>>
  BY DEF DeleteMissing
<1>2. \E s, z : PhaseTo(i, s, "done", z)
  BY <1>1, PhaseMoves
<1> PICK s, z : PhaseTo(i, s, "done", z)
  BY <1>2
<1>3. /\ s = sync[i] /\ sync' = [sync EXCEPT ![i] = z] /\ DOMAIN sync = Instances
      /\ z.phase = "done" /\ z.fetched = s.fetched /\ z.bulk = s.bulk /\ z.todo = s.todo
  BY SyncOf DEF PhaseTo
<1>4. sync'[i] = z /\ Window(i)' = Window(i)
  BY <1>3 DEF Window
<1>5. /\ \A a : Incoming(i, a)' = Incoming(i, a) /\ Version(i, a)' = Version(i, a)
  BY <1>3, <1>4, SameAnswers
<1>6. ASSUME NEW a \in Alerts, InWindow(a, Window(i)), <<i, a>> \notin tombs
      PROVE  Mirrors(i, a)'
  <2>1. CASE a \in FetchedAlerts(i)
    <3>1. a \notin m
      BY <2>1 DEF Missing
    <3>2. AlertRowsOf(i, a)' = AlertRowsOf(i, a) /\ DecisionRowsOf(i, a)' = DecisionRowsOf(i, a)
      BY <1>1, <3>1 DEF AlertRowsOf, DecisionRowsOf
    <3>3. Mirrors(i, a)
      BY <1>1, <1>6, <2>1 DEF MirrorOf
    <3>4. sync'[i].fetched = sync[i].fetched /\ sync'[i].bulk = sync[i].bulk
      BY <1>3, <1>4
    <3> QED
      BY <3>2, <3>3, <3>4, SameMirror
  <2>2. CASE a \notin FetchedAlerts(i)
    <3>1. a \in m
      BY <1>6, <2>2 DEF Missing
    <3>2. AlertRowsOf(i, a)' = {} /\ DecisionRowsOf(i, a)' = {}
      BY <1>1, <3>1 DEF AlertRowsOf, DecisionRowsOf
    <3>3. Version(i, a) = 0 /\ Incoming(i, a) = {}
      BY <2>2, NotFetched
    <3>4. CachedDecisions(i, a)' = {}
      BY <3>2 DEF CachedDecisions
    <3> QED
      BY <1>5, <3>2, <3>3, <3>4 DEF Mirrors
  <2> QED
    BY <2>1, <2>2
<1> QED
  BY <1>1, <1>3, <1>4, <1>6 DEF MirrorOf

(* The bulk import only adds.                                                *)
LEMMA MirrorBulk ==
  ASSUME WindowInv, NEW i \in Instances, MirrorOf(i), BulkDone(i)
  PROVE  MirrorOf(i)'
<1> PICK s : s = sync[i]
  OBVIOUS
<1> PICK z : z = [s EXCEPT !.phase = "done"]
  OBVIOUS
<1>1. /\ s.phase = "persist" /\ s.fragments = <<>> /\ s.bulk
      /\ sync' = [sync EXCEPT ![i] = z] /\ UNCHANGED <<lapi, alertRows, decisionRows, tombs>>
  BY DEF BulkDone, WindowInv
<1>2. DOMAIN sync = Instances
      /\ s = [phase |-> s.phase, todo |-> s.todo, fetched |-> s.fetched,
              fragments |-> s.fragments, removed |-> s.removed, bulk |-> s.bulk]
  BY SyncOf
<1>3. z.phase = "done" /\ z.fetched = s.fetched /\ z.todo = s.todo /\ z.bulk = s.bulk
  BY <1>2
<1>4. sync'[i] = z /\ Window(i)' = Window(i)
  BY <1>1, <1>2, <1>3 DEF Window
<1>5. ASSUME NEW a \in Alerts, InWindow(a, Window(i)), <<i, a>> \notin tombs
      PROVE  Mirrors(i, a)
  <2>1. CASE a \in FetchedAlerts(i)
    <3>1. Converging(i, a)
      BY <1>1, <1>5, <2>1 DEF MirrorOf
    <3> QED
      BY <1>1, <3>1, NothingComing DEF Mirrors
  <2>2. CASE a \notin FetchedAlerts(i)
    BY <1>1, <2>2, NotFetched DEF Mirrors
  <2> QED
    BY <2>1, <2>2
<1>6. \A a \in Alerts : AlertRowsOf(i, a)' = AlertRowsOf(i, a)
                        /\ DecisionRowsOf(i, a)' = DecisionRowsOf(i, a)
  BY <1>1 DEF AlertRowsOf, DecisionRowsOf
<1>7. \A a \in Alerts : Mirrors(i, a)' <=> Mirrors(i, a)
  BY <1>3, <1>4, <1>6, SameMirror
<1> QED
  BY <1>1, <1>3, <1>4, <1>5, <1>7 DEF MirrorOf

(* With the primary instance alone, as without further instances in the      *)
(* configuration, a window that is done leaves the cache as LAPI answered,   *)
(* whatever failed, was interrupted or was deleted before. With further      *)
(* instances it does not: RemoveDecisions takes upstream IDs for keys.       *)
THEOREM CacheMirrorsLapi ==
  ASSUME Instances = {Primary}
  PROVE  WindowSyncSpec => []MirrorsLapi
<1>1. WindowSyncInit => MirrorInv
  BY DEF WindowSyncInit, MirrorInv, MirrorOf, NoSync
<1>2. WindowInv /\ MirrorInv /\ [WindowSyncNext]_syncVars => MirrorInv'
  <2> SUFFICES ASSUME WindowInv, MirrorInv, [WindowSyncNext]_syncVars, NEW i \in Instances
               PROVE  MirrorOf(i)'
    BY DEF MirrorInv
  <2>0. MirrorOf(i) /\ i = Primary /\ SyncOK(sync[i]) /\ DOMAIN sync = Instances
    BY DEF MirrorInv, WindowInv
  <2>1. CASE UNCHANGED syncVars \/ LapiChanges
    <3>1. UNCHANGED <<alertRows, decisionRows, tombs, sync>>
      BY <2>1 DEF syncVars, LapiChanges
    <3>2. \A a \in Alerts : /\ AlertRowsOf(i, a)' = AlertRowsOf(i, a)
                            /\ DecisionRowsOf(i, a)' = DecisionRowsOf(i, a)
      BY <3>1 DEF AlertRowsOf, DecisionRowsOf
    <3> QED
      BY <2>0, <3>1, <3>2, MirrorElsewhere
  <2>2. CASE UserDeletes
    <3> PICK j \in Instances, b \in Alerts :
          /\ tombs' = tombs \cup {<<j, b>>}
          /\ alertRows' = alertRows \ AlertRowsOf(j, b)
          /\ decisionRows' = decisionRows \ DecisionRowsOf(j, b)
          /\ UNCHANGED sync
      BY <2>2 DEF UserDeletes
    <3>1. \A a \in Alerts : <<i, a>> \notin tombs' =>
            /\ AlertRowsOf(i, a)' = AlertRowsOf(i, a)
            /\ DecisionRowsOf(i, a)' = DecisionRowsOf(i, a)
      BY DEF AlertRowsOf, DecisionRowsOf
    <3> QED
      BY <2>0, <3>1, MirrorElsewhere
  <2>3. CASE ProcessDies
    <3>1. sync'[i].phase = "idle"
      BY <2>3 DEF ProcessDies, NoSync
    <3> QED
      BY <3>1, MirrorNothing
  <2>4. CASE Start(i)
    <3>1. sync'[i].phase = "fetch"
      BY <2>0, <2>4 DEF Start, NoSync
    <3> QED
      BY <3>1, MirrorNothing
  <2>5. CASE Fetch(i)
    <3>1. sync'[i].phase = "compare"
      <4> PICK s : s = sync[i]
        OBVIOUS
      <4>1. PICK f : sync' = [sync EXCEPT ![i].phase = "compare", ![i].fetched = f]
        BY <2>5 DEF Fetch
      <4>2. s = [phase |-> s.phase, todo |-> s.todo, fetched |-> s.fetched,
                 fragments |-> s.fragments, removed |-> s.removed, bulk |-> s.bulk]
        BY SyncOf
      <4> QED
        BY <2>0, <4>1, <4>2
    <3> QED
      BY <3>1, MirrorNothing
  <2>6. CASE WindowFails(i) \/ WindowDone(i)
    <3> PICK s : s = sync[i]
      OBVIOUS
    <3>1. s.phase # "idle" /\ \E z \in {Onward(s), SplitUp(s)} : sync' = [sync EXCEPT ![i] = z]
      BY <2>6 DEF WindowFails, WindowDone
    <3>2. sync'[i].phase \in {"idle", "fetch"}
      BY <2>0, <3>1, OnwardOK, SplitUpOK
    <3> QED
      BY <3>2, MirrorNothing
  <2>7. CASE Compare(i)
    BY <2>7, MirrorCompare
  <2>8. CASE PersistFragment(i)
    BY <2>0, <2>8, MirrorPersist
  <2>9. CASE RemoveDecisions(i)
    BY <2>0, <2>9, MirrorRemove
  <2>10. CASE DeleteMissing(i)
    BY <2>0, <2>10, MirrorDelete
  <2>11. CASE BulkDone(i)
    BY <2>0, <2>11, MirrorBulk
  <2>12. \A j \in Instances : j = i
    OBVIOUS
  <2> QED
    BY <2>1, <2>2, <2>3, <2>4, <2>5, <2>6, <2>7, <2>8, <2>9, <2>10, <2>11, <2>12
       DEF WindowSyncNext, Step, Write
<1>3. MirrorInv => MirrorsLapi
  BY DEF MirrorInv, MirrorOf, MirrorsLapi
<1> QED
  BY <1>1, <1>2, <1>3, WindowsInOrder, PTL DEF WindowSyncSpec
=============================================================================
