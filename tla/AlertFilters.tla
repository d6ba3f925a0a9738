----------------------------- MODULE AlertFilters -----------------------------
(* Which alerts the cache holds. The filters of the configuration            *)
(* (src/server/config.ts) are applied three times: to the queries LAPI is    *)
(* asked, to its answers, and, when the configuration has changed, to what   *)
(* is cached already (src/server/app/sync-service.ts). An alert is           *)
(* abstracted to its effective origins, the text they are stored as, and its *)
(* scenario; names are normalised, as the code does before it compares them. *)

CAPI == "CAPI"
Unfiltered == "none"    \* LEGACY_UNFILTERED_ALERT_ORIGIN_TOKENS
Anything == ""               \* a query without an origin, or without a scenario

Modes == {"new", "legacy", "default"}

-----------------------------------------------------------------------------
(* The environment: which variables are set, and what they parse to. A       *)
(* parsed list has no blank entries.                                         *)
IsEnvironment(env) ==
    /\ env.hasNew \in BOOLEAN /\ env.hasLegacy \in BOOLEAN
    /\ env.includeCapi \in BOOLEAN
    /\ env.includeEmpty \in BOOLEAN /\ env.excludeEmpty \in BOOLEAN
    /\ Anything \notin env.include /\ Anything \notin env.exclude
    /\ Anything \notin env.origins /\ Anything \notin env.scenarios

(* The new variables win over the old ones, and the old ones are only read   *)
(* in a configuration that sets one of them.                                 *)
FilterConfig(env) ==
    IF env.hasNew THEN
        [mode |-> "new", include |-> env.include, exclude |-> env.exclude,
         includeCapi |-> env.includeCapi, includeEmpty |-> env.includeEmpty,
         excludeEmpty |-> env.excludeEmpty,
         origins |-> env.origins, scenarios |-> env.scenarios]
    ELSE IF env.hasLegacy THEN
        [mode |-> "legacy", include |-> env.origins \ {CAPI, Unfiltered}, exclude |-> {},
         includeCapi |-> CAPI \in env.origins, includeEmpty |-> FALSE,
         excludeEmpty |-> FALSE,
         origins |-> env.origins, scenarios |-> env.scenarios]
    ELSE
        [mode |-> "default", include |-> {}, exclude |-> {},
         includeCapi |-> FALSE, includeEmpty |-> FALSE, excludeEmpty |-> FALSE,
         origins |-> {}, scenarios |-> {}]

(* The alert's origins are those of its decisions; without decisions, that   *)
(* of its source scope.                                                      *)
EffectiveOrigins(decisionOrigins, scope) ==
    IF decisionOrigins # {} THEN decisionOrigins
    ELSE IF scope = "community-blocklist" THEN {CAPI}
    ELSE IF scope = "lists" THEN {"lists"}
    ELSE {}

(* An alert of several origins has these as one text in the cache, joined by *)
(* spaces: neither empty nor the single word of CAPI.                        *)
IsAlert(alert) == alert.joined \notin {Anything, CAPI}

SingleOrigin(alert) == \A o, p \in alert.origins : o = p

(* A row as the cleanup reads it: it splits the text at newlines, and there  *)
(* are none.                                                                 *)
AsText(alert) ==
    [origins |-> {alert.joined}, joined |-> alert.joined, scenario |-> alert.scenario]
AsRead(alert) == IF SingleOrigin(alert) THEN alert ELSE AsText(alert)

-----------------------------------------------------------------------------
(* The queries of a synchronization.                                         *)
Query(origin, scenario) == [origin |-> origin, scenario |-> scenario, capi |-> origin = CAPI]

LegacyQueries(config) ==
    {Query(o, Anything) : o \in config.origins \ {Unfiltered}}
        \cup (IF Unfiltered \in config.origins THEN {Query(Anything, Anything)} ELSE {})
        \cup {Query(Anything, s) : s \in config.scenarios}

IncludedOrigins(config) ==
    config.include \cup (IF config.includeCapi THEN {CAPI} ELSE {})

NewQueries(config) ==
    (IF config.includeEmpty \/ config.include = {} THEN {Query(Anything, Anything)} ELSE {})
        \cup {Query(o, Anything) : o \in IncludedOrigins(config) \ ({CAPI} \cap config.exclude)}

ConfiguredQueries(config) ==
    IF config.mode = "legacy" THEN LegacyQueries(config)
    ELSE IF config.mode = "new" THEN NewQueries(config)
    ELSE {}

HasExplicitIncludes(config) == config.include # {} \/ config.includeEmpty

(* Without a configured query LAPI is asked for everything but CAPI's        *)
(* alerts, unless only excluded origins were asked for.                      *)
SyncQueries(config) ==
    IF ConfiguredQueries(config) # {} THEN ConfiguredQueries(config)
    ELSE IF config.mode = "new" /\ HasExplicitIncludes(config) THEN {}
    ELSE {Query(Anything, Anything)}

(* What LAPI answers: alerts with that origin or of that scenario, and none  *)
(* that is CAPI's alone to a query that does not include them.               *)
Answers(query, alert) ==
    /\ query.origin # Anything => query.origin \in alert.origins
    /\ query.scenario # Anything => alert.scenario = query.scenario
    /\ query.capi \/ alert.origins # {CAPI}

-----------------------------------------------------------------------------
(* The filters of an answer. *)
Included(config, alert) ==
    IF config.mode # "new" \/ ~HasExplicitIncludes(config) THEN TRUE
    ELSE IF alert.origins = {} THEN config.includeEmpty
    ELSE alert.origins \cap IncludedOrigins(config) # {}

Excluded(config, alert) ==
    IF alert.origins = {} THEN config.excludeEmpty
    ELSE alert.origins \cap config.exclude # {}

Stored(config, alert) == Included(config, alert) /\ ~Excluded(config, alert)

Fetched(config, alert) ==
    /\ \E query \in SyncQueries(config) : Answers(query, alert)
    /\ Stored(config, alert)

-----------------------------------------------------------------------------
(* The filter of the cache. *)
MatchesScenario(config, alert) == alert.scenario # Anything /\ alert.scenario \in config.scenarios

LegacyUnfiltered(config) ==
    Unfiltered \in config.origins \/ (config.origins = {} /\ config.scenarios = {})

KeptByNew(config, alert) ==
    IF Excluded(config, alert) THEN FALSE
    ELSE IF HasExplicitIncludes(config) THEN Included(config, alert)
    ELSE IF alert.origins = {} THEN ~config.excludeEmpty
    ELSE alert.origins \ {CAPI} # {} \/ config.includeCapi

KeptByLegacy(config, alert) ==
    IF alert.origins = {} THEN LegacyUnfiltered(config) \/ MatchesScenario(config, alert)
    ELSE \/ alert.origins \cap config.origins # {}
         \/ /\ alert.origins \ {CAPI} # {}
            /\ LegacyUnfiltered(config) \/ MatchesScenario(config, alert)
         \/ CAPI \notin alert.origins /\ MatchesScenario(config, alert)

KeptByDefault(alert) == alert.origins = {} \/ alert.origins \ {CAPI} # {}

KeptInCache(config, alert) ==
    IF config.mode = "new" THEN KeptByNew(config, AsRead(alert))
    ELSE IF config.mode = "legacy" THEN KeptByLegacy(config, AsRead(alert))
    ELSE KeptByDefault(AsRead(alert))

(* The filter of a cached decision whose alert is not cached any more. *)
DecisionKept(config, origin) ==
    IF origin = Anything THEN
        IF config.mode = "new"
        THEN ~config.excludeEmpty /\ (HasExplicitIncludes(config) => config.includeEmpty)
        ELSE config.mode = "legacy" => LegacyUnfiltered(config)
    ELSE IF config.mode = "new" THEN
        /\ origin \notin config.exclude
        /\ IF HasExplicitIncludes(config) THEN origin \in IncludedOrigins(config)
           ELSE origin # CAPI \/ config.includeCapi
    ELSE IF config.mode = "legacy" THEN
        \/ origin \in config.origins
        \/ origin # CAPI /\ LegacyUnfiltered(config)
    ELSE origin # CAPI
=============================================================================
