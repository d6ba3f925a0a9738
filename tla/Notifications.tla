---------------------------- MODULE Notifications ----------------------------
(* The evaluation of notification rules: runNotificationEvaluation() in      *)
(* src/server/app/sync-service.ts and evaluateRules() with its incidents,    *)
(* deliveries and batched writes in src/server/notifications.ts, against     *)
(* edits of the rules and crashes. A condition of a rule is the dedupe key   *)
(* under which its query reports it; which alerts or decisions make it true  *)
(* is the environment's choice. A rule of the type "lapi-availability"       *)
(* derives its own conditions from the state of LAPI and its incidents.      *)
EXTENDS Naturals, FiniteSets, Sequences, SequencesExt

CONSTANTS
    Rules,          \* the rules, in the order in which they are listed
    Availability,   \* those of the type lapi-availability
    Conditions,     \* the dedupe keys of the other rules
    BatchSize,      \* NOTIFICATION_WRITE_BATCH_SIZE
    MaxTroubles     \* bound: edits of rules, exceptions and crashes, together

RuleSet == ToSet(Rules)

ASSUME NotificationAssumption ==
    /\ Rules \in Seq(RuleSet)
    /\ Availability \subseteq RuleSet
    /\ IsFiniteSet(Conditions)
    /\ BatchSize \in Nat \ {0}
    /\ MaxTroubles \in Nat

VARIABLES
    rules,      \* per rule: "on", "off" or "deleted"
    holds,      \* per rule: the conditions that hold in the cache
    lapi,       \* the status of LAPI: "up", "down" or "outage" (past the threshold)
    incidents,  \* per rule: the active incidents, stored
    eval,       \* the running evaluation: notificationEvaluation
    rerun,      \* notificationEvaluationRerunRequested
    told,       \* per rule: the conditions sent for their present occurrence
    troubles    \* what remains of MaxTroubles

notificationVars == <<rules, holds, lapi, incidents, eval, rerun, told, troubles>>

KeysOf(r) == IF r \in Availability THEN {"offline", "recovery"} ELSE Conditions

NoEval == [phase |-> "idle", todo |-> {}, cand |-> {}, active |-> {},
           key |-> "none", writes |-> <<>>, final |-> FALSE]

NotificationInit ==
    /\ rules = [r \in RuleSet |-> "on"]
    /\ holds = [r \in RuleSet |-> {}]
    /\ lapi = "up"
    /\ incidents = [r \in RuleSet |-> {}]
    /\ eval = NoEval
    /\ rerun = FALSE
    /\ told = [r \in RuleSet |-> {}]
    /\ troubles = MaxTroubles

Trouble == troubles > 0 /\ troubles' = troubles - 1

(* The first of the rules that are left. *)
Rule == Rules[Min({i \in DOMAIN Rules : Rules[i] \in eval.todo})]

(* What was sent but is not yet written. *)
Unrecorded ==
    {w.key : w \in {x \in ToSet(eval.writes) : x.op = "insert"}}
        \cup (IF eval.phase = "send" THEN {eval.key} ELSE {})

(* A crash or an exception forgets it: the next evaluation sends it again.   *)
Forgotten == IF eval.todo = {} THEN told ELSE [told EXCEPT ![Rule] = @ \ Unrecorded]

-----------------------------------------------------------------------------
(* The cache and LAPI change. *)
ConditionChanges ==
    /\ \E r \in RuleSet \ Availability, k \in Conditions :
        holds' = [holds EXCEPT ![r] = IF k \in @ THEN @ \ {k} ELSE @ \cup {k}]
    /\ UNCHANGED <<rules, lapi, incidents, eval, rerun, told, troubles>>

(* LapiClient.updateStatus(): offline_since starts anew after each success. *)
LapiChanges ==
    /\ Availability # {}
    /\ \/ lapi = "up" /\ lapi' = "down"
       \/ lapi = "down" /\ lapi' \in {"up", "outage"}
       \/ lapi = "outage" /\ lapi' = "up"
    /\ UNCHANGED <<rules, holds, incidents, eval, rerun, told, troubles>>

-----------------------------------------------------------------------------
(* evaluateRules() starts with the rules that are enabled at that moment. *)
NewEvaluation ==
    LET enabled == {r \in RuleSet : rules[r] = "on"}
    IN  IF enabled = {} THEN NoEval
        ELSE [NoEval EXCEPT !.phase = "query", !.todo = enabled]

TriggerAtOnce ==
    /\ eval' = NewEvaluation
    /\ UNCHANGED <<rules, holds, lapi, incidents, rerun, told, troubles>>

(* runNotificationEvaluation(): every refresh, deletion and decision calls   *)
(* it; a call during an evaluation asks for another one.                     *)
Trigger ==
    /\ IF eval.phase = "idle" THEN eval' = NewEvaluation /\ UNCHANGED rerun
       ELSE rerun' = TRUE /\ UNCHANGED eval
    /\ UNCHANGED <<rules, holds, lapi, incidents, told, troubles>>

(* The evaluation is over; a rerun that was requested starts at once. *)
EvaluationOver ==
    /\ eval' = IF rerun THEN NewEvaluation ELSE NoEval
    /\ rerun' = FALSE

NextRule ==
    IF eval.todo = {Rule} THEN EvaluationOver
    ELSE /\ eval' = [NoEval EXCEPT !.phase = "query", !.todo = eval.todo \ {Rule}]
         /\ UNCHANGED rerun

(* evaluateLapiAvailabilityRule(), with recovery notifications enabled. *)
AvailabilityConditions(r) ==
    IF lapi = "outage" THEN {"offline"}
    ELSE IF lapi = "up" /\ "offline" \in incidents[r] THEN {"recovery"}
    ELSE {}

(* evaluateRule(): the query worker answers. *)
Query ==
    /\ eval.phase = "query"
    /\ eval' = [eval EXCEPT !.phase = "load",
                            !.cand = IF Rule \in Availability
                                     THEN AvailabilityConditions(Rule)
                                     ELSE holds[Rule]]
    /\ UNCHANGED <<rules, holds, lapi, incidents, rerun, told, troubles>>

QueryFailsStuck ==
    /\ eval.phase = "query"
    /\ Trouble
    /\ eval' = [eval EXCEPT !.phase = "failed"]
    /\ UNCHANGED <<rules, holds, lapi, incidents, rerun, told>>

(* It throws: the rules after it are not evaluated this time. *)
QueryFails ==
    /\ eval.phase = "query"
    /\ Trouble
    /\ EvaluationOver
    /\ UNCHANGED <<rules, holds, lapi, incidents, told>>

Write(op, k) == [op |-> op, key |-> k]

(* loadActiveIncidents(): incidents whose condition is gone are resolved,    *)
(* those whose condition holds are touched; conditions without an incident   *)
(* are left to be sent.                                                      *)
LoadIncidents ==
    /\ eval.phase = "load"
    /\ LET active == incidents[Rule]
       IN  eval' = [eval EXCEPT
            !.phase = "loop",
            !.active = active,
            !.writes = [i \in 1..Cardinality(active \ eval.cand) |->
                            Write("resolve", SetToSeq(active \ eval.cand)[i])]]
    /\ UNCHANGED <<rules, holds, lapi, incidents, rerun, told, troubles>>

Choice == CHOOSE k \in eval.cand : TRUE

(* The next candidate has an incident: it is kept active. *)
Touch ==
    /\ eval.phase = "loop" /\ eval.cand # {}
    /\ Choice \in eval.active
    /\ eval' = [eval EXCEPT !.cand = @ \ {Choice},
                            !.writes = Append(@, Write("touch", Choice))]
    /\ UNCHANGED <<rules, holds, lapi, incidents, rerun, told, troubles>>

(* It has none: sendToChannel() starts for the channels of the rule. *)
Send ==
    /\ eval.phase = "loop" /\ eval.cand # {}
    /\ Choice \notin eval.active
    /\ eval' = [eval EXCEPT !.phase = "send", !.key = Choice, !.cand = @ \ {Choice}]
    /\ told' = [told EXCEPT ![Rule] = @ \cup {Choice}]
    /\ UNCHANGED <<rules, holds, lapi, incidents, rerun, troubles>>

SentLazily ==
    /\ eval.phase = "send"
    /\ eval' = [eval EXCEPT !.phase = "loop", !.key = "none",
                            !.writes = Append(@, Write("insert", eval.key))]
    /\ UNCHANGED <<rules, holds, lapi, incidents, rerun, told, troubles>>

(* Delivered or failed, the attempt is recorded; a full batch is written     *)
(* before the next candidate is looked at.                                   *)
Sent ==
    /\ eval.phase = "send"
    /\ LET writes == Append(eval.writes, Write("insert", eval.key))
       IN  eval' = [eval EXCEPT !.phase = IF Len(writes) >= BatchSize THEN "flush" ELSE "loop",
                                !.key = "none", !.writes = writes]
    /\ UNCHANGED <<rules, holds, lapi, incidents, rerun, told, troubles>>

(* All candidates are dealt with: what is left is written. *)
Finish ==
    /\ eval.phase = "loop" /\ eval.cand = {}
    /\ IF eval.writes = <<>> THEN NextRule
       ELSE eval' = [eval EXCEPT !.phase = "flush", !.final = TRUE] /\ UNCHANGED rerun
    /\ UNCHANGED <<rules, holds, lapi, incidents, told, troubles>>

(* A batch is one transaction; resolving an incident ends its occurrence. *)
Batch == SubSeq(eval.writes, 1, IF Len(eval.writes) < BatchSize THEN Len(eval.writes)
                                ELSE BatchSize)
Resolved == {w.key : w \in {x \in ToSet(Batch) : x.op = "resolve"}}
Kept == {w.key : w \in {x \in ToSet(Batch) : x.op # "resolve"}}

(* flushWrites() *)
Flush ==
    /\ eval.phase = "flush"
    /\ incidents' = [incidents EXCEPT ![Rule] = (@ \ Resolved) \cup Kept]
    /\ told' = [told EXCEPT ![Rule] = @ \ Resolved]
    /\ LET rest == SubSeq(eval.writes, Len(Batch) + 1, Len(eval.writes))
       IN  IF rest = <<>> /\ eval.final THEN NextRule
           ELSE /\ eval' = [eval EXCEPT !.writes = rest,
                                        !.phase = IF rest = <<>> THEN "loop" ELSE "flush"]
                /\ UNCHANGED rerun
    /\ UNCHANGED <<rules, holds, lapi, troubles>>

FlushFails ==
    /\ eval.phase = "flush"
    /\ Trouble
    /\ told' = Forgotten
    /\ EvaluationOver
    /\ UNCHANGED <<rules, holds, lapi, incidents>>

-----------------------------------------------------------------------------
(* The routes that change rules; each is one write of the database, between  *)
(* the steps of an evaluation.                                               *)

(* updateRule(): a new configuration and a rule that is disabled forget the  *)
(* incidents (shouldResetIncidentState), a rule that is enabled does not.    *)
UpdateRule ==
    \E r \in RuleSet, state \in {"on", "off"} :
        /\ rules[r] # "deleted"
        /\ Trouble
        /\ rules' = [rules EXCEPT ![r] = state]
        /\ \/ /\ incidents' = [incidents EXCEPT ![r] = {}]
              /\ told' = [told EXCEPT ![r] = {}]
           \/ /\ state = "on"
              /\ UNCHANGED <<incidents, told>>
        /\ UNCHANGED <<holds, lapi, eval, rerun>>

DeleteRule ==
    \E r \in RuleSet :
        /\ rules[r] # "deleted"
        /\ Trouble
        /\ rules' = [rules EXCEPT ![r] = "deleted"]
        /\ incidents' = [incidents EXCEPT ![r] = {}]
        /\ told' = [told EXCEPT ![r] = {}]
        /\ UNCHANGED <<holds, lapi, eval, rerun>>

(* The process ends and starts again with what is stored. *)
Crash ==
    /\ Trouble
    /\ eval' = NoEval
    /\ rerun' = FALSE
    /\ told' = Forgotten
    /\ UNCHANGED <<rules, holds, lapi, incidents>>

Evaluation == Query \/ QueryFails \/ LoadIncidents \/ Touch \/ Send \/ Sent
              \/ Finish \/ Flush \/ FlushFails
Environment == ConditionChanges \/ LapiChanges

NotificationNext ==
    Trigger \/ Evaluation \/ UpdateRule \/ DeleteRule \/ Crash \/ Environment

NotificationSpec == NotificationInit /\ [][NotificationNext]_notificationVars

(* Refreshes keep triggering evaluations, and the steps of one go on:        *)
(* queries, deliveries and writes have timeouts.                             *)
FairNotificationSpec ==
    /\ NotificationSpec
    /\ WF_notificationVars(Trigger /\ eval.phase = "idle")
    /\ WF_notificationVars(Evaluation)

-----------------------------------------------------------------------------
EvaluationPhases == {"idle", "query", "load", "loop", "send", "flush"}

(* Values; and "record sent notifications promptly so a crash cannot resend  *)
(* a large backlog": what was sent and is not yet recorded fits in a batch   *)
(* (evaluateRules, flushWrites).                                             *)
ResendsBounded ==
    /\ eval.phase \in EvaluationPhases
    /\ \A r \in RuleSet : incidents[r] \subseteq KeysOf(r)
    /\ eval.phase = "idle" <=> eval.todo = {}
    /\ Cardinality(Unrecorded) <= BatchSize

(* A condition is sent once for an occurrence, however many evaluations meet *)
(* it while it lasts, and a recovery once per outage; only a crash, a write  *)
(* that failed or an edit of the rule lets it be sent again (evaluateRules,  *)
(* runNotificationEvaluation).                                               *)
ToldOnce ==
    [][eval'.phase = "send" /\ eval.phase # "send"
        => eval'.key \notin told[Rule]]_notificationVars

(* A condition that lasts is eventually recorded as an incident of its rule, *)
(* whatever edits, failures and crashes came before (evaluateRules).         *)
Lasts(r, k) == /\ rules[r] = "on"
               /\ IF r \in Availability THEN k = "offline" /\ lapi = "outage"
                  ELSE k \in holds[r]
EveryConditionTold ==
    \A r \in RuleSet : \A k \in KeysOf(r) :
        <>[]Lasts(r, k) => <>[](k \in incidents[r])
=============================================================================
