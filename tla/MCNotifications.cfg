SPECIFICATION FairNotificationSpec
CONSTANTS
    spike = spike
    outage = outage
    Rules <- MCRules
    Availability = {outage}
    Conditions = {"k1", "k2"}
    BatchSize = 1
    MaxTroubles = 2
INVARIANTS
    ResendsBounded
PROPERTIES
    ToldOnce
    EveryConditionTold
CHECK_DEADLOCK FALSE
