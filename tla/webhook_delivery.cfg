SPECIFICATION FairSpec
CONSTANTS
    Dispatchers = {d1, d2}
    Endpoints = {n1}
    Events = {e1}
    MaxAttempts = 3
    MaxFaults = 3
    Nobody = Nobody
INVARIANTS
    OutcomeIsEarned
    PostsWithinBudget
    AcceptedOnceWithoutFault
    OnlyRacedEventsSkipped
PROPERTIES
    OutcomeIsFinal
    DeliveriesSettle
CHECK_DEADLOCK FALSE
