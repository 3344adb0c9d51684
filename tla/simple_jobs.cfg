SPECIFICATION FairSpec
CONSTANTS
    j1 = j1
    Jobs = {j1}
    Messages = {m1, m2}
    JobOf <- AllForOneJob
    Workers = {w1, w2}
    MaxAttempts = 2
    MaxFaults = 1
    NoMessage = NoMessage
INVARIANTS
    CompletedOutputVerified
    CompletionAnnouncedOnce
    AttemptsBounded
    AckedOnlyWhenFinished
PROPERTIES
    VerdictIsFinal
    DeliveryRulesKept
    DeliverySettles
CHECK_DEADLOCK FALSE
