SPECIFICATION FairSpec
CONSTANTS
    j1 = j1
    j2 = j2
    m1 = m1
    m2 = m2
    Jobs = {j1}
    Messages = {m1}
    JobOf <- AllForOneJob
    Workers = {w1, w2}
    Sources = {s1}
    SourceOf <- SharedSource
    MaxAttempts = 3
    ClaimBatch = 1
    MaxFaults = 3
    NoMessage = NoMessage
INVARIANTS
    ExclusiveHandling
    CompletedPayloadStored
    CompletionAnnouncedOnce
    AckedOnlyWhenTerminal
    SingleGeneration
PROPERTIES
    WorkerVerdictIsFinal
    StrandedJobOnlyFails
    ContractKept
    DeliveryRulesKept
    DeliverySettles
CHECK_DEADLOCK FALSE
