SPECIFICATION Spec
CONSTANTS
    j1 = j1
    j2 = j2
    m1 = m1
    m2 = m2
    Jobs = {j1}
    Messages = {m1}
    JobOf <- AllForOneJob
    Workers = {w1, w2}
    Sources = {s1}
    SourceOf <- SharedSource
    MaxAttempts = 2
    ClaimBatch = 1
    MaxFaults = 0
    NoMessage = NoMessage
PROPERTIES
    CancellationIsFinal
CHECK_DEADLOCK FALSE
