SPECIFICATION Spec
CONSTANTS
    j1 = j1
    j2 = j2
    m1 = m1
    m2 = m2
    Jobs = {j1}
    Messages = {m1, m2}
    JobOf <- AllForOneJob
    Workers = {w1, w2}
    Sources = {s1}
    SourceOf <- SharedSource
    MaxAttempts = 2
    ClaimBatch = 2
    MaxFaults = 1
    NoMessage = NoMessage
SYMMETRY WorkerSymmetry
INVARIANT
    AttemptsBounded
PROPERTY
    StandingVerdictIsFinal
CHECK_DEADLOCK FALSE
