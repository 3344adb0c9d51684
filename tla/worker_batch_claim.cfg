SPECIFICATION Spec
CONSTANTS
    j1 = j1
    j2 = j2
    m1 = m1
    m2 = m2
    Jobs = {j1, j2}
    Messages = {m1, m2}
    JobOf <- OneDeliveryEach
    Workers = {w1, w2}
    Sources = {s1}
    SourceOf <- SharedSource
    MaxAttempts = 2
    ClaimBatch = 2
    MaxFaults = 2
    NoMessage = NoMessage
SYMMETRY WorkerSymmetry
INVARIANTS
    ExclusiveHandling
CHECK_DEADLOCK FALSE
