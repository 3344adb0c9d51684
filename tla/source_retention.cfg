SPECIFICATION FairSpec
CONSTANTS
    Sources = {s1, s2}
    Workers = {w1, w2}
    BatchSize = 2
    MaxFaults = 4
    Nobody = Nobody
INVARIANTS
    RecordMatchesStore
PROPERTIES
    ClaimEndsByHolder
    AttemptsCountUp
    LifecycleKept
    ScheduledOriginalIsDeleted
CHECK_DEADLOCK FALSE
