SPECIFICATION FairSpec
CONSTANTS
    j1 = j1
    Jobs = {j1}
    Messages = {1, 2, 3, 4, 5, 6, 7}
    JobOf <- EntriesOfOneJob
    Publishers = {p1, p2}
    Events = {1, 2, 3, 4, 5}
    EventJob <- EventsOfOneJob
    MaxFaults = 0
    MaxLosses = 1
    Nobody = Nobody
PROPERTIES
    LossOnlyDelays
CHECK_DEADLOCK FALSE
