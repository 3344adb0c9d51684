SPECIFICATION Spec
CONSTANTS
    Dispatchers = {d1, d2}
    Endpoints = {n1}
    Events = {e1}
    MaxAttempts = 2
    MaxFaults = 0
    Nobody = Nobody
INVARIANTS
    PublishedEventsHaveDeliveries
CHECK_DEADLOCK FALSE
