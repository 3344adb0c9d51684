SPECIFICATION FairSpec
CONSTANTS
    j1 = j1
    Jobs = {j1}
    Messages = {1, 2, 3, 4, 5, 6, 7}
    JobOf <- EntriesOfOneJob
    Publishers = {p1, p2}
    Events = {1, 2, 3, 4, 5}
    EventJob <- EventsOfOneJob
    MaxFaults = 1
    MaxLosses = 1
    Nobody = Nobody
INVARIANTS
    UnsettledJobIsCovered
    OneEventWaiting
    DeliveredOnceWithoutFault
    SendsMatchClaims
PROPERTIES
    ClaimsRespected
    SettledUnlessValkeyLost
    LostDeliveryIsReplaced
CHECK_DEADLOCK FALSE
