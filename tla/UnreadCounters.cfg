SPECIFICATION FairSpec
CONSTANTS
    alice = alice
    bob = bob
    m1 = m1
    m2 = m2
    m3 = m3
    User <- MCUser
    Msg <- MCMsg3
    From <- MCFrom
    To <- MCTo
    Prefetch = 2
    MaxFaults = 2
INVARIANTS
    TypeOK
    NoUndercount
    UnderstatedByAtMostOverlap
    OverstatedOnlyByFaults
    OvercountedOnlyByFaults
PROPERTIES
    EveryEventCounted
    TotalsSettle
