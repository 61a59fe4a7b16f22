SPECIFICATION FairSpec
CONSTANTS
    alice = alice
    bob = bob
    m1 = m1
    m2 = m2
    m3 = m3
    User <- MCUser
    Msg <- MCMsg2
    From <- MCFrom2
    To <- MCTo2
    Prefetch = 2
    MaxFaults = 0
PROPERTIES
    ConfirmedIsCounted
