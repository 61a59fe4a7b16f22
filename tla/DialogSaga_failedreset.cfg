SPECIFICATION SagaFairSpec
CONSTANTS
    alice = alice
    bob = bob
    m1 = m1
    m2 = m2
    User <- MCUser
    Msg <- MCMsg1
    From <- MCFrom1
    To <- MCTo1
    Prefetch = 1
    MaxFaults = 0
    Opened <- MCOpened
    MaxLists = 1
    MaxChatFaults = 1
PROPERTIES
    FailedResetIsCorrected
