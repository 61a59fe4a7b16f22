SPECIFICATION SagaFairSpec
CONSTANTS
    alice = alice
    bob = bob
    m1 = m1
    m2 = m2
    User <- MCUser
    Msg <- MCMsg
    From <- MCFrom
    To <- MCTo
    Prefetch = 2
    MaxFaults = 1
    Opened <- MCOpened
    MaxLists = 2
    MaxChatFaults = 1
INVARIANTS
    SagaTypeOK
    UnreadIsCounted
    DialogHoldsUnread
    NoPhantomUnread
PROPERTIES
    BadgeTells
