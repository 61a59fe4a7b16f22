SPECIFICATION FairSpec
CONSTANTS
    i1 = i1
    i2 = i2
    u1 = u1
    u2 = u2
    l1 = l1
    l2 = l2
    t1 = t1
    t2 = t2
    Nobody = Nobody
    Instance = {i1, i2}
    User = {u1, u2}
    Login = {l1, l2}
    Of <- OneUserEach
    At <- OneEach
    Token = {t1, t2}
    MaxLag = 1
    MaxFaults = 1
INVARIANTS
    AuthTypeOK
    RightUser
    SureTokensStay
PROPERTIES
    CachesTheTable
    AcceptedInTheEnd
