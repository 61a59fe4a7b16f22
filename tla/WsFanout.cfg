SPECIFICATION FairSpec
CONSTANTS
    i1 = i1
    i2 = i2
    u1 = u1
    w1 = w1
    s1 = s1
    s2 = s2
    p1 = p1
    p2 = p2
    Instance = {i1}
    User = {u1}
    Writer = {w1}
    Session = {s1, s2}
    Post = {p1, p2}
    Owner <- OneOwner
    Author <- OneAuthor
    MaxLag = 1
    MaxFaults = 1
INVARIANTS
    WsTypeOK
    DueIsOnItsWay
    ExpiredOnlyByFaults
    HeardAsArrived
PROPERTIES
    NotifiesAsPromised
    OwedIsTold
