SPECIFICATION FairSpec
CONSTANTS
    i1 = i1
    i2 = i2
    u1 = u1
    w1 = w1
    s1 = s1
    s2 = s2
    p1 = p1
    p2 = p2
    Instance = {i1, i2}
    User = {u1}
    Writer = {w1}
    Session = {s1}
    Post = {p1}
    Owner <- OneOwner
    Author <- OneAuthor
    MaxLag = 0
    MaxFaults = 1
PROPERTIES
    QueueComesBack
