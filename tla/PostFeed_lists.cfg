SPECIFICATION Spec
CONSTANTS
    ann = ann
    ben = ben
    eve = eve
    p1 = p1
    p2 = p2
    h1 = h1
    h2 = h2
    r1 = r1
    r2 = r2
    Reader = {ann}
    Writer <- MCWriter
    Post = {p1, p2}
    Author <- MCAuthor2
    Old <- MCOld1
    Handler = {h1, h2}
    Request = {r1}
    For <- MCForOne
    MaxFeed = 2
    MaxLag = 1
    MaxFaults = 1
SYMMETRY MCHandlers
INVARIANTS
    AloneIsExact
    WarmFeedGetsEveryPost
