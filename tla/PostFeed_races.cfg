SPECIFICATION FairSpec
CONSTANTS
    ann = ann
    ben = ben
    eve = eve
    p1 = p1
    p2 = p2
    h1 = h1
    h2 = h2
    r1 = r1
    r2 = r2
    Reader = {ann}
    Writer <- MCWriter
    Post = {p1}
    Author <- MCAuthor1
    Old <- MCOld
    Handler = {h1, h2}
    Request = {r1, r2}
    For <- MCForAnn
    MaxFeed = 2
    MaxLag = 0
    MaxFaults = 1
INVARIANTS
    FeedTypeOK
    FeedsBounded
    DuplicatesBounded
    AnsweredIsOnItsWay
PROPERTIES
    EventsDrain
    AnnouncesAsPromised
