SPECIFICATION Spec
CHECK_DEADLOCK FALSE
CONSTANTS
    Item = {1, 2}
    MaxLen = 4
    MaxInt = 7
    SizeT = 256
INVARIANTS
    HitAndMissAgree
    AnswerIsPartOfFeed
    FailsOnlyIfNegative
