SPECIFICATION FairSpec
CONSTANTS
    MaxItem = 6
    Hash <- HashDistinct
    c1 = c1
    c2 = c2
    Clients = {c1, c2}
    First = 0
    CK_CACHE_MAX = 2
    PageSizes = {1, 2}
    MaxChanges = 2
CHECK_DEADLOCK FALSE
INVARIANTS
    NothingSkipped
    NothingTwice
PROPERTIES ScansEnd
