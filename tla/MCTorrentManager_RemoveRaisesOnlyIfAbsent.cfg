SPECIFICATION FairSpec
CONSTANTS
    t1 = t1
    Ids <- OneTorrent
    MaxQueue = 3
    MaxCalls = 4
    MaxPosts = 4
PROPERTY RemoveRaisesOnlyIfAbsent
CHECK_DEADLOCK FALSE
