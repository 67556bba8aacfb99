SPECIFICATION FairSpec
CONSTANTS
    t1 = t1
    Ids <- OneTorrent
    MaxQueue = 3
    MaxCalls = 3
    MaxPosts = 4
INVARIANTS QueuedUnlessDone NoUnmanagedTorrent SessionInSync
PROPERTIES StateFileCatchesUp
CHECK_DEADLOCK FALSE
