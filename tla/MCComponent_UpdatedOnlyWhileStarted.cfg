SPECIFICATION FairRegistrySpec
CONSTANTS
    N = 3
    Failing = {}
    CallIds = {1, 2, 3, 4, 5, 6}
    MaxRequests = 4
    MaxPauses = 1
INVARIANT UpdatedOnlyWhileStarted
CHECK_DEADLOCK FALSE
