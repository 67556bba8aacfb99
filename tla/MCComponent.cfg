SPECIFICATION FairRegistrySpec
CONSTANTS
    N = 3
    Failing = {2}
    CallIds = {1, 2, 3, 4, 5, 6}
    MaxRequests = 4
    MaxPauses = 1
PROPERTIES DependentsStopFirst RequestsAreAnswered
CHECK_DEADLOCK FALSE
