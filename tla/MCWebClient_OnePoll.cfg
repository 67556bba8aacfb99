CONSTANTS
  Follows = {{"events"}}
  MaxLogins = 2
  MaxSteps = 2
  MaxEvents = 1
  MaxRequests = 3
SPECIFICATION Spec
INVARIANT OnePoll
CHECK_DEADLOCK FALSE
