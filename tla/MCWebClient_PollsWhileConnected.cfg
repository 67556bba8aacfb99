CONSTANTS
  Follows = {{"updates"}}
  MaxLogins = 2
  MaxSteps = 2
  MaxEvents = 1
  MaxRequests = 3
SPECIFICATION Spec
INVARIANT PollsWhileConnected
CHECK_DEADLOCK FALSE
