CONSTANTS
  Follows = {{"updates"}, {"events"}}
  MaxLogins = 2
  MaxSteps = 3
  MaxEvents = 2
  MaxRequests = 3
SPECIFICATION Spec
INVARIANT RunningMeansPolling
INVARIANT EventsInOrder
PROPERTY EventsGetThere
CHECK_DEADLOCK FALSE
