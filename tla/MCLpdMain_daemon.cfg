CONSTANTS
  Queues = {q1}
  MaxServers = 4
  Reserve = 1
  PollServersStarted = 1
  StartInterval = TRUE
  ForcePoll = TRUE
  MaxConns = 1
  MaxFaults = 1
SPECIFICATION LpdSpec
INVARIANTS ServersBounded
PROPERTIES RequestsTaken
CHECK_DEADLOCK FALSE
