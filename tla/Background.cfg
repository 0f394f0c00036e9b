SPECIFICATION BackgroundSpec
CONSTANTS
  URLs = {u1, u2}
  NoURL = noURL
  Requests = {r1}
  PoolWorkers = {p1}
  Capacities = {1}
  MaxRetries = 2
  Pushers = {q1}
  MaxChannels = 2
  MaxEvents = 3
  QueueSize = 2
  MaxCount = 2
  SendCapacity = 1
INVARIANTS BackgroundTypeOK OneJobPerURL InOrderAndOnce
PROPERTIES MissesAreFetched CloseEnds EventsLeave
CHECK_DEADLOCK FALSE
