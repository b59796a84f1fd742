CONSTANTS
  HeartbeatInterval = 3
  HeartbeatTimeout = 2
  OfflineAfter = 9
  SweepInterval = 3
  WriteDelay = 1
  MaxNodeFaults = 1
  q1 = q1
  q2 = q2
  Queries = {q1, q2}
  QueryKind <- MCQueryKind
  QueryTimeout <- MCQueryTimeout
  MaxWait = 1
  CleanupGrace = 2
  TimeoutMargin = 1
  MaxLostPolls = 1
  MaxLostReports = 1
  Sessions = {s1}
  Browsers = {b1, b2}
  MaxStreams = 2
  QueueSize = 2
  MaxInputs = 1
SPECIFICATION MCSpec
CHECK_DEADLOCK FALSE
PROPERTIES
  NodeStatusFollows BrokerServes SessionsAreSafeAndEnd
