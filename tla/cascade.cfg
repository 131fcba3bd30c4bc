SPECIFICATION FairSpec

CONSTANTS
  gateway = gateway
  orders = orders
  auth = auth
  payments = payments
  inventory = inventory
  Nodes <- MCNodes
  Edges <- MCEdges
  RequestRate <- MCRate
  LatencyP99 <- MCLatency
  ErrorRate <- MCErrorRate
  Latencies <- MCLatencies
  Errors <- MCErrors
  Second = 10
  Whole = 20
  DefaultThreadPoolSize = 200
  DefaultConnPoolSize = 50
  DefaultTimeout = 50
  DefaultMaxRetries = 3
  DefaultRetryBackoff = 1
  MaxRetryIterations = 10

INVARIANTS
  TypeOK
  CauseOfFailure
  PathIsFailures
  NobodyOverlooked
  MoreLatencyNeverHelps

PROPERTIES
  Terminates

CHECK_DEADLOCK FALSE
