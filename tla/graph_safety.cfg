SPECIFICATION FairSpec

CONSTANTS
  gateway = gateway
  orders = orders
  payments = payments
  Services <- MCServices
  Links <- MCLinks
  ClosesOn <- MCClosesOn
  MaxNodes = 2
  MaxEdgesPerNode = 1
  StaleEdgeTimeout = 1
  MaxOpen = 2
  MaxUnanswered = 1

INVARIANTS
  TypeOK
  DegreesCountEdges
  ActiveNeverOverstates

PROPERTIES
  SilentEdgesPruned
