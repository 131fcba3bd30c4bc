SPECIFICATION Spec

CONSTANTS
  gateway = gateway
  orders = orders
  payments = payments
  Services <- MCServices
  Links <- MCLinks
  ClosesOn <- MCClosesOn
  MaxNodes = 3
  MaxEdgesPerNode = 2
  StaleEdgeTimeout = 1
  MaxOpen = 2
  MaxUnanswered = 1

PROPERTIES
  DocOrphansCleaned
