SPECIFICATION FairSpec

CONSTANTS
  Services <- MCServices
  LiveGraphs <- MCLiveGraphs
  MaxNodes = 4
  NumSimulations = 2
  Urgencies = {10, 100}
  ShedThreshold = 700
  NoCut = "nobody"
  MaxConcurrentNodes = 2

INVARIANTS
  TypeOK
  ReportsComplete
  SmallGraphsNeverShed

PROPERTIES
  DecisionsCatchUp

CHECK_DEADLOCK FALSE
