SPECIFICATION FairSpec

CONSTANTS
  gateway = gateway
  orders = orders
  payments = payments
  NoCaller = NoCaller
  NoReport = NoReport
  Nodes <- MCNodes
  Edges <- OneCallee
  Reports <- LiveReports
  Full = 20
  ShedThreshold = 14
  RecoveryThreshold = 6
  ConsecutiveLowIntervals = 3
  MaxShedPercentage = 16
  MinShed = 1
  RampUpStep = 3
  RampDownStep = 2
  ActuatorMayFail = FALSE
  KillSwitchWhileRunning = FALSE

PROPERTIES
  QuietEdgesReleased
  ShutdownReleases

CHECK_DEADLOCK FALSE
