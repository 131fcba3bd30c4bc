SPECIFICATION Spec

CONSTANTS
  gateway = gateway
  orders = orders
  payments = payments
  NoCaller = NoCaller
  NoReport = NoReport
  Nodes <- MCNodes
  Edges <- OneCallee
  Reports <- CoarseReports
  Full = 4
  ShedThreshold = 2
  RecoveryThreshold = 1
  ConsecutiveLowIntervals = 3
  MaxShedPercentage = 3
  MinShed = 1
  RampUpStep = 2
  RampDownStep = 1
  ActuatorMayFail = TRUE
  KillSwitchWhileRunning = TRUE

INVARIANTS
  TypeOK
  RulesMatchStates
  StoppedIsClean

PROPERTIES
  RulesRampUp
  PromiseKept

CHECK_DEADLOCK FALSE
