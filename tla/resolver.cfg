SPECIFICATION FairSpec

CONSTANTS
  Pids = {1, 2, 3}
  MayBe <- MCMayBe
  Container <- MCContainer
  Addrs = {"10.0.0.1"}
  Ports = {":80", ":81"}
  Services = {"front"}
  Unknown = "unknown"
  PIDCacheTTL = 2
  ContainerCacheTTL = 1
  IPCacheTTL = 1
  PIDCacheCapacity = 2
  ContainerCacheCapacity = 1
  IPCacheCapacity = 1

INVARIANTS
  TypeOK
  StalenessBound
  RecentPidsStay

PROPERTIES
  NamesSettle
