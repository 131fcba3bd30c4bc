SPECIFICATION KernelSpec

CONSTANTS
  t1 = t1
  t2 = t2
  s1 = s1
  s2 = s2
  idle = idle
  Threads <- MCThreads
  Tgid <- MCTgid
  Socks <- MCSocks
  Family <- MCFamily
  Interrupted <- MCInterrupted
  Self = "self"
  Peer = "peer"
  MapSize = 1
  RingSlots = 2
  MaxConns = 3
  MaxRetrans = 1
  MaxMissed = 1

INVARIANTS
  KernelTypeOK
  ConnectNamesItsSocket
  InflightIsInFlight

CHECK_DEADLOCK FALSE
