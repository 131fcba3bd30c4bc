SPECIFICATION FairSpec

CONSTANTS
  t1 = t1
  idle = idle
  Threads <- MCThreads
  Tgid <- MCTgid
  s1 = s1
  s2 = s2
  Socks <- MCSocks
  Family <- MCFamily
  Interrupted = {idle}
  Self = "self"
  Peer = "peer"
  MapSize = 1
  RingSlots = 2
  MaxConns = 2
  MaxRetrans = 0
  MaxMissed = 0
  ChanSize = 1

INVARIANTS
  TypeOK

PROPERTIES
  StreamPromise
  RingDrains
  CancelEndsTheRun

CHECK_DEADLOCK FALSE
