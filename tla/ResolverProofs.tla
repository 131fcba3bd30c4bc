--------------------------- MODULE ResolverProofs ---------------------------
(***************************************************************************)
(* Proofs about the caches of the identity resolver, for any capacities    *)
(* and times to live.                                                      *)
(***************************************************************************)
EXTENDS IdentityResolver, FiniteSums

-----------------------------------------------------------------------------
(* The list behind a cache. *)

UniqueKeys(c) == \A i, j \in DOMAIN c : c[i].key = c[j].key => i = j

LEMMA RemoveAtEffect ==
  ASSUME NEW S, NEW c \in Seq(S), NEW i \in DOMAIN c
  PROVE  /\ RemoveAt(c, i) \in Seq(S)
         /\ Len(RemoveAt(c, i)) = Len(c) - 1
         /\ \A j \in DOMAIN RemoveAt(c, i) : RemoveAt(c, i)[j] = IF j < i THEN c[j] ELSE c[j + 1]
<1> DEFINE a == SubSeq(c, 1, i - 1)
           b == SubSeq(c, i + 1, Len(c))
<1>1. i \in 1 .. Len(c) /\ Len(c) \in Nat
  OBVIOUS
<1>2. a \in Seq(S) /\ Len(a) = i - 1 /\ \A j \in 1 .. i - 1 : a[j] = c[j]
  BY <1>1
<1>3. b \in Seq(S) /\ Len(b) = Len(c) - i /\ \A j \in 1 .. Len(c) - i : b[j] = c[i + j]
  BY <1>1
<1>4. RemoveAt(c, i) = a \o b
  BY DEF RemoveAt
<1> HIDE DEF a, b
<1>5. a \o b \in Seq(S) /\ Len(a \o b) = Len(c) - 1
  BY <1>1, <1>2, <1>3
<1>6. \A j \in 1 .. Len(c) - 1 : (a \o b)[j] = IF j < i THEN c[j] ELSE c[j + 1]
  BY <1>1, <1>2, <1>3
<1>7. DOMAIN (a \o b) = 1 .. Len(c) - 1
  BY <1>1, <1>5
<1> QED BY <1>4, <1>5, <1>6, <1>7, Zenon

LEMMA EntryFound ==
  ASSUME NEW S, NEW c \in Seq(S), NEW k \in KeysOf(c)
  PROVE  PositionOf(c, k) \in DOMAIN c /\ EntryOf(c, k) \in S /\ EntryOf(c, k).key = k
<1>1. \E i \in DOMAIN c : c[i].key = k
  BY DEF KeysOf
<1>2. PositionOf(c, k) \in DOMAIN c /\ c[PositionOf(c, k)].key = k
  BY <1>1 DEF PositionOf
<1> QED BY <1>2 DEF EntryOf

(* removeElement takes the one entry of its key out and leaves the others.      *)
LEMMA RemovedOnce ==
  ASSUME NEW S, NEW c \in Seq(S), UniqueKeys(c), NEW k
  PROVE  /\ Removed(c, k) \in Seq(S) /\ UniqueKeys(Removed(c, k)) /\ k \notin KeysOf(Removed(c, k))
         /\ Len(Removed(c, k)) = IF k \in KeysOf(c) THEN Len(c) - 1 ELSE Len(c)
<1>1. CASE k \notin KeysOf(c)
  BY <1>1 DEF Removed
<1>2. CASE k \in KeysOf(c)
  <2> DEFINE p == PositionOf(c, k)
             r == RemoveAt(c, p)
  <2>1. p \in DOMAIN c /\ c[p].key = k
    BY <1>2, EntryFound DEF EntryOf
  <2> HIDE DEF p
  <2>2. /\ r \in Seq(S) /\ Len(r) = Len(c) - 1
        /\ \A j \in DOMAIN r : r[j] = IF j < p THEN c[j] ELSE c[j + 1]
    BY <2>1, RemoveAtEffect
  <2>3. Removed(c, k) = r
    BY <1>2 DEF Removed, p
  <2> HIDE DEF r
  <2>4. \A i, j \in DOMAIN r : r[i].key = r[j].key => i = j
    BY <2>1, <2>2 DEF UniqueKeys
  <2>5. \A j \in DOMAIN r : r[j].key # k
    BY <2>1, <2>2 DEF UniqueKeys
  <2> QED BY <1>2, <2>2, <2>3, <2>4, <2>5 DEF UniqueKeys, KeysOf
<1> QED BY <1>1, <1>2

LEMMA PushedFront ==
  ASSUME NEW S, NEW c \in Seq(S), UniqueKeys(c), NEW e \in S, e.key \notin KeysOf(c)
  PROVE  <<e>> \o c \in Seq(S) /\ UniqueKeys(<<e>> \o c) /\ Len(<<e>> \o c) = Len(c) + 1
<1> DEFINE q == <<e>> \o c
<1>1. q \in Seq(S) /\ Len(q) = Len(c) + 1
  OBVIOUS
<1>2. q[1] = e /\ \A j \in 2 .. Len(q) : j - 1 \in DOMAIN c /\ q[j] = c[j - 1]
  BY <1>1
<1> HIDE DEF q
<1>3. \A j \in DOMAIN c : c[j].key # e.key
  BY DEF KeysOf
<1>4. ASSUME NEW i \in DOMAIN q, NEW j \in DOMAIN q, q[i].key = q[j].key PROVE i = j
  <2>1. i \in 1 .. Len(q) /\ j \in 1 .. Len(q)
    BY <1>1
  <2>2. CASE i = 1 \/ j = 1
    BY <1>2, <1>3, <1>4, <2>1, <2>2
  <2>3. CASE i # 1 /\ j # 1
    BY <1>2, <1>4, <2>1, <2>3 DEF UniqueKeys
  <2> QED BY <2>2, <2>3
<1> QED BY <1>1, <1>4 DEF UniqueKeys, q

(* A cache keeps its form under every method and under the clock.               *)
LEMMA GetKeeps ==
  ASSUME NEW S, NEW c \in Seq(S), UniqueKeys(c), NEW k
  PROVE  /\ Get(c, k) \in Seq(S) /\ UniqueKeys(Get(c, k)) /\ Len(Get(c, k)) <= Len(c)
<1>1. /\ Removed(c, k) \in Seq(S) /\ UniqueKeys(Removed(c, k)) /\ k \notin KeysOf(Removed(c, k))
      /\ Len(Removed(c, k)) = IF k \in KeysOf(c) THEN Len(c) - 1 ELSE Len(c)
      /\ Len(c) \in Nat
  BY RemovedOnce
<1>2. CASE Hit(c, k)
  <2>1. k \in KeysOf(c) /\ EntryOf(c, k) \in S /\ EntryOf(c, k).key = k
    BY <1>2, EntryFound DEF Hit
  <2>2. /\ <<EntryOf(c, k)>> \o Removed(c, k) \in Seq(S)
        /\ UniqueKeys(<<EntryOf(c, k)>> \o Removed(c, k))
        /\ Len(<<EntryOf(c, k)>> \o Removed(c, k)) = Len(Removed(c, k)) + 1
    BY <1>1, <2>1, PushedFront
  <2>3. Get(c, k) = <<EntryOf(c, k)>> \o Removed(c, k)
    BY <1>2 DEF Get
  <2> QED BY <1>1, <2>1, <2>2, <2>3
<1>3. CASE ~Hit(c, k)
  <2>1. Get(c, k) = Removed(c, k)
    BY <1>3 DEF Get
  <2> QED BY <1>1, <2>1
<1> QED BY <1>2, <1>3

LEMMA SetKeeps ==
  ASSUME NEW S, NEW c \in Seq(S), UniqueKeys(c), NEW k, NEW v, NEW ttl, NEW age,
         NEW capacity \in Nat \ {0}, Len(c) <= capacity,
         [key |-> k, val |-> v, left |-> ttl, age |-> age] \in S
  PROVE  LET d == Set(c, capacity, k, v, ttl, age) IN
         d \in Seq(S) /\ UniqueKeys(d) /\ Len(d) <= capacity
<1> DEFINE e == [key |-> k, val |-> v, left |-> ttl, age |-> age]
           rest == IF k \in KeysOf(c) THEN Removed(c, k)
                   ELSE IF Len(c) >= capacity THEN RemoveAt(c, Len(c))
                   ELSE c
<1>1. e \in S /\ e.key = k /\ Len(c) \in Nat
  OBVIOUS
<1>2. Set(c, capacity, k, v, ttl, age) = <<e>> \o rest
  BY DEF Set
<1>3. rest \in Seq(S) /\ UniqueKeys(rest) /\ k \notin KeysOf(rest) /\ Len(rest) <= capacity - 1
  <2>1. CASE k \in KeysOf(c)
    BY <2>1, <1>1, RemovedOnce
  <2>2. CASE k \notin KeysOf(c) /\ Len(c) >= capacity
    <3> DEFINE r == RemoveAt(c, Len(c))
    <3>1. rest = r /\ Len(c) \in DOMAIN c
      BY <1>1, <2>2
    <3>2. r \in Seq(S) /\ Len(r) = Len(c) - 1
          /\ \A j \in DOMAIN r : r[j] = IF j < Len(c) THEN c[j] ELSE c[j + 1]
      BY <3>1, RemoveAtEffect
    <3> HIDE DEF r
    <3>3. \A j \in DOMAIN r : r[j] = c[j] /\ j \in DOMAIN c
      BY <1>1, <3>2
    <3>4. UniqueKeys(r) /\ k \notin KeysOf(r)
      BY <2>2, <3>3 DEF UniqueKeys, KeysOf
    <3> QED BY <1>1, <3>1, <3>2, <3>4
  <2>3. CASE k \notin KeysOf(c) /\ ~(Len(c) >= capacity)
    BY <2>3, <1>1
  <2> QED BY <2>1, <2>2, <2>3
<1> HIDE DEF e, rest
<1>4. <<e>> \o rest \in Seq(S) /\ UniqueKeys(<<e>> \o rest) /\ Len(<<e>> \o rest) = Len(rest) + 1
  BY <1>1, <1>3, PushedFront
<1>5. Len(rest) + 1 <= capacity
  BY <1>3
<1> QED BY <1>2, <1>4, <1>5

LEMMA AgedKeeps ==
  ASSUME NEW S, NEW c \in Seq(S), UniqueKeys(c),
         \A e \in S : Older(e) \in S /\ Older(e).key = e.key
  PROVE  Aged(c) \in Seq(S) /\ UniqueKeys(Aged(c)) /\ Len(Aged(c)) = Len(c)
<1>1. DOMAIN c = 1 .. Len(c) /\ Len(c) \in Nat /\ \A i \in DOMAIN c : c[i] \in S
  OBVIOUS
<1>2. Aged(c) \in [1 .. Len(c) -> S] /\ \A i \in DOMAIN c : Aged(c)[i] = Older(c[i])
  BY <1>1 DEF Aged
<1>3. Aged(c) \in Seq(S) /\ Len(Aged(c)) = Len(c) /\ DOMAIN Aged(c) = DOMAIN c
  BY <1>1, <1>2
<1> QED BY <1>1, <1>2, <1>3 DEF UniqueKeys

-----------------------------------------------------------------------------
(* What every entry keeps: time to live and age move together.                  *)

PidBound == PIDCacheTTL + ContainerCacheTTL

PidEntry ==
  {e \in [key : Pids, val : PidNames, left : Int, age : Nat] :
     e.left >= -1 /\ e.age + e.left <= PidBound}

ContainerEntry ==
  {e \in [key : Containers, val : Services, left : Int, age : Nat] :
     e.left >= -1 /\ e.age + e.left <= ContainerCacheTTL}

Written(addr) == {addr \o port : port \in Ports}

AddrNames == Services \union UNION {Written(addr) : addr \in Addrs}

AddrEntry ==
  {e \in [key : Addrs, val : AddrNames, left : Int, age : Nat] :
     e.left >= -1 /\ e.age + e.left <= IPCacheTTL}

IsCache(c, S, capacity) == c \in Seq(S) /\ UniqueKeys(c) /\ Len(c) <= capacity

WorldInv ==
  /\ proc \in [Pids -> Processes]
  /\ podOf \in [Containers -> Services \union {Unknown}]
  /\ hostOf \in [Addrs -> Services \union {Unknown}]

CachesInv ==
  /\ IsCache(pidCache, PidEntry, PIDCacheCapacity)
  /\ IsCache(containerCache, ContainerEntry, ContainerCacheCapacity)
  /\ IsCache(ipCache, AddrEntry, IPCacheCapacity)

IInv == WorldInv /\ CachesInv

LEMMA Bounds ==
  /\ PIDCacheTTL \in Nat \ {0} /\ ContainerCacheTTL \in Nat \ {0} /\ IPCacheTTL \in Nat \ {0}
  /\ PIDCacheCapacity \in Nat \ {0} /\ ContainerCacheCapacity \in Nat \ {0}
  /\ IPCacheCapacity \in Nat \ {0}
BY ResolverConstants

LEMMA NewPidEntry ==
  ASSUME NEW pid \in Pids, NEW name \in PidNames, NEW age \in 0 .. ContainerCacheTTL
  PROVE  [key |-> pid, val |-> name, left |-> PIDCacheTTL, age |-> age] \in PidEntry
BY Bounds DEF PidEntry, PidBound

LEMMA NewContainerEntry ==
  ASSUME NEW id \in Containers, NEW name \in Services
  PROVE  [key |-> id, val |-> name, left |-> ContainerCacheTTL, age |-> 0] \in ContainerEntry
BY Bounds DEF ContainerEntry

LEMMA NewAddrEntry ==
  ASSUME NEW addr \in Addrs, NEW name \in AddrNames
  PROVE  [key |-> addr, val |-> name, left |-> IPCacheTTL, age |-> 0] \in AddrEntry
BY Bounds DEF AddrEntry

-----------------------------------------------------------------------------
(* resolvePID: a name taken from the container's entry is as old as that entry. *)
LEMMA ResolvePidSafe ==
  ASSUME IInv, NEW pid \in Pids, resolvePID(pid)
  PROVE  /\ IsCache(pidCache', PidEntry, PIDCacheCapacity)
         /\ IsCache(containerCache', ContainerEntry, ContainerCacheCapacity)
<1> DEFINE id == Container[proc[pid]]
           miss == Get(pidCache, pid)
<1>1. proc[pid] \in Processes /\ proc[pid] \in PidNames
  BY DEF IInv, WorldInv, PidNames
<1>2. id # NoContainer => id \in Containers
  BY <1>1 DEF Containers
<1>3. IsCache(miss, PidEntry, PIDCacheCapacity)
  BY GetKeeps, Bounds DEF IInv, CachesInv, IsCache
<1> HIDE DEF id, miss
<1>4. ASSUME NEW name \in PidNames, NEW age \in 0 .. ContainerCacheTTL
      PROVE  IsCache(SetPid(miss, pid, name, age), PidEntry, PIDCacheCapacity)
  BY <1>3, NewPidEntry, SetKeeps, Bounds DEF SetPid, IsCache
<1>5. IsCache(Get(containerCache, id), ContainerEntry, ContainerCacheCapacity)
  BY GetKeeps, Bounds DEF IInv, CachesInv, IsCache
<1>6. 0 \in 0 .. ContainerCacheTTL
  BY Bounds
<1>7. CASE Hit(pidCache, pid)
  BY <1>3, <1>7 DEF resolvePID, IInv, CachesInv, miss
<1>8. CASE /\ id # NoContainer /\ Hit(containerCache, id)
           /\ containerCache' = Get(containerCache, id)
           /\ pidCache' = SetPid(miss, pid, EntryOf(containerCache, id).val, EntryOf(containerCache, id).age)
  <2> DEFINE e == EntryOf(containerCache, id)
  <2>1. id \in KeysOf(containerCache) /\ ~Expired(e) /\ containerCache \in Seq(ContainerEntry)
    BY <1>8 DEF Hit, IInv, CachesInv, IsCache
  <2>2. e \in ContainerEntry
    BY <2>1, EntryFound
  <2> HIDE DEF e
  <2>3. e.val \in PidNames /\ e.age \in 0 .. ContainerCacheTTL
    BY <2>1, <2>2, Bounds DEF ContainerEntry, Expired, PidNames
  <2> QED BY <1>4, <1>5, <1>8, <2>3 DEF e
<1>9. CASE /\ id # NoContainer /\ podOf[id] # Unknown
           /\ containerCache' = SetContainer(Get(containerCache, id), id, podOf[id])
           /\ pidCache' = SetPid(miss, pid, podOf[id], 0)
  <2>1. podOf[id] \in Services /\ podOf[id] \in PidNames /\ id \in Containers
    BY <1>2, <1>9 DEF IInv, WorldInv, PidNames
  <2>2. IsCache(SetContainer(Get(containerCache, id), id, podOf[id]), ContainerEntry, ContainerCacheCapacity)
    BY <1>5, <2>1, NewContainerEntry, SetKeeps, Bounds DEF SetContainer, IsCache
  <2> QED BY <1>4, <1>6, <1>9, <2>1, <2>2
<1>10. CASE /\ pidCache' = SetPid(miss, pid, proc[pid], 0)
            /\ containerCache' \in {containerCache, Get(containerCache, id)}
  BY <1>1, <1>4, <1>5, <1>6, <1>10 DEF IInv, CachesInv
<1> QED BY <1>7, <1>8, <1>9, <1>10 DEF resolvePID, id, miss

LEMMA NameOfAddr ==
  ASSUME IInv, NEW addr \in Addrs, NEW port \in Ports
  PROVE  AddrName(addr, port) \in AddrNames
<1>1. CASE hostOf[addr] # Unknown
  <2>1. hostOf[addr] \in Services
    BY <1>1 DEF IInv, WorldInv
  <2>2. AddrName(addr, port) = hostOf[addr]
    BY <1>1 DEF AddrName
  <2> QED BY <2>1, <2>2 DEF AddrNames
<1>2. CASE hostOf[addr] = Unknown
  <2>1. AddrName(addr, port) = addr \o port
    BY <1>2, Zenon DEF AddrName
  <2>2. addr \o port \in Written(addr)
    BY Zenon DEF Written
  <2>3. Written(addr) \in {Written(a) : a \in Addrs}
    BY Zenon
  <2> QED BY <2>1, <2>2, <2>3, Zenon DEF AddrNames
<1> QED BY <1>1, <1>2

LEMMA ResolveAddrSafe ==
  ASSUME IInv, NEW addr \in Addrs, NEW port \in Ports, resolveIP(addr, port)
  PROVE  IsCache(ipCache', AddrEntry, IPCacheCapacity)
<1>1. IsCache(Get(ipCache, addr), AddrEntry, IPCacheCapacity)
  BY GetKeeps, Bounds DEF IInv, CachesInv, IsCache
<1>2. AddrName(addr, port) \in AddrNames
  BY NameOfAddr
<1>3. IsCache(Set(Get(ipCache, addr), IPCacheCapacity, addr, AddrName(addr, port), IPCacheTTL, 0),
              AddrEntry, IPCacheCapacity)
  BY <1>1, <1>2, NewAddrEntry, SetKeeps, Bounds DEF IsCache
<1> QED BY <1>1, <1>3 DEF resolveIP

LEMMA OlderKeeps ==
  ASSUME NEW K, NEW V, NEW e \in [key : K, val : V, left : Int, age : Nat], NEW b \in Int,
         e.left >= -1, e.age + e.left <= b
  PROVE  /\ Older(e) \in [key : K, val : V, left : Int, age : Nat]
         /\ Older(e).left >= -1 /\ Older(e).age + Older(e).left <= b /\ Older(e).key = e.key
<1>1. CASE Expired(e)
  BY <1>1 DEF Older
<1>2. CASE ~Expired(e)
  <2>1. Older(e) = [e EXCEPT !.left = @ - 1, !.age = @ + 1]
    BY <1>2 DEF Older
  <2>2. ~(e.left < 0) /\ e.left \in Int /\ e.age \in Nat
    BY <1>2 DEF Expired
  <2>3. /\ Older(e).left = e.left - 1 /\ Older(e).age = e.age + 1 /\ Older(e).key = e.key
        /\ Older(e) \in [key : K, val : V, left : Int, age : Nat]
    <3> DEFINE d == [e EXCEPT !.left = @ - 1]
    <3>1. d \in [key : K, val : V, left : Int, age : Nat] /\ d.left = e.left - 1 /\ d.age = e.age /\ d.key = e.key
      BY <2>2
    <3>2. Older(e) = [d EXCEPT !.age = @ + 1]
      BY <2>1
    <3> HIDE DEF d
    <3> QED BY <2>2, <3>1, <3>2
  <2> QED BY <2>2, <2>3
<1> QED BY <1>1, <1>2

(* The clock: what an entry gains in age it loses in time to live.              *)
LEMMA TickSafe == ASSUME IInv, Tick PROVE IInv'
<1>1. ASSUME NEW e \in PidEntry PROVE Older(e) \in PidEntry /\ Older(e).key = e.key
  <2>1. PidBound \in Int
    BY Bounds DEF PidBound
  <2>2. /\ e \in [key : Pids, val : PidNames, left : Int, age : Nat]
        /\ e.left >= -1 /\ e.age + e.left <= PidBound
    BY DEF PidEntry
  <2>3. /\ Older(e) \in [key : Pids, val : PidNames, left : Int, age : Nat]
        /\ Older(e).left >= -1 /\ Older(e).age + Older(e).left <= PidBound /\ Older(e).key = e.key
    BY <2>1, <2>2, OlderKeeps
  <2> QED BY <2>3 DEF PidEntry
<1>2. ASSUME NEW e \in ContainerEntry PROVE Older(e) \in ContainerEntry /\ Older(e).key = e.key
  <2>1. ContainerCacheTTL \in Int
    BY Bounds
  <2>2. /\ e \in [key : Containers, val : Services, left : Int, age : Nat]
        /\ e.left >= -1 /\ e.age + e.left <= ContainerCacheTTL
    BY DEF ContainerEntry
  <2>3. /\ Older(e) \in [key : Containers, val : Services, left : Int, age : Nat]
        /\ Older(e).left >= -1 /\ Older(e).age + Older(e).left <= ContainerCacheTTL /\ Older(e).key = e.key
    BY <2>1, <2>2, OlderKeeps
  <2> QED BY <2>3 DEF ContainerEntry
<1>3. ASSUME NEW e \in AddrEntry PROVE Older(e) \in AddrEntry /\ Older(e).key = e.key
  <2>1. IPCacheTTL \in Int
    BY Bounds
  <2>2. /\ e \in [key : Addrs, val : AddrNames, left : Int, age : Nat]
        /\ e.left >= -1 /\ e.age + e.left <= IPCacheTTL
    BY DEF AddrEntry
  <2>3. /\ Older(e) \in [key : Addrs, val : AddrNames, left : Int, age : Nat]
        /\ Older(e).left >= -1 /\ Older(e).age + Older(e).left <= IPCacheTTL /\ Older(e).key = e.key
    BY <2>1, <2>2, OlderKeeps
  <2> QED BY <2>3 DEF AddrEntry
<1>4. CachesInv'
  BY <1>1, <1>2, <1>3, AgedKeeps DEF Tick, IInv, CachesInv, IsCache
<1> QED BY <1>4 DEF Tick, world, IInv, WorldInv

LEMMA ResolveSafe ==
  ASSUME IInv, NEW pid \in Pids \union {0}, NEW addr \in Addrs \union {NoAddr}, NEW port \in Ports,
         Resolve(pid, addr, port)
  PROVE  IInv'
<1>1. /\ IsCache(pidCache', PidEntry, PIDCacheCapacity)
      /\ IsCache(containerCache', ContainerEntry, ContainerCacheCapacity)
  <2>1. CASE UNCHANGED <<pidCache, containerCache>>
    BY <2>1 DEF IInv, CachesInv
  <2>2. CASE pid # 0 /\ resolvePID(pid)
    BY <2>2, ResolvePidSafe
  <2> QED BY <2>1, <2>2 DEF Resolve, ResolveProcess
<1>2. IsCache(ipCache', AddrEntry, IPCacheCapacity)
  <2>1. CASE UNCHANGED ipCache
    BY <2>1 DEF IInv, CachesInv
  <2>2. CASE addr # NoAddr /\ resolveIP(addr, port)
    BY <2>2, ResolveAddrSafe
  <2> QED BY <2>1, <2>2 DEF Resolve, ResolveAddr
<1> QED BY <1>1, <1>2 DEF Resolve, world, IInv, WorldInv, CachesInv

LEMMA WorldSafe == ASSUME IInv, World PROVE IInv'
<1>1. CachesInv'
  BY DEF World, PidReused, PodUpdated, AddrMoved, Settle, caches, IInv, CachesInv
<1>2. WorldInv'
  <2>1. ASSUME NEW pid \in Pids, NEW p \in MayBe[pid], PidReused(pid, p) PROVE WorldInv'
    <3>1. p \in Processes
      BY DEF Processes
    <3> QED BY <2>1, <3>1 DEF PidReused, IInv, WorldInv
  <2>2. ASSUME NEW id \in Containers, NEW s \in Services, PodUpdated(id, s) PROVE WorldInv'
    BY <2>2 DEF PodUpdated, IInv, WorldInv
  <2>3. ASSUME NEW addr \in Addrs, NEW s \in Services \union {Unknown}, AddrMoved(addr, s) PROVE WorldInv'
    BY <2>3 DEF AddrMoved, IInv, WorldInv
  <2>4. CASE Settle
    BY <2>4 DEF Settle, IInv, WorldInv
  <2> QED BY <2>1, <2>2, <2>3, <2>4 DEF World
<1> QED BY <1>1, <1>2 DEF IInv

LEMMA InitSafe == Init => IInv
<1> SUFFICES ASSUME Init PROVE IInv
  OBVIOUS
<1>1. WorldInv
  BY DEF Init, WorldInv
<1>2. CachesInv
  BY Bounds DEF Init, CachesInv, IsCache, UniqueKeys
<1> QED BY <1>1, <1>2 DEF IInv

LEMMA StepSafe == IInv /\ [Next]_vars => IInv'
<1> SUFFICES ASSUME IInv, [Next]_vars PROVE IInv'
  OBVIOUS
<1>1. CASE UNCHANGED vars
  BY <1>1 DEF vars, world, caches, IInv, WorldInv, CachesInv
<1> QED BY <1>1, ResolveSafe, WorldSafe, TickSafe DEF Next

(* The invariant behind the theorems: the entries of the three caches.          *)
THEOREM Invariance == Spec => []IInv
BY InitSafe, StepSafe, PTL DEF Spec

(* The caches never outgrow their capacities and hold a key once                *)
(* (cache.go:81-112).                                                           *)
THEOREM TypeCorrect == Spec => []TypeOK
<1>1. IInv => TypeOK
  <2> SUFFICES ASSUME IInv PROVE TypeOK
    OBVIOUS
  <2>1. \A i \in DOMAIN pidCache : pidCache[i].key \in Pids /\ pidCache[i].val \in PidNames
    <3>1. \A i \in DOMAIN pidCache : pidCache[i] \in PidEntry
      BY DEF IInv, CachesInv, IsCache
    <3> QED BY <3>1 DEF PidEntry
  <2>2. \A i \in DOMAIN containerCache :
          containerCache[i].key \in Containers /\ containerCache[i].val \in Services
    <3>1. \A i \in DOMAIN containerCache : containerCache[i] \in ContainerEntry
      BY DEF IInv, CachesInv, IsCache
    <3> QED BY <3>1 DEF ContainerEntry
  <2>3. \A i \in DOMAIN ipCache : ipCache[i].key \in Addrs
    <3>1. \A i \in DOMAIN ipCache : ipCache[i] \in AddrEntry
      BY DEF IInv, CachesInv, IsCache
    <3> QED BY <3>1 DEF AddrEntry
  <2>4. /\ KeysOf(pidCache) \subseteq Pids /\ KeysOf(containerCache) \subseteq Containers
        /\ KeysOf(ipCache) \subseteq Addrs
    BY <2>1, <2>2, <2>3 DEF KeysOf
  <2>5. /\ CacheOK(pidCache, PIDCacheCapacity) /\ CacheOK(containerCache, ContainerCacheCapacity)
        /\ CacheOK(ipCache, IPCacheCapacity)
    BY DEF IInv, CachesInv, IsCache, CacheOK, UniqueKeys
  <2> QED BY <2>1, <2>2, <2>4, <2>5 DEF TypeOK, IInv, WorldInv
<1> QED BY <1>1, Invariance, PTL

(* A name outlives the truth by the two times to live together and no more,     *)
(* however it is handed from one cache to the other (resolver.go:138-171).      *)
THEOREM NamesAreRecent == Spec => []StalenessBound
<1>1. ASSUME NEW S, NEW c \in Seq(S), UniqueKeys(c), NEW bound \in Nat, NEW i \in DOMAIN c,
             Hit(c, c[i].key),
             \A e \in S : e.left \in Int /\ e.age \in Nat /\ e.age + e.left <= bound
      PROVE  c[i].age <= bound
  <2>1. PositionOf(c, c[i].key) \in DOMAIN c /\ c[PositionOf(c, c[i].key)].key = c[i].key
    BY <1>1, EntryFound DEF Hit, EntryOf
  <2>2. EntryOf(c, c[i].key) = c[i]
    BY <1>1, <2>1 DEF UniqueKeys, EntryOf
  <2>3. ~(c[i].left < 0) /\ c[i] \in S
    BY <1>1, <2>2 DEF Hit, Expired
  <2> QED BY <1>1, <2>3
<1>2. IInv => StalenessBound
  <2> SUFFICES ASSUME IInv PROVE StalenessBound
    OBVIOUS
  <2>1. \A e \in PidEntry : e.left \in Int /\ e.age \in Nat /\ e.age + e.left <= PidBound
    BY DEF PidEntry
  <2>2. \A e \in ContainerEntry : e.left \in Int /\ e.age \in Nat /\ e.age + e.left <= ContainerCacheTTL
    BY DEF ContainerEntry
  <2>3. \A e \in AddrEntry : e.left \in Int /\ e.age \in Nat /\ e.age + e.left <= IPCacheTTL
    BY DEF AddrEntry
  <2>4. PidBound \in Nat /\ ContainerCacheTTL \in Nat /\ IPCacheTTL \in Nat
    BY Bounds DEF PidBound
  <2> QED BY <1>1, <2>1, <2>2, <2>3, <2>4 DEF IInv, CachesInv, IsCache, StalenessBound, PidBound
<1> QED BY <1>2, Invariance, PTL

-----------------------------------------------------------------------------
(* Order.  The cache and the history of what was resolved move in step.         *)

Distinct(u) == \A i, j \in DOMAIN u : u[i] = u[j] => i = j

(* d is c with x moved to its front from position p.                            *)
FromPosition(d, c, x, p) ==
  /\ Len(d) = Len(c) /\ d[1] = x
  /\ \A j \in 2 .. Len(d) : d[j] = IF j <= p THEN c[j - 1] ELSE c[j]

(* d is the new x and what of c there is room for.                              *)
AtFront(d, c, x, room) ==
  /\ Len(d) = (IF Len(c) < room THEN Len(c) + 1 ELSE room) /\ d[1] = x
  /\ \A j \in 2 .. Len(d) : d[j] = c[j - 1]

Keys(c) == [i \in DOMAIN c |-> c[i].key]

(* RemoveAt and a new head, for a cache and for the history alike.              *)
LEMMA FrontFromPosition ==
  ASSUME NEW S, NEW c \in Seq(S), NEW p \in DOMAIN c, NEW x \in S
  PROVE  /\ <<x>> \o RemoveAt(c, p) \in Seq(S)
         /\ FromPosition(<<x>> \o RemoveAt(c, p), c, x, p)
<1> DEFINE r == RemoveAt(c, p)
           d == <<x>> \o r
<1>1. /\ r \in Seq(S) /\ Len(r) = Len(c) - 1 /\ Len(c) \in Nat
      /\ \A j \in DOMAIN r : r[j] = IF j < p THEN c[j] ELSE c[j + 1]
  BY RemoveAtEffect
<1> HIDE DEF r
<1>2. d \in Seq(S) /\ Len(d) = Len(c) /\ d[1] = x /\ \A j \in 2 .. Len(d) : d[j] = r[j - 1]
  BY <1>1
<1>3. ASSUME NEW j \in 2 .. Len(d) PROVE d[j] = IF j <= p THEN c[j - 1] ELSE c[j]
  <2>1. j - 1 \in DOMAIN r /\ p \in Int /\ j \in Int /\ (j - 1) + 1 = j
    BY <1>1, <1>2
  <2>2. d[j] = r[j - 1]
    BY <1>2
  <2>3. r[j - 1] = IF j - 1 < p THEN c[j - 1] ELSE c[j]
    BY <1>1, <2>1
  <2>4. j - 1 < p <=> j <= p
    BY <2>1
  <2> HIDE DEF d
  <2> QED BY <2>2, <2>3, <2>4
<1> QED BY <1>2, <1>3 DEF FromPosition, r

(* The history: its position of x is the only one.                              *)
LEMMA HistoryMoves ==
  ASSUME NEW S, NEW u \in Seq(S), Distinct(u), NEW x \in S
  PROVE  LET v == <<x>> \o RemoveFirst(u, x) IN
         /\ v \in Seq(S) /\ Distinct(v)
         /\ \/ \E q \in DOMAIN u : u[q] = x /\ FromPosition(v, u, x, q)
            \/ (\A i \in DOMAIN u : u[i] # x) /\ AtFront(v, u, x, Len(u) + 1)
<1> DEFINE v == <<x>> \o RemoveFirst(u, x)
<1>1. CASE \E i \in DOMAIN u : u[i] = x
  <2> DEFINE I == {i \in 1 .. Len(u) : u[i] = x}
             q == Min(I)
  <2>1. I # {} /\ I \in SUBSET Nat /\ 1 .. Len(u) = DOMAIN u
    BY <1>1
  <2>2. q \in I
    <3>1. \E i \in I : \A j \in I : i <= j
      <4> HIDE DEF I
      <4> QED BY <2>1, LeastNat
    <3> HIDE DEF I
    <3> QED BY <3>1 DEF Min
  <2>3. RemoveFirst(u, x) = RemoveAt(u, q)
    BY <2>1 DEF RemoveFirst, SelectInSeq
  <2>4. q \in DOMAIN u /\ u[q] = x
    BY <2>1, <2>2
  <2> HIDE DEF q
  <2>5. v \in Seq(S) /\ FromPosition(v, u, x, q)
    BY <2>3, <2>4, FrontFromPosition
  <2> HIDE DEF v
  <2>6. Distinct(v)
    <3> SUFFICES ASSUME NEW i \in 1 .. Len(v), NEW j \in 1 .. Len(v), v[i] = v[j] PROVE i = j
      BY <2>5 DEF Distinct
    <3>1. Len(v) = Len(u) /\ Len(u) \in Nat /\ q \in 1 .. Len(u)
      BY <2>1, <2>4, <2>5 DEF FromPosition
    <3> DEFINE at(k) == IF k = 1 THEN q ELSE IF k <= q THEN k - 1 ELSE k
    <3>2. \A k \in 1 .. Len(v) : v[k] = u[at(k)] /\ at(k) \in 1 .. Len(u)
      BY <2>4, <2>5, <3>1 DEF FromPosition
    <3>3. at(i) = at(j)
      <4> HIDE DEF at
      <4> QED BY <2>1, <3>2 DEF Distinct
    <3> QED BY <3>1, <3>3
  <2> QED BY <2>4, <2>5, <2>6 DEF v
<1>2. CASE \A i \in DOMAIN u : u[i] # x
  <2>1. RemoveFirst(u, x) = u
    BY <1>2 DEF RemoveFirst
  <2>2. v = <<x>> \o u
    BY <2>1
  <2> HIDE DEF v
  <2>3. /\ v \in Seq(S) /\ Len(v) = Len(u) + 1 /\ Len(u) \in Nat /\ v[1] = x
        /\ \A j \in 2 .. Len(v) : v[j] = u[j - 1] /\ j - 1 \in DOMAIN u
    BY <2>2
  <2>4. Distinct(v)
    <3> SUFFICES ASSUME NEW i \in 1 .. Len(v), NEW j \in 1 .. Len(v), v[i] = v[j] PROVE i = j
      BY <2>3 DEF Distinct
    <3>1. CASE i = 1 \/ j = 1
      BY <1>2, <2>3, <3>1
    <3>2. CASE i # 1 /\ j # 1
      BY <2>3, <3>2 DEF Distinct
    <3> QED BY <3>1, <3>2
  <2>5. AtFront(v, u, x, Len(u) + 1)
    BY <2>3 DEF AtFront
  <2> QED BY <1>2, <2>3, <2>4, <2>5 DEF v
<1> QED BY <1>1, <1>2

(* What a cache of that room makes of its keys.                                 *)
KeyMoves(d, c, x, room) ==
  \/ \E p \in DOMAIN c : c[p].key = x /\ FromPosition(Keys(d), Keys(c), x, p)
  \/ x \notin KeysOf(c) /\ AtFront(Keys(d), Keys(c), x, room)

LEMMA KeysType ==
  ASSUME NEW S, NEW c \in Seq(S)
  PROVE  Len(Keys(c)) = Len(c) /\ DOMAIN Keys(c) = DOMAIN c /\ \A i \in DOMAIN c : Keys(c)[i] = c[i].key
<1>1. DOMAIN c = 1 .. Len(c) /\ Len(c) \in Nat
  OBVIOUS
<1>2. DOMAIN Keys(c) = 1 .. Len(c)
  BY <1>1 DEF Keys
<1> QED BY <1>1, <1>2 DEF Keys

(* removeElement and PushFront.                                                 *)
LEMMA MovedToFront ==
  ASSUME NEW S, NEW c \in Seq(S), NEW x \in KeysOf(c), NEW e \in S, e.key = x, NEW room
  PROVE  KeyMoves(<<e>> \o Removed(c, x), c, x, room)
<1> DEFINE p == PositionOf(c, x)
           d == <<e>> \o RemoveAt(c, p)
<1>1. p \in DOMAIN c /\ c[p].key = x
  BY EntryFound DEF EntryOf
<1> HIDE DEF p
<1>2. d \in Seq(S) /\ FromPosition(d, c, e, p)
  BY <1>1, FrontFromPosition
<1> HIDE DEF d
<1>3. FromPosition(Keys(d), Keys(c), x, p)
  <2>1. /\ Len(Keys(d)) = Len(d) /\ \A i \in DOMAIN d : Keys(d)[i] = d[i].key
        /\ Len(Keys(c)) = Len(c) /\ \A i \in DOMAIN c : Keys(c)[i] = c[i].key
    BY <1>2, KeysType
  <2>2. Len(d) = Len(c) /\ Len(c) \in Nat /\ p \in 1 .. Len(c) /\ DOMAIN d = 1 .. Len(c) /\ DOMAIN c = 1 .. Len(c)
    BY <1>1, <1>2 DEF FromPosition
  <2>3. Keys(d)[1] = x
    BY <1>2, <2>1, <2>2 DEF FromPosition
  <2>4. ASSUME NEW j \in 2 .. Len(c)
        PROVE  Keys(d)[j] = IF j <= p THEN Keys(c)[j - 1] ELSE Keys(c)[j]
    <3>1. d[j] = IF j <= p THEN c[j - 1] ELSE c[j]
      BY <1>2, <2>2 DEF FromPosition
    <3>2. j \in DOMAIN d /\ j \in DOMAIN c /\ j - 1 \in DOMAIN c
      BY <2>2
    <3> QED BY <2>1, <3>1, <3>2
  <2> QED BY <2>1, <2>2, <2>3, <2>4 DEF FromPosition
<1>4. <<e>> \o Removed(c, x) = d
  BY DEF Removed, d, p
<1> QED BY <1>1, <1>3, <1>4 DEF KeyMoves

LEMMA GetMoves ==
  ASSUME NEW S, NEW c \in Seq(S), NEW x, Hit(c, x), NEW room
  PROVE  KeyMoves(Get(c, x), c, x, room)
<1>1. x \in KeysOf(c) /\ EntryOf(c, x) \in S /\ EntryOf(c, x).key = x
  BY EntryFound DEF Hit
<1> QED BY <1>1, MovedToFront DEF Get

(* A miss: an expired entry makes its own room, otherwise the last one goes.    *)
LEMMA SetMoves ==
  ASSUME NEW S, NEW c \in Seq(S), UniqueKeys(c), NEW x, ~Hit(c, x), NEW room \in Nat \ {0}, Len(c) <= room,
         NEW v, NEW ttl, NEW age, [key |-> x, val |-> v, left |-> ttl, age |-> age] \in S
  PROVE  KeyMoves(Set(Get(c, x), room, x, v, ttl, age), c, x, room)
<1> DEFINE e == [key |-> x, val |-> v, left |-> ttl, age |-> age]
           d == Set(Get(c, x), room, x, v, ttl, age)
<1>1. e \in S /\ e.key = x /\ Len(c) \in Nat
  OBVIOUS
<1>2. Get(c, x) = Removed(c, x)
  BY DEF Get
<1>3. x \notin KeysOf(Removed(c, x)) /\ Len(Removed(c, x)) = IF x \in KeysOf(c) THEN Len(c) - 1 ELSE Len(c)
  BY RemovedOnce
<1>4. d = <<e>> \o (IF Len(Removed(c, x)) >= room THEN RemoveAt(Removed(c, x), Len(Removed(c, x)))
                    ELSE Removed(c, x))
  BY <1>2, <1>3 DEF Set
<1> HIDE DEF e, d
<1>5. CASE x \in KeysOf(c)
  <2>1. ~(Len(Removed(c, x)) >= room)
    BY <1>1, <1>3, <1>5
  <2>2. d = <<e>> \o Removed(c, x)
    BY <1>4, <2>1
  <2> QED BY <1>1, <1>5, <2>2, MovedToFront DEF d
<1>6. CASE x \notin KeysOf(c)
  <2>1. Removed(c, x) = c
    BY <1>6 DEF Removed
  <2>2. d \in Seq(S) /\ AtFront(d, c, e, room)
    <3>1. CASE Len(c) >= room
      <4> DEFINE r == RemoveAt(c, Len(c))
      <4>1. Len(c) = room /\ Len(c) \in DOMAIN c
        BY <1>1, <3>1
      <4>2. /\ r \in Seq(S) /\ Len(r) = Len(c) - 1
            /\ \A j \in DOMAIN r : r[j] = IF j < Len(c) THEN c[j] ELSE c[j + 1]
        BY <4>1, RemoveAtEffect
      <4>3. d = <<e>> \o r
        BY <1>4, <2>1, <3>1
      <4> HIDE DEF r
      <4>4. d \in Seq(S) /\ Len(d) = room /\ d[1] = e
        BY <1>1, <4>1, <4>2, <4>3
      <4>5. ASSUME NEW j \in 2 .. Len(d) PROVE d[j] = c[j - 1]
        <5>1. d[j] = r[j - 1] /\ j - 1 \in DOMAIN r /\ j - 1 < Len(c)
          BY <4>1, <4>2, <4>3, <4>4
        <5> QED BY <4>2, <5>1
      <4> QED BY <3>1, <4>4, <4>5 DEF AtFront
    <3>2. CASE ~(Len(c) >= room)
      <4>1. d = <<e>> \o c
        BY <1>4, <2>1, <3>2
      <4>2. d \in Seq(S) /\ Len(d) = Len(c) + 1 /\ d[1] = e /\ \A j \in 2 .. Len(d) : d[j] = c[j - 1]
        BY <1>1, <4>1
      <4> QED BY <1>1, <3>2, <4>2 DEF AtFront
    <3> QED BY <3>1, <3>2
  <2>3. /\ Len(Keys(d)) = Len(d) /\ \A i \in DOMAIN d : Keys(d)[i] = d[i].key
        /\ Len(Keys(c)) = Len(c) /\ \A i \in DOMAIN c : Keys(c)[i] = c[i].key
    BY <2>2, KeysType
  <2>4. /\ Len(d) = IF Len(c) < room THEN Len(c) + 1 ELSE room
        /\ DOMAIN d = 1 .. Len(d) /\ DOMAIN c = 1 .. Len(c) /\ 1 \in DOMAIN d
    BY <1>1, <2>2 DEF AtFront
  <2>5. AtFront(Keys(d), Keys(c), x, room)
    <3>1. \A j \in 2 .. Len(d) : j \in DOMAIN d /\ j - 1 \in DOMAIN c
      BY <1>1, <2>4
    <3> QED BY <1>1, <2>2, <2>3, <2>4, <3>1 DEF AtFront
  <2> QED BY <1>6, <2>5 DEF KeyMoves, d
<1> QED BY <1>5, <1>6

(* c holds the front of u, as much of it as there is room for.                  *)
Follows(c, u, room) ==
  /\ Len(c) = IF Len(u) < room THEN Len(u) ELSE room
  /\ \A i \in DOMAIN c : c[i].key = u[i]

(* What falls off the end of the cache is further down in the history than the  *)
(* room reaches.                                                                *)
LEMMA MovesTogether ==
  ASSUME NEW S, NEW c \in Seq(S), NEW d \in Seq(S), NEW P, NEW u \in Seq(P), Distinct(u),
         NEW x \in P, NEW room \in Nat \ {0}, Follows(c, u, room), KeyMoves(d, c, x, room)
  PROVE  Follows(d, <<x>> \o RemoveFirst(u, x), room)
<1> DEFINE v == <<x>> \o RemoveFirst(u, x)
<1>1. /\ v \in Seq(P)
      /\ \/ \E q \in DOMAIN u : u[q] = x /\ FromPosition(v, u, x, q)
         \/ (\A i \in DOMAIN u : u[i] # x) /\ AtFront(v, u, x, Len(u) + 1)
  BY HistoryMoves
<1> HIDE DEF v
<1>2. /\ Len(Keys(d)) = Len(d) /\ \A i \in DOMAIN d : Keys(d)[i] = d[i].key
      /\ Len(Keys(c)) = Len(c) /\ \A i \in DOMAIN c : Keys(c)[i] = c[i].key
  BY KeysType
<1>3. /\ DOMAIN c = 1 .. Len(c) /\ DOMAIN d = 1 .. Len(d) /\ DOMAIN u = 1 .. Len(u)
      /\ Len(c) \in Nat /\ Len(d) \in Nat /\ Len(u) \in Nat /\ Len(v) \in Nat
      /\ Len(c) <= Len(u) /\ Len(c) <= room
  BY <1>1 DEF Follows
<1>4. \A i \in 1 .. Len(c) : Keys(c)[i] = u[i]
  BY <1>2, <1>3 DEF Follows
<1>5. SUFFICES /\ Len(d) = IF Len(v) < room THEN Len(v) ELSE room
               /\ Keys(d)[1] = v[1]
               /\ \A j \in 2 .. Len(d) : Keys(d)[j] = v[j]
  <2>1. ASSUME NEW i \in DOMAIN d, Keys(d)[1] = v[1], \A j \in 2 .. Len(d) : Keys(d)[j] = v[j]
        PROVE  d[i].key = v[i]
    <3>1. Keys(d)[i] = d[i].key /\ i \in 1 .. Len(d)
      BY <1>2, <1>3
    <3>2. i = 1 \/ i \in 2 .. Len(d)
      BY <1>3, <3>1
    <3> QED BY <2>1, <3>1, <3>2
  <2> QED BY <2>1 DEF Follows, v
<1>6. v[1] = x /\ Keys(d)[1] = x
  BY <1>1 DEF KeyMoves, FromPosition, AtFront
<1>7. CASE \E p \in DOMAIN c : c[p].key = x /\ FromPosition(Keys(d), Keys(c), x, p)
  <2>1. PICK p \in DOMAIN c : c[p].key = x /\ FromPosition(Keys(d), Keys(c), x, p)
    BY <1>7
  <2>2. p \in 1 .. Len(u) /\ u[p] = x
    BY <1>2, <1>3, <1>4, <2>1
  <2>3. PICK q \in DOMAIN u : u[q] = x /\ FromPosition(v, u, x, q)
    BY <1>1, <1>3, <2>2
  <2>4. q = p
    BY <1>3, <2>2, <2>3 DEF Distinct
  <2>5. Len(d) = Len(c) /\ Len(v) = Len(u)
    BY <1>2, <2>1, <2>3 DEF FromPosition
  <2>6. ASSUME NEW j \in 2 .. Len(d) PROVE Keys(d)[j] = v[j]
    <3>1. Keys(d)[j] = IF j <= p THEN Keys(c)[j - 1] ELSE Keys(c)[j]
      BY <1>2, <2>1 DEF FromPosition
    <3>2. v[j] = IF j <= p THEN u[j - 1] ELSE u[j]
      BY <1>3, <2>3, <2>4, <2>5 DEF FromPosition
    <3>3. j - 1 \in 1 .. Len(c) /\ j \in 1 .. Len(c)
      BY <1>3, <2>5
    <3>4. Keys(c)[j - 1] = u[j - 1] /\ Keys(c)[j] = u[j]
      BY <1>4, <3>3
    <3> QED BY <3>1, <3>2, <3>4
  <2> QED BY <1>6, <2>5, <2>6 DEF Follows
<1>8. CASE x \notin KeysOf(c) /\ AtFront(Keys(d), Keys(c), x, room)
  <2>1. \A i \in 1 .. Len(c) : u[i] # x
    BY <1>2, <1>3, <1>4, <1>8 DEF KeysOf
  <2>2. Len(d) = IF Len(c) < room THEN Len(c) + 1 ELSE room
    BY <1>2, <1>8 DEF AtFront
  <2>3. \A j \in 2 .. Len(d) : Keys(d)[j] = u[j - 1]
    <3>1. \A j \in 2 .. Len(d) : Keys(d)[j] = Keys(c)[j - 1] /\ j - 1 \in 1 .. Len(c)
      BY <1>2, <1>3, <1>8, <2>2 DEF AtFront
    <3> QED BY <1>4, <3>1
  <2>4. CASE \E q \in DOMAIN u : u[q] = x /\ FromPosition(v, u, x, q)
    <3>1. PICK q \in DOMAIN u : u[q] = x /\ FromPosition(v, u, x, q)
      BY <2>4
    <3>2. q \in 1 .. Len(u) /\ Len(c) < q
      BY <1>3, <2>1, <3>1
    <3>3. Len(c) = room /\ Len(d) = room /\ Len(v) = Len(u) /\ room < q
      <4>1. Len(v) = Len(u)
        BY <3>1 DEF FromPosition
      <4>2. Len(c) = room
        BY <1>3, <3>2 DEF Follows
      <4> QED BY <2>2, <3>2, <4>1, <4>2
    <3>4. ASSUME NEW j \in 2 .. Len(d) PROVE v[j] = u[j - 1]
      <4>1. j \in 2 .. Len(v) /\ j <= q
        BY <1>3, <3>2, <3>3
      <4>2. v[j] = IF j <= q THEN u[j - 1] ELSE u[j]
        BY <3>1, <4>1 DEF FromPosition
      <4> QED BY <4>1, <4>2
    <3>5. Len(d) = IF Len(v) < room THEN Len(v) ELSE room
      <4>1. ~(Len(v) < room)
        BY <1>3, <3>2, <3>3
      <4> QED BY <3>3, <4>1
    <3>6. \A j \in 2 .. Len(d) : Keys(d)[j] = v[j]
      BY <2>3, <3>4
    <3> QED BY <1>6, <3>5, <3>6
  <2>5. CASE AtFront(v, u, x, Len(u) + 1)
    <3>1. Len(v) = Len(u) + 1 /\ \A j \in 2 .. Len(v) : v[j] = u[j - 1]
      BY <1>3, <2>5 DEF AtFront
    <3>2. Len(d) = IF Len(v) < room THEN Len(v) ELSE room
      BY <1>3, <2>2, <3>1 DEF Follows
    <3>3. \A j \in 2 .. Len(d) : j \in 2 .. Len(v)
      BY <1>3, <3>1, <3>2
    <3> QED BY <1>6, <2>3, <3>1, <3>2, <3>3
  <2> QED BY <1>1, <2>4, <2>5
<1> QED BY <1>7, <1>8 DEF KeyMoves

UsedInv ==
  /\ used \in Seq(Pids) /\ Distinct(used)
  /\ Follows(pidCache, used, PIDCacheCapacity)

LEMMA UsedInit == Init => UsedInv
<1> SUFFICES ASSUME Init PROVE UsedInv
  OBVIOUS
<1>1. used = << >> /\ pidCache = << >>
  BY DEF Init
<1> QED BY <1>1, Bounds DEF UsedInv, Distinct, Follows

(* Whatever name is found, the key moves in the same way.                       *)
LEMMA KeyResolved ==
  ASSUME IInv, NEW pid \in Pids, resolvePID(pid)
  PROVE  /\ pidCache' \in Seq(PidEntry)
         /\ KeyMoves(pidCache', pidCache, pid, PIDCacheCapacity)
<1>1. pidCache' \in Seq(PidEntry)
  BY ResolvePidSafe DEF IsCache
<1>2. pidCache \in Seq(PidEntry) /\ UniqueKeys(pidCache) /\ Len(pidCache) <= PIDCacheCapacity
  BY DEF IInv, CachesInv, IsCache
<1>3. CASE Hit(pidCache, pid) /\ pidCache' = Get(pidCache, pid)
  <2>1. KeyMoves(Get(pidCache, pid), pidCache, pid, PIDCacheCapacity)
    <3>1. pidCache \in Seq(PidEntry) /\ Hit(pidCache, pid)
      BY <1>2, <1>3
    <3> HIDE DEF PidEntry
    <3> QED BY <3>1, GetMoves
  <2> QED BY <1>1, <1>3, <2>1
<1>4. ASSUME ~Hit(pidCache, pid), NEW name, NEW age, pidCache' = SetPid(Get(pidCache, pid), pid, name, age)
      PROVE  KeyMoves(pidCache', pidCache, pid, PIDCacheCapacity)
  <2> DEFINE e == [key |-> pid, val |-> name, left |-> PIDCacheTTL, age |-> age]
             T == PidEntry \union {e}
  <2>1. pidCache \in Seq(T) /\ e \in T
    BY <1>2
  <2> HIDE DEF T
  <2> QED BY <1>2, <1>4, <2>1, SetMoves, Bounds DEF SetPid
<1>5. \/ Hit(pidCache, pid) /\ pidCache' = Get(pidCache, pid)
      \/ /\ ~Hit(pidCache, pid)
         /\ \E name, age : pidCache' = SetPid(Get(pidCache, pid), pid, name, age)
  BY Zenon DEF resolvePID
<1> QED BY <1>1, <1>3, <1>4, <1>5

LEMMA UsedStep == IInv /\ UsedInv /\ [Next]_vars => UsedInv'
<1> SUFFICES ASSUME IInv, UsedInv, [Next]_vars PROVE UsedInv'
  OBVIOUS
<1>1. ASSUME NEW pid \in Pids, resolvePID(pid), used' = <<pid>> \o RemoveFirst(used, pid)
      PROVE  UsedInv'
  <2>1. /\ pidCache' \in Seq(PidEntry) /\ pidCache \in Seq(PidEntry)
        /\ KeyMoves(pidCache', pidCache, pid, PIDCacheCapacity)
    BY <1>1, KeyResolved DEF IInv, CachesInv, IsCache
  <2>2. Follows(pidCache', <<pid>> \o RemoveFirst(used, pid), PIDCacheCapacity)
    BY <2>1, MovesTogether, Bounds DEF UsedInv
  <2>3. LET v == <<pid>> \o RemoveFirst(used, pid) IN v \in Seq(Pids) /\ Distinct(v)
    BY HistoryMoves DEF UsedInv
  <2> QED BY <1>1, <2>2, <2>3 DEF UsedInv
<1>2. CASE UNCHANGED <<pidCache, used>>
  BY <1>2 DEF UsedInv
<1>3. CASE Tick
  <2>1. used' = used /\ pidCache' = Aged(pidCache) /\ pidCache \in Seq(PidEntry)
    BY <1>3 DEF Tick, IInv, CachesInv, IsCache
  <2>2. Len(Aged(pidCache)) = Len(pidCache) /\ DOMAIN Aged(pidCache) = DOMAIN pidCache
    <3>1. DOMAIN pidCache = 1 .. Len(pidCache) /\ Len(pidCache) \in Nat
      BY <2>1
    <3> QED BY <3>1 DEF Aged
  <2>3. \A i \in DOMAIN pidCache : Aged(pidCache)[i].key = pidCache[i].key
    <3>1. ASSUME NEW i \in DOMAIN pidCache PROVE Older(pidCache[i]).key = pidCache[i].key
      <4>1. pidCache[i] \in PidEntry
        BY <2>1
      <4> QED BY <4>1 DEF Older, PidEntry
    <3> QED BY <3>1 DEF Aged
  <2> QED BY <2>1, <2>2, <2>3 DEF UsedInv, Follows
<1>4. \/ \E pid \in Pids : resolvePID(pid) /\ used' = <<pid>> \o RemoveFirst(used, pid)
      \/ UNCHANGED <<pidCache, used>> \/ Tick
  BY DEF Next, Resolve, ResolveProcess, World, PidReused, PodUpdated, AddrMoved, Settle, caches, vars
<1> QED BY <1>1, <1>2, <1>3, <1>4

(* The PID cache keeps the most recent processes, whatever their entries are    *)
(* worth: what Get removes and what Set puts in front and drops at the end      *)
(* together follow the order of use, at any capacity, with expired entries in   *)
(* any place (cache.go:52-112).                                                 *)
THEOREM RecentPids == Spec => []RecentPidsStay
<1>1. IInv /\ UsedInv => RecentPidsStay
  <2> SUFFICES ASSUME IInv, UsedInv PROVE RecentPidsStay
    OBVIOUS
  <2> DEFINE n == IF Len(used) < PIDCacheCapacity THEN Len(used) ELSE PIDCacheCapacity
             s == SubSeq(used, 1, n)
  <2>1. Len(used) \in Nat /\ n \in 0 .. Len(used) /\ used \in Seq(Pids)
    BY Bounds DEF UsedInv
  <2>2. DOMAIN pidCache = 1 .. n
    BY DEF UsedInv, Follows, IInv, CachesInv, IsCache
  <2>3. \A i \in DOMAIN pidCache : pidCache[i].key = used[i]
    BY DEF UsedInv, Follows
  <2> HIDE DEF n
  <2>4. s = [i \in 1 .. n |-> used[i]]
    BY <2>1
  <2> QED BY <2>2, <2>3, <2>4 DEF RecentPidsStay, n
<1> QED BY <1>1, UsedInit, UsedStep, Invariance, PTL DEF Spec

-----------------------------------------------------------------------------
(* How long a wrong name can last once the world has settled.                   *)

(* Entries that hold the true name or expire within n moments; a container's    *)
(* entry, unless it is expired already, has to leave room for the PID's entry   *)
(* it may still be copied to.                                                   *)
PidUntil(n) == {e \in PidEntry : e.val = TrueName(e.key) \/ e.left < n}

ContainerUntil(n) ==
  {e \in ContainerEntry : e.val = podOf[e.key] \/ Expired(e) \/ e.left + PIDCacheTTL < n}

AddrUntil(n) ==
  {e \in AddrEntry : (\E port \in Ports : e.val = AddrName(e.key, port)) \/ e.left < n}

TrueWithin(n) ==
  /\ pidCache \in Seq(PidUntil(n))
  /\ containerCache \in Seq(ContainerUntil(n))
  /\ ipCache \in Seq(AddrUntil(n))

LEMMA SeqWithin ==
  ASSUME NEW S, NEW T, NEW c \in Seq(S), \A e \in S : e \in T
  PROVE  c \in Seq(T)
<1>1. DOMAIN c = 1 .. Len(c) /\ Len(c) \in Nat /\ \A i \in 1 .. Len(c) : c[i] \in T
  OBVIOUS
<1>2. c = [i \in 1 .. Len(c) |-> c[i]]
  OBVIOUS
<1>3. [i \in 1 .. Len(c) |-> c[i]] \in Seq(T)
  BY <1>1
<1> QED BY <1>2, <1>3

LEMMA UntilSame ==
  ASSUME UNCHANGED world, NEW n
  PROVE  /\ PidUntil(n)' = PidUntil(n) /\ ContainerUntil(n)' = ContainerUntil(n)
         /\ AddrUntil(n)' = AddrUntil(n)
BY DEF world, PidUntil, ContainerUntil, AddrUntil, TrueName, AddrName

(* Whatever is in the caches is gone after both times to live.                  *)
LEMMA AllExpire ==
  ASSUME IInv, NEW n \in Nat, n > PidBound, n > IPCacheTTL
  PROVE  TrueWithin(n)
<1>1. \A e \in PidEntry : e \in PidUntil(n)
  BY Bounds DEF PidEntry, PidUntil, PidBound
<1>2. \A e \in ContainerEntry : e \in ContainerUntil(n)
  BY Bounds DEF ContainerEntry, ContainerUntil, PidBound
<1>3. \A e \in AddrEntry : e \in AddrUntil(n)
  BY Bounds DEF AddrEntry, AddrUntil
<1> QED BY <1>1, <1>2, <1>3, SeqWithin DEF IInv, CachesInv, IsCache, TrueWithin


(* A moment brings an entry that is not yet true one closer to its end.         *)
LEMMA UntilOlder ==
  ASSUME NEW n \in Nat, NEW m \in {n, n - 1}, m \in Nat
  PROVE  /\ \A e \in PidUntil(n) : Older(e) \in PidUntil(m) /\ Older(e).key = e.key
         /\ \A e \in ContainerUntil(n) : Older(e) \in ContainerUntil(m) /\ Older(e).key = e.key
         /\ \A e \in AddrUntil(n) : Older(e) \in AddrUntil(m) /\ Older(e).key = e.key
<1>1. ASSUME NEW K, NEW V, NEW e \in [key : K, val : V, left : Int, age : Nat], NEW b \in Int,
             e.left >= -1, e.age + e.left <= b
      PROVE  /\ Older(e) \in [key : K, val : V, left : Int, age : Nat]
             /\ Older(e).left >= -1 /\ Older(e).age + Older(e).left <= b
             /\ Older(e).key = e.key /\ Older(e).val = e.val
             /\ \/ e.left < 0 /\ Older(e).left = e.left
                \/ e.left \in Nat /\ Older(e).left = e.left - 1
  <2>1. /\ Older(e) \in [key : K, val : V, left : Int, age : Nat]
        /\ Older(e).left >= -1 /\ Older(e).age + Older(e).left <= b /\ Older(e).key = e.key
    BY <1>1, OlderKeeps
  <2>2. Older(e).val = e.val
    BY <1>1 DEF Older
  <2>3. \/ e.left < 0 /\ Older(e).left = e.left
        \/ e.left \in Nat /\ Older(e).left = e.left - 1
    BY <1>1 DEF Older, Expired
  <2> QED BY <2>1, <2>2, <2>3
<1>2. ASSUME NEW e \in PidUntil(n) PROVE Older(e) \in PidUntil(m) /\ Older(e).key = e.key
  <2>1. /\ e \in [key : Pids, val : PidNames, left : Int, age : Nat]
        /\ e.left >= -1 /\ e.age + e.left <= PidBound /\ PidBound \in Int
    BY Bounds DEF PidUntil, PidEntry, PidBound
  <2>2. e.val = TrueName(e.key) \/ e.left < n
    BY DEF PidUntil
  <2>3. /\ Older(e) \in [key : Pids, val : PidNames, left : Int, age : Nat]
        /\ Older(e).left >= -1 /\ Older(e).age + Older(e).left <= PidBound
        /\ Older(e).key = e.key /\ Older(e).val = e.val
        /\ \/ e.left < 0 /\ Older(e).left = e.left
           \/ e.left \in Nat /\ Older(e).left = e.left - 1
    BY <2>1, <1>1
  <2>4. Older(e) \in PidEntry
    BY <2>3 DEF PidEntry
  <2>5. Older(e).val = TrueName(Older(e).key) \/ Older(e).left < m
    BY <2>1, <2>3, <2>2
  <2> QED BY <2>3, <2>4, <2>5 DEF PidUntil
<1>3. ASSUME NEW e \in ContainerUntil(n) PROVE Older(e) \in ContainerUntil(m) /\ Older(e).key = e.key
  <2>1. /\ e \in [key : Containers, val : Services, left : Int, age : Nat]
        /\ e.left >= -1 /\ e.age + e.left <= ContainerCacheTTL /\ ContainerCacheTTL \in Int
    BY Bounds DEF ContainerUntil, ContainerEntry
  <2>2. e.val = podOf[e.key] \/ e.left < 0 \/ e.left + PIDCacheTTL < n
    BY DEF ContainerUntil, Expired
  <2>3. /\ Older(e) \in [key : Containers, val : Services, left : Int, age : Nat]
        /\ Older(e).left >= -1 /\ Older(e).age + Older(e).left <= ContainerCacheTTL
        /\ Older(e).key = e.key /\ Older(e).val = e.val
        /\ \/ e.left < 0 /\ Older(e).left = e.left
           \/ e.left \in Nat /\ Older(e).left = e.left - 1
    BY <2>1, <1>1
  <2>4. Older(e) \in ContainerEntry
    BY <2>3 DEF ContainerEntry
  <2>5. Older(e).val = podOf[Older(e).key] \/ Older(e).left < 0 \/ Older(e).left + PIDCacheTTL < m
    BY <2>1, <2>3, <2>2, Bounds
  <2> QED BY <2>3, <2>4, <2>5 DEF ContainerUntil, Expired
<1>4. ASSUME NEW e \in AddrUntil(n) PROVE Older(e) \in AddrUntil(m) /\ Older(e).key = e.key
  <2>1. /\ e \in [key : Addrs, val : AddrNames, left : Int, age : Nat]
        /\ e.left >= -1 /\ e.age + e.left <= IPCacheTTL /\ IPCacheTTL \in Int
    BY Bounds DEF AddrUntil, AddrEntry
  <2>2. (\E port \in Ports : e.val = AddrName(e.key, port)) \/ e.left < n
    BY DEF AddrUntil
  <2>3. /\ Older(e) \in [key : Addrs, val : AddrNames, left : Int, age : Nat]
        /\ Older(e).left >= -1 /\ Older(e).age + Older(e).left <= IPCacheTTL
        /\ Older(e).key = e.key /\ Older(e).val = e.val
        /\ \/ e.left < 0 /\ Older(e).left = e.left
           \/ e.left \in Nat /\ Older(e).left = e.left - 1
    BY <2>1, <1>1
  <2>4. Older(e) \in AddrEntry
    BY <2>3 DEF AddrEntry
  <2>5. (\E port \in Ports : Older(e).val = AddrName(Older(e).key, port)) \/ Older(e).left < m
    BY <2>1, <2>3, <2>2
  <2> QED BY <2>3, <2>4, <2>5 DEF AddrUntil
<1> QED BY <1>2, <1>3, <1>4


LEMMA TickWithin ==
  ASSUME IInv, NEW n \in Nat, NEW m \in {n, n - 1}, m \in Nat, TrueWithin(n), Tick
  PROVE  TrueWithin(m)'
<1>1. UniqueKeys(pidCache) /\ UniqueKeys(containerCache) /\ UniqueKeys(ipCache)
  BY DEF IInv, CachesInv, IsCache
<1>2. ASSUME NEW S, NEW T, NEW c \in Seq(S), UniqueKeys(c), \A e \in S : Older(e) \in T /\ Older(e).key = e.key
      PROVE  Aged(c) \in Seq(T)
  <2>1. DOMAIN c = 1 .. Len(c) /\ Len(c) \in Nat /\ \A i \in DOMAIN c : Older(c[i]) \in T
    BY <1>2
  <2>2. Aged(c) \in [1 .. Len(c) -> T]
    BY <2>1 DEF Aged
  <2> QED BY <2>1, <2>2
<1>3. /\ Aged(pidCache) \in Seq(PidUntil(m)) /\ Aged(containerCache) \in Seq(ContainerUntil(m))
      /\ Aged(ipCache) \in Seq(AddrUntil(m))
  BY <1>1, <1>2, UntilOlder DEF TrueWithin
<1>4. UNCHANGED world
  BY DEF Tick
<1>5. /\ PidUntil(m)' = PidUntil(m) /\ ContainerUntil(m)' = ContainerUntil(m)
      /\ AddrUntil(m)' = AddrUntil(m)
  BY <1>4, UntilSame
<1> QED BY <1>3, <1>5 DEF Tick, TrueWithin

(* A name that a lookup of the informers gives is true, and one that is copied  *)
(* from a container's entry is true or was allowed for.                         *)
LEMMA PidWithin ==
  ASSUME IInv, NEW n \in Nat, TrueWithin(n), NEW pid \in Pids, resolvePID(pid)
  PROVE  pidCache' \in Seq(PidUntil(n)) /\ containerCache' \in Seq(ContainerUntil(n))
<1> DEFINE id == Container[proc[pid]]
           miss == Get(pidCache, pid)
<1>1. proc[pid] \in Processes /\ proc[pid] \in PidNames
  BY DEF IInv, WorldInv, PidNames
<1>2. id # NoContainer => id \in Containers
  BY <1>1 DEF Containers
<1>3. TrueName(pid) = IF id = NoContainer \/ podOf[id] = Unknown THEN proc[pid] ELSE podOf[id]
  BY DEF TrueName
<1>4. IsCache(miss, PidUntil(n), PIDCacheCapacity)
  BY GetKeeps, Bounds DEF IInv, CachesInv, IsCache, TrueWithin
<1>5. IsCache(Get(containerCache, id), ContainerUntil(n), ContainerCacheCapacity)
  BY GetKeeps, Bounds DEF IInv, CachesInv, IsCache, TrueWithin
<1> HIDE DEF id, miss
<1>6. ASSUME NEW name \in PidNames, NEW age \in 0 .. ContainerCacheTTL, name = TrueName(pid) \/ PIDCacheTTL < n
      PROVE  SetPid(miss, pid, name, age) \in Seq(PidUntil(n))
  <2>1. [key |-> pid, val |-> name, left |-> PIDCacheTTL, age |-> age] \in PidUntil(n)
    BY <1>6, NewPidEntry DEF PidUntil
  <2> QED BY <1>4, <2>1, SetKeeps, Bounds DEF SetPid, IsCache
<1>7. 0 \in 0 .. ContainerCacheTTL
  BY Bounds
<1>8. CASE Hit(pidCache, pid)
  BY <1>4, <1>8 DEF resolvePID, TrueWithin, IsCache, miss
<1>9. CASE /\ id # NoContainer /\ Hit(containerCache, id)
           /\ containerCache' = Get(containerCache, id)
           /\ pidCache' = SetPid(miss, pid, EntryOf(containerCache, id).val, EntryOf(containerCache, id).age)
  <2> DEFINE e == EntryOf(containerCache, id)
  <2>1. id \in KeysOf(containerCache) /\ ~Expired(e) /\ containerCache \in Seq(ContainerUntil(n))
    BY <1>9 DEF Hit, TrueWithin
  <2>2. e \in ContainerUntil(n) /\ e.key = id
    BY <2>1, EntryFound
  <2> HIDE DEF e
  <2>3. /\ e.val \in Services /\ e.left \in Nat /\ e.age \in 0 .. ContainerCacheTTL
        /\ e.val = podOf[id] \/ e.left + PIDCacheTTL < n
    BY <2>1, <2>2, Bounds DEF ContainerUntil, ContainerEntry, Expired
  <2>4. e.val = TrueName(pid) \/ PIDCacheTTL < n
    BY <1>3, <1>9, <2>3, Bounds, ResolverConstants
  <2>5. e.val \in PidNames
    BY <2>3 DEF PidNames
  <2> QED BY <1>5, <1>6, <1>9, <2>3, <2>4, <2>5 DEF e, IsCache
<1>10. CASE /\ id # NoContainer /\ podOf[id] # Unknown
            /\ containerCache' = SetContainer(Get(containerCache, id), id, podOf[id])
            /\ pidCache' = SetPid(miss, pid, podOf[id], 0)
  <2>1. podOf[id] \in Services /\ podOf[id] \in PidNames /\ id \in Containers /\ podOf[id] = TrueName(pid)
    BY <1>2, <1>3, <1>10 DEF IInv, WorldInv, PidNames
  <2>2. [key |-> id, val |-> podOf[id], left |-> ContainerCacheTTL, age |-> 0] \in ContainerUntil(n)
    BY <2>1, NewContainerEntry DEF ContainerUntil
  <2>3. SetContainer(Get(containerCache, id), id, podOf[id]) \in Seq(ContainerUntil(n))
    BY <1>5, <2>2, SetKeeps, Bounds DEF SetContainer, IsCache
  <2> QED BY <1>6, <1>7, <1>10, <2>1, <2>3
<1>11. CASE /\ id = NoContainer \/ podOf[id] = Unknown
            /\ pidCache' = SetPid(miss, pid, proc[pid], 0)
            /\ containerCache' \in {containerCache, Get(containerCache, id)}
  <2>1. proc[pid] = TrueName(pid)
    BY <1>3, <1>11
  <2> QED BY <1>1, <1>5, <1>6, <1>7, <1>11, <2>1 DEF TrueWithin, IsCache
<1> QED BY <1>8, <1>9, <1>10, <1>11 DEF resolvePID, id, miss

LEMMA AddrWithin ==
  ASSUME IInv, NEW n \in Nat, TrueWithin(n), NEW addr \in Addrs, NEW port \in Ports, resolveIP(addr, port)
  PROVE  ipCache' \in Seq(AddrUntil(n))
<1>1. IsCache(Get(ipCache, addr), AddrUntil(n), IPCacheCapacity)
  BY GetKeeps, Bounds DEF IInv, CachesInv, IsCache, TrueWithin
<1>2. [key |-> addr, val |-> AddrName(addr, port), left |-> IPCacheTTL, age |-> 0] \in AddrUntil(n)
  BY NewAddrEntry, NameOfAddr DEF AddrUntil
<1>3. Set(Get(ipCache, addr), IPCacheCapacity, addr, AddrName(addr, port), IPCacheTTL, 0)
        \in Seq(AddrUntil(n))
  BY <1>1, <1>2, SetKeeps, Bounds DEF IsCache
<1> QED BY <1>1, <1>3 DEF resolveIP, IsCache

LEMMA StepWithin ==
  ASSUME IInv, NEW n \in Nat, settled, TrueWithin(n), [Next]_vars
  PROVE  TrueWithin(n)'
<1>1. CASE UNCHANGED vars \/ World
  <2>1. UNCHANGED <<proc, podOf, hostOf, caches>>
    BY <1>1 DEF vars, world, caches, World, PidReused, PodUpdated, AddrMoved, Settle
  <2> QED BY <2>1 DEF TrueWithin, PidUntil, ContainerUntil, AddrUntil, TrueName, AddrName, caches
<1>2. CASE Tick
  BY <1>2, TickWithin
<1>3. ASSUME NEW pid \in Pids \union {0}, NEW addr \in Addrs \union {NoAddr}, NEW port \in Ports,
             Resolve(pid, addr, port)
      PROVE  TrueWithin(n)'
  <2>1. pidCache' \in Seq(PidUntil(n)) /\ containerCache' \in Seq(ContainerUntil(n))
    <3>1. CASE UNCHANGED <<pidCache, containerCache>>
      BY <3>1 DEF TrueWithin
    <3>2. CASE pid # 0 /\ resolvePID(pid)
      BY <3>2, PidWithin
    <3> QED BY <1>3, <3>1, <3>2 DEF Resolve, ResolveProcess
  <2>2. ipCache' \in Seq(AddrUntil(n))
    <3>1. CASE UNCHANGED ipCache
      BY <3>1 DEF TrueWithin
    <3>2. CASE addr # NoAddr /\ resolveIP(addr, port)
      BY <3>2, AddrWithin
    <3> QED BY <1>3, <3>1, <3>2 DEF Resolve, ResolveAddr
  <2>3. UNCHANGED world
    BY <1>3 DEF Resolve
  <2> QED BY <2>1, <2>2, <2>3, UntilSame DEF TrueWithin
<1> QED BY <1>1, <1>2, <1>3 DEF Next

(* Nothing that can still be returned is wrong when no time is left.            *)
LEMMA TrueAtZero ==
  ASSUME IInv, TrueWithin(0)
  PROVE  NamesTrue
<1>1. ASSUME NEW S, NEW c \in Seq(S), UniqueKeys(c), NEW i \in DOMAIN c, Hit(c, c[i].key)
      PROVE  c[i] \in S /\ ~(c[i].left < 0)
  <2>1. PositionOf(c, c[i].key) \in DOMAIN c /\ c[PositionOf(c, c[i].key)].key = c[i].key
    BY <1>1, EntryFound DEF Hit, EntryOf
  <2>2. EntryOf(c, c[i].key) = c[i]
    BY <1>1, <2>1 DEF UniqueKeys, EntryOf
  <2> QED BY <1>1, <2>2 DEF Hit, Expired
<1>2. UniqueKeys(pidCache) /\ UniqueKeys(ipCache)
  BY DEF IInv, CachesInv, IsCache
<1>3. ASSUME NEW i \in DOMAIN pidCache, Hit(pidCache, pidCache[i].key)
      PROVE  pidCache[i].val = TrueName(pidCache[i].key)
  <2>1. pidCache[i] \in PidUntil(0) /\ ~(pidCache[i].left < 0)
    BY <1>1, <1>2, <1>3 DEF TrueWithin
  <2> QED BY <2>1 DEF PidUntil
<1>4. ASSUME NEW i \in DOMAIN ipCache, Hit(ipCache, ipCache[i].key)
      PROVE  \E port \in Ports : ipCache[i].val = AddrName(ipCache[i].key, port)
  <2>1. ipCache[i] \in AddrUntil(0) /\ ~(ipCache[i].left < 0)
    BY <1>1, <1>2, <1>4 DEF TrueWithin
  <2> QED BY <2>1 DEF AddrUntil
<1> QED BY <1>3, <1>4 DEF NamesTrue

(* What is under NamesSettle, with the time it takes: no entry is wrong for     *)
(* longer than the two times to live together and the address cache's; once     *)
(* the world has settled, no lookup puts that off, a moment brings it nearer,   *)
(* and at zero every name is true and stays so (resolver.go:138-171,            *)
(* cache.go:52-112).                                                            *)
THEOREM NamesSettleInTime ==
  /\ \A n \in Nat : n > PIDCacheTTL + ContainerCacheTTL /\ n > IPCacheTTL => (Spec => []TrueWithin(n))
  /\ \A n \in Nat : Spec => [][settled /\ TrueWithin(n) => TrueWithin(n)']_vars
  /\ \A n \in Nat \ {0} : Spec => [][settled /\ TrueWithin(n) /\ Tick => TrueWithin(n - 1)']_vars
  /\ Spec => [](TrueWithin(0) => NamesTrue)
<1>1. ASSUME NEW n \in Nat, n > PIDCacheTTL + ContainerCacheTTL, n > IPCacheTTL
      PROVE  Spec => []TrueWithin(n)
  <2>1. IInv => TrueWithin(n)
    BY <1>1, AllExpire DEF PidBound
  <2> QED BY <2>1, Invariance, PTL
<1>2. ASSUME NEW n \in Nat
      PROVE  Spec => [][settled /\ TrueWithin(n) => TrueWithin(n)']_vars
  <2>1. IInv /\ [Next]_vars => [settled /\ TrueWithin(n) => TrueWithin(n)']_vars
    BY StepWithin
  <2> QED BY <2>1, Invariance, PTL DEF Spec
<1>3. ASSUME NEW n \in Nat \ {0}
      PROVE  Spec => [][settled /\ TrueWithin(n) /\ Tick => TrueWithin(n - 1)']_vars
  <2>1. IInv /\ [Next]_vars => [settled /\ TrueWithin(n) /\ Tick => TrueWithin(n - 1)']_vars
    BY TickWithin
  <2> QED BY <2>1, Invariance, PTL DEF Spec
<1>4. Spec => [](TrueWithin(0) => NamesTrue)
  BY TrueAtZero, Invariance, PTL
<1> QED BY <1>1, <1>2, <1>3, <1>4
=============================================================================
