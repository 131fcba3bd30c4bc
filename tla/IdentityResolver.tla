-------------------------- MODULE IdentityResolver --------------------------
(***************************************************************************)
(* The identity resolver (pkg/resolver/resolver.go): names for the process *)
(* and the address of an event, from three caches, /proc and the view of   *)
(* the cluster that the Kubernetes informers keep.                         *)
(*                                                                         *)
(* The world changes under the caches: a PID is given to another process,  *)
(* the informers learn of a container or see its pod join another service, *)
(* an address moves to another pod.  Only the event loop of main resolves, *)
(* so Resolve is one step; what it reads of /proc and of the informers it  *)
(* reads at once.                                                          *)
(***************************************************************************)
EXTENDS IdentityCache, FiniteSets

CONSTANTS
  Pids,            (* process ids; 0 is the kernel's                             *)
  MayBe,           (* the processes a PID may come to stand for                  *)
  Container,       (* the container of each process, or NoContainer              *)
  Addrs,           (* IP addresses; "0.0.0.0" is none                            *)
  Ports,           (* as they are written behind an address, ":80"                *)
  Services,
  Unknown,         (* what the informers say of what they have not seen          *)
  PIDCacheTTL, ContainerCacheTTL, IPCacheTTL,
  PIDCacheCapacity, ContainerCacheCapacity, IPCacheCapacity

NoContainer == "none"
NoAddr == "0.0.0.0"

(* A process is told by its command name.                                       *)
Processes == UNION {MayBe[pid] : pid \in Pids}
Containers == {Container[p] : p \in Processes} \ {NoContainer}

ASSUME ResolverConstants ==
  /\ {PIDCacheTTL, ContainerCacheTTL, IPCacheTTL} \subseteq Nat \ {0}
  /\ {PIDCacheCapacity, ContainerCacheCapacity, IPCacheCapacity} \subseteq Nat \ {0}
  /\ 0 \notin Pids /\ NoAddr \notin Addrs
  /\ Unknown \notin Services

VARIABLES
  proc,            (* /proc: the process of each PID                             *)
  podOf,           (* the informers: the service of each container, or Unknown   *)
  hostOf,          (* the informers: the service of each address, or Unknown     *)
  pidCache, containerCache, ipCache,
  used,            (* history: the PIDs resolved, latest first                   *)
  settled          (* the world has stopped changing                             *)

world == <<proc, podOf, hostOf, settled>>
caches == <<pidCache, containerCache, ipCache, used>>
vars == <<world, caches>>

Init ==
  /\ proc \in [Pids -> Processes] /\ \A pid \in Pids : proc[pid] \in MayBe[pid]
  /\ podOf = [c \in Containers |-> Unknown]
  /\ hostOf = [a \in Addrs |-> Unknown]
  /\ pidCache = << >> /\ containerCache = << >> /\ ipCache = << >>
  /\ used = << >>
  /\ settled = FALSE

-----------------------------------------------------------------------------
(* Names. *)

SetPid(c, pid, name, age) == Set(c, PIDCacheCapacity, pid, name, PIDCacheTTL, age)

SetContainer(c, id, name) == Set(c, ContainerCacheCapacity, id, name, ContainerCacheTTL, 0)

(* Fault: a container's entry is written again with its old name. *)
resolvePIDRenews(pid) ==
  LET id == Container[proc[pid]]
      c == Get(pidCache, pid)
  IN  IF Hit(pidCache, pid)
        THEN pidCache' = c /\ UNCHANGED containerCache
      ELSE IF id # NoContainer /\ Hit(containerCache, id)
        THEN LET e == EntryOf(containerCache, id)
             IN  /\ containerCache' = Set(containerCache, ContainerCacheCapacity, id, e.val,
                                          ContainerCacheTTL, e.age)
                 /\ pidCache' = SetPid(c, pid, e.val, e.age)
      ELSE IF id # NoContainer /\ podOf[id] # Unknown
        THEN /\ containerCache' = SetContainer(Get(containerCache, id), id, podOf[id])
             /\ pidCache' = SetPid(c, pid, podOf[id], 0)
        ELSE pidCache' = SetPid(c, pid, proc[pid], 0) /\ UNCHANGED containerCache

(***************************************************************************)
(* resolvePID: the PID's entry, else its container's entry, else what the  *)
(* informers say of the container, else the command name.  A name found in *)
(* the container's entry is stored under the PID with a new TTL.           *)
(***************************************************************************)
resolvePID(pid) ==
  LET id == Container[proc[pid]]
      afterMiss == Get(pidCache, pid)
  IN  \/ /\ Hit(pidCache, pid)
         /\ pidCache' = Get(pidCache, pid)
         /\ UNCHANGED containerCache
      \/ /\ ~Hit(pidCache, pid)
         /\ \/ /\ id = NoContainer
               /\ pidCache' = SetPid(afterMiss, pid, proc[pid], 0)
               /\ UNCHANGED containerCache
            \/ /\ id # NoContainer /\ Hit(containerCache, id)
               /\ containerCache' = Get(containerCache, id)
               /\ pidCache' = SetPid(afterMiss, pid, EntryOf(containerCache, id).val,
                                     EntryOf(containerCache, id).age)
            \/ /\ id # NoContainer /\ ~Hit(containerCache, id) /\ podOf[id] # Unknown
               /\ containerCache' = SetContainer(Get(containerCache, id), id, podOf[id])
               /\ pidCache' = SetPid(afterMiss, pid, podOf[id], 0)
            \/ /\ id # NoContainer /\ ~Hit(containerCache, id) /\ podOf[id] = Unknown
               /\ containerCache' = Get(containerCache, id)
               /\ pidCache' = SetPid(afterMiss, pid, proc[pid], 0)

(* The name of an address no pod has: with the port of the event at hand.      *)
AddrName(addr, port) == IF hostOf[addr] # Unknown THEN hostOf[addr] ELSE addr \o port

(* resolveIP: the cache is asked for the address alone.                        *)
resolveIP(addr, port) ==
  ipCache' = IF Hit(ipCache, addr) THEN Get(ipCache, addr)
             ELSE Set(Get(ipCache, addr), IPCacheCapacity, addr, AddrName(addr, port), IPCacheTTL, 0)

(* Resolve, for any event: its PID and one of its two addresses.               *)
ResolveProcess(pid) ==
  \/ pid = 0 /\ UNCHANGED <<pidCache, containerCache, used>>
  \/ /\ pid # 0
     /\ resolvePID(pid)
     /\ used' = <<pid>> \o RemoveFirst(used, pid)

ResolveAddr(addr, port) ==
  \/ addr = NoAddr /\ UNCHANGED ipCache
  \/ addr # NoAddr /\ resolveIP(addr, port)

Resolve(pid, addr, port) ==
  /\ ResolveProcess(pid)
  /\ ResolveAddr(addr, port)
  /\ UNCHANGED world

-----------------------------------------------------------------------------
(* The world and the clock. *)

PidReused(pid, p) ==
  /\ ~settled
  /\ proc' = [proc EXCEPT ![pid] = p]
  /\ UNCHANGED <<podOf, hostOf, settled, caches>>

(* Pods join services and leave them; a container that is known stays known.   *)
PodUpdated(id, s) ==
  /\ ~settled
  /\ podOf' = [podOf EXCEPT ![id] = s]
  /\ UNCHANGED <<proc, hostOf, settled, caches>>

AddrMoved(addr, s) ==
  /\ ~settled
  /\ hostOf' = [hostOf EXCEPT ![addr] = s]
  /\ UNCHANGED <<proc, podOf, settled, caches>>

Settle == settled' = TRUE /\ UNCHANGED <<proc, podOf, hostOf, caches>>

Tick ==
  /\ pidCache' = Aged(pidCache)
  /\ containerCache' = Aged(containerCache)
  /\ ipCache' = Aged(ipCache)
  /\ UNCHANGED <<world, used>>

World ==
  \/ \E pid \in Pids : \E p \in MayBe[pid] : PidReused(pid, p)
  \/ \E id \in Containers, s \in Services : PodUpdated(id, s)
  \/ \E addr \in Addrs, s \in Services \union {Unknown} : AddrMoved(addr, s)
  \/ Settle

Next ==
  \/ \E pid \in Pids \union {0}, addr \in Addrs \union {NoAddr}, port \in Ports :
       Resolve(pid, addr, port)
  \/ World
  \/ Tick

Spec == Init /\ [][Next]_vars

(* Time passes.  Events need not come.                                         *)
FairSpec == Spec /\ WF_vars(Tick)

-----------------------------------------------------------------------------
PidNames == Services \union Processes

TypeOK ==
  /\ proc \in [Pids -> Processes]
  /\ podOf \in [Containers -> Services \union {Unknown}]
  /\ hostOf \in [Addrs -> Services \union {Unknown}]
  /\ CacheOK(pidCache, PIDCacheCapacity) /\ KeysOf(pidCache) \subseteq Pids
  /\ CacheOK(containerCache, ContainerCacheCapacity) /\ KeysOf(containerCache) \subseteq Containers
  /\ CacheOK(ipCache, IPCacheCapacity) /\ KeysOf(ipCache) \subseteq Addrs
  /\ \A i \in DOMAIN pidCache : pidCache[i].val \in PidNames
  /\ \A i \in DOMAIN containerCache : containerCache[i].val \in Services

(***************************************************************************)
(* A name that a lookup of the caches can still return was true, of the    *)
(* container the process ran in, no longer ago than the two TTLs together: *)
(* a name moves from the container's entry to the PID's with a new TTL,    *)
(* but never back (resolver.go:138-171, cache.go:64-75).                   *)
(***************************************************************************)
StalenessBound ==
  /\ \A i \in DOMAIN pidCache :
       Hit(pidCache, pidCache[i].key) => pidCache[i].age <= PIDCacheTTL + ContainerCacheTTL
  /\ \A i \in DOMAIN containerCache :
       Hit(containerCache, containerCache[i].key) => containerCache[i].age <= ContainerCacheTTL
  /\ \A i \in DOMAIN ipCache : Hit(ipCache, ipCache[i].key) => ipCache[i].age <= IPCacheTTL

(***************************************************************************)
(* The PID cache holds exactly the processes resolved last, as many as it  *)
(* has room for, in that order: neither a lookup nor an expiry nor the     *)
(* entry that makes room costs a more recent one its place                 *)
(* (cache.go:52-112).                                                      *)
(***************************************************************************)
RecentPidsStay ==
  [i \in DOMAIN pidCache |-> pidCache[i].key] =
    SubSeq(used, 1, IF Len(used) < PIDCacheCapacity THEN Len(used) ELSE PIDCacheCapacity)

TrueName(pid) ==
  LET id == Container[proc[pid]]
  IN  IF id = NoContainer \/ podOf[id] = Unknown THEN proc[pid] ELSE podOf[id]

NamesTrue ==
  /\ \A i \in DOMAIN pidCache :
       Hit(pidCache, pidCache[i].key) => pidCache[i].val = TrueName(pidCache[i].key)
  /\ \A i \in DOMAIN ipCache :
       Hit(ipCache, ipCache[i].key) => \E port \in Ports : ipCache[i].val = AddrName(ipCache[i].key, port)

(***************************************************************************)
(* Once PIDs, pods and addresses have stopped moving, no wrong name comes  *)
(* out of the caches any more, however often the names are asked for: the  *)
(* life of an entry is not extended by its use (cache.go:64-73).           *)
(***************************************************************************)
NamesSettle == settled ~> []NamesTrue
=============================================================================
