------------------------ MODULE DependencyDAGProofs ------------------------
(***************************************************************************)
(* Proofs about the service graph for every set of services, every set of  *)
(* links and every capacity.                                               *)
(***************************************************************************)
EXTENDS DependencyDAG, FiniteSetTheorems, TLAPS

-----------------------------------------------------------------------------
(* Counting edges. *)

OutCount(E, n) == Cardinality(OutEdges(E, n))
InCount(E, n)  == Cardinality(InEdges(E, n))

LEMMA FiniteEdges ==
  ASSUME NEW E \in SUBSET Links, NEW n
  PROVE  /\ IsFiniteSet(OutEdges(E, n)) /\ OutCount(E, n) \in Nat
         /\ IsFiniteSet(InEdges(E, n)) /\ InCount(E, n) \in Nat
<1>1. IsFiniteSet(Services \X Services)
  BY FS_Product, DAGConstants
<1>2. IsFiniteSet(E)
  BY <1>1, FS_Subset, DAGConstants
<1>3. OutEdges(E, n) \in SUBSET E /\ InEdges(E, n) \in SUBSET E
  BY DEF OutEdges, InEdges
<1>4. IsFiniteSet(OutEdges(E, n)) /\ IsFiniteSet(InEdges(E, n))
  BY <1>2, <1>3, FS_Subset
<1> QED BY <1>4, FS_CardinalityType DEF OutCount, InCount

(* A new edge adds one to the degrees of its two ends.                        *)
LEMMA AddEdge ==
  ASSUME NEW E \in SUBSET Links, NEW l \in Links \ E, NEW n
  PROVE  /\ OutCount(E \union {l}, n) = IF n = l[1] THEN OutCount(E, n) + 1 ELSE OutCount(E, n)
         /\ InCount(E \union {l}, n) = IF n = l[2] THEN InCount(E, n) + 1 ELSE InCount(E, n)
<1>1. /\ OutEdges(E \union {l}, n) = IF n = l[1] THEN OutEdges(E, n) \union {l} ELSE OutEdges(E, n)
      /\ InEdges(E \union {l}, n) = IF n = l[2] THEN InEdges(E, n) \union {l} ELSE InEdges(E, n)
  BY DEF OutEdges, InEdges
<1>2. l \notin OutEdges(E, n) /\ l \notin InEdges(E, n)
  BY DEF OutEdges, InEdges
<1> QED BY <1>1, <1>2, FiniteEdges, FS_AddElement DEF OutCount, InCount

(* Removed edges leave their degrees behind.                                  *)
LEMMA RemoveEdges ==
  ASSUME NEW E \in SUBSET Links, NEW S \in SUBSET E, NEW n
  PROVE  /\ OutCount(E \ S, n) = OutCount(E, n) - OutCount(S, n)
         /\ InCount(E \ S, n) = InCount(E, n) - InCount(S, n)
<1>1. /\ OutEdges(E \ S, n) = OutEdges(E, n) \ OutEdges(S, n)
      /\ OutEdges(E, n) \cap OutEdges(S, n) = OutEdges(S, n)
      /\ InEdges(E \ S, n) = InEdges(E, n) \ InEdges(S, n)
      /\ InEdges(E, n) \cap InEdges(S, n) = InEdges(S, n)
  BY DEF OutEdges, InEdges
<1>2. IsFiniteSet(OutEdges(E, n)) /\ IsFiniteSet(InEdges(E, n))
  BY FiniteEdges
<1>3. Cardinality(OutEdges(E, n) \ OutEdges(S, n)) = Cardinality(OutEdges(E, n)) - Cardinality(OutEdges(S, n))
  <2>1. Cardinality(OutEdges(E, n) \ OutEdges(S, n)) =
          Cardinality(OutEdges(E, n)) - Cardinality(OutEdges(E, n) \cap OutEdges(S, n))
    BY <1>2, FS_Difference
  <2> QED BY <2>1, <1>1
<1>4. Cardinality(InEdges(E, n) \ InEdges(S, n)) = Cardinality(InEdges(E, n)) - Cardinality(InEdges(S, n))
  <2>1. Cardinality(InEdges(E, n) \ InEdges(S, n)) =
          Cardinality(InEdges(E, n)) - Cardinality(InEdges(E, n) \cap InEdges(S, n))
    BY <1>2, FS_Difference
  <2> QED BY <2>1, <1>1
<1> QED BY <1>1, <1>3, <1>4 DEF OutCount, InCount

(* ensureNodeUnlocked keeps the limit, and refuses only when the graph is     *)
(* full (dag.go:144-158).                                                     *)
LEMMA EnsureNodeSafe ==
  ASSUME NEW N \in SUBSET Services, Cardinality(N) <= MaxNodes, NEW id \in Services
  PROVE  LET M == EnsureNode(N, id) IN
         /\ M \in SUBSET Services /\ N \subseteq M /\ M \subseteq N \union {id}
         /\ Cardinality(M) <= MaxNodes
         /\ id \in M \/ Cardinality(M) = MaxNodes
         /\ M # N => Cardinality(N) # MaxNodes
         /\ Cardinality(N) = MaxNodes => Cardinality(M) = MaxNodes
<1>1. IsFiniteSet(N) /\ Cardinality(N) \in Nat
  BY FS_Subset, FS_CardinalityType, DAGConstants
<1>2. Cardinality(N \union {id}) = IF id \in N THEN Cardinality(N) ELSE Cardinality(N) + 1
  BY <1>1, FS_AddElement
<1> QED BY <1>1, <1>2, DAGConstants DEF EnsureNode
-----------------------------------------------------------------------------
(* The inductive invariant.  The degrees stay right because a service that    *)
(* enters the graph late has no edge yet: an edge may lack a node only once   *)
(* the graph is full, and a full graph admits nobody.                         *)

NothingBehindAbsence ==
  /\ \A n \in Services \ nodes : inDegree[n] = 0 /\ outDegree[n] = 0
  /\ \A l \in Links \ edges : active[l] = 0

IInv ==
  /\ TypeOK
  /\ DegreesCountEdges
  /\ LimitsKept
  /\ MissingOnlyWhenFull
  /\ ActiveNeverOverstates
  /\ NothingBehindAbsence

LEMMA InitInv == Init => IInv
<1> SUFFICES ASSUME Init PROVE IInv
  OBVIOUS
<1>1. \A n : OutEdges({}, n) = {} /\ InEdges({}, n) = {}
  BY DEF OutEdges, InEdges
<1>2. Cardinality({}) = 0
  BY FS_EmptySet
<1>3. TypeOK
  BY DAGConstants DEF Init, TypeOK
<1> QED
  BY <1>1, <1>2, <1>3, DAGConstants
     DEF Init, IInv, DegreesCountEdges, LimitsKept, MissingOnlyWhenFull,
         ActiveNeverOverstates, NothingBehindAbsence

(* The nodes RecordConnect leaves in the graph.                               *)
LEMMA NodesAfterConnect ==
  ASSUME IInv, NEW l \in Links
  PROVE  LET M == EnsureNode(EnsureNode(nodes, l[1]), l[2]) IN
         /\ M \in SUBSET Services /\ nodes \subseteq M
         /\ Cardinality(M) <= MaxNodes
         /\ {l[1], l[2]} \subseteq M \/ Cardinality(M) = MaxNodes
         /\ M # nodes => Cardinality(nodes) # MaxNodes
         /\ Cardinality(nodes) = MaxNodes => Cardinality(M) = MaxNodes
<1> DEFINE M1 == EnsureNode(nodes, l[1])
           M2 == EnsureNode(M1, l[2])
<1>1. l[1] \in Services /\ l[2] \in Services
  BY DAGConstants
<1>2. nodes \in SUBSET Services /\ Cardinality(nodes) <= MaxNodes
  BY DEF IInv, TypeOK, LimitsKept
<1>3. /\ M1 \in SUBSET Services /\ nodes \subseteq M1
      /\ Cardinality(M1) <= MaxNodes
      /\ l[1] \in M1 \/ Cardinality(M1) = MaxNodes
      /\ M1 # nodes => Cardinality(nodes) # MaxNodes
      /\ Cardinality(nodes) = MaxNodes => Cardinality(M1) = MaxNodes
  BY <1>1, <1>2, EnsureNodeSafe
<1>4. /\ M2 \in SUBSET Services /\ M1 \subseteq M2
      /\ Cardinality(M2) <= MaxNodes
      /\ l[2] \in M2 \/ Cardinality(M2) = MaxNodes
      /\ M2 # M1 => Cardinality(M1) # MaxNodes
      /\ Cardinality(M1) = MaxNodes => Cardinality(M2) = MaxNodes
  <2> HIDE DEF M1
  <2> QED BY <1>1, <1>3, EnsureNodeSafe
<1> HIDE DEF M1, M2
<1>5. /\ M2 \in SUBSET Services /\ nodes \subseteq M2 /\ Cardinality(M2) <= MaxNodes
      /\ {l[1], l[2]} \subseteq M2 \/ Cardinality(M2) = MaxNodes
      /\ M2 # nodes => Cardinality(nodes) # MaxNodes
      /\ Cardinality(nodes) = MaxNodes => Cardinality(M2) = MaxNodes
  BY <1>3, <1>4
<1> QED BY <1>5 DEF M1, M2

(* A service without a node, in a graph that still has room, has no edge.     *)
LEMMA NewcomersAreBare ==
  ASSUME IInv, Cardinality(nodes) # MaxNodes, NEW n \in Services \ nodes
  PROVE  OutCount(edges, n) = 0 /\ InCount(edges, n) = 0
<1>1. OutEdges(edges, n) = {} /\ InEdges(edges, n) = {}
  BY DEF IInv, MissingOnlyWhenFull, OutEdges, InEdges
<1> QED BY <1>1, FS_EmptySet DEF OutCount, InCount

(* Every node RecordConnect leaves has the right degrees before the new edge  *)
(* is counted.                                                                *)
LEMMA DegreesBeforeEdge ==
  ASSUME IInv, NEW l \in Links,
         NEW n \in EnsureNode(EnsureNode(nodes, l[1]), l[2])
  PROVE  outDegree[n] = OutCount(edges, n) /\ inDegree[n] = InCount(edges, n)
<1>1. CASE n \in nodes
  BY <1>1 DEF IInv, DegreesCountEdges, OutCount, InCount
<1>2. CASE n \notin nodes
  <2>1. n \in Services \ nodes /\ Cardinality(nodes) # MaxNodes
    BY <1>2, NodesAfterConnect
  <2> QED BY <2>1, NewcomersAreBare DEF IInv, NothingBehindAbsence
<1> QED BY <1>1, <1>2

-----------------------------------------------------------------------------
(* One lemma per operation of the DAG.                                        *)

LEMMA ConnectEventStep ==
  ASSUME IInv, NEW l \in Links, ConnectEvent(l) \/ ConnectFails(l)
  PROVE  IInv'
<1> DEFINE M == EnsureNode(EnsureNode(nodes, l[1]), l[2])
<1>1. /\ M \in SUBSET Services /\ nodes \subseteq M
      /\ Cardinality(M) <= MaxNodes
      /\ {l[1], l[2]} \subseteq M \/ Cardinality(M) = MaxNodes
      /\ M # nodes => Cardinality(nodes) # MaxNodes
      /\ Cardinality(nodes) = MaxNodes => Cardinality(M) = MaxNodes
  BY NodesAfterConnect
<1>2. \A n \in M : outDegree[n] = OutCount(edges, n) /\ inDegree[n] = InCount(edges, n)
  BY DegreesBeforeEdge
<1>3. nodes' = M
  BY DEF ConnectEvent, ConnectFails, RecordConnect
<1>opened. /\ open' \in [Links -> Nat] /\ unanswered' \in [Links -> Nat]
           /\ \A k \in Links \ {l} : open'[k] = open[k] /\ unanswered'[k] = unanswered[k]
           /\ open'[l] + unanswered'[l] = open[l] + unanswered[l] + 1
  BY DEF ConnectEvent, ConnectFails, Unanswered, IInv, TypeOK
<1>absent. l \notin edges => active[l] = 0
  BY DEF IInv, NothingBehindAbsence
<1> HIDE DEF M
<1>room. \A k \in Links : /\ active[k] \in Nat /\ open'[k] \in Nat /\ unanswered'[k] \in Nat
                          /\ k \in edges \/ k = l =>
                               (IF k = l THEN active[k] + 1 ELSE active[k]) <= open'[k] + unanswered'[k]
  <2> SUFFICES ASSUME NEW k \in Links
               PROVE  /\ active[k] \in Nat /\ open'[k] \in Nat /\ unanswered'[k] \in Nat
                      /\ k \in edges \/ k = l =>
                           (IF k = l THEN active[k] + 1 ELSE active[k]) <= open'[k] + unanswered'[k]
    OBVIOUS
  <2>1. active[k] \in Nat /\ open[k] \in Nat /\ unanswered[k] \in Nat
    BY DEF IInv, TypeOK
  <2>2. open'[k] \in Nat /\ unanswered'[k] \in Nat
    BY <1>opened
  <2>3. active[k] <= open[k] + unanswered[k]
    <3>1. CASE k \in edges
      BY <3>1 DEF IInv, ActiveNeverOverstates
    <3>2. CASE k \notin edges
      <4>1. active[k] = 0
        BY <3>2 DEF IInv, NothingBehindAbsence
      <4> QED BY <2>1, <4>1
    <3> QED BY <3>1, <3>2
  <2>4. IF k = l THEN open'[k] + unanswered'[k] = open[k] + unanswered[k] + 1
                 ELSE open'[k] + unanswered'[k] = open[k] + unanswered[k]
    <3>1. CASE k = l
      BY <1>opened, <3>1
    <3>2. CASE k # l
      BY <1>opened, <3>2
    <3> QED BY <3>1, <3>2
  <2> QED BY <2>1, <2>2, <2>3, <2>4
<1>4. TypeOK
  BY DEF IInv
<1>5. l[1] \in Services /\ l[2] \in Services
  BY DAGConstants
<1>6. MissingOnlyWhenFull' /\ edges' \in SUBSET Links
  <2>1. edges' = edges \/ edges' = edges \union {l}
    BY DEF ConnectEvent, ConnectFails, RecordConnect
  <2> QED BY <2>1, <1>1, <1>3, <1>4 DEF IInv, MissingOnlyWhenFull, TypeOK
<1>7. CASE /\ active' = [active EXCEPT ![l] = @ + 1]
           /\ idle' = [idle EXCEPT ![l] = 0]
           /\ l \in edges
           /\ UNCHANGED <<edges, inDegree, outDegree>>
  <2>1. TypeOK'
    BY <1>opened, <1>1, <1>3, <1>4, <1>7, DAGConstants DEF TypeOK
  <2>2. DegreesCountEdges'
    BY <1>2, <1>3, <1>7 DEF DegreesCountEdges, OutCount, InCount
  <2>3. LimitsKept'
    BY <1>1, <1>3, <1>7 DEF IInv, LimitsKept
  <2>4. ActiveNeverOverstates'
    <3>1. \A k \in edges' : active'[k] <= (IF k = l THEN active[k] + 1 ELSE active[k]) /\ active'[k] \in Nat
      BY <1>4, <1>absent, <1>7 DEF TypeOK
    <3>2. \A k \in edges' : k \in Links /\ (k \in edges \/ k = l)
      BY <1>4, <1>6, <1>7 DEF TypeOK
    <3> QED BY <3>1, <3>2, <1>room DEF ActiveNeverOverstates
  <2>5. NothingBehindAbsence'
    BY <1>1, <1>3, <1>4, <1>7 DEF IInv, NothingBehindAbsence, TypeOK
  <2> QED BY <2>1, <2>2, <2>3, <2>4, <2>5, <1>6 DEF IInv
<1>8. CASE /\ l \notin edges
           /\ Cardinality(OutEdges(edges, l[1])) < MaxEdgesPerNode
           /\ edges' = edges \union {l}
           /\ outDegree' = Bump(outDegree, M, l[1])
           /\ inDegree' = Bump(inDegree, M, l[2])
           /\ active' = [active EXCEPT ![l] = 1]
           /\ idle' = [idle EXCEPT ![l] = 0]
  <2>1. TypeOK'
    BY <1>opened, <1>1, <1>3, <1>4, <1>5, <1>6, <1>8, DAGConstants DEF TypeOK, Bump
  <2>2. \A n : /\ OutCount(edges', n) = IF n = l[1] THEN OutCount(edges, n) + 1 ELSE OutCount(edges, n)
              /\ InCount(edges', n) = IF n = l[2] THEN InCount(edges, n) + 1 ELSE InCount(edges, n)
    BY <1>4, <1>8, AddEdge DEF TypeOK
  <2>3. DegreesCountEdges'
    <3> SUFFICES ASSUME NEW n \in M
                 PROVE  outDegree'[n] = OutCount(edges', n) /\ inDegree'[n] = InCount(edges', n)
      BY <1>3 DEF DegreesCountEdges, OutCount, InCount
    <3>1. n \in Services
      BY <1>1
    <3>2. outDegree'[n] = OutCount(edges', n)
      BY <3>1, <2>2, <1>2, <1>4, <1>8 DEF Bump, TypeOK
    <3>3. inDegree'[n] = InCount(edges', n)
      BY <3>1, <2>2, <1>2, <1>4, <1>8 DEF Bump, TypeOK
    <3> QED BY <3>2, <3>3
  <2>4. LimitsKept'
    <3>1. OutCount(edges, l[1]) \in Nat
      BY <1>4, FiniteEdges DEF TypeOK
    <3>2. \A n \in Services : OutCount(edges', n) <= MaxEdgesPerNode
      <4>1. OutCount(edges, l[1]) < MaxEdgesPerNode
        BY <1>8 DEF OutCount
      <4>2. \A n \in Services : OutCount(edges, n) <= MaxEdgesPerNode
        BY DEF IInv, LimitsKept, OutCount
      <4> QED BY <4>1, <4>2, <3>1, <2>2, DAGConstants
    <3> QED BY <3>2, <1>1, <1>3 DEF LimitsKept, OutCount
  <2>5. ActiveNeverOverstates'
    <3>1. \A k \in edges' : active'[k] <= (IF k = l THEN active[k] + 1 ELSE active[k]) /\ active'[k] \in Nat
      BY <1>4, <1>absent, <1>8 DEF TypeOK
    <3>2. \A k \in edges' : k \in Links /\ (k \in edges \/ k = l)
      BY <1>4, <1>6, <1>8 DEF TypeOK
    <3> QED BY <3>1, <3>2, <1>room DEF ActiveNeverOverstates
  <2>6. NothingBehindAbsence'
    BY <1>1, <1>3, <1>4, <1>8 DEF IInv, NothingBehindAbsence, TypeOK, Bump
  <2> QED BY <2>1, <2>3, <2>4, <2>5, <2>6, <1>6 DEF IInv
<1>9. CASE UNCHANGED <<edges, inDegree, outDegree, active, idle>>
  <2>1. TypeOK'
    BY <1>opened, <1>1, <1>3, <1>4, <1>9 DEF TypeOK
  <2>2. DegreesCountEdges'
    BY <1>2, <1>3, <1>9 DEF DegreesCountEdges, OutCount, InCount
  <2>3. LimitsKept'
    BY <1>1, <1>3, <1>9 DEF IInv, LimitsKept
  <2>4. ActiveNeverOverstates'
    <3>1. \A k \in edges' : active'[k] <= (IF k = l THEN active[k] + 1 ELSE active[k]) /\ active'[k] \in Nat
      BY <1>4, <1>absent, <1>9 DEF TypeOK
    <3>2. \A k \in edges' : k \in Links /\ (k \in edges \/ k = l)
      BY <1>4, <1>6, <1>9 DEF TypeOK
    <3> QED BY <3>1, <3>2, <1>room DEF ActiveNeverOverstates
  <2>5. NothingBehindAbsence'
    BY <1>1, <1>3, <1>4, <1>9 DEF IInv, NothingBehindAbsence, TypeOK
  <2> QED BY <2>1, <2>2, <2>3, <2>4, <2>5, <1>6 DEF IInv
<1> QED BY <1>3, <1>7, <1>8, <1>9 DEF ConnectEvent, ConnectFails, RecordConnect

(* RecordClose takes one connection off the edge it names, if there is one.   *)
LEMMA CloseEffect ==
  ASSUME IInv, NEW k \in Links, RecordClose(k)
  PROVE  /\ active' \in [Links -> Nat] /\ idle' \in [Links -> 0 .. StaleEdgeTimeout + 1]
         /\ \A x \in Links : x # k \/ x \notin edges => active'[x] = active[x]
         /\ active'[k] <= active[k]
         /\ k \in edges => active'[k] = 0 \/ active'[k] = active[k] - 1
<1>1. /\ active \in [Links -> Nat] /\ idle \in [Links -> 0 .. StaleEdgeTimeout + 1]
      /\ 0 \in 0 .. StaleEdgeTimeout + 1
  BY DAGConstants DEF IInv, TypeOK
<1>2. CASE k \in edges
  <2>1. /\ active' = [active EXCEPT ![k] = IF active[k] > 0 THEN active[k] - 1 ELSE active[k]]
        /\ idle' = [idle EXCEPT ![k] = 0]
    BY <1>2 DEF RecordClose
  <2>2. active[k] \in Nat /\ active'[k] = IF active[k] > 0 THEN active[k] - 1 ELSE active[k]
    BY <1>1, <2>1
  <2>3. active'[k] \in Nat /\ active'[k] <= active[k] /\ (active'[k] = 0 \/ active'[k] = active[k] - 1)
    BY <2>2
  <2>4. \A x \in Links : x # k => active'[x] = active[x]
    BY <1>1, <2>1
  <2>5. active' \in [Links -> Nat] /\ idle' \in [Links -> 0 .. StaleEdgeTimeout + 1]
    BY <1>1, <2>1, <2>3
  <2> QED BY <1>2, <2>3, <2>4, <2>5
<1>3. CASE k \notin edges
  BY <1>1, <1>3 DEF RecordClose
<1> QED BY <1>2, <1>3

(* The steps that leave nodes, edges and degrees alone.                       *)
LEMMA CounterStep ==
  ASSUME IInv, NEW l \in Links,
         \/ ConnectLost(l) \/ CloseEvent(l) \/ CloseLost(l) \/ StrayClose(l)
         \/ \E k \in Links : CloseElsewhere(k, l)
         \/ RetransmitEvent(l) \/ Age
  PROVE  IInv'
<1>1. UNCHANGED <<nodes, inDegree, outDegree, edges>>
  BY DEF ConnectLost, CloseEvent, CloseElsewhere, CloseLost, StrayClose, RetransmitEvent, Age,
         graphVars, RecordClose, RecordRetransmit
<1>2. DegreesCountEdges' /\ LimitsKept' /\ MissingOnlyWhenFull'
  BY <1>1 DEF IInv, DegreesCountEdges, LimitsKept, MissingOnlyWhenFull
<1>3. TypeOK /\ ActiveNeverOverstates /\ NothingBehindAbsence
  BY DEF IInv
<1>4. CASE ConnectLost(l)
  BY <1>1, <1>2, <1>3, <1>4
     DEF ConnectLost, graphVars, IInv, TypeOK, ActiveNeverOverstates, NothingBehindAbsence
<1>5. CASE CloseEvent(l)
  <2>1. /\ open[l] \in Nat /\ open[l] > 0 /\ open' = [open EXCEPT ![l] = open[l] - 1]
        /\ unanswered' = unanswered /\ RecordClose(l)
    BY <1>3, <1>5 DEF CloseEvent, Ends, TypeOK
  <2>2. open' \in [Links -> Nat]
    BY <1>3, <2>1 DEF TypeOK
  <2>3. TypeOK'
    BY <1>1, <1>3, <2>1, <2>2, CloseEffect DEF TypeOK
  <2>4. ActiveNeverOverstates'
    <3> SUFFICES ASSUME NEW x \in edges PROVE active'[x] <= open'[x] + unanswered'[x]
      BY <1>1 DEF ActiveNeverOverstates
    <3>1. /\ x \in Links /\ active[x] \in Nat /\ active'[x] \in Nat
          /\ active[x] <= open[x] + unanswered[x]
          /\ open[x] \in Nat /\ unanswered[x] \in Nat
      BY <1>3, <2>1, CloseEffect DEF TypeOK, ActiveNeverOverstates
    <3>2. CASE x = l
      <4>1. active'[l] = 0 \/ active'[l] = active[l] - 1
        BY <2>1, <3>2, CloseEffect
      <4>2. open'[l] = open[l] - 1
        BY <1>3, <2>1 DEF TypeOK
      <4> QED BY <2>1, <3>1, <3>2, <4>1, <4>2
    <3>3. CASE x # l
      <4>1. active'[x] = active[x] /\ open'[x] = open[x]
        BY <1>3, <2>1, <3>1, <3>3, CloseEffect DEF TypeOK
      <4> QED BY <2>1, <3>1, <4>1
    <3> QED BY <3>2, <3>3
  <2>5. NothingBehindAbsence'
    BY <1>1, <1>3, <2>1, CloseEffect DEF NothingBehindAbsence
  <2> QED BY <1>2, <2>3, <2>4, <2>5 DEF IInv
<1>6. CASE CloseLost(l)
  BY <1>1, <1>2, <1>3, <1>6
     DEF CloseLost, Ends, Unanswered, graphVars, IInv, TypeOK, ActiveNeverOverstates,
         NothingBehindAbsence
<1>7. CASE RetransmitEvent(l)
  BY <1>1, <1>2, <1>3, <1>7, DAGConstants
     DEF RetransmitEvent, RecordRetransmit, IInv, TypeOK, ActiveNeverOverstates, NothingBehindAbsence
<1>8. CASE Age
  BY <1>1, <1>2, <1>3, <1>8, DAGConstants
     DEF Age, IInv, TypeOK, ActiveNeverOverstates, NothingBehindAbsence
<1>9. CASE StrayClose(l)
  <2>1. RecordClose(l) /\ UNCHANGED <<open, unanswered>>
    BY <1>9 DEF StrayClose
  <2>2. TypeOK'
    BY <1>1, <1>3, <2>1, CloseEffect DEF TypeOK
  <2>3. ActiveNeverOverstates'
    <3> SUFFICES ASSUME NEW x \in edges PROVE active'[x] <= open[x] + unanswered[x]
      BY <1>1, <2>1 DEF ActiveNeverOverstates
    <3>1. /\ active[x] \in Nat /\ active'[x] \in Nat /\ open[x] \in Nat /\ unanswered[x] \in Nat
          /\ active[x] <= open[x] + unanswered[x] /\ active'[x] <= active[x]
      BY <1>3, <2>1, CloseEffect DEF TypeOK, ActiveNeverOverstates
    <3> QED BY <3>1
  <2>4. NothingBehindAbsence'
    BY <1>1, <1>3, <2>1, CloseEffect DEF NothingBehindAbsence
  <2> QED BY <1>2, <2>2, <2>3, <2>4 DEF IInv
<1>10. ASSUME NEW k \in Links, CloseElsewhere(k, l)
       PROVE  IInv'
  <2>1. /\ open[k] \in Nat /\ open[k] > 0 /\ open' = [open EXCEPT ![k] = open[k] - 1]
        /\ unanswered' = [unanswered EXCEPT ![k] = unanswered[k] + 1] /\ RecordClose(l)
    BY <1>3, <1>10 DEF CloseElsewhere, Ends, Unanswered, TypeOK
  <2>2. /\ open' \in [Links -> Nat] /\ unanswered' \in [Links -> Nat]
        /\ \A x \in Links : open'[x] + unanswered'[x] = open[x] + unanswered[x]
    BY <1>3, <2>1 DEF TypeOK
  <2>3. TypeOK'
    BY <1>1, <1>3, <2>1, <2>2, CloseEffect DEF TypeOK
  <2>4. ActiveNeverOverstates'
    <3> SUFFICES ASSUME NEW x \in edges PROVE active'[x] <= open[x] + unanswered[x]
      BY <1>1, <1>3, <2>2 DEF ActiveNeverOverstates, TypeOK
    <3>1. /\ active[x] \in Nat /\ active'[x] \in Nat /\ open[x] \in Nat /\ unanswered[x] \in Nat
          /\ active[x] <= open[x] + unanswered[x] /\ active'[x] <= active[x]
      BY <1>3, <2>1, CloseEffect DEF TypeOK, ActiveNeverOverstates
    <3> QED BY <3>1
  <2>5. NothingBehindAbsence'
    BY <1>1, <1>3, <2>1, CloseEffect DEF NothingBehindAbsence
  <2> QED BY <1>2, <2>3, <2>4, <2>5 DEF IInv
<1> QED BY <1>4, <1>5, <1>6, <1>7, <1>8, <1>9, <1>10

LEMMA PruneStep ==
  ASSUME IInv, Prune
  PROVE  IInv'
<1>1. /\ edges' = edges \ StaleEdges /\ nodes' = nodes
      /\ StaleEdges \in SUBSET edges
      /\ edges \in SUBSET Links /\ StaleEdges \in SUBSET Links
      /\ nodes \in SUBSET Services
      /\ UNCHANGED <<open, unanswered>>
  BY DEF Prune, PruneStaleEdges, StaleEdges, IInv, TypeOK
<1>2. \A n : /\ OutCount(edges', n) = OutCount(edges, n) - OutCount(StaleEdges, n)
            /\ InCount(edges', n) = InCount(edges, n) - InCount(StaleEdges, n)
  BY <1>1, RemoveEdges
<1>3. \A n : /\ OutCount(edges, n) \in Nat /\ OutCount(StaleEdges, n) \in Nat
            /\ OutCount(edges', n) \in Nat
            /\ InCount(edges, n) \in Nat /\ InCount(StaleEdges, n) \in Nat
            /\ InCount(edges', n) \in Nat
  BY <1>1, FiniteEdges
<1>4. /\ outDegree' = [n \in Services |-> Drop(outDegree, nodes, n, OutCount(StaleEdges, n))]
      /\ inDegree' = [n \in Services |-> Drop(inDegree, nodes, n, InCount(StaleEdges, n))]
  BY DEF Prune, PruneStaleEdges, OutCount, InCount
<1>5. TypeOK'
  <2>1. outDegree' \in [Services -> Nat] /\ inDegree' \in [Services -> Nat]
    BY <1>3, <1>4 DEF Drop, IInv, TypeOK
  <2>2. active' = [l \in Links |-> IF l \in StaleEdges THEN 0 ELSE active[l]]
    BY DEF Prune, PruneStaleEdges
  <2>3. idle' = [l \in Links |-> IF l \in StaleEdges THEN 0 ELSE idle[l]]
    BY DEF Prune, PruneStaleEdges
  <2>4. active' \in [Links -> Nat]
    BY <2>2 DEF IInv, TypeOK
  <2>5. idle' \in [Links -> 0 .. StaleEdgeTimeout + 1]
    BY <2>3, DAGConstants DEF IInv, TypeOK
  <2>6. edges' \in SUBSET Links
    BY <1>1
  <2> QED BY <2>1, <2>4, <2>5, <2>6, <1>1 DEF IInv, TypeOK
<1>6. DegreesCountEdges'
  <2> SUFFICES ASSUME NEW n \in nodes
               PROVE  outDegree'[n] = OutCount(edges', n) /\ inDegree'[n] = InCount(edges', n)
    BY <1>1 DEF DegreesCountEdges, OutCount, InCount
  <2>1. outDegree[n] = OutCount(edges, n) /\ inDegree[n] = InCount(edges, n) /\ n \in Services
    BY <1>1 DEF IInv, DegreesCountEdges, OutCount, InCount
  <2> QED BY <2>1, <1>2, <1>3, <1>4 DEF Drop
<1>7. LimitsKept'
  <2>1. \A n \in Services : OutCount(edges', n) <= MaxEdgesPerNode
    BY <1>2, <1>3, DAGConstants DEF IInv, LimitsKept, OutCount
  <2> QED BY <2>1, <1>1 DEF IInv, LimitsKept, OutCount
<1>8. MissingOnlyWhenFull' /\ ActiveNeverOverstates'
  BY <1>1 DEF Prune, PruneStaleEdges, IInv, TypeOK, MissingOnlyWhenFull, ActiveNeverOverstates
<1>9. NothingBehindAbsence'
  BY <1>1, <1>4 DEF Prune, PruneStaleEdges, IInv, TypeOK, NothingBehindAbsence, Drop
<1> QED BY <1>5, <1>6, <1>7, <1>8, <1>9 DEF IInv

(***************************************************************************)
(* The invariant of every step, and what it gives: TypeOK and the four     *)
(* properties of the run graph_safety, for every graph.                    *)
(***************************************************************************)
THEOREM Invariance == Spec => []IInv
<1>1. IInv /\ [Next]_vars => IInv'
  <2> SUFFICES ASSUME IInv, [Next]_vars PROVE IInv'
    OBVIOUS
  <2>1. CASE \E l \in Links : Traffic(l)
    BY <2>1, ConnectEventStep, CounterStep DEF Traffic
  <2>2. CASE Prune
    BY <2>2, PruneStep
  <2>3. CASE Age
    <3>1. \E l \in Links : TRUE
      BY <2>3 DEF Age, IInv, TypeOK
    <3> QED BY <3>1, <2>3, CounterStep
  <2>4. CASE UNCHANGED vars
    BY <2>4 DEF vars, IInv, TypeOK, DegreesCountEdges, LimitsKept, MissingOnlyWhenFull,
                ActiveNeverOverstates, NothingBehindAbsence
  <2> QED BY <2>1, <2>2, <2>3, <2>4 DEF Next
<1> QED BY <1>1, InitInv, PTL DEF Spec

(* The graph's state keeps its type: no degree and no connection count goes   *)
(* below 0 (dag.go:204, 260-265).                                             *)
THEOREM TypeCorrect == Spec => []TypeOK
<1>1. IInv => TypeOK
  BY DEF IInv
<1> QED BY <1>1, Invariance, PTL

(* The degrees count the edges (dag.go:184-189, 260-265).                     *)
THEOREM DegreesCorrect == Spec => []DegreesCountEdges
<1>1. IInv => DegreesCountEdges
  BY DEF IInv
<1> QED BY <1>1, Invariance, PTL

(* The graph never outgrows MaxNodes and MaxEdgesPerNode (dag.go:149, 176).   *)
THEOREM Bounded == Spec => []LimitsKept
<1>1. IInv => LimitsKept
  BY DEF IInv
<1> QED BY <1>1, Invariance, PTL

(* An edge lacks a node only in a full graph (dag.go:149-152, 164-182).       *)
THEOREM MissingExplained == Spec => []MissingOnlyWhenFull
<1>1. IInv => MissingOnlyWhenFull
  BY DEF IInv
<1> QED BY <1>1, Invariance, PTL

(* ActiveConnections exceeds the open connections of the link by no more than *)
(* the openings no CLOSE about it answers, whichever links the CLOSE events   *)
(* name (edge.go:29, dag.go:193, 203-205, resolver.go:94-113).                *)
THEOREM ActiveBounded == Spec => []ActiveNeverOverstates
<1>1. IInv => ActiveNeverOverstates
  BY DEF IInv
<1> QED BY <1>1, Invariance, PTL


-----------------------------------------------------------------------------
(* How an edge without traffic leaves. *)

(* Nothing has been heard of the link for n units, or it has no edge.         *)
SilentFor(l, n) == l \in edges => idle[l] >= n

LEMMA SilentStep ==
  ASSUME IInv, NEW l \in Links, NEW n \in 0 .. StaleEdgeTimeout + 1, SilentFor(l, n),
         [Next]_vars, ~Traffic(l)
  PROVE  SilentFor(l, n)' /\ (l \notin edges => l \notin edges')
<1>1. idle \in [Links -> 0 .. StaleEdgeTimeout + 1] /\ StaleEdgeTimeout \in Nat
  BY DAGConstants DEF IInv, TypeOK
<1>2. ASSUME NEW k \in Links, Traffic(k)
      PROVE  idle'[l] = idle[l] /\ (l \in edges' <=> l \in edges)
  <2>1. k # l
    BY <1>2
  <2>2. edges' \in {edges, edges \union {k}} /\ idle' \in {idle, [idle EXCEPT ![k] = 0]}
    BY <1>2 DEF Traffic, ConnectEvent, ConnectLost, ConnectFails, CloseEvent, CloseElsewhere,
                CloseLost, StrayClose, RetransmitEvent, RecordConnect, RecordClose,
                RecordRetransmit, graphVars
  <2> QED BY <1>1, <2>1, <2>2
<1>3. CASE Prune
  BY <1>1, <1>3 DEF Prune, PruneStaleEdges, SilentFor
<1>4. CASE Age
  BY <1>1, <1>4 DEF Age, SilentFor
<1>5. CASE UNCHANGED vars
  BY <1>5 DEF vars, SilentFor
<1> QED BY <1>2, <1>3, <1>4, <1>5 DEF Next, SilentFor

(* What is under SilentEdgesPruned, with the time it takes.  Traffic on other *)
(* links neither refreshes a silent edge nor brings it back; each unit of     *)
(* time ages it; StaleEdgeTimeout + 1 of them make the next prune remove it,  *)
(* and a prune removes no edge that has been heard of since (dag.go:247-271). *)
THEOREM SilentEdgesLeave ==
  ASSUME NEW l \in Links
  PROVE  /\ \A n \in 0 .. StaleEdgeTimeout + 1 :
              Spec => [][SilentFor(l, n) /\ ~Traffic(l) => SilentFor(l, n)']_vars
         /\ \A n \in 0 .. StaleEdgeTimeout :
              Spec => [][SilentFor(l, n) /\ Age => SilentFor(l, n + 1)']_vars
         /\ Spec => [][Prune => (l \in edges' <=> l \in edges /\ ~SilentFor(l, StaleEdgeTimeout + 1))]_vars
         /\ Spec => [][l \notin edges /\ ~Traffic(l) => l \notin edges']_vars
<1>1. ASSUME NEW n \in 0 .. StaleEdgeTimeout + 1
      PROVE  Spec => [][SilentFor(l, n) /\ ~Traffic(l) => SilentFor(l, n)']_vars
  <2>1. IInv /\ [Next]_vars => [SilentFor(l, n) /\ ~Traffic(l) => SilentFor(l, n)']_vars
    BY SilentStep
  <2> QED BY <2>1, Invariance, PTL DEF Spec
<1>2. ASSUME NEW n \in 0 .. StaleEdgeTimeout
      PROVE  Spec => [][SilentFor(l, n) /\ Age => SilentFor(l, n + 1)']_vars
  <2>1. IInv /\ [Next]_vars => [SilentFor(l, n) /\ Age => SilentFor(l, n + 1)']_vars
    <3> SUFFICES ASSUME IInv, SilentFor(l, n), Age PROVE SilentFor(l, n + 1)'
      OBVIOUS
    <3>1. idle \in [Links -> 0 .. StaleEdgeTimeout + 1] /\ StaleEdgeTimeout \in Nat
      BY DAGConstants DEF IInv, TypeOK
    <3>2. edges' = edges
          /\ idle'[l] = IF l \in edges /\ idle[l] <= StaleEdgeTimeout THEN idle[l] + 1 ELSE idle[l]
      BY DEF Age
    <3> QED BY <3>1, <3>2 DEF SilentFor
  <2> QED BY <2>1, Invariance, PTL DEF Spec
<1>3. IInv /\ [Next]_vars
        => [Prune => (l \in edges' <=> l \in edges /\ ~SilentFor(l, StaleEdgeTimeout + 1))]_vars
  <2> SUFFICES ASSUME IInv, Prune
               PROVE  l \in edges' <=> l \in edges /\ ~SilentFor(l, StaleEdgeTimeout + 1)
    OBVIOUS
  <2>1. idle[l] \in 0 .. StaleEdgeTimeout + 1 /\ StaleEdgeTimeout \in Nat
    BY DAGConstants DEF IInv, TypeOK
  <2> QED BY <2>1 DEF Prune, PruneStaleEdges, StaleEdges, SilentFor
<1>4. IInv /\ [Next]_vars => [l \notin edges /\ ~Traffic(l) => l \notin edges']_vars
  <2>1. ASSUME IInv, [Next]_vars, l \notin edges, ~Traffic(l) PROVE l \notin edges'
    <3>1. SilentFor(l, 0) /\ 0 \in 0 .. StaleEdgeTimeout + 1
      BY <2>1, DAGConstants DEF SilentFor
    <3> QED BY <2>1, <3>1, SilentStep
  <2> QED BY <2>1
<1>5. Spec => [][Prune => (l \in edges' <=> l \in edges /\ ~SilentFor(l, StaleEdgeTimeout + 1))]_vars
  BY <1>3, Invariance, PTL DEF Spec
<1>6. Spec => [][l \notin edges /\ ~Traffic(l) => l \notin edges']_vars
  BY <1>4, Invariance, PTL DEF Spec
<1> QED BY <1>1, <1>2, <1>5, <1>6
=============================================================================
