---------------------------- MODULE OracleProofs ----------------------------
(***************************************************************************)
(* Proofs about the engine for any graphs, any number of goroutines at a   *)
(* time and any threshold, and about the risk score: what a graph must     *)
(* have before the Shield acts on it.                                      *)
(***************************************************************************)
EXTENDS OracleEngine, FiniteSums

Steps == {"new", "running", "written", "done"}

(* A result is in the map exactly when its goroutine has written it, and the    *)
(* engine waits only when every node of the snapshot has its goroutine.         *)
CycleInv ==
  /\ DOMAIN go \subseteq snap.nodes
  /\ \A o \in DOMAIN go : go[o] \in Steps
  /\ DOMAIN results = {o \in DOMAIN go : go[o] \in {"written", "done"}}
  /\ phase = "waiting" => DOMAIN go = snap.nodes
  /\ phase \in {"idle", "stopped"} => DOMAIN go = {}
  /\ phase \in {"spawning", "waiting"} => snap \in LiveGraphs

IInv ==
  /\ IsGraph(graph) /\ IsGraph(snap) /\ IsGraph(latest.about)
  /\ moving \in BOOLEAN
  /\ phase \in {"idle", "spawning", "waiting", "stopped"}
  /\ Cardinality(Holding) <= MaxConcurrentNodes
  /\ CycleInv
  /\ AreResultsOf(results, snap) /\ AreResultsOf(latest.results, latest.about)
  /\ ReportsComplete

-----------------------------------------------------------------------------
LEMMA NodesAreServices ==
  ASSUME NEW g, IsGraph(g)
  PROVE  g.nodes \subseteq Services /\ IsFiniteSet(g.nodes) /\ g.links \subseteq Services \X Services
<1>1. g.nodes \subseteq Services /\ g.links \subseteq Services \X Services
  BY RiskConstants DEF IsGraph, EmptyGraph
<1>2. IsFiniteSet(Services)
  BY RiskConstants
<1> QED BY <1>1, <1>2, FS_Subset

LEMMA HoldingFinite ==
  ASSUME IInv
  PROVE  IsFiniteSet(Holding) /\ Cardinality(Holding) \in Nat
<1>1. IsFiniteSet(snap.nodes) /\ Holding \subseteq snap.nodes
  BY NodesAreServices DEF IInv, CycleInv, Holding
<1> QED BY <1>1, FS_Subset, FS_CardinalityType

(* What the strategy makes of a result is a link of the graph it is about.      *)
LEMMA CutsAreCallers ==
  ASSUME NEW g \in LiveGraphs, NEW o \in g.nodes, NEW cut \in Cuts[g][o]
  PROVE  cut \in Callers(g, o) \union {NoCut}
<1>1. Cuts[g][o] = CutsOf(g, o)
  BY DEF Cuts
<1> QED BY <1>1 DEF CutsOf

LEMMA InitSafe == Init => IInv
<1> SUFFICES ASSUME Init PROVE IInv
  OBVIOUS
<1>1. Holding = {} /\ Cardinality({}) = 0
  BY FS_EmptySet DEF Init, Holding
<1> QED BY <1>1, EngineConstants
        DEF Init, IInv, CycleInv, IsGraph, EmptyGraph, NoReport, AreResultsOf, ReportsComplete, Callers

LEMMA TakeSnapshotSafe == ASSUME IInv, TakeSnapshot PROVE IInv'
<1>1. graph \in LiveGraphs
  BY DEF TakeSnapshot, IInv, IsGraph, EmptyGraph
<1>2. Holding' = {} /\ Cardinality({}) = 0
  BY FS_EmptySet DEF TakeSnapshot, Holding
<1>3. DOMAIN go' = {} /\ DOMAIN results' = {}
  BY DEF TakeSnapshot
<1>4. CycleInv'
  BY <1>1, <1>3 DEF TakeSnapshot, CycleInv
<1>5. AreResultsOf(results, snap)'
  BY <1>3 DEF AreResultsOf
<1> QED BY <1>1, <1>2, <1>4, <1>5, EngineConstants
        DEF TakeSnapshot, IInv, IsGraph, AreResultsOf, ReportsComplete, Callers

(* The semaphore: a slot is free when a goroutine is started.                   *)
LEMMA SpawnSafe == ASSUME IInv, NEW o, Spawn(o) PROVE IInv'
<1>1. /\ o \in snap.nodes \ DOMAIN go /\ DOMAIN go' = DOMAIN go \union {o}
      /\ go'[o] = "new" /\ \A x \in DOMAIN go : go'[x] = go[x]
      /\ UNCHANGED <<graph, moving, snap, results, latest>>
      /\ phase = "spawning" /\ phase' = IF DOMAIN go' = snap.nodes THEN "waiting" ELSE phase
  BY DEF Spawn, With
<1>2. Holding' = Holding \union {o} /\ o \notin Holding
  BY <1>1 DEF Holding
<1>3. Cardinality(Holding') <= MaxConcurrentNodes
  <2>1. Cardinality(Holding \union {o}) = Cardinality(Holding) + 1
    BY <1>2, HoldingFinite, FS_AddElement
  <2> QED BY <1>2, <2>1, HoldingFinite, EngineConstants DEF Spawn
<1>4. CycleInv'
  BY <1>1 DEF IInv, CycleInv, Steps
<1>5. AreResultsOf(results, snap)' /\ AreResultsOf(latest.results, latest.about)' /\ ReportsComplete'
  BY <1>1 DEF IInv, AreResultsOf, ReportsComplete, Callers
<1> QED BY <1>1, <1>3, <1>4, <1>5 DEF IInv, IsGraph

(* A goroutine's own steps, but for the result it writes.                       *)
LEMMA MovesSafe ==
  ASSUME IInv, NEW o, NEW from \in {"new", "running", "written"}, NEW to \in Steps,
         Moves(o, from, to),
         DOMAIN results' = {x \in DOMAIN go' : go'[x] \in {"written", "done"}},
         AreResultsOf(results, snap)'
  PROVE  IInv'
<1>1. /\ o \in DOMAIN go /\ go[o] = from /\ DOMAIN go' = DOMAIN go /\ go'[o] = to
      /\ \A x \in DOMAIN go \ {o} : go'[x] = go[x]
      /\ UNCHANGED <<graph, moving, phase, snap, latest>>
  BY DEF Moves
<1>2. Holding' \subseteq Holding
  BY <1>1 DEF Holding
<1>3. Cardinality(Holding') <= MaxConcurrentNodes
  <2>1. IsFiniteSet(Holding') /\ Cardinality(Holding') <= Cardinality(Holding)
    BY <1>2, HoldingFinite, FS_Subset
  <2>2. Cardinality(Holding') \in Nat
    BY <2>1, FS_CardinalityType
  <2> QED BY <2>1, <2>2, HoldingFinite, EngineConstants DEF IInv
<1>4. CycleInv'
  BY <1>1 DEF IInv, CycleInv
<1>5. AreResultsOf(latest.results, latest.about)' /\ ReportsComplete'
  BY <1>1 DEF IInv, AreResultsOf, ReportsComplete, Callers
<1> QED BY <1>1, <1>3, <1>4, <1>5 DEF IInv, IsGraph

LEMMA GoroutineSafe == ASSUME IInv, NEW o, Goroutine(o) PROVE IInv'
<1>1. DOMAIN results = {x \in DOMAIN go : go[x] \in {"written", "done"}}
  BY DEF IInv, CycleInv
<1>2. CASE Starts(o)
  <2>1. Moves(o, "new", "running") /\ results' = results /\ snap' = snap
    BY <1>2 DEF Starts, Moves
  <2>2. DOMAIN results' = {x \in DOMAIN go' : go'[x] \in {"written", "done"}}
    BY <1>1, <2>1 DEF Moves
  <2>3. AreResultsOf(results, snap)'
    BY <2>1 DEF IInv, AreResultsOf, Callers
  <2> QED BY <2>1, <2>2, <2>3, MovesSafe DEF Steps
<1>3. CASE Done(o)
  <2>1. Moves(o, "written", "done") /\ results' = results /\ snap' = snap
    BY <1>3 DEF Done, Moves
  <2>2. DOMAIN results' = {x \in DOMAIN go' : go'[x] \in {"written", "done"}}
    BY <1>1, <2>1 DEF Moves
  <2>3. AreResultsOf(results, snap)'
    BY <2>1 DEF IInv, AreResultsOf, Callers
  <2> QED BY <2>1, <2>2, <2>3, MovesSafe DEF Steps
<1>4. CASE WriteResult(o)
  <2>1. PICK cut \in Cuts[snap][o] : results' = With(results, o, cut)
    BY <1>4 DEF WriteResult
  <2>2. Moves(o, "running", "written") /\ snap' = snap /\ o \in DOMAIN go
    BY <1>4 DEF WriteResult, Moves
  <2>3. snap \in LiveGraphs /\ o \in snap.nodes
    BY <2>2 DEF IInv, CycleInv
  <2>4. cut \in Callers(snap, o) \union {NoCut}
    BY <2>3, CutsAreCallers
  <2>5. DOMAIN results' = DOMAIN results \union {o} /\ results'[o] = cut
        /\ \A x \in DOMAIN results \ {o} : results'[x] = results[x]
    BY <2>1 DEF With
  <2>6. DOMAIN results' = {x \in DOMAIN go' : go'[x] \in {"written", "done"}}
    BY <1>1, <2>2, <2>5 DEF Moves
  <2>7. AreResultsOf(results, snap)'
    BY <2>2, <2>3, <2>4, <2>5 DEF IInv, AreResultsOf, Callers
  <2> QED BY <2>2, <2>6, <2>7, MovesSafe DEF Steps
<1> QED BY <1>2, <1>3, <1>4 DEF Goroutine

(* wg.Wait: when nothing is counted any more every result is there.             *)
LEMMA PublishSafe == ASSUME IInv, Publish PROVE IInv'
<1>1. /\ latest' = [about |-> snap, results |-> results] /\ phase' = "idle"
      /\ snap' = EmptyGraph /\ DOMAIN go' = {} /\ DOMAIN results' = {}
      /\ UNCHANGED <<graph, moving>>
  BY DEF Publish
<1>2. DOMAIN results = snap.nodes
  <2>1. \A o \in DOMAIN go : go[o] = "done"
    BY DEF Publish, Counted
  <2> QED BY <2>1 DEF Publish, IInv, CycleInv
<1>3. Holding' = {} /\ Cardinality({}) = 0
  BY <1>1, FS_EmptySet DEF Holding
<1>4. CycleInv'
  BY <1>1 DEF CycleInv
<1>5. AreResultsOf(results, snap)'
  BY <1>1 DEF AreResultsOf
<1>6. AreResultsOf(latest.results, latest.about)' /\ ReportsComplete' /\ IsGraph(latest.about)'
  BY <1>1, <1>2 DEF IInv, AreResultsOf, ReportsComplete, Callers, IsGraph
<1> QED BY <1>1, <1>3, <1>4, <1>5, <1>6, EngineConstants DEF IInv, IsGraph

LEMMA StepSafe == IInv /\ [Next]_vars => IInv'
<1> SUFFICES ASSUME IInv, [Next]_vars PROVE IInv'
  OBVIOUS
<1> USE DEF IInv, CycleInv, IsGraph, Holding, AreResultsOf, ReportsComplete, Callers
<1>1. CASE ServiceGraphMoves
  BY <1>1 DEF ServiceGraphMoves
<1>2. CASE ComeToRest
  BY <1>2 DEF ComeToRest
<1>3. CASE Stop
  BY <1>3 DEF Stop
<1>4. CASE UNCHANGED vars
  BY <1>4 DEF vars
<1>5. CASE TakeSnapshot
  BY <1>5, TakeSnapshotSafe
<1>6. CASE Cycle
  BY <1>6, SpawnSafe, PublishSafe DEF Cycle
<1>7. CASE \E o \in Services : Goroutine(o)
  BY <1>7, GoroutineSafe
<1> QED BY <1>1, <1>2, <1>3, <1>4, <1>5, <1>6, <1>7 DEF Next

(* The invariant behind the theorems: goroutines, result map and wait group of  *)
(* RunSimulation agree at every moment (engine.go:105-129).                     *)
THEOREM Invariance == Spec => []IInv
BY InitSafe, StepSafe, PTL DEF Spec

(* The types, and with them the bound of the semaphore (engine.go:106, 112) and *)
(* that a result names a caller of its origin.                                  *)
THEOREM TypeCorrect == Spec => []TypeOK
<1>1. IInv => TypeOK
  BY DEF IInv, CycleInv, TypeOK, Steps
<1> QED BY <1>1, Invariance, PTL

(* No report is published with a result missing, whatever the scheduler does    *)
(* (engine.go:111-128).                                                         *)
THEOREM ReportsAreComplete == Spec => []ReportsComplete
<1>1. IInv => ReportsComplete
  BY DEF IInv
<1> QED BY <1>1, Invariance, PTL

(* A decision is about a link of the graph that was simulated, though the live  *)
(* graph has changed since (strategy.go:46-63).                                 *)
THEOREM DecisionsAreLinks == Spec => [](Decisions \subseteq latest.about.links)
<1>1. IInv => Decisions \subseteq latest.about.links
  BY DEF IInv, AreResultsOf, Decisions, Callers
<1> QED BY <1>1, Invariance, PTL

-----------------------------------------------------------------------------
(* The score. *)

(* InDegree and MaxInDegree are what they are called.                          *)
LEMMA DegreesType ==
  ASSUME NEW g \in LiveGraphs
  PROVE  /\ MaxInDegree(g) \in Nat \ {0}
         /\ \A n \in g.nodes : InDegree(g, n) \in Nat /\ InDegree(g, n) <= MaxInDegree(g)
<1> DEFINE D == {InDegree(g, n) : n \in g.nodes}
<1>1. IsFiniteSet(g.nodes)
  BY NodesAreServices DEF IsGraph
<1>2. \A n \in g.nodes : InDegree(g, n) \in Nat
  <2> SUFFICES ASSUME NEW n \in g.nodes PROVE InDegree(g, n) \in Nat
    OBVIOUS
  <2>1. Callers(g, n) \subseteq Services /\ IsFiniteSet(Services)
    BY RiskConstants DEF Callers
  <2> QED BY <2>1, FS_Subset, FS_CardinalityType DEF InDegree
<1>3. IsFiniteSet(D)
  <2>1. [n \in g.nodes |-> InDegree(g, n)] \in Surjection(g.nodes, D)
    BY Zenon DEF Surjection
  <2> QED BY <1>1, <2>1, FS_Surjection
<1>4. IsFiniteSet({1} \union D) /\ {1} \union D \in SUBSET Nat
  <2>1. D \subseteq Nat /\ {1} \union D = D \union {1}
    BY <1>2
  <2> HIDE DEF D
  <2> QED BY <1>3, <2>1, FS_AddElement
<1>5. Max({1} \union D) \in Nat /\ \A x \in {1} \union D : x <= Max({1} \union D)
  BY <1>4, LargestNat
<1> QED BY <1>2, <1>5 DEF MaxInDegree

(* What a node can add to the sum at most.                                     *)
Most(g) == NumSimulations * (MaxInDegree(g) + 1) * 100

LEMMA MostType ==
  ASSUME NEW g \in LiveGraphs
  PROVE  Most(g) \in Nat \ {0}
<1>1. NumSimulations \in Nat \ {0} /\ MaxInDegree(g) + 1 \in Nat \ {0}
  BY DegreesType, RiskConstants
<1>2. NumSimulations * (MaxInDegree(g) + 1) >= 1 * 1
  BY <1>1, ProductsGrow
<1>3. NumSimulations * (MaxInDegree(g) + 1) \in Nat
  BY <1>1, ProductsGrow
<1> QED BY <1>2, <1>3 DEF Most

(* No service adds more than the most, whether it has a node or not, and a     *)
(* node that is called by nobody half of it.                                   *)
LEMMA ContributionBound ==
  ASSUME NEW g \in LiveGraphs, NEW A \in SUBSET Services,
         NEW count \in [A -> 1 .. NumSimulations], NEW urgency \in [A -> Urgencies], NEW n \in A
  PROVE  /\ Contribution(g, n, count, urgency) \in Nat
         /\ Contribution(g, n, count, urgency) <= Most(g)
         /\ n \in g.nodes /\ InDegree(g, n) = 0
              => 2 * Contribution(g, n, count, urgency) <= Most(g)
<1> DEFINE c == count[n]
           i == Impact(g, n)
           u == urgency[n]
           k == NumSimulations
           m == MaxInDegree(g) + 1
<1>1. c \in Nat /\ c <= k /\ k \in Nat /\ u \in Nat /\ u <= 100
  <2>1. c \in 1 .. NumSimulations /\ u \in Urgencies
    OBVIOUS
  <2>2. Urgencies \subseteq 1 .. 100 /\ NumSimulations \in Nat
    BY RiskConstants
  <2> HIDE DEF c, u
  <2> QED BY <2>1, <2>2
<1>2. i \in Nat /\ m \in Nat /\ i <= m /\ m >= 2
  BY DegreesType DEF Impact
<1>3. Contribution(g, n, count, urgency) = c * i * u /\ Most(g) = k * m * 100
  BY DEF Contribution, Most
<1>4. n \in g.nodes /\ InDegree(g, n) = 0 => i = 1
  BY DEF Impact
<1> HIDE DEF c, i, u, k, m
<1>5. c * i \in Nat /\ k * m \in Nat /\ c * i <= k * m
  BY <1>1, <1>2, ProductsGrow
<1>6. (c * i) * u \in Nat /\ (c * i) * u <= (k * m) * 100
  BY <1>1, <1>5, ProductsGrow
<1>7. ASSUME i = 1 PROVE 2 * (c * i * u) <= k * m * 100
  <2>1. c * 2 <= k * m
    BY <1>1, <1>2, ProductsGrow
  <2>2. c * u <= c * 100 /\ c * u \in Nat
    BY <1>1, ProductsGrow
  <2> QED BY <1>1, <1>5, <1>7, <2>1, <2>2
<1> QED BY <1>3, <1>4, <1>6, <1>7

(* What the runs of an origin add up to.                                       *)
Contributions(g, count, urgency) ==
  [n \in DOMAIN count |-> Contribution(g, n, count, urgency)]

LEMMA ScoreIsSum ==
  ASSUME NEW g, NEW count, NEW urgency
  PROVE  RawRiskScore(g, count, urgency) =
           (1000 * SumOf(Contributions(g, count, urgency), DOMAIN count))
             \div (Most(g) * Cardinality(g.nodes))
<1> DEFINE S == DOMAIN count
           F == Contributions(g, count, urgency)
           C(n) == Contribution(g, n, count, urgency)
           A(h) == [s \in SUBSET S |->
                      IF s = {} THEN 0 ELSE LET n == CHOOSE n \in s : TRUE IN C(n) + h[s \ {n}]]
           B(h) == [s \in SUBSET S |->
                      IF s = {} THEN 0 ELSE LET n == CHOOSE n \in s : TRUE IN F[n] + h[s \ {n}]]
<1>1. ASSUME NEW h PROVE A(h) = B(h)
  <2>1. \A s \in SUBSET S : s # {} => (CHOOSE n \in s : TRUE) \in S
    OBVIOUS
  <2>2. \A n \in S : F[n] = C(n)
    BY DEF Contributions
  <2> HIDE DEF F, C, S
  <2> QED BY <2>1, <2>2
<1>2. (CHOOSE h : h = A(h)) = (CHOOSE h : h = B(h))
  <2> HIDE DEF A, B
  <2> QED BY <1>1
<1>3. MapThenSumSet(LAMBDA n : C(n), S) = SumOf(F, S)
  BY <1>2 DEF SumOf, MapThenSumSet, MapThenFoldSet
<1> QED BY <1>3 DEF RawRiskScore, Most

(* The sum is one largest contribution per failing service at most, and half a *)
(* one less when one of them has a node that is called by nobody.              *)
LEMMA SumOfContributions ==
  ASSUME NEW g \in LiveGraphs, NEW A \in SUBSET Services,
         NEW count \in [A -> 1 .. NumSimulations], NEW urgency \in [A -> Urgencies]
  PROVE  LET sum == SumOf(Contributions(g, count, urgency), A)
         IN  /\ sum \in Nat /\ sum <= Cardinality(A) * Most(g)
             /\ \A n \in A : n \in g.nodes /\ InDegree(g, n) = 0
                              => 2 * sum <= (2 * Cardinality(A) - 1) * Most(g)
<1> DEFINE F == Contributions(g, count, urgency)
           M == Most(g)
           sum == SumOf(F, A)
<1>1. IsFiniteSet(A) /\ M \in Nat
  BY RiskConstants, FS_Subset, MostType
<1>2. \A n \in A : F[n] = Contribution(g, n, count, urgency)
  BY DEF Contributions
<1>3. \A n \in A : F[n] \in Nat /\ F[n] <= M
                /\ (n \in g.nodes /\ InDegree(g, n) = 0 => 2 * F[n] <= M)
  BY <1>2, ContributionBound
<1> HIDE DEF F, M
<1>4. sum \in Nat /\ sum <= Cardinality(A) * M
  BY <1>1, <1>3, SumType, SumBound
<1>5. ASSUME NEW n \in A, n \in g.nodes, InDegree(g, n) = 0 PROVE 2 * sum <= (2 * Cardinality(A) - 1) * M
  <2> DEFINE R == A \ {n}
  <2>1. IsFiniteSet(R) /\ Cardinality(R) = Cardinality(A) - 1 /\ Cardinality(A) \in Nat /\ Cardinality(R) \in Nat
    BY <1>1, FS_RemoveElement, FS_CardinalityType
  <2>2. sum = F[n] + SumOf(F, R)
    BY <1>1, <1>3, SumSplit
  <2>3. SumOf(F, R) \in Nat /\ SumOf(F, R) <= Cardinality(R) * M
    BY <1>1, <1>3, <2>1, SumType, SumBound
  <2>4. F[n] \in Nat /\ 2 * F[n] <= M
    BY <1>3, <1>5
  <2> HIDE DEF R, sum
  <2>5. 2 * (Cardinality(R) * M) + M = (2 * Cardinality(A) - 1) * M /\ Cardinality(R) * M \in Nat
    BY <1>1, <2>1
  <2> QED BY <1>1, <2>2, <2>3, <2>4, <2>5
<1> QED BY <1>4, <1>5 DEF F, M

(* Before the clamp a score is no larger than the share of the services         *)
(* exhausted in some run, so it needs no clamp if each of them has a node.      *)
LEMMA ScoreBounds ==
  ASSUME NEW g \in LiveGraphs, g.nodes # {}, NEW A \in SUBSET Services,
         NEW count \in [A -> 1 .. NumSimulations], NEW urgency \in [A -> Urgencies]
  PROVE  /\ RawRiskScore(g, count, urgency) \in Nat
         /\ RawRiskScore(g, count, urgency) * Cardinality(g.nodes) <= 1000 * Cardinality(A)
         /\ A \subseteq g.nodes => RawRiskScore(g, count, urgency) <= 1000
<1> DEFINE M == Most(g)
           sum == SumOf(Contributions(g, count, urgency), A)
           N == Cardinality(g.nodes)
           a == Cardinality(A)
           q == (1000 * sum) \div (M * N)
<1>1. DOMAIN count = A /\ IsFiniteSet(g.nodes) /\ IsFiniteSet(A)
  BY NodesAreServices, RiskConstants, FS_Subset DEF IsGraph
<1>2. RawRiskScore(g, count, urgency) = q
  BY <1>1, ScoreIsSum
<1>3. /\ M \in Nat \ {0} /\ N \in Nat \ {0} /\ a \in Nat
      /\ sum \in Nat /\ sum <= a * M
  BY <1>1, MostType, SumOfContributions, FS_CardinalityType, FS_EmptySet
<1>known. A \subseteq g.nodes => a <= N
  BY <1>1, FS_Subset
<1> HIDE DEF M, sum, N, a
<1>4. M * N \in Nat \ {0} /\ 1000 * sum \in Nat
  <2>1. M * N >= 1 * 1 /\ M * N \in Nat
    BY <1>3, ProductsGrow
  <2> QED BY <1>3, <2>1
<1>5. q \in Nat /\ q * (M * N) <= 1000 * sum
  <2> DEFINE d == M * N
             x == 1000 * sum
  <2>1. d \in Nat \ {0} /\ x \in Nat /\ q = x \div d
    BY <1>4
  <2> HIDE DEF d, x, q
  <2>2. q \in Nat /\ q * d <= x
    BY <2>1, Quotient
  <2> QED BY <2>2 DEF d, x
<1> HIDE DEF q
<1>6. q * N <= 1000 * a
  <2> SUFFICES ASSUME 1000 * a + 1 <= q * N PROVE FALSE
    BY <1>3, <1>5
  <2>1. (1000 * a + 1) * M <= (q * N) * M /\ (1000 * a + 1) * M \in Nat
    <3>1. q * N \in Nat /\ 1000 * a + 1 \in Nat
      BY <1>3, <1>5
    <3> QED BY <1>3, <3>1, ProductsGrow
  <2>2. (q * N) * M = q * (M * N) /\ (1000 * a + 1) * M = 1000 * (a * M) + M /\ a * M \in Nat
    BY <1>3, <1>5
  <2>3. q * (M * N) \in Nat
    BY <1>4, <1>5
  <2> QED BY <1>3, <1>5, <2>1, <2>2, <2>3
<1>7. ASSUME A \subseteq g.nodes PROVE q <= 1000
  <2> SUFFICES ASSUME 1001 <= q PROVE FALSE
    BY <1>5
  <2>1. 1001 * N <= q * N /\ q * N \in Nat
    BY <1>3, <1>5, ProductsGrow
  <2>2. a <= N
    BY <1>7, <1>known
  <2> QED BY <1>3, <1>6, <2>1, <2>2
<1> QED BY <1>2, <1>5, <1>6, <1>7 DEF N, a

LEMMA LowScore ==
  ASSUME NEW sum \in Nat, NEW M \in Nat \ {0}, NEW n \in Nat \ {0},
         1000 * sum < 667 * (M * n)
  PROVE  (1000 * sum) \div (M * n) < 667
<1> DEFINE d == M * n
           q == (1000 * sum) \div d
<1>1. d \in Nat \ {0}
  <2>1. d \in Nat /\ d >= 1 * 1
    BY ProductsGrow
  <2> QED BY <2>1
<1>2. q \in Nat /\ q * d <= 1000 * sum
  <2> HIDE DEF d
  <2> QED BY <1>1, Quotient
<1>3. SUFFICES ASSUME 667 <= q PROVE FALSE
  BY <1>2 DEF q
<1>4. 667 * d <= q * d /\ q * d \in Nat /\ 667 * d \in Nat
  <2> HIDE DEF d, q
  <2> QED BY <1>1, <1>2, <1>3, ProductsGrow
<1> HIDE DEF q
<1> QED BY <1>1, <1>2, <1>4

(* The origin counts as a node and adds nothing.                               *)
LEMMA SmallIsLow ==
  ASSUME NEW g \in LiveGraphs, NEW o \in g.nodes, NEW A \in SUBSET (g.nodes \ {o}),
         NEW count \in [A -> 1 .. NumSimulations], NEW urgency \in [A -> Urgencies],
         \/ Cardinality(g.nodes) <= 3
         \/ Cardinality(g.nodes) = 4 /\ \E n \in g.nodes \ {o} : InDegree(g, n) = 0
  PROVE  RawRiskScore(g, count, urgency) < 667
<1> DEFINE sum == SumOf(Contributions(g, count, urgency), A)
           N == Cardinality(g.nodes)
           B == g.nodes \ {o}
           M == Most(g)
<1>1. RawRiskScore(g, count, urgency) = (1000 * sum) \div (M * N)
  <2>1. DOMAIN count = A
    OBVIOUS
  <2> QED BY <2>1, ScoreIsSum
<1>2. IsFiniteSet(g.nodes) /\ IsFiniteSet(B) /\ IsFiniteSet(A) /\ M \in Nat \ {0}
  BY NodesAreServices, FS_Subset, MostType DEF IsGraph
<1>3. /\ N \in Nat /\ Cardinality(B) = N - 1 /\ Cardinality(B) \in Nat
      /\ Cardinality(A) \in Nat /\ Cardinality(A) <= Cardinality(B)
  BY <1>2, FS_RemoveElement, FS_Subset, FS_CardinalityType
<1>4. N \in Nat \ {0}
  BY <1>3
<1>5. /\ sum \in Nat /\ sum <= Cardinality(A) * M
      /\ \A n \in A : InDegree(g, n) = 0 => 2 * sum <= (2 * Cardinality(A) - 1) * M
  <2>1. A \in SUBSET Services /\ \A n \in A : n \in g.nodes
    BY NodesAreServices DEF IsGraph
  <2> QED BY <2>1, SumOfContributions
<1>6. Cardinality(A) * M <= (N - 1) * M /\ (N - 1) * M \in Nat /\ Cardinality(A) * M \in Nat
  BY <1>2, <1>3, <1>4, ProductsGrow
<1>7. CASE N <= 3
  <2>1. N = 1 \/ N = 2 \/ N = 3
    <3> HIDE DEF N
    <3> QED BY <1>4, <1>7
  <2>2. 1000 * sum < 667 * (M * N)
    <3> HIDE DEF sum, N, M
    <3> QED BY <1>2, <1>5, <1>6, <2>1
  <2> HIDE DEF sum, N, M
  <2> QED BY <1>1, <1>2, <1>4, <1>5, <2>2, LowScore
<1>8. CASE N = 4 /\ \E n \in g.nodes \ {o} : InDegree(g, n) = 0
  <2>1. PICK n \in B : InDegree(g, n) = 0
    BY <1>8
  <2>2. 2 * sum <= 5 * M
    <3>1. CASE n \in A
      <4>1. 2 * sum <= (2 * Cardinality(A) - 1) * M
        BY <1>5, <2>1, <3>1
      <4>2. Cardinality(A) \in 0 .. 3
        BY <1>3, <1>8
      <4>3. (2 * Cardinality(A) - 1) * M <= 5 * M
        <5> HIDE DEF M
        <5> QED BY <1>2, <4>2
      <4> HIDE DEF sum, M
      <4> QED BY <1>2, <1>3, <1>5, <4>1, <4>3
    <3>2. CASE n \notin A
      <4> DEFINE R == B \ {n}
      <4>1. A \in SUBSET R /\ IsFiniteSet(R) /\ Cardinality(R) = 2
        <5>1. A \in SUBSET R
          BY <3>2
        <5>2. IsFiniteSet(R) /\ Cardinality(R) = Cardinality(B) - 1
          <6> HIDE DEF B
          <6> QED BY <1>2, <2>1, FS_RemoveElement
        <5> QED BY <1>3, <1>8, <5>1, <5>2
      <4>2. Cardinality(A) <= 2
        <5> HIDE DEF R
        <5> QED BY <4>1, FS_Subset
      <4>3. Cardinality(A) * M <= 2 * M
        BY <1>2, <1>3, <4>2, ProductsGrow
      <4> HIDE DEF sum, M
      <4> QED BY <1>2, <1>3, <1>5, <1>6, <4>3
    <3> QED BY <3>1, <3>2
  <2>3. 1000 * sum < 667 * (M * N)
    <3>1. N = 4
      BY <1>8
    <3> HIDE DEF sum, M, N
    <3> QED BY <1>2, <1>5, <2>2, <3>1
  <2> HIDE DEF sum, N, M
  <2> QED BY <1>1, <1>2, <1>4, <1>5, <2>3, LowScore
<1> QED BY <1>7, <1>8

(* Every decision is one the score of its origin allows.                       *)
Careful(r, g) == \A o \in DOMAIN r : r[o] \in CutsOf(g, o)

ResultsAreCuts == Careful(results, snap) /\ Careful(latest.results, latest.about)

LEMMA CutsInit == Init => ResultsAreCuts
BY DEF Init, ResultsAreCuts, Careful, NoReport

LEMMA CutsStep == IInv /\ ResultsAreCuts /\ [Next]_vars => ResultsAreCuts'
<1> SUFFICES ASSUME IInv, ResultsAreCuts, [Next]_vars PROVE ResultsAreCuts'
  OBVIOUS
<1>1. ASSUME NEW o, WriteResult(o) PROVE ResultsAreCuts'
  <2>1. PICK cut \in Cuts[snap][o] : results' = With(results, o, cut)
    BY <1>1 DEF WriteResult
  <2>2. o \in DOMAIN go /\ UNCHANGED <<snap, latest>>
    BY <1>1 DEF WriteResult, Moves
  <2>3. snap \in LiveGraphs /\ o \in snap.nodes
    BY <2>2 DEF IInv, CycleInv
  <2>4. cut \in CutsOf(snap, o)
    BY <2>3 DEF Cuts
  <2>5. DOMAIN results' = DOMAIN results \union {o} /\ results'[o] = cut
        /\ \A x \in DOMAIN results \ {o} : results'[x] = results[x]
    BY <2>1 DEF With
  <2>6. Careful(results', snap)
    BY <2>4, <2>5 DEF ResultsAreCuts, Careful
  <2> QED BY <2>2, <2>6 DEF ResultsAreCuts
<1>2. CASE Publish
  BY <1>2 DEF Publish, ResultsAreCuts, Careful
<1>3. CASE TakeSnapshot
  BY <1>3 DEF TakeSnapshot, ResultsAreCuts, Careful
<1>4. CASE UNCHANGED <<snap, results, latest>>
  BY <1>4 DEF ResultsAreCuts
<1>5. \/ \E o \in Services : WriteResult(o)
      \/ Publish \/ TakeSnapshot \/ UNCHANGED <<snap, results, latest>>
  BY DEF Next, ServiceGraphMoves, ComeToRest, Cycle, Spawn, Stop, Goroutine, Starts, Done, Moves, vars
<1> QED BY <1>1, <1>2, <1>3, <1>4, <1>5

LEMMA SmallIsSpared ==
  ASSUME ShedThreshold >= 667, IInv, ResultsAreCuts
  PROVE  SmallGraphsNeverShed
<1> DEFINE g == latest.about
           r == latest.results
<1> SUFFICES ASSUME AllKnown(g),
                    Cardinality(g.nodes) <= 3 \/ (Cardinality(g.nodes) = 4 /\ Acyclic(g)),
                    NEW o \in DOMAIN r, r[o] # NoCut
             PROVE  FALSE
  BY DEF SmallGraphsNeverShed, Decisions
<1>1. o \in g.nodes /\ g \in LiveGraphs
  BY DEF IInv, AreResultsOf, IsGraph, EmptyGraph
<1>2. r[o] \in CutsOf(g, o)
  BY DEF ResultsAreCuts, Careful
<1> HIDE DEF r, g
<1>3. r[o] \in Callers(g, o)
  BY <1>2 DEF CutsOf
<1>4. PICK A \in SUBSET (Calling(g) \ {o}) :
        \E count \in [A -> 1 .. NumSimulations], urgency \in [A -> Urgencies] :
          ComputeRiskScore(g, count, urgency) >= ShedThreshold
  BY <1>2 DEF CutsOf
<1>5. PICK count \in [A -> 1 .. NumSimulations], urgency \in [A -> Urgencies] :
          ComputeRiskScore(g, count, urgency) >= ShedThreshold
  BY <1>4
<1>known. A \in SUBSET (g.nodes \ {o}) /\ \A n : Callers(g, n) \subseteq g.nodes
  BY DEF AllKnown, Calling, Callers
<1>6. ASSUME Acyclic(g) PROVE \E n \in g.nodes \ {o} : InDegree(g, n) = 0
  <2>1. PICK n \in g.nodes : Callers(g, n) \intersect g.nodes = {}
    BY <1>1, <1>6 DEF Acyclic
  <2>2. Callers(g, n) = {} /\ n # o
    BY <1>3, <1>known, <2>1
  <2> QED BY <2>2, FS_EmptySet DEF InDegree
<1>7. RawRiskScore(g, count, urgency) < 667
  BY <1>1, <1>6, <1>known, SmallIsLow
<1>8. RawRiskScore(g, count, urgency) \in Nat
  <2>1. A \in SUBSET Services /\ g.nodes # {}
    BY <1>1, <1>known, NodesAreServices DEF IsGraph
  <2> QED BY <1>1, <2>1, ScoreBounds
<1> QED BY <1>5, <1>7, <1>8, RiskConstants DEF ComputeRiskScore, AtMostWhole

(* The Shield leaves small graphs whose services all have a node alone, whatever*)
(* the failures, their number and their urgency, and although its report is     *)
(* about a graph of the past, for every threshold from 0.667 on: two of three   *)
(* nodes add up to 2/3 at most, and three of four to 5/8 when one of them is    *)
(* called by nobody (risk.go:112-118; the threshold is 0.7, config.go).         *)
THEOREM SmallGraphsSpared == ShedThreshold >= 667 => (Spec => []SmallGraphsNeverShed)
<1> SUFFICES ASSUME ShedThreshold >= 667 PROVE Spec => []SmallGraphsNeverShed
  OBVIOUS
<1>1. IInv /\ ResultsAreCuts => SmallGraphsNeverShed
  BY SmallIsSpared
<1> QED BY <1>1, CutsInit, CutsStep, Invariance, PTL DEF Spec

(* The clamp keeps the bounds.                                                  *)
LEMMA ClampedBounds ==
  ASSUME NEW g \in LiveGraphs, g.nodes # {}, NEW A \in SUBSET Services,
         NEW count \in [A -> 1 .. NumSimulations], NEW urgency \in [A -> Urgencies]
  PROVE  /\ ComputeRiskScore(g, count, urgency) \in Nat
         /\ ComputeRiskScore(g, count, urgency) <= 1000
         /\ ComputeRiskScore(g, count, urgency) * Cardinality(g.nodes) <= 1000 * Cardinality(A)
         /\ A \subseteq g.nodes =>
              ComputeRiskScore(g, count, urgency) = RawRiskScore(g, count, urgency)
<1> DEFINE q == RawRiskScore(g, count, urgency)
           score == ComputeRiskScore(g, count, urgency)
           N == Cardinality(g.nodes)
           a == Cardinality(A)
<1>1. q \in Nat /\ q * N <= 1000 * a /\ (A \subseteq g.nodes => q <= 1000)
  BY ScoreBounds
<1>2. N \in Nat /\ a \in Nat
  BY NodesAreServices, RiskConstants, FS_Subset, FS_CardinalityType DEF IsGraph
<1>3. score = IF q > 1000 THEN 1000 ELSE q
  BY DEF ComputeRiskScore, AtMostWhole
<1> HIDE DEF q, score, N, a
<1>4. score \in Nat /\ score <= 1000 /\ score <= q
  BY <1>1, <1>3
<1>5. score * N <= q * N /\ score * N \in Nat /\ q * N \in Nat
  BY <1>1, <1>2, <1>4, ProductsGrow
<1>6. score * N <= 1000 * a
  BY <1>1, <1>2, <1>5
<1>7. A \subseteq g.nodes => score = q
  BY <1>1, <1>3
<1> QED BY <1>4, <1>6, <1>7 DEF score, q, N, a

(* A score is no larger than the share of the services that were exhausted in   *)
(* some run, counted against the nodes, for every graph, whatever the counts and*)
(* the urgencies.  The clamp of risk.go:120 is needed only for graphs that have *)
(* outgrown MaxNodes: as long as every exhausted service has a node the score   *)
(* is at most 1 as it is; one without a node adds up to a whole node's part     *)
(* and nothing to the divisor (risk.go:94-97, 115).                             *)
THEOREM ScoreIsAShare ==
  \A g \in LiveGraphs : \A A \in SUBSET Services :
    \A count \in [A -> 1 .. NumSimulations], urgency \in [A -> Urgencies] :
      g.nodes # {} =>
        /\ ComputeRiskScore(g, count, urgency) \in Nat
        /\ ComputeRiskScore(g, count, urgency) <= 1000
        /\ ComputeRiskScore(g, count, urgency) * Cardinality(g.nodes) <= 1000 * Cardinality(A)
        /\ A \subseteq g.nodes =>
             ComputeRiskScore(g, count, urgency) = RawRiskScore(g, count, urgency)
BY ClampedBounds

(* What a graph must have before the Shield acts on it, for every threshold:    *)
(* enough callers.  The threshold's share of the nodes must be reached by the   *)
(* services that call somebody, the origin apart, with or without a node.  When *)
(* every service has its node the threshold is at most (n - 1) / n: one of 0.7  *)
(* takes four services, one of 0.9 takes ten, and one of 1 turns the Shield off *)
(* (risk.go:94-97, 112-120, strategy.go:38).                                    *)
LargeEnough ==
  LET g == latest.about
      n == Cardinality(g.nodes)
  IN  \A d \in Decisions :
        /\ ShedThreshold * n <= 1000 * Cardinality(Calling(g) \ {d[2]})
        /\ AllKnown(g) => ShedThreshold * n <= 1000 * (n - 1)

THEOREM DecisionsNeedServices == Spec => []LargeEnough
<1>1. IInv /\ ResultsAreCuts => LargeEnough
  <2> DEFINE g == latest.about
             r == latest.results
             N == Cardinality(g.nodes)
  <2> SUFFICES ASSUME IInv, ResultsAreCuts, NEW o \in DOMAIN r, r[o] # NoCut
               PROVE  /\ ShedThreshold * N <= 1000 * Cardinality(Calling(g) \ {o})
                      /\ AllKnown(g) => ShedThreshold * N <= 1000 * (N - 1)
    BY DEF LargeEnough, Decisions
  <2>1. o \in g.nodes /\ g \in LiveGraphs
    BY DEF IInv, AreResultsOf, IsGraph, EmptyGraph
  <2>2. r[o] \in CutsOf(g, o)
    BY DEF ResultsAreCuts, Careful
  <2> HIDE DEF r, g
  <2> DEFINE C == Calling(g) \ {o}
             c == Cardinality(C)
  <2>3. PICK A \in SUBSET C :
          \E count \in [A -> 1 .. NumSimulations], urgency \in [A -> Urgencies] :
            ComputeRiskScore(g, count, urgency) >= ShedThreshold
    BY <2>2 DEF CutsOf
  <2>4. PICK count \in [A -> 1 .. NumSimulations], urgency \in [A -> Urgencies] :
            ComputeRiskScore(g, count, urgency) >= ShedThreshold
    BY <2>3
  <2> DEFINE q == ComputeRiskScore(g, count, urgency)
             a == Cardinality(A)
  <2>5. C \in SUBSET Services /\ IsFiniteSet(C) /\ A \in SUBSET Services
    <3>1. C \in SUBSET Services /\ IsFiniteSet(Services)
      BY <2>1, NodesAreServices, RiskConstants DEF IsGraph, Calling
    <3> QED BY <3>1, FS_Subset
  <2>6. q \in Nat /\ q * N <= 1000 * a
    <3>1. g.nodes # {}
      BY <2>1
    <3>2. ComputeRiskScore(g, count, urgency) \in Nat
      BY <2>1, <2>5, <3>1, ClampedBounds
    <3>3. ComputeRiskScore(g, count, urgency) * Cardinality(g.nodes) <= 1000 * Cardinality(A)
      BY <2>1, <2>5, <3>1, ClampedBounds
    <3> QED BY <3>2, <3>3
  <2>7. a \in Nat /\ c \in Nat /\ a <= c
    <3> HIDE DEF C
    <3> QED BY <2>5, FS_Subset, FS_CardinalityType
  <2>8. N \in Nat /\ (AllKnown(g) => c <= N - 1)
    <3> DEFINE B == g.nodes \ {o}
    <3>1. IsFiniteSet(B) /\ Cardinality(B) = N - 1 /\ N \in Nat
      BY <2>1, NodesAreServices, FS_RemoveElement, FS_CardinalityType DEF IsGraph
    <3>2. AllKnown(g) => C \in SUBSET B
      BY DEF AllKnown, Calling
    <3> HIDE DEF B, C, N
    <3> QED BY <3>1, <3>2, FS_Subset
  <2>9. ShedThreshold \in Nat /\ ShedThreshold <= q
    BY <2>4, <2>6, RiskConstants
  <2> HIDE DEF N, q, a, c, C
  <2>10. ShedThreshold * N <= q * N /\ ShedThreshold * N \in Nat /\ q * N \in Nat
    BY <2>6, <2>8, <2>9, ProductsGrow
  <2>11. ShedThreshold * N <= 1000 * c
    BY <2>6, <2>7, <2>10
  <2>12. ASSUME AllKnown(g) PROVE ShedThreshold * N <= 1000 * (N - 1)
    <3>1. c <= N - 1
      BY <2>8, <2>12
    <3>2. 1000 * c <= 1000 * (N - 1)
      BY <2>7, <2>8, <3>1
    <3> QED BY <2>7, <2>8, <2>10, <2>11, <3>2
  <2> QED BY <2>11, <2>12 DEF N, c, C
<1> QED BY <1>1, CutsInit, CutsStep, Invariance, PTL DEF Spec

-----------------------------------------------------------------------------
(* How far behind the decisions can be. *)

(* The cycle under way, if there is one, is about the graph that is there.      *)
CycleIsFresh == phase \in {"spawning", "waiting"} => snap = graph

ReportIsFresh == latest.about = graph /\ CycleIsFresh

(* What is under DecisionsCatchUp, with the number of cycles it takes: once the *)
(* graph is at rest, the report that is published next may still be about an    *)
(* older snapshot, and the one after it is not; from then on every decision is  *)
(* about a link that is there, and no cycle changes that (engine.go:73-86).     *)
THEOREM TwoReportsCatchUp ==
  /\ Spec => [][~moving /\ Publish => CycleIsFresh']_vars
  /\ Spec => [][~moving /\ CycleIsFresh => CycleIsFresh' /\ (Publish => ReportIsFresh')]_vars
  /\ Spec => [][~moving /\ ReportIsFresh => ReportIsFresh']_vars
  /\ Spec => [](ReportIsFresh => Decisions \subseteq graph.links)
<1>1. ASSUME IInv, Publish
      PROVE  CycleIsFresh' /\ (CycleIsFresh => ReportIsFresh')
  BY <1>1 DEF Publish, CycleIsFresh, ReportIsFresh
<1>2. ASSUME ~moving, CycleIsFresh, [Next]_vars
      PROVE  CycleIsFresh' /\ (latest.about = graph => ReportIsFresh')
  <2>1. CASE TakeSnapshot
    BY <1>2, <2>1 DEF TakeSnapshot, CycleIsFresh, ReportIsFresh
  <2>2. ASSUME NEW o, Spawn(o) \/ Goroutine(o)
        PROVE  UNCHANGED <<graph, snap, latest>> /\ phase' \in {phase, "waiting"}
               /\ (phase' = phase \/ phase = "spawning")
    BY <2>2 DEF Spawn, Goroutine, Starts, WriteResult, Done, Moves
  <2>3. CASE Publish
    BY <1>2, <2>3 DEF Publish, CycleIsFresh, ReportIsFresh
  <2>4. CASE Stop \/ ComeToRest \/ UNCHANGED vars
    BY <1>2, <2>4 DEF Stop, ComeToRest, vars, CycleIsFresh, ReportIsFresh
  <2>5. CASE \E o : Spawn(o) \/ Goroutine(o)
    BY <1>2, <2>2, <2>5 DEF CycleIsFresh, ReportIsFresh
  <2> QED BY <1>2, <2>1, <2>3, <2>4, <2>5 DEF Next, Cycle, ServiceGraphMoves
<1>3. IInv /\ [Next]_vars => [~moving /\ Publish => CycleIsFresh']_vars
  BY <1>1
<1>4. IInv /\ [Next]_vars
        => [~moving /\ CycleIsFresh => CycleIsFresh' /\ (Publish => ReportIsFresh')]_vars
  BY <1>1, <1>2
<1>5. IInv /\ [Next]_vars => [~moving /\ ReportIsFresh => ReportIsFresh']_vars
  BY <1>2 DEF ReportIsFresh
<1>6. IInv /\ ReportIsFresh => Decisions \subseteq graph.links
  BY DEF IInv, AreResultsOf, Decisions, Callers, ReportIsFresh
<1>7. Spec => [][~moving /\ Publish => CycleIsFresh']_vars
  BY <1>3, Invariance, PTL DEF Spec
<1>8. Spec => [][~moving /\ CycleIsFresh => CycleIsFresh' /\ (Publish => ReportIsFresh')]_vars
  BY <1>4, Invariance, PTL DEF Spec
<1>9. Spec => [][~moving /\ ReportIsFresh => ReportIsFresh']_vars
  BY <1>5, Invariance, PTL DEF Spec
<1> QED BY <1>6, <1>7, <1>8, <1>9, Invariance, PTL
=============================================================================
