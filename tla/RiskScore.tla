----------------------------- MODULE RiskScore -----------------------------
(***************************************************************************)
(* From simulated failures to decisions, as operators: the risk score of   *)
(* an origin (pkg/simulator/risk.go), its result (report.go) and what the  *)
(* Shield's strategy makes of it (pkg/shield/strategy.go).                 *)
(*                                                                         *)
(* A graph is a record of its nodes and its links <<caller, callee>>; the  *)
(* links may name services without a node once the graph holds MaxNodes of *)
(* them (dag.go:149-192; module DependencyDAG, MissingOnlyWhenFull).  The  *)
(* runs of an origin are summed up as the score sums them up: for every    *)
(* node exhausted in some run the number of those runs and the urgency, in *)
(* tenths: 1 / mean TTF in seconds, at most 10, and 1 without a TTF.  A    *)
(* score is counted in thousandths, rounded down, which keeps its order    *)
(* against a threshold in thousandths.                                     *)
(***************************************************************************)
EXTENDS Integers, FiniteSets, FiniteSetsExt

CONSTANTS
  Services,
  LiveGraphs,       (* the graphs the live graph may go through                  *)
  MaxNodes,         (* the graph's room for nodes                                *)
  NumSimulations,   (* runs per origin                                           *)
  Urgencies,        (* the urgencies that occur, in tenths                       *)
  ShedThreshold,    (* in thousandths                                            *)
  NoCut

ASSUME RiskConstants ==
  /\ IsFiniteSet(Services)
  /\ \A g \in LiveGraphs :
       /\ g.nodes \subseteq Services /\ g.links \subseteq Services \X Services
       /\ g.links \subseteq g.nodes \X g.nodes \/ Cardinality(g.nodes) = MaxNodes
  /\ NumSimulations \in Nat \ {0}
  /\ Urgencies \subseteq 1 .. 100
  /\ ShedThreshold \in 0 .. 1000
  /\ NoCut \notin Services

(* The services that call n.                                                   *)
Callers(g, n) == {m \in Services : <<m, n>> \in g.links}

(* The services that call somebody: a simulated failure spreads to callers only. *)
Calling(g) == {l[1] : l \in g.links}

InDegree(g, n) == Cardinality(Callers(g, n))

MaxInDegree(g) == Max({1} \union {InDegree(g, n) : n \in g.nodes})

(* The impact in parts of MaxInDegree + 1: all of it for a service without a   *)
(* node, whose fan-in is not known.                                            *)
Impact(g, D) == IF D \in g.nodes THEN InDegree(g, D) + 1 ELSE MaxInDegree(g) + 1

Contribution(g, D, count, urgency) == count[D] * Impact(g, D) * urgency[D]

AtMostWhole(x) == IF x > 1000 THEN 1000 ELSE x

(* Fault: not divided by the number of nodes. *)
UndividedRiskScore(g, count, urgency) ==
  AtMostWhole((1000 * MapThenSumSet(LAMBDA D : Contribution(g, D, count, urgency), DOMAIN count))
                \div (NumSimulations * (MaxInDegree(g) + 1) * 100))

(* Probability times impact times urgency, summed over the services exhausted  *)
(* and divided by the most that so many services as have a node could add up   *)
(* to.                                                                         *)
RawRiskScore(g, count, urgency) ==
  (1000 * MapThenSumSet(LAMBDA D : Contribution(g, D, count, urgency), DOMAIN count))
    \div (NumSimulations * (MaxInDegree(g) + 1) * 100 * Cardinality(g.nodes))

ComputeRiskScore(g, count, urgency) == AtMostWhole(RawRiskScore(g, count, urgency))

(* ComputeSheddingStrategy: a risk at the threshold cuts the link of the first *)
(* caller on the top path, one of the origin's callers.                        *)
CutsOf(g, o) ==
  {NoCut} \union
  {caller \in Callers(g, o) :
     \E A \in SUBSET (Calling(g) \ {o}) :
       \E count \in [A -> 1 .. NumSimulations], urgency \in [A -> Urgencies] :
         ComputeRiskScore(g, count, urgency) >= ShedThreshold}

(* For every graph and origin, worked out once.                                *)
Cuts == [g \in LiveGraphs |-> [o \in g.nodes |-> CutsOf(g, o)]]
=============================================================================
