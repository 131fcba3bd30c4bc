---------------------------- MODULE OracleEngine ----------------------------
(***************************************************************************)
(* The Oracle's engine (pkg/simulator/engine.go): on a ticker it takes a   *)
(* snapshot of the live graph, simulates a failure of every node of it in  *)
(* a goroutine of its own, a bounded number at a time, joins them and      *)
(* publishes the report, from which the Shield derives its decisions while *)
(* the graph moves on.                                                     *)
(*                                                                         *)
(* A goroutine is "new" until it is scheduled and "running" while it       *)
(* simulates; it is "written" when it has put its result into the map      *)
(* under the mutex, and "done" when its two deferred calls have given its  *)
(* slot of the semaphore and its share of the wait group back.             *)
(***************************************************************************)
EXTENDS RiskScore

CONSTANTS
  MaxConcurrentNodes

ASSUME EngineConstants == MaxConcurrentNodes \in Nat \ {0}

VARIABLES
  graph,       (* the live graph                                                 *)
  moving,      (* it still changes                                               *)
  phase,       (* the engine: idle, spawning, waiting or stopped                 *)
  snap,        (* the snapshot it works on                                       *)
  go,          (* the goroutines of this cycle, by origin                        *)
  results,     (* report.NodeResults of this cycle, by origin                    *)
  latest       (* latestReport: the snapshot it is about and its results         *)

vars == <<graph, moving, phase, snap, go, results, latest>>

EmptyGraph == [nodes |-> {}, links |-> {}]

NoReport == [about |-> EmptyGraph, results |-> << >>]

Init ==
  /\ graph = EmptyGraph
  /\ moving = TRUE
  /\ phase = "idle"
  /\ snap = EmptyGraph
  /\ go = << >>
  /\ results = << >>
  /\ latest = NoReport

With(f, x, v) == [y \in DOMAIN f \union {x} |-> IF y = x THEN v ELSE f[y]]

-----------------------------------------------------------------------------
(* The live graph: links come with their nodes and are pruned without them,    *)
(* several between two looks of the engine.                                    *)

ServiceGraphMoves ==
  /\ moving
  /\ graph' \in LiveGraphs \ {graph}
  /\ graph.nodes \subseteq graph'.nodes
  /\ UNCHANGED <<moving, phase, snap, go, results, latest>>

ComeToRest ==
  /\ moving
  /\ moving' = FALSE
  /\ UNCHANGED <<graph, phase, snap, go, results, latest>>

-----------------------------------------------------------------------------
(* RunSimulation. *)

(* Fault: wg.Add is the first thing the goroutine does. *)
CountedOnceRunning == {o \in DOMAIN go : go[o] \in {"running", "written"}}

(* wg: what has been added and not done.                                       *)
Counted == {o \in DOMAIN go : go[o] # "done"}

(* sem: the slots taken.                                                       *)
Holding == {o \in DOMAIN go : go[o] # "done"}

(* Fault: the last snapshot serves as long as no service was added. *)
TakeSnapshotReused ==
  /\ phase = "idle" /\ graph.nodes # {}
  /\ snap' = IF graph.nodes = latest.about.nodes THEN latest.about ELSE graph
  /\ go' = << >> /\ results' = << >>
  /\ phase' = "spawning"
  /\ UNCHANGED <<graph, moving, latest>>

(* The ticker fires.  A graph without nodes is skipped.                        *)
TakeSnapshot ==
  /\ phase = "idle" /\ graph.nodes # {}
  /\ snap' = graph
  /\ go' = << >> /\ results' = << >>
  /\ phase' = "spawning"
  /\ UNCHANGED <<graph, moving, latest>>

(* The loop over the nodes of the snapshot, in any order: a slot, then the     *)
(* goroutine.                                                                  *)
Spawn(o) ==
  /\ phase = "spawning" /\ o \in snap.nodes \ DOMAIN go
  /\ Cardinality(Holding) < MaxConcurrentNodes
  /\ go' = With(go, o, "new")
  /\ phase' = IF DOMAIN go' = snap.nodes THEN "waiting" ELSE phase
  /\ UNCHANGED <<graph, moving, snap, results, latest>>

Moves(o, from, to) ==
  /\ o \in DOMAIN go /\ go[o] = from
  /\ go' = [go EXCEPT ![o] = to]
  /\ UNCHANGED <<graph, moving, phase, snap, latest>>

Starts(o) == Moves(o, "new", "running") /\ UNCHANGED results

(* simulateNode on the snapshot, and its result.  Fault: on the live graph.    *)
WriteResultLive(o) ==
  /\ Moves(o, "running", "written")
  /\ \E cut \in Cuts[graph][o] : results' = With(results, o, cut)

WriteResult(o) ==
  /\ Moves(o, "running", "written")
  /\ \E cut \in Cuts[snap][o] : results' = With(results, o, cut)

(* The deferred calls.                                                         *)
Done(o) == Moves(o, "written", "done") /\ UNCHANGED results

(* wg.Wait, and the report is stored under its own lock.                       *)
Publish ==
  /\ phase = "waiting" /\ Counted = {}
  /\ latest' = [about |-> snap, results |-> results]
  /\ phase' = "idle"
  /\ snap' = EmptyGraph /\ go' = << >> /\ results' = << >>
  /\ UNCHANGED <<graph, moving>>

(* The context is looked at between two cycles only.                           *)
Stop ==
  /\ phase = "idle"
  /\ phase' = "stopped"
  /\ UNCHANGED <<graph, moving, snap, go, results, latest>>

Goroutine(o) == Starts(o) \/ WriteResult(o) \/ Done(o)

Cycle == (\E o \in Services : Spawn(o)) \/ Publish

Next ==
  \/ ServiceGraphMoves \/ ComeToRest
  \/ TakeSnapshot \/ Cycle \/ Stop
  \/ \E o \in Services : Goroutine(o)

Spec == Init /\ [][Next]_vars

(* The ticker goes on, and what can run is run.                                *)
FairSpec ==
  /\ Spec
  /\ WF_vars(TakeSnapshot) /\ WF_vars(Cycle)
  /\ \A o \in Services : WF_vars(Goroutine(o))

-----------------------------------------------------------------------------
IsGraph(g) == g \in LiveGraphs \union {EmptyGraph}

AreResultsOf(r, g) ==
  /\ DOMAIN r \subseteq g.nodes
  /\ \A o \in DOMAIN r : r[o] \in Callers(g, o) \union {NoCut}

TypeOK ==
  /\ IsGraph(graph) /\ IsGraph(snap) /\ IsGraph(latest.about)
  /\ moving \in BOOLEAN
  /\ phase \in {"idle", "spawning", "waiting", "stopped"}
  /\ DOMAIN go \subseteq snap.nodes
  /\ \A o \in DOMAIN go : go[o] \in {"new", "running", "written", "done"}
  /\ Cardinality(Holding) <= MaxConcurrentNodes
  /\ AreResultsOf(results, snap) /\ AreResultsOf(latest.results, latest.about)

(***************************************************************************)
(* A report that can be read has the result of every node of its snapshot, *)
(* however the goroutines of the cycle were scheduled (engine.go:113-126): *)
(* the Shield never takes a missing result for a low risk.                 *)
(***************************************************************************)
ReportsComplete == DOMAIN latest.results = latest.about.nodes

Decisions == {<<latest.results[o], o>> : o \in {n \in DOMAIN latest.results : latest.results[n] # NoCut}}

(* Every service of the graph has its node.                                     *)
AllKnown(g) == g.links \subseteq g.nodes \X g.nodes

(* In every set of nodes somebody is called by no other of them.                *)
Acyclic(g) ==
  \A A \in SUBSET g.nodes \ {{}} : \E n \in A : Callers(g, n) \intersect A = {}

(***************************************************************************)
(* The Shield never acts on a graph of up to three services, nor on one of *)
(* four without a cycle, as long as every service has its node: the score  *)
(* is divided by 10 per node, the origin included, which no failure of the *)
(* others can make up for (risk.go:112-118 against ShedThreshold,          *)
(* strategy.go:38).                                                        *)
(*                                                                         *)
(* This is what the code does and not what the documents say.  phase-4.md: *)
(* 182-196 (documentation/explanation) scores payments of the chain gateway*)
(* -> orders -> payments at 0.87, CRITICAL, after normalising, phase-4b.md:*)
(* 104-128 has the Shield shed half of orders -> payments on that chain at *)
(* 0.85, and the formula of risk.go:38-45 divides by no number of nodes.   *)
(* On three services the code's score is at most 2/3.                      *)
(***************************************************************************)
SmallGraphsNeverShed ==
  LET g == latest.about
      Small == Cardinality(g.nodes) <= 3 \/ (Cardinality(g.nodes) = 4 /\ Acyclic(g))
  IN  AllKnown(g) /\ Small => Decisions = {}

(***************************************************************************)
(* Decisions are about a graph of the past.  Once the graph has come to    *)
(* rest, they name only links that are there, provided the engine runs     *)
(* (engine.go:73-86).                                                      *)
(***************************************************************************)
DecisionsCatchUp == ~moving ~> (phase = "stopped" \/ Decisions \subseteq graph.links)
=============================================================================
