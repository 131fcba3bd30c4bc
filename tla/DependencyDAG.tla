--------------------------- MODULE DependencyDAG ---------------------------
(***************************************************************************)
(* The live service graph: pkg/graph/dag.go, node.go and edge.go, driven   *)
(* by the stream of resolved events that pkg/graph/builder.go consumes.    *)
(*                                                                         *)
(* Every operation of the DAG runs under its write lock, so each is one    *)
(* step.  A link is the pair of names the resolver puts on an event, not a *)
(* connection: the CLOSE of a connection need not name the link of its     *)
(* CONNECT or ACCEPT.  An accepted connection is recorded from the server's*)
(* own address to the server and closed from the server to the client      *)
(* (resolver.go:94-113), and a cached name may expire in between; ClosesOn *)
(* says which links may be named.  Events are also lost: the ring buffer   *)
(* and the builder's channel drop them when they are full.                 *)
(*                                                                         *)
(* Beside the graph the module keeps two history variables about the       *)
(* traffic itself: open[l], the connections recorded on l (or lost on the  *)
(* way to it) that are still open, and unanswered[l], those that came to   *)
(* their end without a CLOSE about l.                                      *)
(*                                                                         *)
(* Time is abstracted to idle[l], the age of the edge's LastSeen in steps  *)
(* of Age, counted no further than just past the timeout.                  *)
(***************************************************************************)
EXTENDS Integers, FiniteSets

CONSTANTS
  Services,
  Links,             (* the pairs <<caller, callee>> that exchange traffic       *)
  MaxNodes,
  MaxEdgesPerNode,
  StaleEdgeTimeout,  (* an edge idle for longer is pruned                        *)
  ClosesOn,          (* ClosesOn[l]: links the CLOSE of a connection on l names  *)
  MaxOpen,           (* bound: connections open at once on a link                *)
  MaxUnanswered      (* bound: unanswered openings per link                      *)

ASSUME DAGConstants ==
  /\ IsFiniteSet(Services)
  /\ Links \subseteq Services \X Services
  /\ MaxNodes \in Nat /\ StaleEdgeTimeout \in Nat
  /\ MaxEdgesPerNode \in Nat \ {0}
  /\ ClosesOn \in [Links -> SUBSET Links]
  /\ MaxOpen \in Nat /\ MaxUnanswered \in Nat

VARIABLES
  nodes,        (* the ids that have a Node                                      *)
  inDegree,     (* Node.InDegree, 0 for an id without a Node                     *)
  outDegree,    (* Node.OutDegree                                                *)
  edges,        (* the links that have an Edge                                   *)
  idle,         (* idle[l]: time since Edge.LastSeen                             *)
  active,       (* active[l]: Edge.ActiveConnections                             *)
  open,         (* history: connections open on the link                         *)
  unanswered    (* history: openings on the link that no CLOSE about it answers  *)

graphVars == <<nodes, inDegree, outDegree, edges, idle, active>>
vars == <<nodes, inDegree, outDegree, edges, idle, active, open, unanswered>>

OutEdges(E, n) == {l \in E : l[1] = n}
InEdges(E, n)  == {l \in E : l[2] = n}

Init ==
  /\ nodes = {}
  /\ inDegree = [n \in Services |-> 0]
  /\ outDegree = [n \in Services |-> 0]
  /\ edges = {}
  /\ idle = [l \in Links |-> 0]
  /\ active = [l \in Links |-> 0]
  /\ open = [l \in Links |-> 0]
  /\ unanswered = [l \in Links |-> 0]

-----------------------------------------------------------------------------
(* The write operations of the DAG. *)

(* ensureNodeUnlocked: no new node once the graph is full.                      *)
EnsureNode(N, id) == IF id \in N \/ Cardinality(N) >= MaxNodes THEN N ELSE N \union {id}

(* A degree changes only on a node that exists.                                 *)
Bump(degree, N, id) == IF id \in N THEN [degree EXCEPT ![id] = @ + 1] ELSE degree

(***************************************************************************)
(* RecordConnect, for a CONNECT or an ACCEPT: both nodes, then the edge.   *)
(* The edge is created whether or not its nodes could be.                  *)
(***************************************************************************)
RecordConnect(l) ==
  /\ nodes' = EnsureNode(EnsureNode(nodes, l[1]), l[2])
  /\ \/ /\ l \in edges
        /\ active' = [active EXCEPT ![l] = @ + 1]
        /\ idle' = [idle EXCEPT ![l] = 0]
        /\ UNCHANGED <<edges, inDegree, outDegree>>
     \/ /\ l \notin edges
        /\ Cardinality(OutEdges(edges, l[1])) < MaxEdgesPerNode
        /\ edges' = edges \union {l}
        /\ outDegree' = Bump(outDegree, nodes', l[1])
        /\ inDegree' = Bump(inDegree, nodes', l[2])
        /\ active' = [active EXCEPT ![l] = 1]
        /\ idle' = [idle EXCEPT ![l] = 0]
     \/ /\ l \notin edges
        /\ Cardinality(OutEdges(edges, l[1])) >= MaxEdgesPerNode
        /\ UNCHANGED <<edges, inDegree, outDegree, active, idle>>

(* Faults: no clamp at 0; a clamp at 1. *)
RecordCloseUnclamped(l) ==
  /\ active' = IF l \in edges THEN [active EXCEPT ![l] = @ - 1] ELSE active
  /\ idle' = IF l \in edges THEN [idle EXCEPT ![l] = 0] ELSE idle
  /\ UNCHANGED <<nodes, inDegree, outDegree, edges>>

RecordCloseKeepsOne(l) ==
  /\ active' = IF active[l] > 1 THEN [active EXCEPT ![l] = @ - 1] ELSE active
  /\ idle' = IF l \in edges THEN [idle EXCEPT ![l] = 0] ELSE idle
  /\ UNCHANGED <<nodes, inDegree, outDegree, edges>>

RecordClose(l) ==
  /\ IF l \in edges
       THEN /\ active' = [active EXCEPT ![l] = IF @ > 0 THEN @ - 1 ELSE @]
            /\ idle' = [idle EXCEPT ![l] = 0]
       ELSE UNCHANGED <<active, idle>>
  /\ UNCHANGED <<nodes, inDegree, outDegree, edges>>

RecordRetransmit(l) ==
  /\ idle' = IF l \in edges THEN [idle EXCEPT ![l] = 0] ELSE idle
  /\ UNCHANGED <<nodes, inDegree, outDegree, edges, active>>

(* Fault: an edge that seems to have connections is never stale. *)
StaleEdgesWithoutConnections == {l \in edges : idle[l] > StaleEdgeTimeout /\ active[l] = 0}

(* PruneStaleEdges: the degrees fall with the edges, the nodes stay.            *)
StaleEdges == {l \in edges : idle[l] > StaleEdgeTimeout}

Drop(degree, N, id, k) ==
  IF id \notin N THEN degree[id] ELSE IF degree[id] > k THEN degree[id] - k ELSE 0

(* Fault: the callee's degree is forgotten.                                    *)
PruneForgetsCallee ==
  /\ StaleEdges # {}
  /\ edges' = edges \ StaleEdges
  /\ outDegree' = [n \in Services |-> Drop(outDegree, nodes, n, Cardinality(OutEdges(StaleEdges, n)))]
  /\ active' = [l \in Links |-> IF l \in StaleEdges THEN 0 ELSE active[l]]
  /\ idle'   = [l \in Links |-> IF l \in StaleEdges THEN 0 ELSE idle[l]]
  /\ UNCHANGED <<nodes, inDegree>>

PruneStaleEdges ==
  /\ StaleEdges # {}
  /\ edges' = edges \ StaleEdges
  /\ outDegree' = [n \in Services |-> Drop(outDegree, nodes, n, Cardinality(OutEdges(StaleEdges, n)))]
  /\ inDegree'  = [n \in Services |-> Drop(inDegree, nodes, n, Cardinality(InEdges(StaleEdges, n)))]
  /\ active' = [l \in Links |-> IF l \in StaleEdges THEN 0 ELSE active[l]]
  /\ idle'   = [l \in Links |-> IF l \in StaleEdges THEN 0 ELSE idle[l]]
  /\ nodes' = nodes

-----------------------------------------------------------------------------
(* The builder's loop and the traffic behind its events. *)

(* A CONNECT or an ACCEPT: processEvent treats them alike.                      *)
ConnectEvent(l) ==
  /\ open[l] < MaxOpen
  /\ open' = [open EXCEPT ![l] = @ + 1]
  /\ RecordConnect(l)
  /\ UNCHANGED unanswered

ConnectLost(l) ==
  /\ open[l] < MaxOpen
  /\ open' = [open EXCEPT ![l] = @ + 1]
  /\ UNCHANGED <<graphVars, unanswered>>

(* An opening that nothing will close: of a connection on l, or of none at all. *)
Unanswered(l) ==
  /\ unanswered[l] < MaxUnanswered
  /\ unanswered' = [unanswered EXCEPT ![l] = @ + 1]

(* The CONNECT of an attempt that failed: its return code is not looked at.     *)
ConnectFails(l) ==
  /\ RecordConnect(l)
  /\ Unanswered(l)
  /\ UNCHANGED open

(* The end of a connection on l: the CLOSE names l again, ...                   *)
Ends(l) ==
  /\ open[l] > 0
  /\ open' = [open EXCEPT ![l] = @ - 1]

CloseEvent(l) ==
  /\ l \in ClosesOn[l]
  /\ Ends(l)
  /\ RecordClose(l)
  /\ UNCHANGED unanswered

(* ... it names another link, whose edge it decrements, ...                     *)
CloseElsewhere(l, k) ==
  /\ k \in ClosesOn[l] \ {l}
  /\ Ends(l)
  /\ RecordClose(k)
  /\ Unanswered(l)

(* ... or it is dropped.                                                        *)
CloseLost(l) ==
  /\ Ends(l)
  /\ Unanswered(l)
  /\ UNCHANGED graphVars

(* The CLOSE of a socket without a connection: a failed attempt, a listener.    *)
StrayClose(l) ==
  /\ RecordClose(l)
  /\ UNCHANGED <<open, unanswered>>

(* A RETRANSMIT runs in any process's context, so it may name any link.         *)
RetransmitEvent(l) ==
  /\ RecordRetransmit(l)
  /\ UNCHANGED <<open, unanswered>>

Prune == PruneStaleEdges /\ UNCHANGED <<open, unanswered>>

Age ==
  /\ \E l \in edges : idle[l] <= StaleEdgeTimeout
  /\ idle' = [l \in Links |-> IF l \in edges /\ idle[l] <= StaleEdgeTimeout THEN idle[l] + 1 ELSE idle[l]]
  /\ UNCHANGED <<nodes, inDegree, outDegree, edges, active, open, unanswered>>

(* What names the link l.                                                       *)
Traffic(l) ==
  \/ ConnectEvent(l) \/ ConnectLost(l) \/ ConnectFails(l)
  \/ CloseEvent(l) \/ CloseLost(l) \/ StrayClose(l)
  \/ \E k \in Links : CloseElsewhere(k, l)
  \/ RetransmitEvent(l)

Next == (\E l \in Links : Traffic(l)) \/ Prune \/ Age

Spec == Init /\ [][Next]_vars

(* Time passes and the prune ticker keeps firing; traffic need not come.       *)
FairSpec == Spec /\ WF_vars(Age) /\ WF_vars(Prune)

-----------------------------------------------------------------------------
TypeOK ==
  /\ nodes \in SUBSET Services
  /\ inDegree \in [Services -> Nat]
  /\ outDegree \in [Services -> Nat]
  /\ edges \in SUBSET Links
  /\ idle \in [Links -> 0 .. StaleEdgeTimeout + 1]
  /\ active \in [Links -> Nat]
  /\ open \in [Links -> Nat]
  /\ unanswered \in [Links -> Nat]

(***************************************************************************)
(* The degrees kept on the nodes count the edges of the graph, although    *)
(* edges may have a missing node and pruning guards every decrement        *)
(* (dag.go:184-189, 260-265): no node ever appears after an edge to it.    *)
(***************************************************************************)
DegreesCountEdges ==
  \A n \in nodes : /\ outDegree[n] = Cardinality(OutEdges(edges, n))
                   /\ inDegree[n] = Cardinality(InEdges(edges, n))

(* The two limits hold at every moment (dag.go:150, 176).                      *)
LimitsKept ==
  /\ Cardinality(nodes) <= MaxNodes
  /\ \A n \in Services : Cardinality(OutEdges(edges, n)) <= MaxEdgesPerNode

(* RecordConnect "ensures nodes exist" (dag.go:160) until the graph is full:   *)
(* an edge lacks a node only when MaxNodes services are known.                 *)
MissingOnlyWhenFull ==
  \A l \in edges : {l[1], l[2]} \subseteq nodes \/ Cardinality(nodes) = MaxNodes

(***************************************************************************)
(* ActiveConnections exceeds the connections open on the link by no more   *)
(* than the openings that no CLOSE about the link answered, whatever is    *)
(* lost, pruned, refused for lack of room, decremented on another's behalf *)
(* or clamped at 0 in between.  edge.go:29 ("incremented on CONNECT/ACCEPT,*)
(* decremented on CLOSE") promises no such excess, but an accepted         *)
(* connection is closed on another link (l \notin ClosesOn[l]) and adds 1  *)
(* for good, with no event lost at all.                                    *)
(***************************************************************************)
ActiveNeverOverstates == \A l \in edges : active[l] <= open[l] + unanswered[l]

(* An edge without traffic does not stay: it is pruned, for good, unless       *)
(* events about it keep arriving.                                              *)
SilentEdgesPruned ==
  \A l \in Links : <>[][~Traffic(l)]_vars => <>[](l \notin edges)

-----------------------------------------------------------------------------
(* dag.go:245-246: PruneStaleEdges "also cleans up orphaned nodes": after a    *)
(* prune, a node that lost its last edge is gone.                              *)
DocOrphansCleaned ==
  [][Prune => \A n \in nodes' : OutEdges(edges', n) \union InEdges(edges', n) # {}
                                \/ OutEdges(edges, n) \union InEdges(edges, n) = {}]_vars
=============================================================================
