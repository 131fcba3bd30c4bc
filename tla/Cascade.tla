------------------------------ MODULE Cascade ------------------------------
(***************************************************************************)
(* One Monte Carlo run of the Oracle: PropagateCascade (pkg/simulator/     *)
(* cascade.go) on an immutable snapshot of the graph.  A breadth-first     *)
(* search from the perturbed service towards its callers; a caller that    *)
(* fails is passed on, a caller that holds is not, and may be asked again  *)
(* for another failed callee.                                              *)
(*                                                                         *)
(* The code appends a failed caller to run.Path and to its queue in the    *)
(* same step, so the queue is what path holds from position next on, and   *)
(* visited is what path holds.  The callers of a service come in the order *)
(* of a Go map: any order.                                                 *)
(***************************************************************************)
EXTENDS FailureModels, Sequences, FiniteSets

CONSTANTS
  Nodes,         (* the services its nodes and links name                     *)
  Edges,         (* its links <<caller, callee>>; cycles and loops occur      *)
  RequestRate,   (* RequestRate[e], LatencyP99[e], ErrorRate[e]: the metrics  *)
  LatencyP99,    (*   of each link                                            *)
  ErrorRate,
  Latencies,     (* the perturbations a run may inject                        *)
  Errors

ASSUME SnapshotAssumption ==
  /\ IsFiniteSet(Nodes)
  /\ Edges \subseteq Nodes \X Nodes
  /\ RequestRate \in [Edges -> Nat]
  /\ LatencyP99 \in [Edges -> Nat]
  /\ ErrorRate \in [Edges -> 0 .. Whole]
  /\ Latencies \subseteq Nat \ {0} /\ Errors \subseteq 0 .. Whole

VARIABLES
  path,      (* CascadeRun.Path, and the queue                                *)
  next,      (* position in path of the next service to dequeue               *)
  current,   (* the dequeued service                                          *)
  pending,   (* its callers not looked at yet                                 *)
  health,    (* CascadeRun.NodeStates                                         *)
  effect     (* effect[n]: the latency and errors a failed n adds for callers *)

vars == <<path, next, current, pending, health, effect>>

Visited == {path[i] : i \in DOMAIN path}

CallersOf(n) == {m \in Nodes : <<m, n>> \in Edges}

NoEffect == [latency |-> 0, error |-> 0]

Init ==
  \E origin \in Nodes, l \in Latencies, r \in Errors :
    /\ path = <<origin>>
    /\ next = 1
    /\ current = origin
    /\ pending = {}
    /\ health = [n \in Nodes |-> IF n = origin THEN StateDegraded ELSE StateHealthy]
    /\ effect = [n \in Nodes |-> IF n = origin THEN [latency |-> l, error |-> r] ELSE NoEffect]

-----------------------------------------------------------------------------
(* What a caller sees of the current service, and what it passes on itself.   *)

SeenLatency(c, n, latency) == LatencyP99[<<c, n>>] + latency

SeenError(c, n) == ErrorRate[<<c, n>>] + effect[n].error

Outcome(c, n, latency) ==
  Severity(RequestRate[<<c, n>>], SeenLatency(c, n, latency), SeenError(c, n))

PassedOn(c, n) ==
  LET rate == RequestRate[<<c, n>>]
      seen == SeenLatency(c, n, effect[n].latency)
  IN  [latency |-> AdditionalLatency(rate, seen) + effect[n].latency \div 2,
       error |-> AtMost(AdditionalErrors(rate, seen, SeenError(c, n)) + effect[n].error \div 2, Whole)]

(* Fault: the queue is read but never shortened. *)
DequeueKeepsItem ==
  /\ pending = {} /\ next <= Len(path)
  /\ current' = path[next]
  /\ pending' = CallersOf(path[next])
  /\ UNCHANGED <<path, next, health, effect>>

Dequeue ==
  /\ pending = {} /\ next <= Len(path)
  /\ current' = path[next]
  /\ next' = next + 1
  /\ pending' = CallersOf(path[next])
  /\ UNCHANGED <<path, health, effect>>

CallerVisited(c) ==
  /\ c \in pending /\ c \in Visited
  /\ pending' = pending \ {c}
  /\ UNCHANGED <<path, next, current, health, effect>>

(* Fault: the loop over the callers ends at the first that holds. *)
CallerHoldsForAll(c) ==
  /\ c \in pending /\ c \notin Visited
  /\ Outcome(c, current, effect[current].latency) = StateHealthy
  /\ pending' = {}
  /\ UNCHANGED <<path, next, current, health, effect>>

CallerHolds(c) ==
  /\ c \in pending /\ c \notin Visited
  /\ Outcome(c, current, effect[current].latency) = StateHealthy
  /\ pending' = pending \ {c}
  /\ UNCHANGED <<path, next, current, health, effect>>

(* Faults: a failed service may fail again; the path grows at its front. *)
CallerFailsAgain(c) ==
  /\ c \in pending
  /\ Outcome(c, current, effect[current].latency) > StateHealthy
  /\ pending' = pending \ {c}
  /\ path' = Append(path, c)
  /\ health' = [health EXCEPT ![c] = Outcome(c, current, effect[current].latency)]
  /\ effect' = [effect EXCEPT ![c] = PassedOn(c, current)]
  /\ UNCHANGED <<next, current>>

CallerFailsFirst(c) ==
  /\ c \in pending /\ c \notin Visited
  /\ Outcome(c, current, effect[current].latency) > StateHealthy
  /\ pending' = pending \ {c}
  /\ path' = <<c>> \o path
  /\ health' = [health EXCEPT ![c] = Outcome(c, current, effect[current].latency)]
  /\ effect' = [effect EXCEPT ![c] = PassedOn(c, current)]
  /\ UNCHANGED <<next, current>>

CallerFails(c) ==
  /\ c \in pending /\ c \notin Visited
  /\ Outcome(c, current, effect[current].latency) > StateHealthy
  /\ pending' = pending \ {c}
  /\ path' = Append(path, c)
  /\ health' = [health EXCEPT ![c] = Outcome(c, current, effect[current].latency)]
  /\ effect' = [effect EXCEPT ![c] = PassedOn(c, current)]
  /\ UNCHANGED <<next, current>>

AskCaller(c) == CallerVisited(c) \/ CallerHolds(c) \/ CallerFails(c)

Next == Dequeue \/ \E c \in Nodes : AskCaller(c)

Spec == Init /\ [][Next]_vars

(* PropagateCascade is sequential code that nothing interrupts.                *)
FairSpec == Spec /\ WF_vars(Next)

Finished == pending = {} /\ next > Len(path)

-----------------------------------------------------------------------------
TypeOK ==
  /\ path \in Seq(Nodes)
  /\ next \in 1 .. Len(path) + 1
  /\ current \in Nodes
  /\ pending \in SUBSET Nodes
  /\ health \in [Nodes -> StateHealthy .. StateExhausted]
  /\ effect \in [Nodes -> [latency : Nat, error : 0 .. Whole]]

(***************************************************************************)
(* Every failure has a cause: a service in the path calls one that failed  *)
(* before it.  For the second service of the path this is what the Shield  *)
(* builds on: the edge it cuts, path[1] -> path[0] (strategy.go:55-56), is *)
(* an edge of the snapshot.                                                *)
(***************************************************************************)
CauseOfFailure ==
  \A i \in 2 .. Len(path) : \E j \in 1 .. i - 1 : <<path[i], path[j]>> \in Edges

(* The path names every failed service once, whatever cycles the graph has,   *)
(* and no other (cascade.go:70, 82, 131-134).                                 *)
PathIsFailures ==
  /\ \A i, j \in DOMAIN path : path[i] = path[j] => i = j
  /\ Visited = {n \in Nodes : health[n] > StateHealthy}

(* When the search ends nobody was overlooked: a service that is still        *)
(* healthy would hold against every failed service it calls.                  *)
NobodyOverlooked ==
  Finished =>
    \A e \in Edges :
      health[e[1]] = StateHealthy /\ health[e[2]] > StateHealthy
        => Outcome(e[1], e[2], effect[e[2]].latency) = StateHealthy

(* A slower callee never leaves its caller in a better state: the verdict of  *)
(* the four models together is monotone in the latency.                       *)
MoreLatencyNeverHelps ==
  \A c \in pending, l \in 0 .. effect[current].latency :
    Outcome(c, current, l) <= Outcome(c, current, effect[current].latency)

(* The search ends although the graph may have cycles.                        *)
Terminates == <>Finished

=============================================================================
