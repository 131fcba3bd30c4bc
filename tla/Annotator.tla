----------------------------- MODULE Annotator -----------------------------
(***************************************************************************)
(* The metrics annotator (pkg/metrics/annotator.go): one goroutine that    *)
(* records resolved events in the state of their edge and, on a ticker,    *)
(* writes the metrics of every tracked edge into the live graph, which the *)
(* graph builder grows and prunes meanwhile.                               *)
(*                                                                         *)
(* Time is relative: the present is 0, and a tick moves every bucket of    *)
(* every window one unit into the past.                                    *)
(***************************************************************************)
EXTENDS Window, Histogram

CONSTANTS
  EdgeKeys,             (* the service pairs that resolved events are about      *)
  MaxEdgesTracked,
  MaxRecent,            (* bound: events in all the windows at once              *)
  MaxCloses             (* bound: durations in the histograms                    *)

ASSUME AnnotatorConstants ==
  /\ IsFiniteSet(EdgeKeys)
  /\ MaxEdgesTracked \in Nat
  /\ MaxRecent \in Nat /\ MaxCloses \in Nat

VARIABLES
  edgeStates,   (* the tracked edges' [Window, Histogram]                        *)
  edges,        (* the Metrics of every edge of the graph                        *)
  entries,      (* the edges this flush has yet to write, none when no flush runs*)
  quiet         (* the edges that see no further traffic                         *)

annotatorVars == <<edgeStates, edges, entries, quiet>>

tracked == DOMAIN edgeStates

(* The EdgeMetrics of a new edge.                                               *)
NoMetrics == [RequestRate |-> 0, ErrorRate |-> 0, LatencyP99 |-> 0]

NewEdgeState == [Window |-> NewWindow(0), Histogram |-> NewHistogram]

AnnotatorInit ==
  /\ edgeStates = << >>
  /\ edges = << >>
  /\ entries = {}
  /\ quiet = {}

With(f, x, v) == [y \in DOMAIN f \union {x} |-> IF y = x THEN v ELSE f[y]]

-----------------------------------------------------------------------------
(* Time. *)

(* One unit older.  A window untouched for longer than it spans is emptied      *)
(* whole when it is next advanced, so that another slice makes no difference.   *)
Aged(w) ==
  LET shift == IF SliceStart(w) <= -(BucketCount + 1) * SlideInterval
                 THEN SlideInterval - 1 ELSE -1
      old(b) == [StartTime |-> b.StartTime + shift, count |-> b.count]
  IN  [w EXCEPT !.buckets = [i \in Slots |-> old(w.buckets[i])]]

TimePasses ==
  /\ UNCHANGED <<edges, entries, quiet>>
  /\ edgeStates' = [e \in tracked |-> [edgeStates[e] EXCEPT !.Window = Aged(@)]]

-----------------------------------------------------------------------------
(* processEvent. *)

Recent ==
  MapThenSumSet(LAMBDA e : MapThenSumSet(LAMBDA k : Total(edgeStates[e].Window, k), Kinds), tracked)

Closes == MapThenSumSet(LAMBDA e : totalCount(edgeStates[e].Histogram), tracked)

(* Fault: an edge evicted to make room.                                         *)
getOrCreateEvicts(e) ==
  IF e \in tracked THEN edgeStates
  ELSE IF Cardinality(tracked) < MaxEdgesTracked THEN With(edgeStates, e, NewEdgeState)
  ELSE LET old == CHOOSE x \in tracked : TRUE
       IN  [x \in (tracked \ {old}) \union {e} |-> IF x = e THEN NewEdgeState ELSE edgeStates[x]]

(* The table after getOrCreateEdgeState: a new edge is added while there is     *)
(* room, and no edge ever leaves.                                                *)
getOrCreateEdgeState(e) ==
  IF e \in tracked \/ Cardinality(tracked) >= MaxEdgesTracked
    THEN edgeStates
    ELSE With(edgeStates, e, NewEdgeState)

(* The state an event of kind k leaves behind; only a CLOSE has a duration.     *)
Recorded(state, k, ns) ==
  [Window    |-> Record(state.Window, k, 0),
   Histogram |-> IF k = "close" THEN RecordNs(state.Histogram, ns) ELSE state.Histogram]

(* One event, between two flushes; it is ignored when its edge could not be     *)
(* tracked.                                                                      *)
processEvent(e, k, ns) ==
  /\ entries = {}
  /\ e \notin quiet
  /\ LET states == getOrCreateEdgeState(e)
     IN  edgeStates' = IF e \in DOMAIN states
                         THEN [states EXCEPT ![e] = Recorded(@, k, ns)]
                         ELSE states
  /\ UNCHANGED <<edges, entries, quiet>>

GoesQuiet(e) ==
  /\ e \notin quiet
  /\ quiet' = quiet \union {e}
  /\ UNCHANGED <<edgeStates, edges, entries>>

-----------------------------------------------------------------------------
(* flush. *)

Percent(part, whole) == (100 * part) \div whole

(* ComputeMetrics, of an advanced window and a histogram: the request rate in   *)
(* connections per window, the error rate in percent.                           *)
MetricsOf(w, h) ==
  LET connections == Total(w, "connect")
  IN  [RequestRate |-> connections,
       ErrorRate   |-> IF connections > 0
                         THEN Min({100, Percent(Total(w, "retransmit"), connections)}) ELSE 0,
       LatencyP99  |-> Percentile(h, 99)]

(* Fault: the window is read as the last event left it.                         *)
ReadUnadvanced(w) == w

(* A window as Aggregate leaves it.                                             *)
ReadNow(w) == Advance(w, 0)

(* Fault: the graph's edges are taken down.                                     *)
FlushBeginGraph ==
  /\ entries = {}
  /\ entries' = DOMAIN edges
  /\ UNCHANGED <<edgeStates, edges, quiet>>

(* The ticker fires: flush takes down which edges are tracked.                  *)
FlushBegin ==
  /\ entries = {}
  /\ entries' = tracked
  /\ UNCHANGED <<edgeStates, edges, quiet>>

(* UpdateEdgeMetrics drops the metrics of an edge that was pruned.              *)
UpdateEdgeMetrics(e, m) == IF e \in DOMAIN edges THEN [edges EXCEPT ![e] = m] ELSE edges

(* One turn of flush's loop; the map's order is arbitrary.  Computing and       *)
(* writing are one step: nothing else reads or writes the edge's state, and the *)
(* graph's other writers commute with the computation.                          *)
FlushEntry(e) ==
  /\ e \in entries
  /\ entries' = entries \ {e}
  /\ UNCHANGED quiet
  /\ \E w \in {ReadNow(edgeStates[e].Window)} :
       /\ edgeStates' = [edgeStates EXCEPT ![e].Window = w]
       /\ edges' = UpdateEdgeMetrics(e, MetricsOf(w, edgeStates[e].Histogram))

-----------------------------------------------------------------------------
(* The graph builder, at any time: an edge appears without metrics when its     *)
(* first connection is seen, and is pruned when it has been idle for long.  The *)
(* builder has its own queue, so it may still add an edge that is quiet here.   *)
AddEdge(e) ==
  /\ e \in EdgeKeys \ DOMAIN edges
  /\ edges' = With(edges, e, NoMetrics)
  /\ UNCHANGED <<edgeStates, entries, quiet>>

PruneEdge(e) ==
  /\ e \in DOMAIN edges
  /\ edges' = [f \in DOMAIN edges \ {e} |-> edges[f]]
  /\ UNCHANGED <<edgeStates, entries, quiet>>

-----------------------------------------------------------------------------
(* An event arrives, within the bounds; only of a CLOSE does the duration       *)
(* matter.                                                                       *)
Arrival ==
  /\ entries = {}
  /\ Recent < MaxRecent
  /\ \E e \in EdgeKeys, k \in Kinds, ns \in Durations :
       /\ k = "close" => Closes < MaxCloses
       /\ processEvent(e, k, ns)

Flush == FlushBegin \/ \E e \in EdgeKeys : FlushEntry(e)

BuilderStep == \E e \in EdgeKeys : AddEdge(e) \/ PruneEdge(e)

AnnotatorNext ==
  \/ TimePasses
  \/ Arrival
  \/ \E e \in EdgeKeys : GoesQuiet(e)
  \/ Flush
  \/ BuilderStep

AnnotatorSpec == AnnotatorInit /\ [][AnnotatorNext]_annotatorVars

(* Time passes, and the annotator's loop keeps taking its ticker: a ready case  *)
(* of Go's select is chosen at random, so that events cannot hold it up for     *)
(* ever.                                                                         *)
Fairness == WF_annotatorVars(TimePasses) /\ WF_annotatorVars(Flush)

AnnotatorFairSpec == AnnotatorSpec /\ Fairness

-----------------------------------------------------------------------------
Metrics == [RequestRate : Nat, ErrorRate : Nat, LatencyP99 : Nat]

AnnotatorTypeOK ==
  /\ tracked \subseteq EdgeKeys
  /\ \A e \in tracked :
       /\ edgeStates[e].Window.currentIdx \in Slots
       /\ edgeStates[e].Histogram \in [BucketIds -> Nat]
  /\ DOMAIN edges \subseteq EdgeKeys /\ \A e \in DOMAIN edges : edges[e] \in Metrics
  /\ entries \subseteq tracked
  /\ quiet \subseteq EdgeKeys

(* The table of tracked edges never outgrows its limit (annotator.go:159-196,   *)
(* config.go:53-56).                                                             *)
TrackedBounded == Cardinality(tracked) <= MaxEdgesTracked

(* Metrics stand only on edges that are still tracked, so that the next flush   *)
(* replaces them.  An edge left out when the table filled up shows no metrics,  *)
(* whatever was pruned and added meanwhile (annotator.go:121-150, dag.go:229).  *)
MetricsAreMaintained ==
  \A e \in DOMAIN edges : edges[e] # NoMetrics => e \in tracked

(* Only the builder adds an edge to the graph: a flush that began before an     *)
(* edge was pruned does not bring it back (dag.go:229-243).                     *)
FlushRevivesNoEdge == [][Flush => DOMAIN edges' = DOMAIN edges]_annotatorVars

(* The metrics of an edge without traffic decay: for good, it shows no requests *)
(* and no errors, even if nothing is recorded on it ever again (window.go:      *)
(* 143-148: the read slides the window).                                        *)
QuietRateFalls ==
  \A e \in EdgeKeys :
    e \in quiet ~> [](e \in DOMAIN edges =>
                        edges[e].RequestRate = 0 /\ edges[e].ErrorRate = 0)
=============================================================================
