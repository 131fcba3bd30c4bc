# CascadeShield in TLA+

Specifications, model-checking configurations and machine-checked proofs for CascadeShield
(`src/`), a Go program that watches TCP traffic with eBPF probes, keeps a live graph of the services
behind it, predicts cascading failures by simulation and sheds traffic before they happen.

## 1. The system

```
 kernel probes --ring buffer--> reader --chan--> resolver --+--chan--> graph builder --> DAG
 (bpf/probes.c)               (pkg/probe)   (pkg/resolver)  |                            ^  |
                                                            +--chan--> annotator --------+  | snapshot
                                                                     (pkg/metrics)          v
 Prometheus, TUI <---- readers of everything           Shield <--latest report-- Oracle engine
 (pkg/metrics, pkg/tui)                  actuator <--(pkg/shield)              (pkg/simulator)
```

Everything runs in one process; the boxes are goroutines that `cmd/cascadeshield/main.go` starts.

| component | state | operations | hard behaviour | correct when |
|---|---|---|---|---|
| Shield (`pkg/shield`) | `RecoveryManager.states` (per edge: level, target, quiet count), the actuator's rules | `tick` (observe, decide, ramp, apply, remove), `shutdown`, `KillSwitch` | actuator errors, reports changing under a tick, cancellation racing with the ticker, kill switch | rules follow the state, levels move in steps, everything is released in the end |
| Graph (`pkg/graph`) | nodes with degrees, edges with counters and `LastSeen` | `RecordConnect`, `RecordClose`, `RecordRetransmit`, `PruneStaleEdges`, `UpdateEdgeMetrics`, `Snapshot` | capacity limits, lost events, prune of an edge in use | degrees count edges, limits hold, what counters overstate is bounded, silent edges go |
| Oracle: propagation (`pkg/simulator/cascade.go`, `models/`) | BFS queue, visited set, node states, path | `PropagateCascade`, four failure models | cycles, map order, thresholds | the search ends, is complete, and its path is causal |
| Oracle: engine (`engine.go`, `risk.go`, `report.go`) | latest report | `RunSimulation`, `ComputeRiskScore`, `BuildNodeResult` | bounded goroutines, stale snapshots, normalisation | a report is complete, scores are in range and reach the thresholds |
| Resolver (`pkg/resolver`) | three LRU/TTL caches, informer caches | `Resolve`, `resolvePID`, `resolveIP`, cache `Get`/`Set` | reuse of PIDs and addresses, expiry, capacity, blocking start | no identity outlives its TTL (that all events of a connection name one edge is not so, section 3) |
| Event pipeline (`bpf/probes.c`, `pkg/probe`, `main.go`) | in-flight map, ring buffer, channels | connect/accept/close/retransmit probes, `Reader.Run`, fan-out | drops at every buffer, two consumers that see different events | losses are bounded and do not corrupt counters |
| Metrics (`pkg/metrics`) | ring of buckets, histogram per edge | `advance`, `Record*`, `Aggregate`, `ComputeMetrics`, `flush` | boundaries of slices, long gaps, capacity | an event counts in exactly the window after it |
| Lifecycle (`main.go`) | context, goroutines | start order, signal, exit | nobody waits for the Shield | a signal ends the run, and nothing but that end keeps the Shield from removing its rules |
| Chaos, demo cluster, TUI | - | test harness, sample services, output | - | - |

The hazards of this code, line by line, with the properties that cover them, are in `PROJECT.json`
under `hazards`; `map` gives the lines every definition stands for.

## 2. Modules

| module | role | code |
|---|---|---|
| `Recovery` | operators: strategy, ramp, the two lists `ProcessDecisions` returns | `recovery.go`, `strategy.go` |
| `Shield` | the controller's goroutine, its environment and the kill switch | `controller.go`, `actuator.go`, parts of `main.go` and `engine.go` |
| `SheddingPromise` | abstract: how the level of an edge may move from interval to interval | (specification) |
| `DependencyDAG` | the graph under its lock, driven by a lossy event stream | `dag.go`, `builder.go`, `node.go`, `edge.go` |
| `FailureModels` | operators: the four failure models and how one hop combines them | `models/*.go`, `cascade.go` |
| `Cascade` | the breadth-first propagation of one simulated failure | `cascade.go` |
| `Window`, `Histogram` | operators: the ring of time buckets, the log-linear histogram | `window.go`, `histogram.go` |
| `SlidingWindow` | one window in use, against a log of the events | `window.go` |
| `EdgeState` | the metrics of one edge: a window and a histogram | `edge_state.go` |
| `Annotator` | the goroutine that records events and writes metrics into the graph, beside the builder | `annotator.go`, parts of `dag.go` |
| `Probes` | the five BPF programs, their two maps and the links that attach them, under a kernel as environment | `probes.c`, `types.h`, `loader.go` |
| `EventStream` | abstract: what becomes of an event once it is accepted | (specification) |
| `EventPipeline` | `Probes` composed with the reader, the loop of main, both consumers' channels and the life of the program | `reader.go`, `main.go` |
| `IdentityCache` | operators: the LRU cache with expiry | `cache.go` |
| `IdentityResolver` | names for PIDs and addresses from three caches over a world that moves | `resolver.go`, parts of `proc.go`, `kubernetes.go` |
| `RiskScore` | operators: the risk score and the decisions it can lead to | `risk.go`, `report.go`, `strategy.go` |
| `OracleEngine` | the simulation cycle and its goroutines beside a graph that moves | `engine.go`, `snapshot.go` |
| `MCShield`, `MCDependencyDAG`, `MCCascade`, `MCEdgeState`, `MCAnnotator`, `MCProbes`, `MCEventPipeline`, `MCIdentityResolver`, `MCOracleEngine` | instances for TLC | |
| `ShieldProofs`, `DependencyDAGProofs`, `CascadeProofs`, `MetricsProofs` (`EdgeState` and `Annotator`), `EventPipelineProofs` (`Probes` and `EventPipeline`), `OracleProofs`, `ResolverProofs` | theorems and proofs | |
| `FiniteSums` | lemmas on induction, quotients and finite sums that several of them use | |

### Shield

`report` is the Oracle's latest report (`StoreReport`, any report at any time), `states` the map of
the recovery manager, `rules` what the actuator holds. A tick is not atomic: `TickDecide` reads the
report, `TickRecover` is the critical section of `rm.mu`, and every actuator call is a step of its
own (`TickApply`, `TickRemove`), so that reports, cancellation and the kill switch fall between
them; `planned` is the copy of the levels that `ProcessDecisions` returns. `tickReady` is the
ticker's channel with its single slot. Any call may return an error, which the code logs and
forgets; `failed` remembers the edges concerned, and the properties that an error refutes except
those edges. `KillSwitch` is two steps (`RemoveAll`, `Reset`); the constant
`KillSwitchWhileRunning` lets it race with the loop. `Exit` is the end of the process (`pc` is
"exited"): main returns on the same cancellation that the controller waits for, and waits for nobody,
so it may come before the shutdown, inside it or in the middle of a tick, and what the actuator had
put in force outside the process would stay.

Float shares are natural numbers `0 .. Full`; `Active` and the presence of a map entry are one thing
(the code creates and deletes them together).

### DependencyDAG

Each DAG operation holds the write lock and is one action. A link is the pair of names an event
carries, not a connection, and the CLOSE of a connection need not carry the pair of its CONNECT or
ACCEPT: an accepted connection is recorded from the server's own address to the server and closed
from the server to the client, and a cached name may expire in between. `ClosesOn[l]` is the set of
links that may be named at the end of a connection on `l`: `CloseEvent` is the CLOSE that names `l`
again, `CloseElsewhere(l, k)` the one that decrements `k` instead, `CloseLost` the one that the ring
buffer or the builder's channel drops. A failed attempt is a connection to the builder
(`ConnectFails`), and a CLOSE may come for a socket that never had one (`StrayClose`: a failed
attempt, a listener). The history variables describe the traffic behind the events: `open`, the
connections on the link, and `unanswered`, the openings on it that no CLOSE about it answers. `idle`
is the age of `LastSeen`. Byte and duration totals are left out; `Snapshot`, which changes nothing,
is in `OracleEngine`, `UpdateEdgeMetrics` in `Annotator`.

### FailureModels and Cascade

`FailureModels` computes in integers: latencies are ticks, error rates shares of `Whole`. A
comparison against a quotient is made on the products and is exact; delays and rates are rounded
down. The retry loop needs care with that: over capacity each round's error rate is linear in the one
before, so the model computes a round from what the last one *added* (`Feedback`), where the code
computes it afresh from the load. `RoundsAddUp` proves that the two agree before rounding. Rounded
afresh, each round by itself, two runs drift apart by a unit, and with one retry, a rate of 262, an
error rate of 572 in 1156 and room for 389 calls the model left a callee of latency 1004 in a better
state than one of 1003, which the floating-point code does not do; `MoreLatencyNeverHelps` would
then be false for some constants although the run's 12 latencies never show it. `Cascade` keeps the code's loop: `Dequeue` takes the next failed service, and then each
caller, in any order (the order of a Go map), is skipped (`CallerVisited`), survives
(`CallerHolds`) or fails (`CallerFails`). The queue is the part of `path` from `next` on.
`ResourceLimits` are never filled in by the program, so every caller has the default pools.

### Window, SlidingWindow, Histogram and EdgeState

Every method of `Window` takes the mutex, reads the clock and calls `advance`, so a call is one
application of an operator to the window and the time. `AdvanceBy` takes `advance`'s loop as a
whole; `Turn` is one turn of the loop, and `AdvanceIsTheLoop` says that turn after turn comes to the
same (checked and proved).
`SlidingWindow` adds the clock, which any number of ticks may move between two calls, and `log`, the
events themselves, which the properties hold the counters against. A bucket's slice is
`(StartTime, StartTime + SlideInterval]`, because the code asks whether the time is *after* the
slice's end. `Histogram` computes the bucket boundaries with the code's rule, searches them as the
code does, and returns percentiles in nanoseconds. `EdgeState` is `SlidingWindow` with the histogram
that a CLOSE updates as well.

### Annotator

`edgeStates` is the annotator's map, `edges` the metrics of the edges the live graph has. A flush is
several steps: `FlushBegin` takes down what is tracked, `FlushEntry` computes and writes the metrics
of one edge (in any order), and between those the builder may prune edges or add them again. Events
are processed by the same goroutine, hence only between two flushes. `quiet` marks edges that see no
traffic from now on; it is what `QuietRateFalls` starts from. Time is relative here: the present is
0 and `TimePasses` moves all buckets into the past, so that the run is not bounded by a last moment and
the rates can be followed until they have decayed. `Aged` stops telling windows apart that are
emptied whole by the next call. The metrics are the request rate (connections per window), the error
rate in percent and the P99; the other percentiles and byte rates are computed alike.

### Probes and EventPipeline

In `Probes` a program runs on the thread that hits it, and the thread's call is what the kernel does
around it. A program takes two steps: it does everything up to the filled record at once (the state
it reads is its thread's or that of a socket its caller holds), and submits the record later
(`Submit`), because records are read in the order of *reservation* and an unsubmitted one holds up
all behind it. `inflight` is keyed by the thread. The environment includes what makes the map's
contract delicate: a return may be missed (no kretprobe instance left, or the exit link is not up
yet), a thread may connect again on the same socket after a failure, memory of a closed socket is
used again, and a thread of the same process may be in `connect` too. `orphans` is a history
variable: keys whose return was missed. IPv6 sockets reach `tcp_v4_connect` with mapped addresses,
and only that program does not filter the family. A RETRANSMIT carries whatever task the softirq
interrupted, possibly pid 0, and the socket's *total*.

`EventPipeline` extends `Probes` with the user side. `phase` is where main is: links are attached
one by one while the ring buffer already fills, then main waits for the informers (`syncing`, which
only the API server ends), then everything runs. `hand` and `work` are the events the reader and
main hold; the reader blocks on a full channel (`ReaderSends` is disabled) and main does not
(`MainOffers` drops for one consumer). `Exit` is `Probe.Close` as one step and the end of the
process.

### IdentityCache and IdentityResolver

A cache is its list, most recently used first; the map from keys to elements follows from it. Time
is relative as in `Annotator`: `left` counts down to the expiry, and `age` (not in the code) is how
long ago the value was read from where it is true. `Resolve` is one step because only main's loop
resolves; the answers of `/proc` and the informers are taken at one moment. An event has a PID and
one address to resolve, in any combination, which covers the event types. `PidReused`,
`PodUpdated` and `AddrMoved` move the world until `Settle`. The informers' view stands for the
cluster: their own delay behind the API server is not counted in `age`.

### RiskScore and OracleEngine

The score is exact arithmetic: the runs of an origin enter it only through how often each other node
is exhausted and through the urgency, so `CutsOf` quantifies over all such summaries instead of
simulating; the simulation itself is `Cascade`. The services that may be exhausted are those that
call somebody (`Calling`). When the live graph holds `MaxNodes` services, its links may name others,
which have no node: such a service has the whole `Impact` and is missing from the divisor
(`risk.go:94-97, 115`), and the graphs of `LiveGraphs` may be of that kind. `RawRiskScore` is the
score before the clamp. The link to cut is any caller of the origin, since
the second service of a path is one (`CascadeProofs!CutIsALink`). In `OracleEngine` a goroutine is
"new", "running", "written" and "done"; the loop that starts them takes a slot of the semaphore
before each, in the order of a Go map. `graph` is the live graph and moves at any time among
`LiveGraphs`, `snap` the copy the cycle works on, `latest` the stored report.

## 3. Model checking

| run | distinct states | question | bounds |
|---|---|---|---|
| `shield_safety` | 708,204 | does the actuator follow the recovery manager, in steps, under errors, changing reports and a racing kill switch, and does the manager keep `SheddingPromise`? | two edges to one callee, so that a new report moves the cut between them; shares in quarters, such that the floor, the cap, a partial step and a falling target all occur |
| `shield_live` | 209,640 | are edges released and does a cancelled controller stop clean, unless main ends the process first? | the default configuration in units of 5%; no actuator errors (an error is never retried, so release is not promised after one); `Exit` at any moment or never |
| `graph_safety` | 58,824 | degrees and counters under every refusal and any naming of the CLOSE; silent edges are pruned | three services, room for two nodes and one outbound edge, so that every refusal happens; three links: a call, the same server's accepted connections on its own name, which close on the third, and its calls back, which compete with them for the one edge; two open connections and one unanswered opening per link |
| `cascade` | 3,686 | does the search end, is it complete and causal, is a hop monotone? | five services with a diamond, a cycle and a self-loop; 12 latencies and 4 error rates at every origin; default pools, timeout, retries; ticks of 100 ms |
| `edge_state` | 130,625 | do the counters of the ring agree with the events, whatever the pauses; are percentiles right? | three buckets over 7 units of time, which is no multiple of 3, and a clock to 9, so that pauses longer than the whole ring happen; three events; durations below, inside and above the histogram's range, whose last step is larger than 1 |
| `annotator` | 115,984 | are metrics kept up to date, do they decay? | two edges and room to track one; two buckets; three events in the windows at once and one closed connection |
| `probes` | 793,948 | does a CONNECT name its own socket, does the in-flight map empty itself? | two threads of one process, room for one call in the map and two records in the ring buffer, so that both are full; three connections, one retransmission, one missed return; one IPv4 and one IPv6 socket, used again |
| `pipeline` | 57,353 | do the stages keep `EventStream`'s promise, does the ring buffer drain, does a signal end the run? | one thread, two connections, a ring buffer of two, channels of one: every buffer fills up and every sender meets a full channel |
| `resolver` | 111,920 | how old can a name be, who is evicted, do wrong names die out? | three PIDs, room for two; one container, one address, two ports; the PID's TTL longer than the others, so that the two add up |
| `oracle` | 307,688 | are reports complete, can small graphs be acted on, do decisions catch up with the graph? | room for four nodes; a ring of three, a ring of four, the ring broken with a short cut, and that with a fifth service, which has no node, calling its first; the second and the fourth lead to decisions; two goroutines at a time, two runs per origin; urgency least and most |
| `graph_doc_orphans`, `pipeline_doc_accept` | | statements of comments that the code does not keep (violations expected) | |

Every property of a passing run has a mutant in `PROJECT.json`: a definition (the operators
commented "fault") that, put in the place of the faithful one, makes TLC refute the property.

`CHECK_DEADLOCK FALSE` is used where the program stops or the run's bounds end the traffic: a
controller after shutdown, a search that is done, a process that has exited, the connections of
`probes`, a stopped engine. The other systems never stop and are checked for deadlock (in
`edge_state` a read is always possible).

What the violations show. A prune keeps orphaned nodes (`DocOrphansCleaned`). The source of an
ACCEPT is read from `saddr`, which the probes fill with the *local* address, so an accepted
connection becomes an edge from the server's own address to the server, its client is not in the
graph, and the CLOSE goes to another edge (`DocAcceptSourceIsRemote`). The accepted edge's counter
then only grows, with no event lost: `edge.go:29`, "incremented on CONNECT/ACCEPT, decremented on
CLOSE", does not hold of it, and `ActiveNeverOverstates` counts those openings as unanswered.

Other places where the code and its comments differ, which the models follow and no run is spent on:

- shedding drops to 0 at once on the last quiet interval (`recovery.go:114` against lines 19-21),
  an edge is removed when its ramp reaches 0 whatever the interval count is, and
  `RecoveryThreshold` decides nothing (`recovery.go:127` against `config.go:40-42`);
- the timeout model adds retries to calls that succeed (`timeout.go:81` against line 18), and
  durations of expired buckets stay in the percentiles (`edge_state.go:63` against line 24);
- `duration_ns` of a CLOSE is always 0 and nobody computes it (`probes.c:256`), so latencies come
  out as the histogram's least value; a RETRANSMIT carries the socket's total, which
  `dag.go:223` adds up; a failed connect is a connection to the builder, which ignores
  `return_code`; events lost at the ring buffer are counted by nobody (`probes.c:149`,
  `reader.go:53-54`);
- `WaitForCacheSync` has no timeout (`kubernetes.go:80`) and main waits for it before it looks at
  signals; `--kill-switch` clears an actuator of its own process (`main.go:229`);
- main returns without waiting for the controller's shutdown (`main.go:351`), so the rules may
  outlive the process although `controller.go:159` has a stopped controller remove them: `Exit` in
  `Shield`, and the way out that `ShutdownReleases` and `QuietEdgesReleased` leave open;
- the risk score is divided by ten times the number of nodes (`risk.go:112-118`), which neither the
  formula above it (`risk.go:38-45`) nor the documents account for.
  `documentation/explanation/phase-4.md:182-196` scores payments, in the chain gateway -> orders -> payments, 0.87 CRITICAL
  "normalized", from contributions of 0.76 and more that the code would divide by 30;
  `phase-4b.md:104-128` has the Shield shed 50% of orders -> payments on that chain at 0.85. In the
  code a graph of three services scores 2/3 at most and is never acted on with the default threshold
  of 0.7. `SmallGraphsNeverShed` states the code's behaviour, and passes *against* those pages.

### Fairness

- Shield: weak fairness of the ticker and of the steps of a tick (a scheduled goroutine, a running
  timer); strong fairness of `Shutdown`, because `select` picks at random among ready channels, so a
  done context is not passed over for ever in a process that lives on. `Exit` disables them all, so the
  fairness promises nothing once main has returned. Nothing is assumed of the Oracle, the operator,
  the kill switch or the exit, which may come at any time or, in the terminal UI, not at all.
- DependencyDAG: weak fairness of `Age` (time passes) and `Prune` (the prune ticker). Traffic is
  not fair.
- Cascade: weak fairness of its only goroutine.
- EventPipeline: weak fairness of what code does once it runs (programs submit, main attaches, takes
  and offers, the reader reads and sends, the process ends), and of the consumers until the
  cancellation, after which they may have returned; strong fairness of `MainReturns`, because main's
  `select` picks at random. Traffic, the signal and the API server (`Synced`) owe nothing.
- IdentityResolver: weak fairness of `Tick`. Events need not come.
- OracleEngine: weak fairness of the ticker (`TakeSnapshot`), of the engine's goroutine (`Cycle`) and
  of every simulating goroutine. The context may be done at any time.
- Annotator: weak fairness of `TimePasses` and `Flush` (the ticker fires, and `select` does
  not pass it over for ever). Traffic and the builder are not fair. `EdgeState` has no liveness
  property and no fairness.

## 4. Proofs

All proofs hold for every value of the constants that satisfies the named assumptions of the
modules (`RecoveryConfig`, `ShieldConstants`, `DAGConstants`, `ModelConfig`, `SnapshotAssumption`,
`WindowConstants`, `HistogramConstants`, `SlidingWindowBounds`, `AnnotatorConstants`,
`ProbesConstants`, `PipelineConstants`, `ResolverConstants`, `RiskConstants`, `EngineConstants`); TLC
evaluates those on every run. Every safety property of the runs is proved, and of six liveness
properties the part that is safety (below). `ActiveMeansShedding`, `LimitsKept`, `MissingOnlyWhenFull`,
`TrackedBounded` and `FlushRevivesNoEdge` are proved and have no run of their own.

- `ShieldProofs`: `TypeOK`, `RulesMatchStates`, `ActiveMeansShedding`, `StoppedIsClean`, the action
  property `RulesRampUp`, and the refinement `PromiseKept`. `RulesMatchStates` is not inductive: it
  says nothing of the middle of a tick. The invariant adds, for every edge, what the rule must be
  while the edge still waits in `toApply` or `toRemove` (its old level, within a step of the planned
  one), that `planned` agrees with `states` until a kill switch interferes, and the shape of an entry
  (active, positive, below the cap, its count below the patience, or untracked). The lemmas about
  `ShedPercent`, `Ramp` and `ProcessEdge` carry the arithmetic once. `StopIsFinal`: no call that
  comes after the shutdown, a late kill switch included, brings a rule or an entry back, and nothing
  moves after the exit.
- `DependencyDAGProofs`: `TypeOK`, `DegreesCountEdges`, `LimitsKept`, `MissingOnlyWhenFull`,
  `ActiveNeverOverstates`. `DegreesCountEdges` needs `MissingOnlyWhenFull`: an edge without its node
  would be counted wrongly if the node could appear later, and it cannot, since the graph is full
  then and nodes are never deleted. Cardinalities are handled by three lemmas on finite sets.
  `ActiveNeverOverstates` holds for any `ClosesOn`, so for any naming of the CLOSE events; `CloseEffect`
  says that a decrement, whoever it is meant for, never raises what the bound compares.
- `CascadeProofs`: `CauseOfFailure`, its consequence for the edge the Shield cuts (`CutIsALink`),
  `PathIsFailures` and `NobodyOverlooked`. Here the models are not opened: the theorems hold for any
  verdict a hop may give. The strengthening is `DequeuedIsAsked`: a caller of a service that left
  the queue failed, holds, or is still pending; it is inductive because what a failed service adds
  never changes afterwards. `TypeOK` opens them: no model computes a negative delay or an error rate
  above the whole, whatever it is fed. The retry loop is a recursive function, whose values
  `FiniteSums!Iteration` bounds by an invariant of one round (`RetryIterationType`).
  `SaturationIsMonotone` says of each of the four models that a slower callee never leaves it in a
  better state, and `LatencyNeverHelps` carries this over to the worst of the four in every state of
  a search. For the retry loop, two runs are compared round by round (`Ahead`): the run of the slower
  callee has the larger error rate, and each of its rounds adds at least as much, so it never settles
  before the other; once a run has settled it only has to stay behind one that still grows.
  `SearchIsBounded` needs that `Nodes` is finite (`SnapshotAssumption`).
- `MetricsProofs`, the window: `TypeOK`, `BucketsCountTheirSlice` and `ReadCoversTheWindow`, for every
  number of buckets, every window duration and every bound of the run. `BucketsCountTheirSlice` is not
  inductive: a new event is counted in one bucket and must be in no other slice, which takes that
  the slices are consecutive (`SlicesAreConsecutive`); a bucket that is opened again starts at 0 and
  must find no event in its new slice, which takes that no event is later than the current slice
  (`LogIsPast`). `AdvanceSafe` carries the arithmetic of `AdvanceBy` modulo the ring once.
  `AdvanceTurns` proves `AdvanceIsTheLoop` by induction on the turns: one more turn is one more slice
  of `AdvanceBy` (`AdvanceByTurn`). `EdgeUsesWindow` shows that an `EdgeState` implements
  `SlidingWindow`, so that the results hold of it.
- `MetricsProofs`, the histogram: `PercentilesArePrecise`, for every range, every number of
  sub-buckets and any durations. The boundaries, a recursive function in the model, rise by at most
  one part in `SubBuckets` or one unit (`BoundariesLaidOut`, `BoundariesRise`); the binary search finds the
  bucket a value falls into (`FoundBucket`); and the inductive invariant `HistogramIsRecorded` says of
  *every* bucket that the count up to it is the number of durations recorded in buckets up to it.
  From there a rank lies in the bucket of its exact duration (`RankAndBucket`), and that bucket's
  boundary is close enough (`BoundaryIsClose`).
- `MetricsProofs`, the annotator: `AnnotatorTypeOK`, `TrackedBounded`, `MetricsAreMaintained`, the
  action property `FlushRevivesNoEdge`, and `TableNeverForgets`, the fact behind the hazard of a table
  that fills up. `MetricsAreMaintained` needs that the edges a flush has yet to write are tracked,
  `AnnotatorTypeOK` that the whole window of a tracked edge is well formed (`TypesInv`).
- `EventPipelineProofs`, the probes: `KernelTypeOK`, `ConnectNamesItsSocket`, `InflightIsInFlight`, for
  any threads, sockets and map sizes. None is inductive alone. A record in the making names its
  call's socket only because the entry that the exit program found was that call's:
  `HookedAreTracked` says that a call whose return is hooked never meets a left-over entry (the entry
  program, attached before the exit program, has overwritten it or the map was full and it held
  none), `EntriesInFlight` that every other entry is the current call's, `CallsOwnSockets` that a
  socket in a call is a live connection of one caller, `FillingHasNoEntry` that the entry is gone
  while the record is written.
- `EventPipelineProofs`, the pipeline: `TypeOK`; the refinement `StreamPromise`, step by step
  (`KernelRefines`, `ReaderRefines`, `MainRefines`, `ReceiveRefines`), for channels and ring buffers of
  any size: what looks like five stages is one bounded queue that loses nothing once it accepted an
  event, until the program ends or a box is full; and `PipelineKeepsTheMap`, which carries
  `InflightIsInFlight` and `ConnectNamesItsSocket` over to the pipeline, whose main attaches and
  closes the probes.
- `OracleProofs`: `TypeOK`, `ReportsComplete` and that decisions are links of the snapshot
  (`DecisionsAreLinks`), for any graphs and any bound on goroutines. `CycleInv` ties the result map to
  the goroutines: a result is there exactly when its goroutine has written it, and the engine waits
  only when every node has its goroutine. `SmallGraphsNeverShed` holds for thresholds from 0.667 on:
  in a graph of three the score reaches 2/3, the default threshold is 0.7, and a lower one is a
  configuration in which small graphs are shed. The strengthening `ResultsAreCuts` says that every
  result, of the cycle and of the report, is one that its origin's score allows on the snapshot it is
  about; the score is then bounded as a sum over the other nodes. It speaks of graphs whose services
  all have a node. The bound behind it, one share per exhausted service, holds of all graphs:
  `ScoreIsAShare` says that the score is at most the number of exhausted services by the number of
  nodes, and that the clamp of `risk.go:120` changes nothing as long as they all have a node; services
  without one can take the sum above 1. `DecisionsNeedServices`: a decision needs the threshold's share
  of the nodes among the services that call somebody, the origin apart; when every service has its
  node the threshold is at most (n - 1) / n, so one of 0.9 takes ten services and one of 1 turns the
  Shield off.
- `ResolverProofs`: `TypeOK`, `StalenessBound` and `RecentPidsStay`, for any TTLs, capacities and
  movements of the world. For the second, what is left of an entry and its age never exceed the bound
  together, and a container's entry is not copied when it is older than its TTL; `GetKeeps`,
  `SetKeeps` and `AgedKeeps` carry it through the list operations. For the third, no process occurs
  twice in the history of lookups, and the keys of the cache are its front (`Follows`).

`FiniteSums` is there because the induction theorems of the library take an operator, which the
provers cannot instantiate. `LeastNat` gets the least element of a set of natural numbers from the
well-foundedness of strict inclusion, and `Induction`, `SubsetInduction` and `Iteration` state their
property as a *set* of numbers or subsets, which a proof can name; `SumUnfolds` then opens the
library's sums one element at a time.

Liveness itself rests on fairness, of which TLAPS proves nothing. Most of those properties say
that something happens *in time*, and that part is a safety property: a measure that no step puts
off, that the fair steps bring nearer, and that gives the wanted state when it is used up. What is
then left to fairness is only that the ticker goes on ticking.

- `QuietEdgesFall` (under `QuietEdgesReleased`): a control interval without a decision for an edge
  forgets it or counts one more, the count stays below `ConsecutiveLowIntervals`, and after k such
  intervals the level is k ramp steps below the cap.
- `SilentEdgesLeave` (under `SilentEdgesPruned`): only traffic of its own refreshes an edge; after
  `StaleEdgeTimeout` + 1 units of time the next prune removes it, and no prune removes an edge
  that was heard of since.
- `QuietRateFallsInTime` (under `QuietRateFalls`): one span of the window after its last event,
  the next flush writes that an edge has no requests and no errors, and no later one writes anything
  else, although nothing is recorded on the edge any more.
- `NamesSettleInTime` (under `NamesSettle`): no entry is wrong for longer than the PID's and the
  container's times to live together and the address's; no lookup puts that off, a moment brings it
  nearer.
- `TwoReportsCatchUp` (under `DecisionsCatchUp`): once the graph rests, the next report published may
  still be about an old snapshot, the one after it is not, and from then on every decision is a link
  of the graph.
- `SearchIsBounded` (under `Terminates`): every step of a search leaves less to do, whatever the
  models answer and whatever cycles the graph has; a search of n services takes at most n(n + 1)
  steps.

Only model-checked: those properties as stated, with their fairness, and `ShutdownReleases`,
`RingDrains` and `CancelEndsTheRun`. The last three have no measure of their own worth a theorem:
what they end in is covered by `CleanStop` and `StopIsFinal`, that the ring loses nothing on the way by
`PromiseKept`, and what is left is that goroutines are scheduled.

## 5. Not modelled

- `bpf/headers/vmlinux.h`: 164,014 of the repository's 164,410 lines of C are type declarations
  generated from the kernel's BTF. They have no behaviour. The map covers the programs of `probes.c`
  and the event of `types.h`; most of the program is Go.
- In `Probes` and `EventPipeline`: `Probe.Close` link by link, retransmissions of a socket after its
  close, closes of listening sockets (`DependencyDAG` takes them as `StrayClose`), failed accepts, decode errors, the wire format (`event.go` says
  74 bytes, the packed struct has 78), and the TUI mode, whose loop is the same in a goroutine.
- In `IdentityResolver`: parsing of cgroup files, selector matching, hash suffixes, the namespace and
  the pod of a name, a changed pod between two reads of one lookup.
- In `RiskScore` and `OracleEngine`: the random perturbations, `TimeToFailure`, the report's other
  figures. `MaxConcurrentNodes` = 0 would block the first cycle for ever; `EngineConstants` excludes it.
- Byte totals and formatting, float rounding, the Prometheus exporter, the TUI and Grafana (output),
  the demo services and the chaos injector (they drive the product from outside).

Worth adding: the composition of the engine's stale decisions with the Shield and a pruned graph.
