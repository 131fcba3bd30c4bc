----------------------------- MODULE EdgeState -----------------------------
(***************************************************************************)
(* The metrics kept for one edge (pkg/metrics/edge_state.go): the sliding  *)
(* window of SlidingWindow and, beside it, the latency histogram, which a  *)
(* CLOSE updates after the window.  The two have a mutex each; only the    *)
(* annotator's goroutine calls an EdgeState, so that its methods are steps.*)
(***************************************************************************)
EXTENDS SlidingWindow, Histogram

VARIABLES
  hist,         (* EdgeState.Histogram                                           *)
  recorded      (* history: recorded[d], connections closed after d              *)

edgeVars == <<now, window, log, hist, recorded>>

EdgeInit ==
  /\ Init
  /\ hist = NewHistogram
  /\ recorded = [d \in Durations |-> 0]

RecordConnect    == RecordEvent("connect") /\ UNCHANGED <<hist, recorded>>
RecordRetransmit == RecordEvent("retransmit") /\ UNCHANGED <<hist, recorded>>

RecordClose(ns) ==
  /\ RecordEvent("close")
  /\ hist' = RecordNs(hist, ns)
  /\ recorded' = [recorded EXCEPT ![ns] = @ + 1]

(* ComputeMetrics reads the window's totals, which advances it, and then the    *)
(* percentiles.                                                                  *)
ComputeMetrics == Aggregate /\ UNCHANGED <<hist, recorded>>

EdgeNext ==
  \/ Tick /\ UNCHANGED <<hist, recorded>>
  \/ RecordConnect
  \/ RecordRetransmit
  \/ \E ns \in Durations : RecordClose(ns)
  \/ ComputeMetrics

EdgeSpec == EdgeInit /\ [][EdgeNext]_edgeVars

-----------------------------------------------------------------------------
(* How many connections were closed after x or less, after clamping, and the    *)
(* rank-th smallest of all their durations.                                     *)
AtMost(x) == MapThenSumSet(LAMBDA d : IF Clamp(d) <= x THEN recorded[d] ELSE 0, Durations)

Sorted(rank) == Min({x \in {Clamp(d) : d \in Durations} : AtMost(x) >= rank})

Closed == MapThenSumSet(LAMBDA d : recorded[d], Durations)

(* A percentile is never below the true one of everything recorded, and above   *)
(* it by less than one part in SubBuckets or by less than one step at the       *)
(* bottom, and no closed connection is missing from it (histogram.go:66-87,     *)
(* 91-136, 157-168; config.go:39-42 promises "0.1% relative error" for three    *)
(* significant figures).                                                        *)
PercentilesArePrecise ==
  /\ totalCount(hist) = Closed
  /\ \A p \in {50, 95, 99} :
       Closed > 0 =>
         LET exact == Sorted((Closed * p + 99) \div 100)
         IN  /\ Percentile(hist, p) >= AtLeast1(exact)
             /\ Percentile(hist, p) - AtLeast1(exact) < AtLeast1(exact \div SubBuckets)
=============================================================================
