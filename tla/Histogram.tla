----------------------------- MODULE Histogram -----------------------------
(***************************************************************************)
(* The log-linear latency histogram of pkg/metrics/histogram.go, as        *)
(* operators on a histogram value.  Durations are whole nanoseconds, and   *)
(* the bounds of NewHistogram are given in nanoseconds after its clamping  *)
(* of the configured values.  Sequences start at 1 where Go's slices start *)
(* at 0; percentiles are returned in nanoseconds, 0 for an empty histogram.*)
(***************************************************************************)
EXTENDS Integers, Sequences, FiniteSetsExt

CONSTANTS
  MinNs, MaxNs,     (* smallest and largest duration that is told apart          *)
  SubBuckets,       (* 10^sigFigs: steps within a power of two                   *)
  Durations         (* durations of the connections that close                   *)

ASSUME HistogramConstants ==
  /\ MinNs \in Nat /\ MaxNs \in Nat /\ MinNs < MaxNs
  /\ SubBuckets \in Nat \ {0}
  /\ Durations \subseteq Nat /\ IsFiniteSet(Durations)

AtLeast1(x) == IF x > 1 THEN x ELSE 1

(* The inclusive upper bounds of the buckets and the sentinel behind them: each *)
(* step is the boundary's own SubBuckets-th part.                               *)
bucketBoundaries ==
  LET from[v \in 1 .. 2 * MaxNs + 1] ==
        IF v > MaxNs THEN <<MaxNs + 1>>
                     ELSE <<v>> \o from[v + AtLeast1(v \div SubBuckets)]
  IN  from[AtLeast1(MinNs)]

BucketIds == 1 .. Len(bucketBoundaries)

NewHistogram == [i \in BucketIds |-> 0]

Clamp(ns) == IF ns < MinNs THEN MinNs ELSE IF ns > MaxNs THEN MaxNs ELSE ns

(* Fault: the lower half is searched without its upper end.                     *)
bucketIndexLow(ns) ==
  LET search[r \in BucketIds \X BucketIds] ==
        LET lo == r[1]
            mid == (r[1] + r[2]) \div 2
        IN  IF lo >= r[2] THEN lo
            ELSE IF bucketBoundaries[mid] < ns
              THEN search[<<mid + 1, r[2]>>]
              ELSE search[<<lo, IF mid > lo THEN mid - 1 ELSE lo>>]
  IN  search[<<1, Len(bucketBoundaries)>>]

(* The bucket of a duration, by binary search of the range <<lo, hi>>.          *)
bucketIndex(ns) ==
  LET search[r \in BucketIds \X BucketIds] ==
        LET lo == r[1]
            mid == (r[1] + r[2]) \div 2
        IN  IF lo >= r[2] THEN lo
            ELSE IF bucketBoundaries[mid] < ns THEN search[<<mid + 1, r[2]>>]
                                               ELSE search[<<lo, mid>>]
  IN  search[<<1, Len(bucketBoundaries)>>]

RecordNs(h, ns) == [h EXCEPT ![bucketIndex(Clamp(ns))] = @ + 1]

totalCount(h) == MapThenSumSet(LAMBDA i : h[i], BucketIds)

cumulative(h, i) == MapThenSumSet(LAMBDA j : h[j], 1 .. i)

(* The bound of the first bucket at which the cumulated count reaches the rank, *)
(* which is rounded up.                                                         *)
Percentile(h, p) ==
  LET target == (totalCount(h) * p + 99) \div 100
  IN  IF totalCount(h) = 0 THEN 0
      ELSE bucketBoundaries[Min({i \in BucketIds : cumulative(h, i) >= target})]
=============================================================================
