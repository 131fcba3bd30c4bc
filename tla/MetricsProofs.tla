--------------------------- MODULE MetricsProofs ---------------------------
(***************************************************************************)
(* Proofs about pkg/metrics.  The window, for every bucket count, every    *)
(* duration and any sequence of calls and pauses, first alone and then     *)
(* inside an edge's state; the histogram, for all its bounds; and the      *)
(* annotator, for any set of edges and any limit.                          *)
(***************************************************************************)
EXTENDS EdgeState, Annotator, FiniteSums, SequenceTheorems

-----------------------------------------------------------------------------
(* Arithmetic of the ring. *)

LEMMA Division ==
  ASSUME NEW a \in Nat, NEW s \in Nat \ {0}
  PROVE  /\ a \div s \in Nat
         /\ (a \div s) * s <= a
         /\ a < (a \div s) * s + s
BY SMT

LEMMA SlideIntervalPositive == SlideInterval \in Nat \ {0}
<1>1. /\ BucketCount \in Nat \ {0} /\ WindowDuration \in Nat /\ WindowDuration >= BucketCount
      /\ SlideInterval \in Nat
      /\ WindowDuration < SlideInterval * BucketCount + BucketCount
  BY Division, WindowConstants DEF SlideInterval
<1>2. SlideInterval # 0
  <2>1. SUFFICES ASSUME SlideInterval = 0 PROVE FALSE
    OBVIOUS
  <2>2. SlideInterval * BucketCount = 0
    BY <2>1, <1>1
  <2> QED BY <1>1, <2>2
<1> QED BY <1>1, <1>2

LEMMA Remainder ==
  ASSUME NEW k \in Nat
  PROVE  /\ k % BucketCount \in Slots
         /\ k < BucketCount => k % BucketCount = k
BY WindowConstants, SMT DEF Slots

LEMMA RingStep ==
  ASSUME NEW i \in Slots, NEW j \in Slots, NEW k \in Nat
  PROVE  /\ Forward(j, k) \in Slots
         /\ Behind(i, j) \in Slots
         /\ Behind(i, Forward(j, k)) >= k => Behind(i, j) = Behind(i, Forward(j, k)) - k
         /\ Behind(i, j) = 0 <=> i = j
<1>1. k % BucketCount \in Slots /\ (k < BucketCount => k % BucketCount = k)
  BY Remainder
<1> QED BY <1>1, WindowConstants DEF Forward, Behind, Slots

-----------------------------------------------------------------------------
(* A bucket that was just opened.                                              *)
Fresh(b) == \A k \in Kinds : b.count[k] = 0

LEMMA AdvanceByType ==
  ASSUME NEW w \in WindowType, NEW k \in Nat
  PROVE  LET v == AdvanceBy(w, k) IN
         /\ v \in WindowType
         /\ v.currentIdx = Forward(w.currentIdx, k)
         /\ \A i \in Slots :
              IF Behind(i, v.currentIdx) < k
                THEN /\ v.buckets[i].StartTime =
                          SliceStart(w) + (k - Behind(i, v.currentIdx)) * SlideInterval
                     /\ Fresh(v.buckets[i])
                ELSE v.buckets[i] = w.buckets[i]
<1> DEFINE idx == Forward(w.currentIdx, k)
           start(i) == SliceStart(w) + (k - Behind(i, idx)) * SlideInterval
<1>1. w.currentIdx \in Slots /\ w.buckets \in [Slots -> BucketType]
  BY DEF WindowType
<1>2. SliceStart(w) \in Int
  BY <1>1 DEF SliceStart, BucketType
<1>3. idx \in Slots /\ \A i \in Slots : Behind(i, idx) \in Slots
  BY <1>1, RingStep
<1>4. \A i \in Slots : start(i) \in Int
  BY <1>2, <1>3, SlideIntervalPositive DEF Slots
<1>5. \A t \in Int : Bucket(t) \in BucketType /\ Bucket(t).StartTime = t /\ Fresh(Bucket(t))
  BY DEF Bucket, BucketType, Fresh
<1> DEFINE bs == [i \in Slots |-> IF Behind(i, idx) < k THEN Bucket(start(i)) ELSE w.buckets[i]]
<1>6. bs \in [Slots -> BucketType]
  BY <1>1, <1>4, <1>5
<1>7. AdvanceBy(w, k) = [buckets |-> bs, currentIdx |-> idx]
  BY DEF AdvanceBy
<1>8. AdvanceBy(w, k) \in WindowType
  BY <1>6, <1>3, <1>7 DEF WindowType
<1>9. AdvanceBy(w, k).buckets = bs /\ AdvanceBy(w, k).currentIdx = idx
  BY <1>7
<1>10. ASSUME NEW i \in Slots
       PROVE IF Behind(i, idx) < k
                THEN bs[i].StartTime = start(i) /\ Fresh(bs[i])
                ELSE bs[i] = w.buckets[i]
  <2>1. CASE Behind(i, idx) < k
    <3>1. bs[i] = Bucket(start(i))
      BY <2>1
    <3> QED BY <2>1, <3>1, <1>4, <1>5
  <2>2. CASE ~(Behind(i, idx) < k)
    BY <2>2
  <2> QED BY <2>1, <2>2
<1> QED BY <1>8, <1>9, <1>10

(* Moving the ring by k slices keeps its slices consecutive.                   *)
LEMMA AdvanceByConsecutive ==
  ASSUME NEW w \in WindowType, Consecutive(w), NEW k \in Nat
  PROVE  LET v == AdvanceBy(w, k) IN
         /\ SliceStart(v) = SliceStart(w) + k * SlideInterval
         /\ Consecutive(v)
<1> DEFINE v == AdvanceBy(w, k)
           j == w.currentIdx
<1> HIDE DEF v
<1>1. /\ v.currentIdx = Forward(j, k) /\ j \in Slots /\ v.currentIdx \in Slots
      /\ v \in WindowType
      /\ \A i \in Slots :
           IF Behind(i, v.currentIdx) < k
             THEN v.buckets[i].StartTime =
                    SliceStart(w) + (k - Behind(i, v.currentIdx)) * SlideInterval
             ELSE v.buckets[i] = w.buckets[i]
  BY AdvanceByType, RingStep DEF v, WindowType
<1>2. SliceStart(w) \in Int /\ SlideInterval \in Int
  BY SlideIntervalPositive DEF SliceStart, WindowType, BucketType
<1>3. \A i \in Slots : w.buckets[i].StartTime = SliceStart(w) - Behind(i, j) * SlideInterval
  BY DEF Consecutive
<1>4. ASSUME NEW i \in Slots
      PROVE v.buckets[i].StartTime =
              SliceStart(w) + (k - Behind(i, v.currentIdx)) * SlideInterval
  <2>1. CASE Behind(i, v.currentIdx) < k
    BY <1>1, <2>1
  <2>2. CASE ~(Behind(i, v.currentIdx) < k)
    <3>1. Behind(i, v.currentIdx) \in Int
      BY <1>1, RingStep DEF Slots
    <3>2. Behind(i, Forward(j, k)) >= k
      BY <1>1, <2>2, <3>1
    <3>3. Behind(i, j) = Behind(i, v.currentIdx) - k
      BY <1>1, <3>2, RingStep
    <3>4. v.buckets[i].StartTime = SliceStart(w) - Behind(i, j) * SlideInterval
      BY <1>1, <1>3, <2>2
    <3> QED BY <3>1, <3>3, <3>4, <1>2
  <2> QED BY <2>1, <2>2
<1>5. Behind(v.currentIdx, v.currentIdx) = 0
  BY <1>1, RingStep
<1>6. SliceStart(v) = SliceStart(w) + (k - 0) * SlideInterval
  BY <1>1, <1>4, <1>5 DEF SliceStart
<1>7. SliceStart(v) = SliceStart(w) + k * SlideInterval
  BY <1>6
<1>8. ASSUME NEW i \in Slots
      PROVE v.buckets[i].StartTime = SliceStart(v) - Behind(i, v.currentIdx) * SlideInterval
  <2>1. Behind(i, v.currentIdx) \in Int
    BY <1>1, RingStep DEF Slots
  <2> QED BY <1>2, <1>4, <1>7, <2>1
<1> QED BY <1>7, <1>8 DEF Consecutive, v

(* How many slices have expired at time t.                                      *)
LEMMA ExpiredSlices ==
  ASSUME NEW w \in WindowType, NEW t \in Int, SliceStart(w) < t
  PROVE  /\ Expired(w, t) \in Nat
         /\ SliceStart(w) + Expired(w, t) * SlideInterval < t
         /\ t <= SliceStart(w) + Expired(w, t) * SlideInterval + SlideInterval
<1> DEFINE k == Expired(w, t)
           S == SlideInterval
<1>1. SliceStart(w) \in Int /\ S \in Nat \ {0} /\ SliceEnd(w) = SliceStart(w) + S
  BY SlideIntervalPositive DEF SliceStart, SliceEnd, WindowType, BucketType
<1>2. CASE t > SliceEnd(w)
  <2> DEFINE a == t - SliceEnd(w) - 1
             q == a \div S
  <2>1. a \in Nat
    BY <1>1, <1>2
  <2>2. q \in Nat /\ q * S <= a /\ a < q * S + S
    BY <2>1, <1>1, Division
  <2>3. k = q + 1
    BY <1>2 DEF Expired
  <2>4. k * S = q * S + S
    BY <2>2, <2>3, <1>1
  <2> HIDE DEF q, k
  <2>5. k \in Nat /\ SliceStart(w) + k * S < t /\ t <= SliceStart(w) + k * S + S
    BY <2>1, <2>2, <2>3, <2>4, <1>1
  <2> QED BY <2>5 DEF k
<1>3. CASE ~(t > SliceEnd(w))
  <2>1. k = 0 /\ k * S = 0
    BY <1>3, <1>1 DEF Expired
  <2> QED BY <2>1, <1>3, <1>1
<1> QED BY <1>2, <1>3

(* advance, called at time t: afterwards t lies in the current slice, and each *)
(* bucket is as it was or opened anew, after the slice that was current.       *)
LEMMA AdvanceSafe ==
  ASSUME NEW w \in WindowType, Consecutive(w), NEW t \in Int, SliceStart(w) < t
  PROVE  LET v == Advance(w, t) IN
         /\ v \in WindowType /\ Consecutive(v)
         /\ SliceStart(v) < t /\ t <= SliceEnd(v)
         /\ SliceEnd(w) <= SliceEnd(v)
         /\ \A i \in Slots :
              \/ v.buckets[i] = w.buckets[i]
              \/ SliceEnd(w) <= v.buckets[i].StartTime /\ Fresh(v.buckets[i])
<1> DEFINE k == Expired(w, t)
           v == AdvanceBy(w, k)
           S == SlideInterval
<1>1. SliceStart(w) \in Int /\ S \in Nat \ {0} /\ SliceEnd(w) = SliceStart(w) + S
  BY SlideIntervalPositive DEF SliceStart, SliceEnd, WindowType, BucketType
<1>2. /\ k \in Nat
      /\ SliceStart(w) + k * S < t
      /\ t <= SliceStart(w) + k * S + S
  BY ExpiredSlices
<1> HIDE DEF k
<1>3. SliceStart(v) = SliceStart(w) + k * S /\ Consecutive(v)
  BY <1>2, AdvanceByConsecutive
<1>4. /\ v \in WindowType
      /\ v.currentIdx \in Slots
      /\ \A i \in Slots :
           IF Behind(i, v.currentIdx) < k
             THEN /\ v.buckets[i].StartTime =
                       SliceStart(w) + (k - Behind(i, v.currentIdx)) * S
                  /\ Fresh(v.buckets[i])
             ELSE v.buckets[i] = w.buckets[i]
  BY <1>2, AdvanceByType DEF WindowType
<1> HIDE DEF v
<1>5. k * S \in Nat
  BY <1>1, <1>2
<1>6. SliceStart(v) < t /\ t <= SliceEnd(v) /\ SliceEnd(w) <= SliceEnd(v)
  BY <1>1, <1>2, <1>3, <1>5 DEF SliceEnd
<1>7. ASSUME NEW i \in Slots
      PROVE \/ v.buckets[i] = w.buckets[i]
            \/ SliceEnd(w) <= v.buckets[i].StartTime /\ Fresh(v.buckets[i])
  <2> DEFINE d == Behind(i, v.currentIdx)
  <2>1. CASE d < k
    <3>1. d \in Nat
      <4>1. v.currentIdx \in Slots
        BY <1>4
      <4>2. d \in Slots
        BY <4>1, RingStep
      <4> QED BY <4>2, WindowConstants DEF Slots
    <3> HIDE DEF d
    <3>2. k - d \in Nat \ {0}
      BY <2>1, <3>1, <1>2
    <3>3. (k - d) * S >= S
      BY <3>2, <1>1
    <3>4. v.buckets[i].StartTime = SliceStart(w) + (k - d) * S
      BY <1>4, <2>1 DEF d
    <3>5. (k - d) * S \in Int
      BY <3>2, <1>1
    <3>6. Fresh(v.buckets[i])
      BY <1>4, <2>1 DEF d
    <3> QED BY <3>3, <3>4, <3>5, <3>6, <1>1
  <2>2. CASE ~(d < k)
    BY <1>4, <2>2
  <2> QED BY <2>1, <2>2
<1> QED BY <1>3, <1>4, <1>6, <1>7 DEF Advance, v, k

-----------------------------------------------------------------------------
(* The inductive invariant.  A bucket is opened empty, which is right because  *)
(* no event recorded so far is later than the slice that was current; a new    *)
(* event is counted in one bucket only because the slices are consecutive.     *)
LogIsPast ==
  /\ IsFiniteSet(log)
  /\ \A e \in log : e.time <= SliceEnd(window) /\ e.id <= Cardinality(log)

IInv ==
  /\ TypeOK
  /\ LogIsPast
  /\ SliceStart(window) < now
  /\ SlicesAreConsecutive
  /\ BucketsCountTheirSlice

LEMMA SliceTypes ==
  ASSUME NEW w \in WindowType
  PROVE  /\ SliceStart(w) \in Int /\ SliceEnd(w) \in Int
         /\ SliceEnd(w) = SliceStart(w) + SlideInterval
         /\ \A i \in Slots : w.buckets[i].StartTime \in Int
         /\ w.currentIdx \in Slots
BY SlideIntervalPositive DEF SliceStart, SliceEnd, WindowType, BucketType

(* Advancing at the present time keeps every part of the invariant.            *)
LEMMA AdvancedWindow ==
  ASSUME IInv
  PROVE  LET v == Advance(window, now) IN
         /\ v \in WindowType /\ Consecutive(v)
         /\ SliceStart(v) < now /\ now <= SliceEnd(v)
         /\ SliceEnd(window) <= SliceEnd(v)
         /\ \A i \in Slots, k \in Kinds :
              v.buckets[i].count[k] =
                Cardinality(Logged(k, v.buckets[i].StartTime,
                                   v.buckets[i].StartTime + SlideInterval))
<1> DEFINE v == Advance(window, now)
<1>1. window \in WindowType /\ Consecutive(window) /\ now \in Int /\ SliceStart(window) < now
  BY SlidingWindowBounds DEF IInv, TypeOK, SlicesAreConsecutive
<1>2. /\ v \in WindowType /\ Consecutive(v)
      /\ SliceStart(v) < now /\ now <= SliceEnd(v)
      /\ SliceEnd(window) <= SliceEnd(v)
      /\ \A i \in Slots :
           \/ v.buckets[i] = window.buckets[i]
           \/ SliceEnd(window) <= v.buckets[i].StartTime /\ Fresh(v.buckets[i])
  BY <1>1, AdvanceSafe
<1> HIDE DEF v
<1>3. ASSUME NEW i \in Slots, NEW k \in Kinds
      PROVE v.buckets[i].count[k] =
              Cardinality(Logged(k, v.buckets[i].StartTime,
                                 v.buckets[i].StartTime + SlideInterval))
  <2>1. CASE v.buckets[i] = window.buckets[i]
    BY <2>1 DEF IInv, BucketsCountTheirSlice, InBucket
  <2>2. CASE SliceEnd(window) <= v.buckets[i].StartTime /\ Fresh(v.buckets[i])
    <3>1. v.buckets[i].StartTime \in Int /\ SliceEnd(window) \in Int
      BY <1>1, <1>2, SliceTypes
    <3>2. \A e \in log : e.time \in Int /\ e.time <= SliceEnd(window)
      BY DEF IInv, LogIsPast, TypeOK, Event
    <3>3. Logged(k, v.buckets[i].StartTime, v.buckets[i].StartTime + SlideInterval) = {}
      BY <2>2, <3>1, <3>2 DEF Logged
    <3> QED BY <2>2, <3>3, FS_EmptySet DEF Fresh
  <2> QED BY <1>2, <2>1, <2>2
<1> QED BY <1>2, <1>3 DEF v

LEMMA InitIInv == Init => IInv
<1> SUFFICES ASSUME Init PROVE IInv
  OBVIOUS
<1> DEFINE S == SlideInterval
           start(i) == 0 - WindowDuration + i * S
           bs == [i \in Slots |-> Bucket(start(i))]
<1>1. S \in Nat \ {0} /\ WindowDuration \in Nat /\ BucketCount \in Nat \ {0}
  BY SlideIntervalPositive, WindowConstants
<1>2. now = 0 /\ log = {} /\ window = [buckets |-> bs, currentIdx |-> BucketCount - 1]
  BY DEF Init, NewWindow
<1>3. BucketCount - 1 \in Slots /\ \A i \in Slots : i \in Int /\ start(i) \in Int
  BY <1>1 DEF Slots
<1>4. \A t \in Int : Bucket(t) \in BucketType /\ Bucket(t).StartTime = t /\ Fresh(Bucket(t))
  BY DEF Bucket, BucketType, Fresh
<1> HIDE DEF start
<1>5. bs \in [Slots -> BucketType]
  BY <1>3, <1>4
<1>6. window.buckets = bs /\ window.currentIdx = BucketCount - 1
  BY <1>2
<1>7. \A i \in Slots : window.buckets[i].StartTime = start(i) /\ Fresh(window.buckets[i])
  BY <1>3, <1>4, <1>6
<1>8. SliceStart(window) = start(BucketCount - 1)
  BY <1>3, <1>6, <1>7 DEF SliceStart
<1>9. TypeOK
  BY <1>2, <1>3, <1>5, SlidingWindowBounds DEF TypeOK, WindowType
<1>10. LogIsPast
  BY <1>2, FS_EmptySet DEF LogIsPast
<1>11. SliceStart(window) < now
  <2>1. S * BucketCount <= WindowDuration
    BY <1>1, Division DEF SlideInterval
  <2>2. (BucketCount - 1) * S = S * BucketCount - S
    BY <1>1
  <2>3. S * BucketCount \in Int
    BY <1>1
  <2>4. start(BucketCount - 1) < 0
    BY <1>1, <2>1, <2>2, <2>3 DEF start
  <2> QED BY <1>2, <1>8, <2>4
<1>12. SlicesAreConsecutive
  <2>1. ASSUME NEW i \in Slots
        PROVE start(i) = start(BucketCount - 1) - Behind(i, BucketCount - 1) * S
    <3>1. Behind(i, BucketCount - 1) = BucketCount - 1 - i
      BY <1>1 DEF Behind, Slots
    <3> QED BY <1>1, <1>3, <3>1 DEF start
  <2> QED BY <1>6, <1>7, <1>8, <2>1 DEF SlicesAreConsecutive, Consecutive
<1>13. BucketsCountTheirSlice
  <2>1. \A k, a, b : Cardinality(Logged(k, a, b)) = 0
    BY <1>2, FS_EmptySet DEF Logged
  <2> QED BY <1>7, <2>1 DEF BucketsCountTheirSlice, InBucket, Fresh
<1> QED BY <1>9, <1>10, <1>11, <1>12, <1>13 DEF IInv

(* The slices are disjoint: now lies in the current one and in no other.       *)
LEMMA OneSlice ==
  ASSUME NEW v \in WindowType, Consecutive(v), NEW t \in Int,
         SliceStart(v) < t, t <= SliceEnd(v), NEW i \in Slots
  PROVE  (v.buckets[i].StartTime < t /\ t <= v.buckets[i].StartTime + SlideInterval)
           <=> i = v.currentIdx
<1> DEFINE S == SlideInterval
           d == Behind(i, v.currentIdx)
<1>1. S \in Nat \ {0} /\ SliceStart(v) \in Int /\ SliceEnd(v) = SliceStart(v) + S
  BY SlideIntervalPositive, SliceTypes
<1>2. v.currentIdx \in Slots
  BY SliceTypes
<1>3. d \in Nat /\ (d = 0 <=> i = v.currentIdx)
  <2>1. d \in Slots /\ (d = 0 <=> i = v.currentIdx)
    BY <1>2, RingStep
  <2> QED BY <2>1, WindowConstants DEF Slots
<1>4. v.buckets[i].StartTime = SliceStart(v) - d * S
  BY DEF Consecutive
<1> HIDE DEF d
<1>5. CASE d = 0
  <2>1. d * S = 0
    BY <1>1, <1>5
  <2> QED BY <1>1, <1>3, <1>4, <1>5, <2>1
<1>6. CASE d # 0
  <2>1. d * S >= S /\ d * S \in Int
    BY <1>1, <1>3, <1>6
  <2> QED BY <1>1, <1>3, <1>4, <1>6, <2>1
<1> QED BY <1>5, <1>6

LEMMA TickSafe == IInv /\ Tick => IInv'
<1> SUFFICES ASSUME IInv, Tick PROVE IInv'
  OBVIOUS
<1>1. now \in Int /\ MaxTime \in Int /\ now \in 0 .. MaxTime
  BY SlidingWindowBounds DEF IInv, TypeOK
<1>2. now < MaxTime /\ now' = now + 1 /\ window' = window /\ log' = log
  BY DEF Tick
<1>3. TypeOK'
  BY <1>1, <1>2 DEF IInv, TypeOK
<1>4. LogIsPast'
  BY <1>2 DEF IInv, LogIsPast, SliceEnd, SliceStart
<1>5. (SliceStart(window) < now)'
  <2>1. SliceStart(window) \in Int /\ SliceStart(window) < now
    BY SliceTypes DEF IInv, TypeOK
  <2>2. SliceStart(window)' = SliceStart(window)
    BY <1>2 DEF SliceStart
  <2> QED BY <1>1, <1>2, <2>1, <2>2
<1>6. SlicesAreConsecutive'
  BY <1>2 DEF IInv, SlicesAreConsecutive, Consecutive, SliceStart
<1>7. BucketsCountTheirSlice'
  BY <1>2 DEF IInv, BucketsCountTheirSlice, InBucket, Logged
<1> QED BY <1>3, <1>4, <1>5, <1>6, <1>7 DEF IInv

LEMMA AggregateSafe == IInv /\ Aggregate => IInv'
<1> SUFFICES ASSUME IInv, Aggregate PROVE IInv'
  OBVIOUS
<1>1. window' = Advance(window, now) /\ now' = now /\ log' = log
  BY DEF Aggregate
<1>2. /\ window' \in WindowType /\ Consecutive(window')
      /\ SliceStart(window') < now
      /\ SliceEnd(window) <= SliceEnd(window')
      /\ \A i \in Slots, k \in Kinds :
           window'.buckets[i].count[k] =
             Cardinality(Logged(k, window'.buckets[i].StartTime,
                                window'.buckets[i].StartTime + SlideInterval))
  BY <1>1, AdvancedWindow
<1>3. TypeOK'
  BY <1>1, <1>2 DEF IInv, TypeOK
<1>4. LogIsPast'
  <2>1. ASSUME NEW e \in log PROVE e.time <= SliceEnd(window')
    <3>1. e.time \in Int /\ e.time <= SliceEnd(window)
      BY DEF IInv, TypeOK, LogIsPast, Event
    <3>2. SliceEnd(window) \in Int /\ SliceEnd(window') \in Int
      BY <1>2, SliceTypes DEF IInv, TypeOK
    <3> QED BY <1>2, <3>1, <3>2
  <2> QED BY <1>1, <2>1 DEF IInv, LogIsPast
<1>5. (SliceStart(window) < now)'
  BY <1>1, <1>2
<1>6. SlicesAreConsecutive'
  BY <1>2 DEF SlicesAreConsecutive
<1>7. BucketsCountTheirSlice'
  BY <1>1, <1>2 DEF BucketsCountTheirSlice, InBucket, Logged
<1> QED BY <1>3, <1>4, <1>5, <1>6, <1>7 DEF IInv

LEMMA RecordEventSafe ==
  ASSUME IInv, NEW k \in Kinds, RecordEvent(k)
  PROVE  IInv'
<1> DEFINE v == Advance(window, now)
           e == [id |-> Cardinality(log) + 1, kind |-> k, time |-> now]
           cur == v.currentIdx
<1>1. /\ v \in WindowType /\ Consecutive(v)
      /\ SliceStart(v) < now /\ now <= SliceEnd(v)
      /\ SliceEnd(window) <= SliceEnd(v)
      /\ \A i \in Slots, x \in Kinds :
           v.buckets[i].count[x] =
             Cardinality(Logged(x, v.buckets[i].StartTime,
                                v.buckets[i].StartTime + SlideInterval))
  BY AdvancedWindow
<1>2. /\ window' = [v EXCEPT !.buckets[cur].count[k] = @ + 1]
      /\ log' = log \union {e} /\ now' = now
      /\ Cardinality(log) < MaxEvents
  BY DEF RecordEvent, Record
<1> HIDE DEF v
<1>3. cur \in Slots /\ v.buckets \in [Slots -> BucketType] /\ now \in Int
  BY <1>1, SlidingWindowBounds DEF WindowType, IInv, TypeOK
<1>4. IsFiniteSet(log) /\ Cardinality(log) \in Nat /\ e \notin log
  <2>1. IsFiniteSet(log) /\ \A x \in log : x.id <= Cardinality(log)
    BY DEF IInv, LogIsPast
  <2>2. Cardinality(log) \in Nat
    BY <2>1, FS_CardinalityType
  <2> QED BY <2>1, <2>2
<1>5. /\ window'.currentIdx = cur
      /\ window' \in WindowType
      /\ \A i \in Slots :
           /\ window'.buckets[i].StartTime = v.buckets[i].StartTime
           /\ \A x \in Kinds : window'.buckets[i].count[x] =
                IF i = cur /\ x = k THEN v.buckets[i].count[x] + 1 ELSE v.buckets[i].count[x]
  <2> DEFINE b == [v.buckets[cur] EXCEPT !.count[k] = @ + 1]
             bs == [v.buckets EXCEPT ![cur] = b]
  <2>1. window' = [v EXCEPT !.buckets = bs]
    BY <1>2
  <2>2. b \in BucketType /\ b.StartTime = v.buckets[cur].StartTime
        /\ \A x \in Kinds : b.count[x] =
             IF x = k THEN v.buckets[cur].count[x] + 1 ELSE v.buckets[cur].count[x]
    BY <1>3 DEF BucketType
  <2> HIDE DEF b
  <2>3. bs \in [Slots -> BucketType] /\ bs[cur] = b /\ \A i \in Slots \ {cur} : bs[i] = v.buckets[i]
    BY <1>3, <2>2
  <2> HIDE DEF bs
  <2>4. window'.currentIdx = cur /\ window'.buckets = bs /\ window' \in WindowType
    BY <1>1, <2>1, <2>3 DEF WindowType
  <2> QED BY <2>2, <2>3, <2>4
<1>6. SliceStart(window') = SliceStart(v) /\ SliceEnd(window') = SliceEnd(v)
  BY <1>3, <1>5 DEF SliceStart, SliceEnd
<1>7. Cardinality(log') = Cardinality(log) + 1 /\ IsFiniteSet(log')
  BY <1>2, <1>4, FS_AddElement
<1>8. TypeOK'
  <2>1. e \in Event
    BY <1>2, <1>4, SlidingWindowBounds DEF Event, IInv, TypeOK
  <2> QED BY <1>2, <1>5, <2>1 DEF IInv, TypeOK
<1>9. LogIsPast'
  <2>1. ASSUME NEW x \in log'
        PROVE x.time <= SliceEnd(window') /\ x.id <= Cardinality(log')
    <3>1. CASE x = e
      BY <1>1, <1>6, <1>7, <1>4, <3>1
    <3>2. CASE x \in log
      <4>1. x.time \in Int /\ x.time <= SliceEnd(window) /\ x.id \in Int /\ x.id <= Cardinality(log)
        BY <3>2 DEF IInv, TypeOK, LogIsPast, Event
      <4>2. SliceEnd(window) \in Int /\ SliceEnd(v) \in Int
        BY <1>1, SliceTypes DEF IInv, TypeOK
      <4> QED BY <1>1, <1>4, <1>6, <1>7, <4>1, <4>2
    <3> QED BY <1>2, <3>1, <3>2
  <2> QED BY <1>7, <2>1 DEF LogIsPast
<1>10. (SliceStart(window) < now)'
  BY <1>1, <1>2, <1>6
<1>11. SlicesAreConsecutive'
  BY <1>1, <1>5, <1>6 DEF SlicesAreConsecutive, Consecutive
<1>12. BucketsCountTheirSlice'
  <2>1. ASSUME NEW i \in Slots, NEW x \in Kinds
        PROVE window'.buckets[i].count[x] = Cardinality(InBucket(i, x)')
    <3> DEFINE a == v.buckets[i].StartTime
               L == Logged(x, a, a + SlideInterval)
    <3>1. InBucket(i, x)' = IF i = cur /\ x = k THEN L \union {e} ELSE L
      <4>1. (a < now /\ now <= a + SlideInterval) <=> i = cur
        BY <1>1, <1>3, OneSlice
      <4>2. InBucket(i, x)' = {y \in log \union {e} : y.kind = x /\ a < y.time /\ y.time <= a + SlideInterval}
        BY <1>2, <1>5 DEF InBucket, Logged
      <4> QED BY <4>1, <4>2 DEF Logged
    <3>2. IsFiniteSet(L) /\ e \notin L
      <4>1. L \subseteq log
        BY DEF Logged
      <4> QED BY <1>4, <4>1, FS_Subset
    <3>3. v.buckets[i].count[x] = Cardinality(L)
      BY <1>1
    <3>4. Cardinality(L \union {e}) = Cardinality(L) + 1
      BY <3>2, FS_AddElement
    <3> HIDE DEF L
    <3> QED BY <1>5, <3>1, <3>3, <3>4
  <2> QED BY <2>1 DEF BucketsCountTheirSlice
<1> QED BY <1>8, <1>9, <1>10, <1>11, <1>12 DEF IInv

THEOREM Invariance == Spec => []IInv
<1>1. IInv /\ [Next]_vars => IInv'
  <2> SUFFICES ASSUME IInv, [Next]_vars PROVE IInv'
    OBVIOUS
  <2>1. CASE Tick
    BY <2>1, TickSafe
  <2>2. CASE \E k \in Kinds : RecordEvent(k)
    BY <2>2, RecordEventSafe
  <2>3. CASE Aggregate
    BY <2>3, AggregateSafe
  <2>4. CASE UNCHANGED vars
    BY <2>4 DEF vars, IInv, TypeOK, LogIsPast, SliceStart, SliceEnd, SlicesAreConsecutive,
                Consecutive, BucketsCountTheirSlice, InBucket, Logged
  <2> QED BY <2>1, <2>2, <2>3, <2>4 DEF Next
<1> QED BY <1>1, InitIInv, PTL DEF Spec

(* Every bucket counts exactly the events of its own slice, for every bucket   *)
(* count and duration and for pauses of any length (window.go:74-116).         *)
THEOREM BucketsExact == Spec => [](TypeOK /\ BucketsCountTheirSlice)
<1>1. IInv => TypeOK /\ BucketsCountTheirSlice
  BY DEF IInv
<1> QED BY <1>1, Invariance, PTL

-----------------------------------------------------------------------------
(* Some slot lies any given distance behind the current one.                   *)
LEMMA SlotBehind ==
  ASSUME NEW j \in Slots, NEW d \in Slots
  PROVE  \E i \in Slots : Behind(i, j) = d
<1>1. CASE d <= j
  <2>1. j - d \in Slots /\ Behind(j - d, j) = d
    BY <1>1, WindowConstants DEF Behind, Slots
  <2> QED BY <2>1
<1>2. CASE ~(d <= j)
  <2>1. j - d + BucketCount \in Slots /\ Behind(j - d + BucketCount, j) = d
    BY <1>2, WindowConstants DEF Behind, Slots
  <2> QED BY <2>1
<1> QED BY <1>1, <1>2

LEMMA BehindInjective ==
  ASSUME NEW i \in Slots, NEW h \in Slots, NEW j \in Slots, Behind(i, j) = Behind(h, j)
  PROVE  i = h
BY WindowConstants DEF Behind, Slots

(* Multiples of the slide interval less than one interval apart are equal.     *)
LEMMA SameMultiple ==
  ASSUME NEW a \in Nat, NEW b \in Nat, NEW s \in Nat \ {0}, a * s < b * s + s, b * s < a * s + s
  PROVE  a = b
<1>1. CASE a < b
  <2>1. (b - a) * s >= s
    BY <1>1
  <2>2. (b - a) * s = b * s - a * s /\ a * s \in Int /\ b * s \in Int
    OBVIOUS
  <2> QED BY <2>1, <2>2
<1>2. CASE b < a
  <2>1. (a - b) * s >= s
    BY <1>2
  <2>2. (a - b) * s = a * s - b * s /\ a * s \in Int /\ b * s \in Int
    OBVIOUS
  <2> QED BY <2>1, <2>2
<1> QED BY <1>1, <1>2

(* A read sums each instant of the window once: no event can be counted twice  *)
(* or fall between two buckets (window.go:145-164).                            *)
THEOREM ReadsCover == Spec => []ReadCoversTheWindow
<1>1. IInv => ReadCoversTheWindow
  <2> SUFFICES ASSUME IInv PROVE ReadCoversTheWindow
    OBVIOUS
  <2> DEFINE v == Advance(window, now)
             S == SlideInterval
             d(i) == Behind(i, v.currentIdx)
  <2>1. /\ v \in WindowType /\ Consecutive(v)
        /\ SliceStart(v) < now /\ now <= SliceEnd(v) /\ now \in Int
    BY AdvancedWindow, SlidingWindowBounds DEF IInv, TypeOK
  <2> HIDE DEF v
  <2>2. S \in Nat \ {0} /\ SliceStart(v) \in Int /\ SliceEnd(v) = SliceStart(v) + S
        /\ v.currentIdx \in Slots
    BY <2>1, SliceTypes, SlideIntervalPositive
  <2>3. BucketCount \in Nat \ {0} /\ BucketCount * S \in Nat /\ Span = BucketCount * S
    BY <2>2, WindowConstants DEF Span
  <2>4. ASSUME NEW i \in Slots
        PROVE /\ d(i) \in Nat /\ d(i) <= BucketCount - 1 /\ d(i) * S \in Nat
              /\ v.buckets[i].StartTime = SliceStart(v) - d(i) * S
    <3>1. d(i) \in Slots
      BY <2>2, RingStep
    <3>2. d(i) \in Nat /\ d(i) <= BucketCount - 1
      BY <2>3, <3>1 DEF Slots
    <3>3. v.buckets[i].StartTime = SliceStart(v) - d(i) * S
      BY <2>1 DEF Consecutive
    <3> HIDE DEF d
    <3>4. d(i) * S \in Nat
      BY <2>2, <3>2
    <3> QED BY <3>2, <3>3, <3>4
  <2>5. ASSUME NEW i \in Slots PROVE now - Span <= v.buckets[i].StartTime
    <3> DEFINE r == BucketCount - 1 - d(i)
    <3>1. d(i) \in Nat /\ r \in Nat /\ d(i) * S \in Nat
      BY <2>3, <2>4
    <3>2. BucketCount = d(i) + 1 + r
      BY <2>3, <3>1
    <3> HIDE DEF r
    <3>3. r * S \in Nat
      BY <2>2, <3>1
    <3>4. BucketCount * S = d(i) * S + S + r * S
      BY <2>2, <3>1, <3>2
    <3> QED BY <2>1, <2>2, <2>3, <2>4, <3>1, <3>3, <3>4
  <2>6. ASSUME NEW t \in (now - Span + S + 1) .. now
        PROVE /\ \E i \in Slots : Covers(v, i, t)
              /\ \A i, j \in Slots : Covers(v, i, t) /\ Covers(v, j, t) => i = j
    <3> DEFINE a == SliceEnd(v) - t
               q == a \div S
    <3>1. a \in Nat /\ t \in Int /\ t > now - Span + S
      BY <2>1, <2>2, <2>3
    <3>2. q \in Nat /\ q * S <= a /\ a < q * S + S
      BY <2>2, <3>1, Division
    <3>3. q \in Slots
      <4>1. SUFFICES ASSUME q >= BucketCount PROVE FALSE
        BY <2>3, <3>2 DEF Slots
      <4>2. (q - BucketCount) * S >= 0 /\ (q - BucketCount) * S = q * S - BucketCount * S /\ q * S \in Int
        <5> HIDE DEF q
        <5> QED BY <2>2, <2>3, <3>2, <4>1
      <4>3. SliceEnd(v) < now + S
        BY <2>1, <2>2
      <4> QED BY <2>1, <2>2, <2>3, <3>1, <3>2, <4>2, <4>3
    <3> HIDE DEF q
    <3>4. ASSUME NEW i \in Slots
          PROVE Covers(v, i, t) <=> d(i) * S <= a /\ a < d(i) * S + S
      BY <2>2, <2>4, <3>1 DEF Covers
    <3>5. \E i \in Slots : Covers(v, i, t)
      <4>1. PICK i \in Slots : d(i) = q
        BY <2>2, <3>3, SlotBehind
      <4> QED BY <3>2, <3>4, <4>1
    <3>6. ASSUME NEW i \in Slots, NEW j \in Slots, Covers(v, i, t), Covers(v, j, t)
          PROVE i = j
      <4>1. d(i) * S < d(j) * S + S /\ d(j) * S < d(i) * S + S
        BY <2>2, <2>4, <3>1, <3>4, <3>6
      <4>2. d(i) = d(j)
        BY <2>2, <2>4, <4>1, SameMultiple
      <4> QED BY <2>2, <4>2, BehindInjective
    <3> QED BY <3>5, <3>6
  <2> QED BY <2>5, <2>6 DEF ReadCoversTheWindow, v
<1> QED BY <1>1, Invariance, PTL

-----------------------------------------------------------------------------
(* advance's loop. *)

LEMMA NextRemainder ==
  ASSUME NEW k \in Nat
  PROVE  (k + 1) % BucketCount = IF (k % BucketCount) + 1 < BucketCount THEN (k % BucketCount) + 1 ELSE 0
<1> DEFINE s == BucketCount
           a == k \div s
           r == k % s
           b == (k + 1) \div s
           q == (k + 1) % s
<1>0. s \in Nat \ {0}
  BY WindowConstants
<1> HIDE DEF s
<1>1. a \in Nat /\ r \in Nat /\ r < s /\ k = a * s + r
  BY <1>0, SMT
<1>2. b \in Nat /\ q \in Nat /\ q < s /\ k + 1 = b * s + q
  BY <1>0, SMT
<1> HIDE DEF a, r, b, q
<1>3. a * s \in Nat /\ b * s \in Nat /\ (a + 1) * s = a * s + s /\ a + 1 \in Nat
  BY <1>0, <1>1, <1>2
<1>4. CASE r + 1 < s
  <2>1. a = b
    BY <1>0, <1>1, <1>2, <1>3, <1>4, SameMultiple
  <2>2. q = r + 1
    BY <1>1, <1>2, <1>3, <2>1
  <2> QED BY <1>4, <2>2 DEF q, r, s
<1>5. CASE ~(r + 1 < s)
  <2>1. r + 1 = s
    BY <1>0, <1>1, <1>5
  <2>2. a + 1 = b
    <3>1. (a + 1) * s < b * s + s /\ b * s < (a + 1) * s + s
      BY <1>0, <1>1, <1>2, <1>3, <2>1
    <3> QED BY <1>0, <1>2, <1>3, <3>1, SameMultiple
  <2>3. q = 0
    BY <1>1, <1>2, <1>3, <2>1, <2>2
  <2> QED BY <1>5, <2>3 DEF q, r, s
<1> QED BY <1>4, <1>5

LEMMA NextSlot ==
  ASSUME NEW j \in Slots, NEW k \in Nat
  PROVE  /\ Forward(j, k + 1) = (Forward(j, k) + 1) % BucketCount
         /\ \A i \in Slots :
              Behind(i, Forward(j, k + 1))
                = IF i = Forward(j, k + 1) THEN 0 ELSE Behind(i, Forward(j, k)) + 1
<1> DEFINE n == BucketCount
           c == Forward(j, k)
           d == Forward(j, k + 1)
<1>1. n \in Nat \ {0} /\ j \in 0 .. n - 1
  BY WindowConstants DEF Slots
<1>2. k % n \in 0 .. n - 1 /\ (k + 1) % n = IF (k % n) + 1 < n THEN (k % n) + 1 ELSE 0
  BY Remainder, NextRemainder DEF Slots
<1>3. c = IF j + (k % n) < n THEN j + (k % n) ELSE j + (k % n) - n
  BY DEF Forward
<1>4. d = IF j + ((k + 1) % n) < n THEN j + ((k + 1) % n) ELSE j + ((k + 1) % n) - n
  BY DEF Forward
<1> DEFINE r == k % n
           q == (k + 1) % n
<1>5. r \in 0 .. n - 1 /\ q = (IF r + 1 < n THEN r + 1 ELSE 0)
      /\ c = (IF j + r < n THEN j + r ELSE j + r - n) /\ d = (IF j + q < n THEN j + q ELSE j + q - n)
  <2> HIDE DEF c, d, n
  <2> QED BY <1>2, <1>3, <1>4
<1> HIDE DEF n, r, q, c, d
<1>6. c \in 0 .. n - 1 /\ d = IF c + 1 < n THEN c + 1 ELSE 0
  <2>1. CASE r + 1 < n
    BY <1>1, <1>5, <2>1
  <2>2. CASE ~(r + 1 < n)
    BY <1>1, <1>5, <2>2
  <2> QED BY <2>1, <2>2
<1>7. d = (c + 1) % n
  <2>1. 0 % n = 0 /\ (0 < n => 0 % n = 0)
    BY Remainder, <1>1 DEF n
  <2>2. c + 1 < n => (c + 1) % n = c + 1
    BY <1>6, Remainder DEF n
  <2>3. c + 1 = n => (c + 1) % n = 0
    <3>1. c \in Nat /\ c < n
      BY <1>1, <1>6
    <3>2. (c + 1) % n = IF (c % n) + 1 < n THEN (c % n) + 1 ELSE 0
      BY <3>1, NextRemainder DEF n
    <3>3. c % n = c
      BY <3>1, Remainder DEF n
    <3> QED BY <3>1, <3>2, <3>3, <1>1
  <2> QED BY <1>1, <1>6, <2>2, <2>3
<1>8. ASSUME NEW i \in Slots
      PROVE Behind(i, d) = IF i = d THEN 0 ELSE Behind(i, c) + 1
  BY <1>1, <1>6 DEF Behind, Slots, n
<1> QED BY <1>7, <1>8 DEF c, d, n

(* Moving by one more slice is one more turn.                                   *)
LEMMA AdvanceByTurn ==
  ASSUME NEW w \in WindowType, Consecutive(w), NEW k \in Nat
  PROVE  AdvanceBy(w, k + 1) = Turn(AdvanceBy(w, k))
<1> DEFINE v == AdvanceBy(w, k)
           j == w.currentIdx
           c == Forward(j, k)
           d == Forward(j, k + 1)
           S == SlideInterval
           start(m, b) == SliceStart(w) + (m - b) * S
           bv == [i \in Slots |-> IF Behind(i, c) < k THEN Bucket(start(k, Behind(i, c))) ELSE w.buckets[i]]
           bu == [i \in Slots |-> IF Behind(i, d) < k + 1 THEN Bucket(start(k + 1, Behind(i, d))) ELSE w.buckets[i]]
<1>1. v = [buckets |-> bv, currentIdx |-> c] /\ AdvanceBy(w, k + 1) = [buckets |-> bu, currentIdx |-> d]
  BY DEF AdvanceBy
<1>2. SliceStart(v) = SliceStart(w) + k * S /\ SliceEnd(v) = SliceStart(v) + S
  BY AdvanceByConsecutive DEF SliceEnd
<1>3. j \in Slots /\ c \in Slots /\ d \in Slots /\ \A i \in Slots : Behind(i, c) \in Nat
  <2>1. j \in Slots
    BY SliceTypes
  <2>2. c \in Slots /\ d \in Slots
    BY <2>1, RingStep
  <2>3. \A i \in Slots : Behind(i, c) \in Slots
    BY <2>2, RingStep
  <2> QED BY <2>1, <2>2, <2>3, WindowConstants DEF Slots
<1>4. d = (c + 1) % BucketCount
      /\ \A i \in Slots : Behind(i, d) = IF i = d THEN 0 ELSE Behind(i, c) + 1
  BY <1>3, NextSlot
<1>5. S \in Nat /\ SliceStart(w) \in Int
  BY SlideIntervalPositive, SliceTypes
<1> HIDE DEF v
<1>6. Turn(v) = [buckets |-> [bv EXCEPT ![d] = Bucket(SliceEnd(v))], currentIdx |-> d]
  BY <1>1, <1>4 DEF Turn
<1>7. bu = [bv EXCEPT ![d] = Bucket(SliceEnd(v))]
  <2>1. ASSUME NEW i \in Slots
        PROVE bu[i] = IF i = d THEN Bucket(SliceEnd(v)) ELSE bv[i]
    <3>1. CASE i = d
      <4>1. Behind(i, d) = 0 /\ 0 < k + 1
        BY <1>4, <3>1
      <4>2. start(k + 1, Behind(i, d)) = SliceEnd(v)
        <5>1. (k + 1 - 0) * S = k * S + S /\ k * S \in Int
          BY <1>5
        <5> QED BY <1>2, <1>5, <4>1, <5>1
      <4> HIDE DEF start
      <4> QED BY <3>1, <4>1, <4>2
    <3>2. CASE i # d
      <4>1. Behind(i, d) = Behind(i, c) + 1 /\ Behind(i, c) \in Nat
        BY <1>3, <1>4, <3>2
      <4>2. Behind(i, d) < k + 1 <=> Behind(i, c) < k
        BY <4>1
      <4>3. start(k + 1, Behind(i, d)) = start(k, Behind(i, c))
        <5>1. (k + 1) - Behind(i, d) = k - Behind(i, c)
          BY <4>1
        <5> HIDE DEF c, d
        <5> QED BY <5>1
      <4> HIDE DEF start
      <4> QED BY <3>2, <4>2, <4>3
    <3> QED BY <3>1, <3>2
  <2> HIDE DEF start
  <2>2. bv = [i \in Slots |-> bv[i]] /\ bu = [i \in Slots |-> bu[i]]
    OBVIOUS
  <2> HIDE DEF bv, bu
  <2> QED BY <1>3, <2>1, <2>2
<1> QED BY <1>1, <1>6, <1>7 DEF v

LEMMA AdvanceByNothing ==
  ASSUME NEW w \in WindowType
  PROVE  AdvanceBy(w, 0) = w
<1> DEFINE c == Forward(w.currentIdx, 0)
           bs == [i \in Slots |-> IF Behind(i, c) < 0
                                    THEN Bucket(SliceStart(w) + (0 - Behind(i, c)) * SlideInterval)
                                    ELSE w.buckets[i]]
<1>1. w.currentIdx \in Slots /\ c \in Slots
  BY SliceTypes, RingStep
<1>2. c = w.currentIdx
  BY <1>1, Remainder, WindowConstants DEF Forward, Slots
<1>3. \A i \in Slots : Behind(i, c) \in Slots /\ ~(Behind(i, c) < 0)
  <2> HIDE DEF c
  <2>1. \A i \in Slots : Behind(i, c) \in Slots
    BY <1>1, RingStep
  <2> QED BY <2>1, WindowConstants DEF Slots
<1>4. AdvanceBy(w, 0) = [buckets |-> bs, currentIdx |-> c]
  BY DEF AdvanceBy
<1> HIDE DEF c
<1>5. bs = [i \in Slots |-> w.buckets[i]]
  BY <1>3
<1>6. w = [buckets |-> w.buckets, currentIdx |-> w.currentIdx]
      /\ w.buckets = [i \in Slots |-> w.buckets[i]]
  BY DEF WindowType
<1> QED BY <1>2, <1>4, <1>5, <1>6

(* The closed form of advance is what its loop computes, however long the pause *)
(* (window.go:79-87).                                                           *)
THEOREM AdvanceTurns == Spec => []AdvanceIsTheLoop
<1>1. IInv => AdvanceIsTheLoop
  <2> SUFFICES ASSUME IInv, NEW t \in now .. MaxTime
               PROVE  LET turns[n \in 0 .. t - SliceStart(window)] ==
                            IF n = 0 THEN window ELSE Turn(turns[n - 1])
                      IN  \E n \in DOMAIN turns :
                            /\ \A m \in 0 .. n - 1 : t > SliceEnd(turns[m])
                            /\ ~(t > SliceEnd(turns[n]))
                            /\ Advance(window, t) = turns[n]
    BY DEF AdvanceIsTheLoop
  <2> DEFINE N == t - SliceStart(window)
             S == SlideInterval
             Loop(g) == [n \in 0 .. N |-> IF n = 0 THEN window ELSE Turn(g[n - 1])]
             turns == CHOOSE g : g = Loop(g)
             k == Expired(window, t)
  <2>1. /\ window \in WindowType /\ Consecutive(window) /\ t \in Int
        /\ SliceStart(window) < t /\ SliceStart(window) \in Int
    <3>1. window \in WindowType /\ Consecutive(window) /\ now \in Int /\ SliceStart(window) < now
      BY SlidingWindowBounds DEF IInv, TypeOK, SlicesAreConsecutive
    <3>2. SliceStart(window) \in Int /\ t \in Int /\ now <= t
      BY <3>1, SliceTypes, SlidingWindowBounds
    <3> QED BY <3>1, <3>2
  <2>2. N \in Nat /\ S \in Nat \ {0}
    BY <2>1, SlideIntervalPositive
  <2>3. k \in Nat /\ SliceStart(window) + k * S < t /\ t <= SliceStart(window) + k * S + S
    BY <2>1, ExpiredSlices
  <2> HIDE DEF k
  <2>4. k \in 0 .. N
    <3>1. k * S >= k /\ k * S \in Nat
      <4>1. k * (S - 1) >= 0 /\ k * (S - 1) = k * S - k /\ k * S \in Nat
        BY <2>2, <2>3
      <4> QED BY <2>3, <4>1
    <3> QED BY <2>1, <2>2, <2>3, <3>1
  <2> HIDE DEF N
  <2>5. turns = Loop(turns)
    <3> DEFINE g == [n \in 0 .. N |-> AdvanceBy(window, n)]
    <3>1. ASSUME NEW n \in 0 .. N
          PROVE  AdvanceBy(window, n) = IF n = 0 THEN window ELSE Turn(g[n - 1])
      <4>1. CASE n = 0
        BY <2>1, <4>1, AdvanceByNothing
      <4>2. CASE n # 0
        <5>1. n - 1 \in 0 .. N /\ n - 1 \in Nat /\ (n - 1) + 1 = n
          BY <2>2, <4>2
        <5>2. AdvanceBy(window, (n - 1) + 1) = Turn(AdvanceBy(window, n - 1))
          BY <2>1, <5>1, AdvanceByTurn
        <5> QED BY <4>2, <5>1, <5>2
      <4> QED BY <4>1, <4>2
    <3>2. g = Loop(g)
      BY <3>1
    <3> HIDE DEF g, Loop
    <3> QED BY <3>2
  <2> HIDE DEF turns
  <2>6. DOMAIN turns = 0 .. N /\ turns[0] = window
        /\ \A n \in 1 .. N : turns[n] = Turn(turns[n - 1])
    <3>1. 0 \in 0 .. N /\ \A n \in 1 .. N : n \in 0 .. N /\ n # 0
      BY <2>2
    <3>2. \A n \in 0 .. N : turns[n] = IF n = 0 THEN window ELSE Turn(turns[n - 1])
      BY <2>5
    <3> QED BY <2>5, <3>1, <3>2
  <2> DEFINE P == {n \in Nat : n <= N => turns[n] = AdvanceBy(window, n)}
  <2>7. 0 \in P
    BY <2>1, <2>6, AdvanceByNothing
  <2>8. ASSUME NEW n \in Nat, n \in P PROVE n + 1 \in P
    <3> SUFFICES ASSUME n + 1 <= N PROVE turns[n + 1] = AdvanceBy(window, n + 1)
      OBVIOUS
    <3>1. n + 1 \in 1 .. N /\ (n + 1) - 1 = n /\ n <= N
      BY <2>2
    <3>2. turns[n + 1] = Turn(turns[n])
      BY <2>6, <3>1
    <3>3. AdvanceBy(window, n + 1) = Turn(AdvanceBy(window, n))
      BY <2>1, AdvanceByTurn
    <3> QED BY <2>8, <3>1, <3>2, <3>3
  <2>9. ASSUME NEW n \in 0 .. N
        PROVE  turns[n] = AdvanceBy(window, n) /\ SliceEnd(turns[n]) = SliceStart(window) + n * S + S
    <3>1. Nat \subseteq P
      <4> HIDE DEF P
      <4> QED BY <2>7, <2>8, Induction
    <3>2. n \in Nat /\ n <= N
      BY <2>2
    <3>3. turns[n] = AdvanceBy(window, n)
      BY <3>1, <3>2
    <3> QED BY <2>1, <3>2, <3>3, AdvanceByConsecutive DEF SliceEnd
  <2>10. \A m \in 0 .. k - 1 : t > SliceEnd(turns[m])
    <3> SUFFICES ASSUME NEW m \in 0 .. k - 1 PROVE t > SliceEnd(turns[m])
      OBVIOUS
    <3>1. m \in 0 .. N /\ m + 1 <= k /\ m \in Nat
      BY <2>2, <2>3, <2>4
    <3>2. (k - (m + 1)) * S >= 0 /\ (k - (m + 1)) * S = k * S - (m * S + S)
          /\ k * S \in Int /\ m * S \in Int
      BY <2>2, <2>3, <3>1
    <3>3. SliceEnd(turns[m]) = SliceStart(window) + m * S + S
      BY <2>9, <3>1
    <3> QED BY <2>1, <2>2, <2>3, <3>2, <3>3
  <2>11. ~(t > SliceEnd(turns[k])) /\ Advance(window, t) = turns[k]
    <3>1. turns[k] = AdvanceBy(window, k) /\ SliceEnd(turns[k]) = SliceStart(window) + k * S + S
      BY <2>4, <2>9
    <3>2. k * S \in Int
      BY <2>2, <2>3
    <3>3. SliceStart(window) + k * S + S \in Int
      BY <2>1, <2>2, <3>2
    <3> QED BY <2>1, <2>3, <3>1, <3>3 DEF Advance, k
  <2> QED BY <2>4, <2>6, <2>10, <2>11 DEF turns, N
<1> QED BY <1>1, Invariance, PTL

-----------------------------------------------------------------------------
(* An edge's state uses its window as SlidingWindow says: each of its steps is *)
(* a step of the window or leaves it alone (edge_state.go:55-105).             *)
THEOREM EdgeUsesWindow == EdgeSpec => Spec
<1>1. EdgeInit => Init
  BY DEF EdgeInit
<1>2. [EdgeNext]_edgeVars => [Next]_vars
  <2>1. ASSUME EdgeNext PROVE Next
    BY <2>1 DEF EdgeNext, Next, RecordConnect, RecordRetransmit, RecordClose, ComputeMetrics, Kinds
  <2>2. ASSUME UNCHANGED edgeVars PROVE UNCHANGED vars
    BY <2>2 DEF edgeVars, vars
  <2> QED BY <2>1, <2>2
<1> QED BY <1>1, <1>2, PTL DEF EdgeSpec, Spec

(* Whatever is recorded and however long the pauses, the ring's current bucket  *)
(* lies in the ring and no count goes below zero (window.go:74-116).            *)
THEOREM EdgeTypes == EdgeSpec => []TypeOK
<1>1. IInv => TypeOK
  BY DEF IInv
<1> QED BY <1>1, EdgeUsesWindow, Invariance, PTL

(* So the rates computed for an edge rest on exact counts.                     *)
THEOREM EdgeCountsExact == EdgeSpec => [](TypeOK /\ BucketsCountTheirSlice /\ ReadCoversTheWindow)
BY EdgeUsesWindow, BucketsExact, ReadsCover, PTL

-----------------------------------------------------------------------------
(* The histogram's boundaries. *)

(* The boundary after v.                                                        *)
Step(v) == AtLeast1(v \div SubBuckets)

NextBound(v) == IF v + Step(v) > MaxNs THEN MaxNs + 1 ELSE v + Step(v)

Bounds == 1 .. 2 * MaxNs + 1

From(g, v) == IF v > MaxNs THEN <<MaxNs + 1>> ELSE <<v>> \o g[v + Step(v)]

LEMMA QuotientAtMost ==
  ASSUME NEW a \in Nat, NEW s \in Nat \ {0}
  PROVE  a \div s \in Nat /\ a \div s <= a
<1> DEFINE q == a \div s
<1>1. q \in Nat /\ q * s <= a
  BY SMT
<1>2. q <= q * s
  <2> HIDE DEF q
  <2> QED BY <1>1
<1> HIDE DEF q
<1>3. q * s \in Nat
  BY <1>1
<1> QED BY <1>1, <1>2, <1>3 DEF q

LEMMA StepType ==
  ASSUME NEW v \in Nat
  PROVE  Step(v) \in Nat \ {0} /\ (v > 0 => Step(v) <= v)
BY QuotientAtMost, HistogramConstants DEF Step, AtLeast1

LEMMA StepsUp ==
  ASSUME NEW v \in Bounds, v <= MaxNs
  PROVE  v + Step(v) \in Bounds /\ v + Step(v) > v
<1>1. v \in Nat /\ v > 0 /\ MaxNs \in Nat
  BY HistogramConstants DEF Bounds
<1>2. Step(v) \in Nat \ {0} /\ Step(v) <= v
  BY <1>1, StepType
<1> QED BY <1>1, <1>2 DEF Bounds

(* The recursion is well defined: it only looks at larger bounds.               *)
LEMMA FromExists == \E g : g = [v \in Bounds |-> From(g, v)]
<1> DEFINE Top(m) == {v \in Bounds : v >= 2 * MaxNs + 1 - m}
           P == {m \in Nat : \E g : g = [v \in Top(m) |-> From(g, v)]}
<1>0. MaxNs \in Nat
  BY HistogramConstants
<1>1. 0 \in P
  <2>1. \A v \in Top(0) : v > MaxNs
    BY <1>0, HistogramConstants DEF Bounds
  <2> DEFINE g == [v \in Top(0) |-> <<MaxNs + 1>>]
  <2>2. g = [v \in Top(0) |-> From(g, v)]
    BY <2>1 DEF From
  <2> HIDE DEF g
  <2> QED BY <2>2
<1>2. ASSUME NEW m \in Nat, m \in P PROVE m + 1 \in P
  <2>1. PICK g : g = [v \in Top(m) |-> From(g, v)]
    BY <1>2
  <2> DEFINE h == [v \in Top(m + 1) |-> IF v \in Top(m) THEN g[v] ELSE From(g, v)]
  <2>2. Top(m) \subseteq Top(m + 1)
    BY <1>0 DEF Bounds
  <2>3. \A v \in Top(m + 1) : v <= MaxNs => v + Step(v) \in Top(m)
    <3> SUFFICES ASSUME NEW v \in Top(m + 1), v <= MaxNs PROVE v + Step(v) \in Top(m)
      OBVIOUS
    <3>1. v + Step(v) \in Bounds /\ v + Step(v) > v /\ v \in Nat /\ v >= 2 * MaxNs + 1 - (m + 1)
      BY StepsUp DEF Bounds
    <3>2. v + Step(v) \in Nat
      BY <3>1 DEF Bounds
    <3> QED BY <1>0, <3>1, <3>2
  <2>4. \A v \in Top(m + 1) : v <= MaxNs => h[v + Step(v)] = g[v + Step(v)]
    <3> HIDE DEF Top
    <3> QED BY <2>2, <2>3
  <2>5. \A v \in Top(m + 1) : From(h, v) = From(g, v)
    <3> SUFFICES ASSUME NEW v \in Top(m + 1) PROVE From(h, v) = From(g, v)
      OBVIOUS
    <3>1. v \in Nat
      BY DEF Bounds
    <3> HIDE DEF Top, h
    <3> QED BY <1>0, <2>4, <3>1 DEF From
  <2>6. h = [v \in Top(m + 1) |-> From(h, v)]
    <3>1. \A v \in Top(m) : g[v] = From(g, v)
      <4> HIDE DEF Top
      <4> QED BY <2>1
    <3>2. \A v \in Top(m + 1) : h[v] = From(h, v)
      <4> HIDE DEF Top
      <4>1. \A v \in Top(m + 1) : h[v] = From(g, v)
        BY <3>1
      <4> HIDE DEF h
      <4> QED BY <4>1, <2>5
    <3>3. h = [v \in Top(m + 1) |-> h[v]]
      <4> HIDE DEF Top
      <4> QED OBVIOUS
    <3> HIDE DEF h, Top
    <3> QED BY <3>2, <3>3
  <2> HIDE DEF h, Top
  <2> QED BY <2>6
<1>3. 2 * MaxNs \in P
  <2> HIDE DEF P
  <2>1. Nat \subseteq P
    BY <1>1, <1>2, Induction
  <2> QED BY <1>0, <2>1
<1>4. Top(2 * MaxNs) = Bounds
  BY <1>0 DEF Bounds
<1> HIDE DEF Top
<1> QED BY <1>3, <1>4

(* What the boundaries from v on look like.                                     *)
LaidOut(v, b) ==
  /\ b \in Seq(Nat) /\ Len(b) \in Nat \ {0}
  /\ b[1] = IF v > MaxNs THEN MaxNs + 1 ELSE v
  /\ b[Len(b)] = MaxNs + 1
  /\ \A i \in 1 .. Len(b) - 1 : b[i] <= MaxNs /\ b[i + 1] = NextBound(b[i])

LEMMA BoundariesLaidOut == LaidOut(AtLeast1(MinNs), bucketBoundaries)
<1> DEFINE from == CHOOSE g : g = [v \in Bounds |-> From(g, v)]
           Top(m) == {v \in Bounds : v >= 2 * MaxNs + 1 - m}
           P == {m \in Nat : \A v \in Top(m) : LaidOut(v, from[v])}
<1>0. MaxNs \in Nat /\ MinNs \in Nat /\ MinNs < MaxNs
  BY HistogramConstants
<1>1. from = [v \in Bounds |-> From(from, v)]
  BY FromExists
<1>2. bucketBoundaries = from[AtLeast1(MinNs)]
  BY DEF bucketBoundaries, Bounds, From, Step
<1> HIDE DEF from
<1>3. \A v \in Bounds : from[v] = From(from, v)
  BY <1>1
<1>4. ASSUME NEW v \in Bounds, v > MaxNs PROVE LaidOut(v, from[v])
  <2>1. from[v] = <<MaxNs + 1>>
    BY <1>3, <1>4 DEF From
  <2> DEFINE top == MaxNs + 1
  <2>2. top \in Nat
    BY <1>0
  <2> HIDE DEF top
  <2>3. <<top>> \in Seq(Nat) /\ Len(<<top>>) = 1 /\ <<top>>[1] = top
    BY <2>2
  <2> QED BY <1>4, <2>1, <2>3 DEF LaidOut, top
<1>5. ASSUME NEW v \in Bounds, v <= MaxNs, LaidOut(v + Step(v), from[v + Step(v)])
      PROVE LaidOut(v, from[v])
  <2> DEFINE t == from[v + Step(v)]
             b == <<v>> \o t
  <2>1. from[v] = b
    <3>1. ~(v > MaxNs)
      BY <1>0, <1>5 DEF Bounds
    <3>2. From(from, v) = <<v>> \o from[v + Step(v)]
      BY <3>1 DEF From
    <3> QED BY <1>3, <3>2
  <2>2. v \in Nat /\ v + Step(v) \in Nat
    BY <1>5, StepsUp DEF Bounds
  <2>3. /\ t \in Seq(Nat) /\ Len(t) \in Nat \ {0} /\ t[1] = NextBound(v) /\ t[Len(t)] = MaxNs + 1
        /\ \A i \in 1 .. Len(t) - 1 : t[i] <= MaxNs /\ t[i + 1] = NextBound(t[i])
    BY <1>5 DEF LaidOut, NextBound
  <2> HIDE DEF t
  <2>4. /\ b \in Seq(Nat) /\ Len(b) = Len(t) + 1 /\ b[1] = v
        /\ \A i \in 1 .. Len(t) : b[i + 1] = t[i]
    <3>1. <<v>> \in Seq(Nat) /\ Len(<<v>>) = 1 /\ <<v>>[1] = v
      BY <2>2
    <3>2. b \in Seq(Nat) /\ Len(b) = 1 + Len(t)
          /\ \A i \in 1 .. 1 + Len(t) : b[i] = IF i <= 1 THEN <<v>>[i] ELSE t[i - 1]
      BY <2>3, <3>1, ConcatProperties
    <3> HIDE DEF b
    <3> QED BY <2>3, <3>1, <3>2
  <2> HIDE DEF b
  <2>5. b[Len(b)] = MaxNs + 1
    BY <2>3, <2>4
  <2>6. ASSUME NEW i \in 1 .. Len(b) - 1 PROVE b[i] <= MaxNs /\ b[i + 1] = NextBound(b[i])
    <3>1. CASE i = 1
      BY <1>5, <2>3, <2>4, <3>1
    <3>2. CASE i > 1
      <4>1. i - 1 \in 1 .. Len(t) - 1 /\ i - 1 \in 1 .. Len(t) /\ i \in 1 .. Len(t)
        BY <2>3, <2>4, <3>2
      <4>2. b[i] = t[i - 1] /\ b[i + 1] = t[i]
        <5>1. (i - 1) + 1 = i
          BY <2>3, <2>4
        <5> QED BY <2>4, <4>1, <5>1
      <4>3. t[i - 1] <= MaxNs /\ t[(i - 1) + 1] = NextBound(t[i - 1]) /\ (i - 1) + 1 = i
        BY <2>3, <4>1
      <4> QED BY <4>2, <4>3
    <3> QED BY <2>3, <2>4, <3>1, <3>2
  <2> QED BY <1>0, <1>5, <2>1, <2>2, <2>3, <2>4, <2>5, <2>6 DEF LaidOut
<1>6. 0 \in P
  <2>1. \A v \in Top(0) : v > MaxNs
    BY <1>0 DEF Bounds
  <2> QED BY <1>4, <2>1
<1>7. ASSUME NEW m \in Nat, m \in P PROVE m + 1 \in P
  <2> SUFFICES ASSUME NEW v \in Top(m + 1) PROVE LaidOut(v, from[v])
    OBVIOUS
  <2>1. CASE v > MaxNs
    BY <1>4, <2>1
  <2>2. CASE v <= MaxNs
    <3>1. v + Step(v) \in Bounds /\ v + Step(v) > v /\ v \in Nat /\ v >= 2 * MaxNs + 1 - (m + 1)
      BY <2>2, StepsUp DEF Bounds
    <3>2. v + Step(v) \in Nat
      BY <3>1 DEF Bounds
    <3>3. v + Step(v) \in Top(m)
      BY <1>0, <3>1, <3>2
    <3> QED BY <1>5, <1>7, <2>2, <3>3
  <2> QED BY <1>0, <2>1, <2>2 DEF Bounds
<1>8. 2 * MaxNs \in P
  <2> HIDE DEF P
  <2>1. Nat \subseteq P
    BY <1>6, <1>7, Induction
  <2> QED BY <1>0, <2>1
<1>9. AtLeast1(MinNs) \in Top(2 * MaxNs)
  BY <1>0 DEF Bounds, AtLeast1
<1> HIDE DEF Top
<1> QED BY <1>2, <1>8, <1>9

(* The boundaries rise.                                                         *)
LEMMA BoundariesRise ==
  /\ bucketBoundaries \in Seq(Nat) /\ Len(bucketBoundaries) \in Nat \ {0}
  /\ BucketIds = 1 .. Len(bucketBoundaries)
  /\ bucketBoundaries[1] = AtLeast1(MinNs) /\ bucketBoundaries[Len(bucketBoundaries)] = MaxNs + 1
  /\ \A i \in 1 .. Len(bucketBoundaries) - 1 : bucketBoundaries[i + 1] = NextBound(bucketBoundaries[i])
  /\ \A i, j \in BucketIds : i < j => bucketBoundaries[i] < bucketBoundaries[j]
<1> DEFINE b == bucketBoundaries
<1>1. LaidOut(AtLeast1(MinNs), b)
  BY BoundariesLaidOut
<1> HIDE DEF b
<1>0. MaxNs \in Nat /\ MinNs \in Nat /\ MinNs < MaxNs
  BY HistogramConstants
<1>2. /\ b \in Seq(Nat) /\ Len(b) \in Nat \ {0} /\ b[1] = AtLeast1(MinNs) /\ b[Len(b)] = MaxNs + 1
      /\ \A i \in 1 .. Len(b) - 1 : b[i] <= MaxNs /\ b[i + 1] = NextBound(b[i])
  BY <1>0, <1>1 DEF LaidOut, AtLeast1
<1>3. \A i \in 1 .. Len(b) : b[i] \in Nat
  BY <1>2
<1>4. ASSUME NEW i \in 1 .. Len(b) - 1 PROVE b[i] < b[i + 1]
  <2>1. b[i] \in Nat /\ b[i] <= MaxNs /\ b[i + 1] = NextBound(b[i])
    BY <1>2, <1>3
  <2>2. Step(b[i]) \in Nat \ {0}
    BY <2>1, StepType
  <2> QED BY <1>0, <2>1, <2>2 DEF NextBound
<1> DEFINE P == {n \in Nat : \A i \in 1 .. Len(b) : i + n \in 1 .. Len(b) /\ n > 0 => b[i] < b[i + n]}
<1>5. ASSUME NEW n \in Nat, n \in P PROVE n + 1 \in P
  <2> SUFFICES ASSUME NEW i \in 1 .. Len(b), i + (n + 1) \in 1 .. Len(b)
               PROVE b[i] < b[i + (n + 1)]
    OBVIOUS
  <2> DEFINE k == i + n
  <2>1. k \in 1 .. Len(b) - 1 /\ k \in 1 .. Len(b) /\ k + 1 \in 1 .. Len(b) /\ k + 1 = i + (n + 1)
    BY <1>2
  <2>2. b[k] < b[k + 1]
    BY <1>4, <2>1
  <2>3. n > 0 => b[i] < b[k]
    BY <1>5, <2>1
  <2>4. n = 0 => b[i] = b[k]
    OBVIOUS
  <2>5. b[i] \in Nat /\ b[k] \in Nat /\ b[k + 1] \in Nat
    BY <1>3, <2>1
  <2> HIDE DEF k
  <2> QED BY <2>1, <2>2, <2>3, <2>4, <2>5
<1>6. 0 \in P
  OBVIOUS
<1>7. Nat \subseteq P
  <2> HIDE DEF P
  <2> QED BY <1>5, <1>6, Induction
<1>8. ASSUME NEW i \in 1 .. Len(b), NEW j \in 1 .. Len(b), i < j PROVE b[i] < b[j]
  <2>1. j - i \in P /\ i + (j - i) = j /\ j - i > 0
    <3>1. j - i \in Nat /\ i + (j - i) = j /\ j - i > 0
      BY <1>2, <1>8
    <3> HIDE DEF P
    <3> QED BY <1>7, <3>1
  <2> QED BY <2>1
<1>9. BucketIds = 1 .. Len(b)
  BY DEF BucketIds, b
<1> QED BY <1>2, <1>8, <1>9 DEF b

-----------------------------------------------------------------------------
(* The binary search. *)

Ranges == BucketIds \X BucketIds

Halve(g, ns, r) ==
  LET lo == r[1]
      mid == (r[1] + r[2]) \div 2
  IN  IF lo >= r[2] THEN lo
      ELSE IF bucketBoundaries[mid] < ns THEN g[<<mid + 1, r[2]>>] ELSE g[<<lo, mid>>]

LEMMA Middle ==
  ASSUME NEW r \in Ranges, r[1] < r[2]
  PROVE  LET mid == (r[1] + r[2]) \div 2 IN
         /\ mid \in BucketIds /\ mid + 1 \in BucketIds /\ r[1] <= mid /\ mid < r[2]
         /\ <<mid + 1, r[2]>> \in Ranges /\ <<r[1], mid>> \in Ranges
<1>1. r[1] \in BucketIds /\ r[2] \in BucketIds /\ BucketIds = 1 .. Len(bucketBoundaries)
      /\ Len(bucketBoundaries) \in Nat
  BY BoundariesRise DEF Ranges
<1> DEFINE mid == (r[1] + r[2]) \div 2
<1>2. mid \in Int /\ r[1] <= mid /\ mid < r[2]
  BY <1>1
<1> HIDE DEF mid
<1>3. mid \in BucketIds /\ mid + 1 \in BucketIds
  BY <1>1, <1>2
<1> QED BY <1>1, <1>2, <1>3 DEF mid, Ranges

(* The search is well defined: every range it looks at is shorter.              *)
LEMMA SearchExists ==
  ASSUME NEW ns
  PROVE  \E g : g = [r \in Ranges |-> Halve(g, ns, r)]
<1> DEFINE Near(m) == {r \in Ranges : r[2] - r[1] <= m}
           P == {m \in Nat : \E g : g = [r \in Near(m) |-> Halve(g, ns, r)]}
<1>0. Len(bucketBoundaries) \in Nat \ {0} /\ BucketIds = 1 .. Len(bucketBoundaries)
      /\ \A r \in Ranges : r[1] \in BucketIds /\ r[2] \in BucketIds
  BY BoundariesRise DEF Ranges
<1>1. 0 \in P
  <2> DEFINE g == [r \in Near(0) |-> r[1]]
  <2>1. \A r \in Near(0) : r[1] >= r[2]
    BY <1>0
  <2>2. \A r \in Near(0) : Halve(g, ns, r) = r[1]
    BY <2>1 DEF Halve
  <2>3. g = [r \in Near(0) |-> Halve(g, ns, r)]
    BY <2>2
  <2> HIDE DEF g
  <2> QED BY <2>3
<1>2. ASSUME NEW m \in Nat, m \in P PROVE m + 1 \in P
  <2>1. PICK g : g = [r \in Near(m) |-> Halve(g, ns, r)]
    BY <1>2
  <2> DEFINE h == [r \in Near(m + 1) |-> IF r \in Near(m) THEN g[r] ELSE Halve(g, ns, r)]
  <2>2. Near(m) \subseteq Near(m + 1)
    BY <1>0
  <2>3. ASSUME NEW r \in Near(m + 1) PROVE Halve(h, ns, r) = Halve(g, ns, r)
    <3>1. CASE r[1] >= r[2]
      BY <3>1 DEF Halve
    <3>2. CASE r[1] < r[2]
      <4> DEFINE mid == (r[1] + r[2]) \div 2
      <4>1. /\ r[1] <= mid /\ mid < r[2] /\ <<mid + 1, r[2]>> \in Ranges /\ <<r[1], mid>> \in Ranges
            /\ mid \in BucketIds
        BY <3>2, Middle
      <4>2. r[2] - r[1] <= m + 1 /\ r[1] \in BucketIds /\ r[2] \in BucketIds
        BY <1>0
      <4> HIDE DEF mid
      <4>3. <<mid + 1, r[2]>> \in Near(m) /\ <<r[1], mid>> \in Near(m)
        BY <1>0, <4>1, <4>2
      <4>4. h[<<mid + 1, r[2]>>] = g[<<mid + 1, r[2]>>] /\ h[<<r[1], mid>>] = g[<<r[1], mid>>]
        <5> HIDE DEF Near
        <5> QED BY <2>2, <4>3
      <4> HIDE DEF h
      <4> QED BY <4>4 DEF Halve, mid
    <3> QED BY <1>0, <3>1, <3>2
  <2>4. \A r \in Near(m) : g[r] = Halve(g, ns, r)
    <3> HIDE DEF Near
    <3> QED BY <2>1
  <2>5. \A r \in Near(m + 1) : h[r] = Halve(h, ns, r)
    <3>1. \A r \in Near(m + 1) : h[r] = Halve(g, ns, r)
      <4> HIDE DEF Near
      <4> QED BY <2>4
    <3> HIDE DEF h, Near
    <3> QED BY <2>3, <3>1
  <2>6. h = [r \in Near(m + 1) |-> h[r]]
    <3> HIDE DEF Near
    <3> QED OBVIOUS
  <2>7. h = [r \in Near(m + 1) |-> Halve(h, ns, r)]
    <3> HIDE DEF h, Near
    <3> QED BY <2>5, <2>6
  <2> HIDE DEF h, Near
  <2> QED BY <2>7
<1>3. Len(bucketBoundaries) \in P
  <2> HIDE DEF P
  <2>1. Nat \subseteq P
    BY <1>1, <1>2, Induction
  <2> QED BY <1>0, <2>1
<1>4. Near(Len(bucketBoundaries)) = Ranges
  BY <1>0
<1> HIDE DEF Near
<1> QED BY <1>3, <1>4

(* The bucket found is the first whose bound is not below the duration.         *)
LEMMA FoundBucket ==
  ASSUME NEW ns \in Nat, ns <= MaxNs
  PROVE  /\ bucketIndex(ns) \in BucketIds
         /\ \A i \in BucketIds : bucketBoundaries[i] >= ns <=> i >= bucketIndex(ns)
<1> DEFINE search == CHOOSE g : g = [r \in Ranges |-> Halve(g, ns, r)]
           b == bucketBoundaries
           Apt(r) == b[r[2]] >= ns /\ \A i \in BucketIds : i < r[1] => b[i] < ns
           Right(x) == x \in BucketIds /\ b[x] >= ns /\ \A i \in BucketIds : i < x => b[i] < ns
           P == {m \in Nat : \A r \in Ranges :
                   r[1] <= r[2] /\ r[2] - r[1] <= m /\ Apt(r) => Right(search[r])}
<1>1. search = [r \in Ranges |-> Halve(search, ns, r)]
  BY SearchExists
<1>2. bucketIndex(ns) = search[<<1, Len(bucketBoundaries)>>]
  BY DEF bucketIndex, Halve, Ranges
<1> HIDE DEF search, b
<1>3. \A r \in Ranges : search[r] = Halve(search, ns, r)
  BY <1>1
<1>0. /\ Len(b) \in Nat \ {0} /\ BucketIds = 1 .. Len(b) /\ b[Len(b)] = MaxNs + 1
      /\ \A i \in BucketIds : b[i] \in Nat
      /\ \A i, j \in BucketIds : i < j => b[i] < b[j]
      /\ \A r \in Ranges : r[1] \in BucketIds /\ r[2] \in BucketIds
  BY BoundariesRise DEF Ranges, b
<1>4. ASSUME NEW r \in Ranges, r[1] = r[2], Apt(r) PROVE Right(search[r])
  <2>1. r[1] >= r[2] /\ r[1] \in BucketIds
    BY <1>0, <1>4
  <2>2. Halve(search, ns, r) = r[1]
    BY <2>1 DEF Halve
  <2>3. search[r] = r[1]
    BY <1>3, <2>2
  <2> QED BY <1>4, <2>1, <2>3
<1>5. 0 \in P
  <2>1. \A r \in Ranges : r[1] <= r[2] /\ r[2] - r[1] <= 0 => r[1] = r[2]
    BY <1>0
  <2> HIDE DEF Apt, Right
  <2> QED BY <1>4, <2>1
<1>6. ASSUME NEW m \in Nat, m \in P PROVE m + 1 \in P
  <2> SUFFICES ASSUME NEW r \in Ranges, r[1] <= r[2], r[2] - r[1] <= m + 1, Apt(r)
               PROVE Right(search[r])
    OBVIOUS
  <2>1. CASE r[1] = r[2]
    BY <1>4, <2>1
  <2>2. CASE r[1] < r[2]
    <3> DEFINE mid == (r[1] + r[2]) \div 2
    <3>1. /\ r[1] <= mid /\ mid < r[2] /\ <<mid + 1, r[2]>> \in Ranges /\ <<r[1], mid>> \in Ranges
          /\ mid \in BucketIds
      BY <2>2, Middle
    <3>2. search[r] = IF b[mid] < ns THEN search[<<mid + 1, r[2]>>] ELSE search[<<r[1], mid>>]
      <4>1. ~(r[1] >= r[2])
        BY <1>0, <2>2
      <4>2. Halve(search, ns, r)
              = IF b[mid] < ns THEN search[<<mid + 1, r[2]>>] ELSE search[<<r[1], mid>>]
        BY <4>1 DEF Halve, b
      <4> QED BY <1>3, <4>2
    <3> HIDE DEF mid
    <3>3. CASE b[mid] < ns
      <4> DEFINE q == <<mid + 1, r[2]>>
      <4>1. q \in Ranges /\ q[1] = mid + 1 /\ q[2] = r[2]
        BY <3>1
      <4>2. q[1] <= q[2] /\ q[2] - q[1] <= m
        BY <1>0, <3>1, <4>1
      <4>3. Apt(q)
        <5>1. \A i \in BucketIds : i < mid + 1 => b[i] < ns
          <6> SUFFICES ASSUME NEW i \in BucketIds, i < mid + 1 PROVE b[i] < ns
            OBVIOUS
          <6>1. i = mid \/ b[i] < b[mid]
            BY <1>0, <3>1
          <6>2. b[i] \in Nat /\ b[mid] \in Nat
            BY <1>0, <3>1
          <6> QED BY <3>3, <6>1, <6>2
        <5> QED BY <4>1, <5>1
      <4> HIDE DEF q, Apt, Right
      <4>4. Right(search[q])
        BY <1>6, <4>1, <4>2, <4>3
      <4> QED BY <3>2, <3>3, <4>4 DEF q
    <3>4. CASE ~(b[mid] < ns)
      <4> DEFINE q == <<r[1], mid>>
      <4>1. q \in Ranges /\ q[1] = r[1] /\ q[2] = mid
        BY <3>1
      <4>2. q[1] <= q[2] /\ q[2] - q[1] <= m
        BY <1>0, <3>1, <4>1
      <4>3. Apt(q)
        <5>1. b[mid] \in Nat
          BY <1>0, <3>1
        <5>2. b[mid] >= ns
          BY <3>4, <5>1
        <5> QED BY <4>1, <5>2
      <4> HIDE DEF q, Apt, Right
      <4>4. Right(search[q])
        BY <1>6, <4>1, <4>2, <4>3
      <4> QED BY <3>2, <3>4, <4>4 DEF q
    <3> QED BY <3>3, <3>4
  <2> HIDE DEF Apt, Right
  <2> QED BY <1>0, <2>1, <2>2
<1>7. Right(bucketIndex(ns))
  <2> DEFINE r == <<1, Len(b)>>
  <2>1. r \in Ranges /\ r[1] = 1 /\ r[2] = Len(b)
    BY <1>0 DEF Ranges
  <2>2. Apt(r)
    <3>1. MaxNs \in Nat
      BY HistogramConstants
    <3> QED BY <1>0, <2>1, <3>1
  <2>3. r[1] <= r[2] /\ r[2] - r[1] <= Len(b)
    BY <1>0, <2>1
  <2>4. Len(b) \in P
    <3> HIDE DEF P
    <3>1. Nat \subseteq P
      BY <1>5, <1>6, Induction
    <3> QED BY <1>0, <3>1
  <2> HIDE DEF Apt, Right, r
  <2>5. Right(search[r])
    BY <2>1, <2>2, <2>3, <2>4
  <2> QED BY <1>2, <2>5 DEF r, b
<1>8. ASSUME NEW i \in BucketIds PROVE b[i] >= ns <=> i >= bucketIndex(ns)
  <2> DEFINE x == bucketIndex(ns)
  <2>1. x \in BucketIds /\ b[x] >= ns /\ (i < x => b[i] < ns)
    BY <1>7
  <2> HIDE DEF x
  <2>2. b[i] \in Nat /\ b[x] \in Nat /\ (x < i => b[x] < b[i]) /\ i \in Int /\ x \in Int
    BY <1>0, <2>1
  <2>3. b[i] >= ns <=> i >= x
    BY <2>1, <2>2
  <2> QED BY <2>3 DEF x
<1> QED BY <1>7, <1>8 DEF b

-----------------------------------------------------------------------------
(* Percentiles. *)

LEMMA LeastOf ==
  ASSUME NEW T \in SUBSET Nat, T # {}
  PROVE  Min(T) \in T /\ \A y \in T : Min(T) <= y
BY LeastNat DEF Min

LEMMA ClampedDuration ==
  ASSUME NEW d \in Nat
  PROVE  Clamp(d) \in Nat /\ MinNs <= Clamp(d) /\ Clamp(d) <= MaxNs
BY HistogramConstants DEF Clamp

(* The bucket that a duration is counted in.                                    *)
BucketOf(d) == bucketIndex(Clamp(d))

LEMMA BucketOfDuration ==
  ASSUME NEW d \in Nat
  PROVE  /\ BucketOf(d) \in BucketIds
         /\ \A i \in BucketIds : bucketBoundaries[i] >= Clamp(d) <=> i >= BucketOf(d)
BY ClampedDuration, FoundBucket DEF BucketOf

(* The connections recorded in the buckets up to i, and of durations up to x.   *)
InBuckets(i) == [d \in Durations |-> IF BucketOf(d) <= i THEN recorded[d] ELSE 0]
UpTo(x) == [d \in Durations |-> IF Clamp(d) <= x THEN recorded[d] ELSE 0]

LEMMA UpToSum ==
  ASSUME NEW x
  PROVE  AtMost(x) = SumOf(UpTo(x), Durations)
<1> DEFINE F == UpTo(x)
           A(g) == [s \in SUBSET Durations |->
                      IF s = {} THEN 0
                      ELSE LET d == CHOOSE d \in s : TRUE
                           IN  (IF Clamp(d) <= x THEN recorded[d] ELSE 0) + g[s \ {d}]]
           B(g) == [s \in SUBSET Durations |->
                      IF s = {} THEN 0 ELSE LET d == CHOOSE d \in s : TRUE IN F[d] + g[s \ {d}]]
<1>1. ASSUME NEW g PROVE A(g) = B(g)
  <2>1. \A s \in SUBSET Durations : s # {} => (CHOOSE d \in s : TRUE) \in Durations
    OBVIOUS
  <2>2. \A d \in Durations : F[d] = IF Clamp(d) <= x THEN recorded[d] ELSE 0
    BY DEF UpTo
  <2> HIDE DEF F
  <2> QED BY <2>1, <2>2
<1>2. (CHOOSE g : g = A(g)) = (CHOOSE g : g = B(g))
  <2> HIDE DEF A, B
  <2> QED BY <1>1
<1> QED BY <1>2 DEF AtMost, SumOf, MapThenSumSet, MapThenFoldSet

(* What the histogram holds of what was recorded.                               *)
HistogramIsRecorded ==
  /\ hist \in [BucketIds -> Nat]
  /\ recorded \in [Durations -> Nat]
  /\ \A i \in BucketIds : cumulative(hist, i) = SumOf(InBuckets(i), Durations)

LEMMA SumTypes ==
  ASSUME HistogramIsRecorded
  PROVE  /\ IsFiniteSet(Durations) /\ Durations \subseteq Nat
         /\ \A i : \A d \in Durations : InBuckets(i)[d] \in Nat /\ InBuckets(i)[d] <= recorded[d]
         /\ \A x : \A d \in Durations : UpTo(x)[d] \in Nat /\ UpTo(x)[d] <= recorded[d]
         /\ Closed = SumOf(recorded, Durations) /\ Closed \in Nat
         /\ totalCount(hist) = Closed
<1>1. IsFiniteSet(Durations) /\ Durations \subseteq Nat
  BY HistogramConstants
<1>2. \A d \in Durations : recorded[d] \in Nat
  BY DEF HistogramIsRecorded
<1>3. \A i : \A d \in Durations : InBuckets(i)[d] \in Nat /\ InBuckets(i)[d] <= recorded[d]
  BY <1>2 DEF InBuckets
<1>4. \A x : \A d \in Durations : UpTo(x)[d] \in Nat /\ UpTo(x)[d] <= recorded[d]
  BY <1>2 DEF UpTo
<1>5. Closed = SumOf(recorded, Durations)
  BY DEF Closed, SumOf
<1>6. Closed \in Nat
  BY <1>1, <1>2, <1>5, SumType
<1>7. totalCount(hist) = Closed
  <2> DEFINE top == Len(bucketBoundaries)
  <2>1. top \in BucketIds /\ BucketIds = 1 .. top
    BY BoundariesRise
  <2> HIDE DEF top
  <2>2. cumulative(hist, top) = SumOf(InBuckets(top), Durations)
    BY <2>1 DEF HistogramIsRecorded
  <2>3. totalCount(hist) = cumulative(hist, top)
    BY <2>1 DEF totalCount, cumulative
  <2>4. \A d \in Durations : InBuckets(top)[d] \in Nat /\ InBuckets(top)[d] = recorded[d]
    <3>1. \A d \in Durations : BucketOf(d) <= top
      BY <1>1, <2>1, BucketOfDuration
    <3> QED BY <1>2, <3>1 DEF InBuckets
  <2>5. SumOf(InBuckets(top), Durations) = SumOf(recorded, Durations)
    BY <1>1, <2>4, SumSame
  <2> QED BY <1>5, <2>2, <2>3, <2>5
<1> QED BY <1>1, <1>3, <1>4, <1>5, <1>6, <1>7

(* One part in SubBuckets of a larger number is no smaller.                     *)
LEMMA QuotientRises ==
  ASSUME NEW a \in Nat, NEW c \in Nat, NEW s \in Nat \ {0}, a <= c
  PROVE  a \div s <= c \div s
<1> DEFINE q == a \div s
           r == c \div s
<1>1. q \in Nat /\ q * s <= a /\ r \in Nat /\ c < r * s + s
  BY SMT
<1> HIDE DEF q, r
<1>2. SUFFICES ASSUME q >= r + 1 PROVE FALSE
  BY <1>1 DEF q, r
<1>3. (q - (r + 1)) * s >= 0
  BY <1>1, <1>2
<1>4. (q - (r + 1)) * s = q * s - (r * s + s) /\ q * s \in Int /\ r * s \in Int
  BY <1>1
<1> QED BY <1>1, <1>3, <1>4

(* The boundary of a clamped duration's bucket is the duration or above it by   *)
(* less than one of its steps.                                                  *)
LEMMA BoundaryIsClose ==
  ASSUME NEW ns \in Nat, MinNs <= ns, ns <= MaxNs
  PROVE  LET b == bucketBoundaries[bucketIndex(ns)] IN
         b >= AtLeast1(ns) /\ b - AtLeast1(ns) < AtLeast1(ns \div SubBuckets)
<1> DEFINE x == bucketIndex(ns)
           c == bucketBoundaries
<1>1. x \in BucketIds /\ \A i \in BucketIds : c[i] >= ns <=> i >= x
  BY FoundBucket
<1> SUFFICES c[x] >= AtLeast1(ns) /\ c[x] - AtLeast1(ns) < AtLeast1(ns \div SubBuckets)
  OBVIOUS
<1> HIDE DEF x
<1>2. /\ Len(c) \in Nat \ {0} /\ BucketIds = 1 .. Len(c) /\ c[1] = AtLeast1(MinNs)
      /\ \A i \in 1 .. Len(c) - 1 : c[i + 1] = NextBound(c[i])
      /\ \A i \in BucketIds : c[i] \in Nat
      /\ \A i, j \in BucketIds : i < j => c[i] < c[j]
  BY BoundariesRise
<1> HIDE DEF c
<1>0. MinNs \in Nat /\ MaxNs \in Nat /\ SubBuckets \in Nat \ {0}
  BY HistogramConstants
<1>3. c[x] >= ns /\ c[x] \in Nat /\ x \in Nat
  BY <1>1, <1>2
<1>4. ns \div SubBuckets \in Nat
  BY <1>0, QuotientAtMost
<1>5. CASE x = 1
  <2>1. c[x] = AtLeast1(MinNs) /\ c[x] = AtLeast1(ns)
    BY <1>0, <1>2, <1>3, <1>5 DEF AtLeast1
  <2>2. AtLeast1(ns \div SubBuckets) \in Nat \ {0}
    BY <1>4 DEF AtLeast1
  <2> QED BY <1>3, <2>1, <2>2
<1>6. CASE x # 1
  <2> DEFINE v == c[x - 1]
  <2>1. x - 1 \in BucketIds /\ x - 1 \in 1 .. Len(c) - 1 /\ (x - 1) + 1 = x /\ ~(x - 1 >= x)
    BY <1>1, <1>2, <1>6
  <2>2. v \in Nat /\ v < ns /\ c[x] = NextBound(v)
    <3>1. v \in Nat /\ ~(v >= ns)
      BY <1>1, <1>2, <2>1
    <3> QED BY <1>2, <2>1, <3>1
  <2>3. v >= 1
    <3>1. 1 \in BucketIds /\ c[1] >= 1
      BY <1>0, <1>2 DEF AtLeast1
    <3>2. x - 1 = 1 \/ c[1] < c[x - 1]
      BY <1>2, <2>1, <3>1
    <3> QED BY <1>2, <2>1, <3>1, <3>2
  <2> HIDE DEF v
  <2>4. Step(v) \in Nat \ {0}
    BY <2>2, StepType
  <2>5. c[x] <= v + Step(v)
    BY <1>0, <2>2, <2>4 DEF NextBound
  <2>6. Step(v) <= AtLeast1(ns \div SubBuckets)
    <3>1. v \div SubBuckets <= ns \div SubBuckets /\ v \div SubBuckets \in Nat
      BY <1>0, <2>2, QuotientRises, QuotientAtMost
    <3> QED BY <1>4, <3>1 DEF Step, AtLeast1
  <2>7. AtLeast1(ns) = ns /\ AtLeast1(ns \div SubBuckets) \in Nat
    BY <1>4, <2>2, <2>3 DEF AtLeast1
  <2> QED BY <1>3, <2>2, <2>4, <2>5, <2>6, <2>7
<1> QED BY <1>5, <1>6

(* The bucket at which a rank is reached is that of the duration of that rank.  *)
LEMMA RankAndBucket ==
  ASSUME HistogramIsRecorded, NEW rank \in Nat \ {0}, rank <= Closed
  PROVE  /\ Sorted(rank) \in {Clamp(d) : d \in Durations}
         /\ Min({i \in BucketIds : cumulative(hist, i) >= rank}) = bucketIndex(Sorted(rank))
<1> DEFINE C == {Clamp(d) : d \in Durations}
           T == {x \in C : SumOf(UpTo(x), Durations) >= rank}
           I == {i \in BucketIds : cumulative(hist, i) >= rank}
           c == bucketBoundaries
<1>1. /\ IsFiniteSet(Durations) /\ Durations \subseteq Nat /\ Closed = SumOf(recorded, Durations)
      /\ \A i : \A d \in Durations : InBuckets(i)[d] \in Nat
      /\ \A x : \A d \in Durations : UpTo(x)[d] \in Nat
      /\ \A d \in Durations : recorded[d] \in Nat
  BY SumTypes DEF HistogramIsRecorded
<1>2. C \subseteq Nat /\ \A x \in C : MinNs <= x /\ x <= MaxNs
  BY <1>1, ClampedDuration
<1>3. MaxNs \in Nat
  BY HistogramConstants
<1>4. /\ BucketIds \subseteq Nat /\ c[Len(c)] = MaxNs + 1 /\ Len(c) \in BucketIds
      /\ \A i \in BucketIds : c[i] \in Nat
  BY BoundariesRise
<1> HIDE DEF c
<1>5. \A x : SumOf(UpTo(x), Durations) \in Nat
  BY <1>1, SumType
<1>6. \A i \in BucketIds : cumulative(hist, i) = SumOf(InBuckets(i), Durations)
      /\ SumOf(InBuckets(i), Durations) \in Nat
  BY <1>1, SumType DEF HistogramIsRecorded
<1>7. \A x \in C : bucketIndex(x) \in BucketIds
                   /\ \A i \in BucketIds : c[i] >= x <=> i >= bucketIndex(x)
  BY <1>2, FoundBucket DEF c
(* A limit at which the rank is reached has a duration below it that does.      *)
<1>8. ASSUME NEW y \in Nat, SumOf(UpTo(y), Durations) >= rank
      PROVE  \E x \in T : x <= y
  <2> DEFINE L == {x \in C : x <= y}
             G == {y - x : x \in L}
  <2>1. L # {}
    <3>1. SUFFICES ASSUME L = {} PROVE FALSE
      OBVIOUS
    <3>2. \A d \in Durations : UpTo(y)[d] <= 0
      BY <3>1 DEF UpTo
    <3>3. SumOf(UpTo(y), Durations) <= Cardinality(Durations) * 0
      BY <1>1, <3>2, SumBound
    <3>4. Cardinality(Durations) \in Nat
      BY <1>1, FS_CardinalityType
    <3> QED BY <1>5, <1>8, <3>3, <3>4
  <2>2. G \in SUBSET Nat /\ G # {}
    BY <1>2, <2>1
  <2>3. PICK g \in G : \A h \in G : g <= h
    BY <2>2, LeastNat
  <2>4. PICK x \in L : g = y - x
    BY <2>3
  <2>5. ASSUME NEW z \in L PROVE z <= x
    <3>1. y - z \in G
      OBVIOUS
    <3>2. g <= y - z
      BY <2>3, <3>1
    <3>3. x \in Nat /\ z \in Nat
      BY <1>2, <2>4
    <3> QED BY <2>4, <3>2, <3>3
  <2>6. \A d \in Durations : Clamp(d) <= x <=> Clamp(d) <= y
    BY <1>2, <2>4, <2>5
  <2>7. UpTo(x) = UpTo(y)
    BY <2>6 DEF UpTo
  <2> QED BY <1>8, <2>4, <2>7
<1>9. T # {}
  <2> DEFINE all == UpTo(MaxNs)
  <2>1. \A d \in Durations : all[d] \in Nat /\ all[d] = recorded[d]
    BY <1>1, <1>2 DEF UpTo
  <2>2. SumOf(all, Durations) = Closed
    <3> HIDE DEF all
    <3>1. SumOf(all, Durations) = SumOf(recorded, Durations)
      BY <1>1, <2>1, SumSame
    <3> QED BY <1>1, <3>1
  <2>3. SumOf(UpTo(MaxNs), Durations) >= rank
    BY <1>1, <1>5, <2>2
  <2> QED BY <1>3, <1>8, <2>3
<1>10. Sorted(rank) = Min(T)
  <2> DEFINE U == {x \in C : AtMost(x) >= rank}
  <2>1. Sorted(rank) = Min(U)
    BY DEF Sorted
  <2>2. U = T
    <3> HIDE DEF C
    <3> QED BY UpToSum
  <2> QED BY <2>1, <2>2
<1> DEFINE e == Min(T)
           x == bucketIndex(e)
<1>11. e \in T /\ \A y \in T : e <= y
  BY <1>2, <1>9, LeastOf
<1> HIDE DEF e
<1>12. e \in C /\ e \in Nat /\ SumOf(UpTo(e), Durations) >= rank
  BY <1>2, <1>11
<1>13. x \in BucketIds /\ \A i \in BucketIds : c[i] >= e <=> i >= x
  BY <1>7, <1>12
<1> HIDE DEF x
<1>14. x \in I
  <2>1. ASSUME NEW d \in Durations PROVE UpTo(e)[d] <= InBuckets(x)[d]
    <3>1. Clamp(d) \in Nat /\ BucketOf(d) \in BucketIds /\ (c[x] >= Clamp(d) <=> x >= BucketOf(d))
      BY <1>1, <1>13, ClampedDuration, BucketOfDuration DEF c
    <3>2. x \in Nat /\ c[x] \in Nat /\ BucketOf(d) \in Nat
      BY <1>4, <1>13, <3>1
    <3>4. c[x] >= e
      BY <1>13, <3>2
    <3>3. Clamp(d) <= e => BucketOf(d) <= x
      BY <1>12, <3>1, <3>2, <3>4
    <3> QED BY <1>1, <3>3 DEF UpTo, InBuckets
  <2>2. SumOf(UpTo(e), Durations) <= SumOf(InBuckets(x), Durations)
    BY <1>1, <2>1, SumMonotone
  <2> QED BY <1>5, <1>6, <1>12, <1>13, <2>2
<1>15. ASSUME NEW i \in I PROVE x <= i
  <2>1. SUFFICES ASSUME i < x PROVE FALSE
    BY <1>4, <1>13
  <2>2. c[i] < e /\ c[i] \in Nat
    BY <1>4, <1>12, <1>13, <2>1
  <2>3. ASSUME NEW d \in Durations PROVE BucketOf(d) <= i <=> Clamp(d) <= c[i]
    <3>1. Clamp(d) \in Nat /\ BucketOf(d) \in BucketIds /\ (c[i] >= Clamp(d) <=> i >= BucketOf(d))
      BY <1>1, ClampedDuration, BucketOfDuration DEF c
    <3> QED BY <1>4, <2>2, <3>1
  <2>4. InBuckets(i) = UpTo(c[i])
    BY <2>3 DEF InBuckets, UpTo
  <2>5. SumOf(UpTo(c[i]), Durations) >= rank
    BY <1>6, <2>4
  <2>6. PICK y \in T : y <= c[i]
    BY <1>8, <2>2, <2>5
  <2> QED BY <1>2, <1>11, <1>12, <2>2, <2>6
<1>16. Min(I) = x
  <2>1. I \in SUBSET Nat /\ I # {}
    BY <1>4, <1>14
  <2>2. Min(I) \in I /\ \A y \in I : Min(I) <= y
    BY <2>1, LeastOf
  <2> QED BY <1>14, <1>15, <2>1, <2>2
<1> QED BY <1>10, <1>12, <1>16 DEF e, x

(* The rank of the p-th percentile of n durations.                              *)
Rank(n, p) == (n * p + 99) \div 100

LEMMA RankInRange ==
  ASSUME NEW n \in Nat \ {0}, NEW p \in 1 .. 100
  PROVE  Rank(n, p) \in Nat \ {0} /\ Rank(n, p) <= n
<1> DEFINE a == n * p + 99
           q == a \div 100
<1>1. n * p >= n /\ n * p <= n * 100 /\ n * p \in Nat
  <2>1. n * (p - 1) >= 0 /\ n * (100 - p) >= 0
    OBVIOUS
  <2>2. n * (p - 1) = n * p - n /\ n * (100 - p) = n * 100 - n * p /\ n * p \in Nat
    OBVIOUS
  <2> QED BY <2>1, <2>2
<1>2. a \in Nat /\ a >= 100 /\ a <= n * 100 + 99
  BY <1>1
<1> HIDE DEF a
<1>3. q \in Nat /\ q * 100 <= a /\ a < q * 100 + 100
  BY <1>2, SMT
<1> HIDE DEF q
<1>4. q \in Nat \ {0} /\ q <= n
  BY <1>2, <1>3
<1> QED BY <1>4 DEF a, q, Rank

LEMMA Precision ==
  ASSUME HistogramIsRecorded, NEW p \in 1 .. 100, Closed > 0
  PROVE  LET exact == Sorted((Closed * p + 99) \div 100)
         IN  /\ Percentile(hist, p) >= AtLeast1(exact)
             /\ Percentile(hist, p) - AtLeast1(exact) < AtLeast1(exact \div SubBuckets)
<1> DEFINE rank == Rank(Closed, p)
           exact == Sorted(rank)
<1>1. Closed \in Nat /\ totalCount(hist) = Closed
  BY SumTypes
<1>2. rank \in Nat \ {0} /\ rank <= Closed
  <2>1. Closed \in Nat \ {0}
    BY <1>1
  <2> QED BY <2>1, RankInRange
<1>3. Percentile(hist, p) = bucketBoundaries[Min({i \in BucketIds : cumulative(hist, i) >= rank})]
  BY <1>1 DEF Percentile, Rank
<1> HIDE DEF rank
<1>4. exact \in {Clamp(d) : d \in Durations}
      /\ Percentile(hist, p) = bucketBoundaries[bucketIndex(exact)]
  BY <1>2, <1>3, RankAndBucket
<1>5. exact \in Nat /\ MinNs <= exact /\ exact <= MaxNs
  BY <1>4, ClampedDuration, HistogramConstants
<1> HIDE DEF exact
<1>6. /\ Percentile(hist, p) >= AtLeast1(exact)
      /\ Percentile(hist, p) - AtLeast1(exact) < AtLeast1(exact \div SubBuckets)
  BY <1>4, <1>5, BoundaryIsClose
<1> QED BY <1>6 DEF exact, rank, Rank

LEMMA CountOne ==
  ASSUME HistogramIsRecorded, NEW ns \in Durations,
         hist' = RecordNs(hist, ns), recorded' = [recorded EXCEPT ![ns] = @ + 1]
  PROVE  HistogramIsRecorded'
<1> DEFINE j == BucketOf(ns)
<1>1. IsFiniteSet(Durations) /\ Durations \subseteq Nat
  BY HistogramConstants
<1>2. j \in BucketIds
  BY <1>1, BucketOfDuration
<1>3. hist' = [hist EXCEPT ![j] = @ + 1]
  BY DEF RecordNs, BucketOf
<1> HIDE DEF j
<1>4. hist \in [BucketIds -> Nat] /\ recorded \in [Durations -> Nat]
  BY DEF HistogramIsRecorded
<1>5. hist' \in [BucketIds -> Nat] /\ recorded' \in [Durations -> Nat]
  BY <1>2, <1>3, <1>4
<1>6. ASSUME NEW i \in BucketIds
      PROVE  SumOf(hist', 1 .. i) = SumOf(InBuckets(i)', Durations)
  <2> DEFINE S == 1 .. i
             f == InBuckets(i)
             g == [d \in Durations |-> IF BucketOf(d) <= i THEN recorded'[d] ELSE 0]
  <2>1. IsFiniteSet(S) /\ S \subseteq BucketIds /\ (j \in S <=> j <= i)
    BY <1>2, BoundariesRise, FS_Interval
  <2>2. SumOf(hist, S) = SumOf(f, Durations)
    BY DEF HistogramIsRecorded, cumulative, SumOf
  <2>3. \A k \in S : hist[k] \in Nat
    BY <1>4, <2>1
  <2>4. \A d \in Durations : f[d] \in Nat
    BY <1>4 DEF InBuckets
  <2>5. InBuckets(i)' = g
    BY DEF InBuckets, BucketOf, Clamp, bucketIndex
  <2>6. CASE j <= i
    <3>1. SumOf(hist', S) = SumOf(hist, S) + 1
      <4>1. j \in S /\ hist'[j] = hist[j] + 1 /\ \A k \in S \ {j} : hist'[k] = hist[k]
        BY <1>2, <1>3, <1>4, <2>1, <2>6
      <4> HIDE DEF S
      <4> QED BY <2>1, <2>3, <4>1, SumIncrement
    <3>2. SumOf(g, Durations) = SumOf(f, Durations) + 1
      <4>1. g[ns] = f[ns] + 1 /\ \A d \in Durations \ {ns} : g[d] = f[d]
        BY <1>4, <2>6 DEF InBuckets, j
      <4> HIDE DEF g, f
      <4> QED BY <1>1, <2>4, <4>1, SumIncrement
    <3> QED BY <2>2, <2>5, <3>1, <3>2
  <2>7. CASE ~(j <= i)
    <3>1. SumOf(hist, S) = SumOf(hist', S)
      <4>1. \A k \in S : hist[k] = hist'[k]
        BY <1>2, <1>3, <1>4, <2>1, <2>7
      <4> HIDE DEF S
      <4> QED BY <2>1, <2>3, <4>1, SumSame
    <3>2. SumOf(f, Durations) = SumOf(g, Durations)
      <4>1. \A d \in Durations : f[d] = g[d]
        BY <1>4, <2>7 DEF InBuckets, j
      <4> HIDE DEF g, f
      <4> QED BY <1>1, <2>4, <4>1, SumSame
    <3> QED BY <2>2, <2>5, <3>1, <3>2
  <2> QED BY <2>6, <2>7
<1>7. \A i \in BucketIds : cumulative(hist', i) = SumOf(InBuckets(i)', Durations)
  BY <1>6 DEF cumulative, SumOf
<1>8. \A i \in BucketIds : cumulative(hist, i)' = SumOf(InBuckets(i), Durations)'
  BY <1>7
<1> QED BY <1>5, <1>8 DEF HistogramIsRecorded

LEMMA HistogramStepSafe == HistogramIsRecorded /\ [EdgeNext]_edgeVars => HistogramIsRecorded'
<1> SUFFICES ASSUME HistogramIsRecorded, [EdgeNext]_edgeVars PROVE HistogramIsRecorded'
  OBVIOUS
<1>1. CASE UNCHANGED <<hist, recorded>>
  BY <1>1 DEF HistogramIsRecorded, InBuckets
<1>2. CASE \E ns \in Durations : RecordClose(ns)
  BY <1>2, CountOne DEF RecordClose
<1> QED BY <1>1, <1>2 DEF EdgeNext, RecordConnect, RecordRetransmit, ComputeMetrics, edgeVars

LEMMA HistogramInitSafe == EdgeInit => HistogramIsRecorded
<1> SUFFICES ASSUME EdgeInit PROVE HistogramIsRecorded
  OBVIOUS
<1>1. hist = [i \in BucketIds |-> 0] /\ recorded = [d \in Durations |-> 0]
  BY DEF EdgeInit, NewHistogram
<1>2. ASSUME NEW i \in BucketIds PROVE cumulative(hist, i) = SumOf(InBuckets(i), Durations)
  <2> DEFINE S == 1 .. i
             f == InBuckets(i)
  <2>1. IsFiniteSet(S) /\ S \subseteq BucketIds /\ IsFiniteSet(Durations)
    BY HistogramConstants, BoundariesRise, FS_Interval
  <2>2. (\A k \in S : hist[k] \in Nat /\ hist[k] <= 0) /\ \A d \in Durations : f[d] \in Nat /\ f[d] <= 0
    BY <1>1, <2>1 DEF InBuckets
  <2>3. cumulative(hist, i) = SumOf(hist, S)
    BY DEF cumulative, SumOf
  <2> HIDE DEF S, f
  <2>4. Cardinality(S) * 0 = 0 /\ Cardinality(Durations) * 0 = 0
    BY <2>1, FS_CardinalityType
  <2>5. SumOf(hist, S) = 0 /\ SumOf(f, Durations) = 0
    <3>1. SumOf(hist, S) \in Nat /\ SumOf(hist, S) <= Cardinality(S) * 0
      BY <2>1, <2>2, SumType, SumBound
    <3>2. SumOf(f, Durations) \in Nat /\ SumOf(f, Durations) <= Cardinality(Durations) * 0
      BY <2>1, <2>2, SumType, SumBound
    <3> QED BY <2>4, <3>1, <3>2
  <2> QED BY <2>3, <2>5 DEF f
<1> QED BY <1>1, <1>2 DEF HistogramIsRecorded

(* Whatever is recorded, a percentile is within one step of the true one of all *)
(* the connections closed so far, for every range and precision that the        *)
(* histogram is configured with and every set of durations (histogram.go:66-87, *)
(* 91-136, 157-168).                                                            *)
THEOREM PercentilesPrecise == EdgeSpec => []PercentilesArePrecise
<1>1. HistogramIsRecorded => PercentilesArePrecise
  <2> SUFFICES ASSUME HistogramIsRecorded PROVE PercentilesArePrecise
    OBVIOUS
  <2>1. totalCount(hist) = Closed
    BY SumTypes
  <2>2. {50, 95, 99} \subseteq 1 .. 100
    OBVIOUS
  <2> QED BY <2>1, <2>2, Precision DEF PercentilesArePrecise
<1> QED BY <1>1, HistogramInitSafe, HistogramStepSafe, PTL DEF EdgeSpec

-----------------------------------------------------------------------------
(* The annotator. *)

(* The inductive invariant.  A flush writes only metrics of the edges it took  *)
(* down, which are tracked still: the table never gives an edge up.            *)
TableInv ==
  /\ IsFiniteSet(tracked)
  /\ TrackedBounded
  /\ entries \subseteq tracked
  /\ MetricsAreMaintained

(* getOrCreateEdgeState keeps what is tracked and respects the limit.          *)
LEMMA TableGrows ==
  ASSUME TableInv, NEW e
  PROVE  LET states == getOrCreateEdgeState(e) IN
         /\ tracked \subseteq DOMAIN states
         /\ IsFiniteSet(DOMAIN states)
         /\ Cardinality(DOMAIN states) <= MaxEdgesTracked
<1>1. IsFiniteSet(tracked) /\ Cardinality(tracked) <= MaxEdgesTracked /\ Cardinality(tracked) \in Nat
  BY FS_CardinalityType DEF TableInv, TrackedBounded
<1>2. CASE e \in tracked \/ Cardinality(tracked) >= MaxEdgesTracked
  BY <1>1, <1>2 DEF getOrCreateEdgeState, tracked
<1>3. CASE ~(e \in tracked \/ Cardinality(tracked) >= MaxEdgesTracked)
  <2>1. DOMAIN getOrCreateEdgeState(e) = tracked \union {e}
    BY <1>3 DEF getOrCreateEdgeState, tracked, With
  <2>2. IsFiniteSet(tracked \union {e}) /\ Cardinality(tracked \union {e}) = Cardinality(tracked) + 1
    BY <1>1, <1>3, FS_AddElement
  <2> QED BY <1>1, <1>3, <2>1, <2>2, AnnotatorConstants
<1> QED BY <1>2, <1>3

LEMMA ProcessSafe ==
  ASSUME TableInv, NEW e, NEW k, NEW ns, processEvent(e, k, ns)
  PROVE  TableInv'
<1> DEFINE states == getOrCreateEdgeState(e)
<1>1. /\ tracked \subseteq DOMAIN states /\ IsFiniteSet(DOMAIN states)
      /\ Cardinality(DOMAIN states) <= MaxEdgesTracked
  BY TableGrows
<1> HIDE DEF states
<1>2. tracked' = DOMAIN states
  <2>1. edgeStates' = IF e \in DOMAIN states THEN [states EXCEPT ![e] = Recorded(@, k, ns)] ELSE states
    BY DEF processEvent, states
  <2> QED BY <2>1 DEF tracked
<1>3. edges' = edges /\ entries' = entries
  BY DEF processEvent
<1> QED BY <1>1, <1>2, <1>3 DEF TableInv, TrackedBounded, MetricsAreMaintained

LEMMA FlushEntrySafe ==
  ASSUME TableInv, NEW e, FlushEntry(e)
  PROVE  TableInv' /\ tracked' = tracked
<1>1. e \in entries /\ entries' = entries \ {e}
  BY DEF FlushEntry
<1>2. tracked' = tracked
  BY DEF FlushEntry, tracked
<1>3. PICK m : edges' = UpdateEdgeMetrics(e, m)
  BY DEF FlushEntry
<1>4. DOMAIN edges' = DOMAIN edges /\ \A f \in DOMAIN edges \ {e} : edges'[f] = edges[f]
  BY <1>3 DEF UpdateEdgeMetrics
<1>5. e \in tracked
  BY <1>1 DEF TableInv
<1>6. MetricsAreMaintained'
  BY <1>2, <1>4, <1>5 DEF TableInv, MetricsAreMaintained
<1> QED BY <1>1, <1>2, <1>6 DEF TableInv, TrackedBounded

LEMMA BuilderSafe ==
  ASSUME TableInv, NEW e, AddEdge(e) \/ PruneEdge(e)
  PROVE  TableInv'
<1>1. tracked' = tracked /\ entries' = entries
  BY DEF AddEdge, PruneEdge, tracked
<1>2. CASE AddEdge(e)
  <2>1. edges' = With(edges, e, NoMetrics)
    BY <1>2 DEF AddEdge
  <2>2. \A f \in DOMAIN edges' : edges'[f] = NoMetrics \/ (f \in DOMAIN edges /\ edges'[f] = edges[f])
    <3>1. /\ DOMAIN edges' = DOMAIN edges \union {e}
          /\ edges'[e] = NoMetrics
          /\ \A y \in DOMAIN edges \ {e} : edges'[y] = edges[y]
      BY <2>1 DEF With
    <3> QED BY <3>1
  <2> QED BY <1>1, <2>2 DEF TableInv, TrackedBounded, MetricsAreMaintained
<1>3. CASE PruneEdge(e)
  BY <1>1, <1>3 DEF PruneEdge, TableInv, TrackedBounded, MetricsAreMaintained
<1> QED BY <1>2, <1>3

LEMMA TableStepSafe == TableInv /\ [AnnotatorNext]_annotatorVars => TableInv'
<1> SUFFICES ASSUME TableInv, [AnnotatorNext]_annotatorVars PROVE TableInv'
  OBVIOUS
<1>1. CASE TimePasses
  BY <1>1 DEF TimePasses, TableInv, tracked, TrackedBounded, MetricsAreMaintained
<1>2. CASE Arrival
  BY <1>2, ProcessSafe DEF Arrival
<1>3. CASE \E e \in EdgeKeys : GoesQuiet(e)
  BY <1>3 DEF GoesQuiet, TableInv, tracked, TrackedBounded, MetricsAreMaintained
<1>4. CASE Flush
  <2>1. CASE FlushBegin
    BY <2>1 DEF FlushBegin, TableInv, tracked, TrackedBounded, MetricsAreMaintained
  <2> QED BY <1>4, <2>1, FlushEntrySafe DEF Flush
<1>5. CASE BuilderStep
  BY <1>5, BuilderSafe DEF BuilderStep
<1>6. CASE UNCHANGED annotatorVars
  BY <1>6 DEF annotatorVars, TableInv, tracked, TrackedBounded, MetricsAreMaintained
<1> QED BY <1>1, <1>2, <1>3, <1>4, <1>5, <1>6 DEF AnnotatorNext

LEMMA TableInitSafe == AnnotatorInit => TableInv
<1> SUFFICES ASSUME AnnotatorInit PROVE TableInv
  OBVIOUS
<1>1. tracked = {} /\ DOMAIN edges = {} /\ entries = {}
  BY DEF AnnotatorInit, tracked
<1>2. IsFiniteSet({}) /\ Cardinality({}) = 0
  BY FS_EmptySet
<1> QED BY <1>1, <1>2, AnnotatorConstants DEF TableInv, TrackedBounded, MetricsAreMaintained

(* The table never outgrows MaxEdgesTracked, and every edge of the graph that  *)
(* shows metrics is one whose metrics the next flush will replace              *)
(* (annotator.go:121-196).                                                     *)
THEOREM TableBounded == AnnotatorSpec => [](TrackedBounded /\ MetricsAreMaintained)
<1>1. TableInv => TrackedBounded /\ MetricsAreMaintained
  BY DEF TableInv
<1> QED BY <1>1, TableInitSafe, TableStepSafe, PTL DEF AnnotatorSpec

(* No flush adds an edge to the graph or removes one, whatever was pruned      *)
(* since it began (dag.go:229-243).                                            *)
THEOREM FlushKeepsTopology == AnnotatorSpec => FlushRevivesNoEdge
<1>1. [AnnotatorNext]_annotatorVars => [Flush => DOMAIN edges' = DOMAIN edges]_annotatorVars
  <2> SUFFICES ASSUME Flush PROVE DOMAIN edges' = DOMAIN edges
    OBVIOUS
  <2>1. CASE FlushBegin
    BY <2>1 DEF FlushBegin
  <2>2. CASE \E e \in EdgeKeys : FlushEntry(e)
    BY <2>2 DEF FlushEntry, UpdateEdgeMetrics
  <2> QED BY <2>1, <2>2 DEF Flush
<1> QED BY <1>1, PTL DEF AnnotatorSpec, FlushRevivesNoEdge

(* What is tracked once is tracked for ever: when the table is full, an edge   *)
(* outside it is never measured, also when every edge in it is long gone       *)
(* (annotator.go:179-196: nothing removes an entry).                           *)
THEOREM TableNeverForgets == AnnotatorSpec => [][tracked \subseteq tracked']_annotatorVars
<1>1. TableInv /\ [AnnotatorNext]_annotatorVars => [tracked \subseteq tracked']_annotatorVars
  <2> SUFFICES ASSUME TableInv, AnnotatorNext PROVE tracked \subseteq tracked'
    OBVIOUS
  <2>1. CASE TimePasses
    BY <2>1 DEF TimePasses, tracked
  <2>2. CASE Arrival
    <3>1. PICK e, k, ns : processEvent(e, k, ns)
      BY <2>2 DEF Arrival
    <3> DEFINE states == getOrCreateEdgeState(e)
    <3>2. tracked \subseteq DOMAIN states
      BY TableGrows
    <3>3. tracked' = DOMAIN states
      <4> HIDE DEF states
      <4>1. edgeStates' = IF e \in DOMAIN states THEN [states EXCEPT ![e] = Recorded(@, k, ns)] ELSE states
        BY <3>1 DEF processEvent, states
      <4> QED BY <4>1 DEF tracked
    <3> QED BY <3>2, <3>3
  <2>3. CASE \E e \in EdgeKeys : GoesQuiet(e)
    BY <2>3 DEF GoesQuiet, tracked
  <2>4. CASE Flush
    BY <2>4, FlushEntrySafe DEF Flush, FlushBegin, tracked
  <2>5. CASE BuilderStep
    BY <2>5 DEF BuilderStep, AddEdge, PruneEdge, tracked
  <2> QED BY <2>1, <2>2, <2>3, <2>4, <2>5 DEF AnnotatorNext
<1> QED BY <1>1, TableInitSafe, TableStepSafe, PTL DEF AnnotatorSpec

-----------------------------------------------------------------------------
(* The types of the annotator's state. *)

EdgeStateType == [Window : WindowType, Histogram : [BucketIds -> Nat]]

TypesInv ==
  /\ tracked \subseteq EdgeKeys
  /\ \A e \in tracked : edgeStates[e] \in EdgeStateType
  /\ DOMAIN edges \subseteq EdgeKeys /\ \A e \in DOMAIN edges : edges[e] \in Metrics
  /\ entries \subseteq tracked
  /\ quiet \subseteq EdgeKeys

LEMMA AdvanceType ==
  ASSUME NEW w \in WindowType, NEW t \in Int
  PROVE  Advance(w, t) \in WindowType
<1>1. SliceEnd(w) \in Int /\ SlideInterval \in Nat \ {0}
  BY SliceTypes, SlideIntervalPositive
<1>2. Expired(w, t) \in Nat
  <2>1. CASE t > SliceEnd(w)
    <3>1. t - SliceEnd(w) - 1 \in Nat
      BY <1>1, <2>1
    <3>2. (t - SliceEnd(w) - 1) \div SlideInterval \in Nat
      BY <1>1, <3>1, Division
    <3> QED BY <2>1, <3>2 DEF Expired
  <2>2. CASE ~(t > SliceEnd(w))
    BY <2>2 DEF Expired
  <2> QED BY <2>1, <2>2
<1> QED BY <1>2, AdvanceByType DEF Advance

LEMMA RecordType ==
  ASSUME NEW w \in WindowType, NEW k \in Kinds, NEW t \in Int
  PROVE  Record(w, k, t) \in WindowType
<1> DEFINE v == Advance(w, t)
           c == v.currentIdx
           n == [v.buckets[c].count EXCEPT ![k] = v.buckets[c].count[k] + 1]
           b == [v.buckets[c] EXCEPT !.count = n]
<1>1. v \in WindowType
  BY AdvanceType
<1> HIDE DEF v
<1>2. c \in Slots /\ v.buckets \in [Slots -> BucketType] /\ v.buckets[c] \in BucketType
  BY <1>1 DEF WindowType
<1>3. b \in BucketType
  <2>1. v.buckets[c].count \in [Kinds -> Nat]
    BY <1>2 DEF BucketType
  <2>2. n \in [Kinds -> Nat]
    BY <2>1
  <2> HIDE DEF n
  <2> QED BY <1>2, <2>2 DEF BucketType
<1> HIDE DEF b
<1>4. [v.buckets EXCEPT ![c] = b] \in [Slots -> BucketType]
  BY <1>2, <1>3
<1>5. [v EXCEPT !.buckets = [v.buckets EXCEPT ![c] = b]] \in WindowType
  BY <1>1, <1>4 DEF WindowType
<1>6. Record(w, k, t) = [v EXCEPT !.buckets = [v.buckets EXCEPT ![c] = b]]
  BY <1>1 DEF Record, b, v, WindowType
<1> QED BY <1>5, <1>6

LEMMA AgedType ==
  ASSUME NEW w \in WindowType
  PROVE  Aged(w) \in WindowType
<1> DEFINE shift == IF SliceStart(w) <= -(BucketCount + 1) * SlideInterval THEN SlideInterval - 1 ELSE -1
           old(b) == [StartTime |-> b.StartTime + shift, count |-> b.count]
           bs == [i \in Slots |-> old(w.buckets[i])]
<1>1. shift \in Int
  BY SlideIntervalPositive
<1>2. Aged(w) = [w EXCEPT !.buckets = bs]
  BY DEF Aged
<1> HIDE DEF shift
<1>3. ASSUME NEW b \in BucketType PROVE old(b) \in BucketType
  BY <1>1 DEF BucketType
<1>4. \A i \in Slots : w.buckets[i] \in BucketType
  BY DEF WindowType
<1>5. bs \in [Slots -> BucketType]
  BY <1>3, <1>4
<1> HIDE DEF bs
<1> QED BY <1>2, <1>5 DEF WindowType

LEMMA NewEdgeStateType == NewEdgeState \in EdgeStateType
<1> DEFINE start(i) == 0 - WindowDuration + i * SlideInterval
           bs == [i \in Slots |-> Bucket(start(i))]
<1>1. /\ SlideInterval \in Nat /\ WindowDuration \in Nat
      /\ BucketCount - 1 \in Slots /\ \A i \in Slots : i \in Int
  BY SlideIntervalPositive, WindowConstants DEF Slots
<1>2. \A i \in Slots : start(i) \in Int
  BY <1>1
<1>3. \A t \in Int : Bucket(t) \in BucketType
  BY DEF Bucket, BucketType
<1>4. NewWindow(0) = [buckets |-> bs, currentIdx |-> BucketCount - 1]
  BY DEF NewWindow
<1> HIDE DEF start
<1>5. bs \in [Slots -> BucketType]
  BY <1>2, <1>3
<1>6. NewWindow(0) \in WindowType
  BY <1>1, <1>4, <1>5 DEF WindowType
<1>7. NewHistogram \in [BucketIds -> Nat]
  BY DEF NewHistogram
<1> QED BY <1>6, <1>7 DEF NewEdgeState, EdgeStateType

LEMMA RecordedType ==
  ASSUME NEW s \in EdgeStateType, NEW k \in Kinds, NEW ns \in Durations
  PROVE  Recorded(s, k, ns) \in EdgeStateType
<1>1. s.Window \in WindowType /\ s.Histogram \in [BucketIds -> Nat]
  BY DEF EdgeStateType
<1>2. Record(s.Window, k, 0) \in WindowType
  BY <1>1, RecordType
<1>3. BucketOf(ns) \in BucketIds
  BY HistogramConstants, BucketOfDuration
<1>4. RecordNs(s.Histogram, ns) \in [BucketIds -> Nat]
  BY <1>1, <1>3 DEF RecordNs, BucketOf
<1> QED BY <1>1, <1>2, <1>4 DEF Recorded, EdgeStateType

(* The sums of Aggregate, as sums of the library above.                        *)
LEMMA TotalIsSum ==
  ASSUME NEW w, NEW k \in Kinds
  PROVE  Total(w, k) = SumOf([i \in Slots |-> w.buckets[i].count[k]], Slots)
<1> DEFINE F == [i \in Slots |-> w.buckets[i].count[k]]
           A(g) == [s \in SUBSET Slots |->
                      IF s = {} THEN 0
                      ELSE LET i == CHOOSE i \in s : TRUE
                           IN  w.buckets[i].count[k] + g[s \ {i}]]
           B(g) == [s \in SUBSET Slots |->
                      IF s = {} THEN 0 ELSE LET i == CHOOSE i \in s : TRUE IN F[i] + g[s \ {i}]]
<1>1. ASSUME NEW g PROVE A(g) = B(g)
  <2>1. \A s \in SUBSET Slots : s # {} => (CHOOSE i \in s : TRUE) \in Slots
    OBVIOUS
  <2>2. \A i \in Slots : F[i] = w.buckets[i].count[k]
    OBVIOUS
  <2> HIDE DEF F
  <2> QED BY <2>1, <2>2
<1>2. (CHOOSE g : g = A(g)) = (CHOOSE g : g = B(g))
  <2> HIDE DEF A, B
  <2> QED BY <1>1
<1> QED BY <1>2 DEF Total, SumOf, MapThenSumSet, MapThenFoldSet

LEMMA TotalType ==
  ASSUME NEW w \in WindowType, NEW k \in Kinds
  PROVE  /\ Total(w, k) \in Nat
         /\ (\A i \in Slots : Fresh(w.buckets[i])) => Total(w, k) = 0
<1> DEFINE F == [i \in Slots |-> w.buckets[i].count[k]]
<1>1. Total(w, k) = SumOf(F, Slots)
  BY TotalIsSum
<1>2. \A i \in Slots : F[i] \in Nat
  BY DEF WindowType, BucketType
<1>3. IsFiniteSet(Slots) /\ Cardinality(Slots) \in Nat
  BY FS_Interval, FS_CardinalityType, WindowConstants DEF Slots
<1>4. (\A i \in Slots : Fresh(w.buckets[i])) => \A i \in Slots : F[i] <= 0
  BY DEF Fresh
<1> HIDE DEF F
<1>5. SumOf(F, Slots) \in Nat
  BY <1>2, <1>3, SumType
<1>6. (\A i \in Slots : F[i] <= 0) => SumOf(F, Slots) <= Cardinality(Slots) * 0
  BY <1>2, <1>3, SumBound
<1> QED BY <1>1, <1>3, <1>4, <1>5, <1>6

LEMMA PercentileType ==
  ASSUME NEW h \in [BucketIds -> Nat], NEW p \in 1 .. 100
  PROVE  Percentile(h, p) \in Nat
<1> DEFINE top == Len(bucketBoundaries)
           rank == Rank(totalCount(h), p)
           I == {i \in BucketIds : cumulative(h, i) >= rank}
<1>1. /\ top \in BucketIds /\ BucketIds = 1 .. top /\ BucketIds \subseteq Nat
      /\ \A i \in BucketIds : bucketBoundaries[i] \in Nat
  BY BoundariesRise
<1>2. totalCount(h) = SumOf(h, BucketIds) /\ cumulative(h, top) = totalCount(h)
  BY <1>1 DEF totalCount, cumulative, SumOf
<1>3. totalCount(h) \in Nat
  <2>1. IsFiniteSet(BucketIds)
    <3>1. top \in Int /\ BucketIds = 1 .. top
      BY <1>1
    <3> HIDE DEF top
    <3> QED BY <3>1, FS_Interval
  <2>2. \A i \in BucketIds : h[i] \in Nat
    OBVIOUS
  <2> QED BY <1>2, <2>1, <2>2, SumType
<1>4. CASE totalCount(h) = 0
  BY <1>4 DEF Percentile
<1>5. CASE totalCount(h) # 0
  <2>1. totalCount(h) \in Nat \ {0}
    BY <1>3, <1>5
  <2>2. rank <= totalCount(h)
    BY <2>1, RankInRange
  <2>3. top \in I
    BY <1>1, <1>2, <1>3, <2>2
  <2>4. Min(I) \in I
    <3>1. I \in SUBSET Nat /\ I # {}
      BY <1>1, <2>3
    <3> HIDE DEF I
    <3> QED BY <3>1, LeastOf
  <2>5. Percentile(h, p) = bucketBoundaries[Min(I)]
    BY <1>5 DEF Percentile, Rank
  <2> QED BY <1>1, <2>4, <2>5
<1> QED BY <1>4, <1>5

LEMMA MetricsType ==
  ASSUME NEW w \in WindowType, NEW h \in [BucketIds -> Nat]
  PROVE  MetricsOf(w, h) \in Metrics
<1> DEFINE c == Total(w, "connect")
           r == Total(w, "retransmit")
<1>1. c \in Nat /\ r \in Nat /\ Percentile(h, 99) \in Nat
  BY TotalType, PercentileType DEF Kinds
<1> HIDE DEF c, r
<1>2. ASSUME c > 0 PROVE Min({100, Percent(r, c)}) \in Nat
  <2>1. Percent(r, c) \in Nat
    <3>1. 100 * r \in Nat /\ c \in Nat \ {0}
      BY <1>1, <1>2
    <3> QED BY <3>1, Division DEF Percent
  <2>2. {100, Percent(r, c)} \in SUBSET Nat
    BY <2>1
  <2>3. Min({100, Percent(r, c)}) \in {100, Percent(r, c)}
    BY <2>2, LeastOf
  <2> QED BY <2>2, <2>3
<1> QED BY <1>1, <1>2 DEF MetricsOf, Metrics, c, r

LEMMA TypesStepSafe == TypesInv /\ [AnnotatorNext]_annotatorVars => TypesInv'
<1> SUFFICES ASSUME TypesInv, [AnnotatorNext]_annotatorVars PROVE TypesInv'
  OBVIOUS
<1>1. CASE TimePasses
  <2>1. edgeStates' = [e \in tracked |-> [edgeStates[e] EXCEPT !.Window = Aged(@)]]
        /\ edges' = edges /\ entries' = entries /\ quiet' = quiet
    BY <1>1 DEF TimePasses
  <2>2. tracked' = tracked
    BY <2>1 DEF tracked
  <2>3. ASSUME NEW e \in tracked PROVE edgeStates'[e] \in EdgeStateType
    <3>1. edgeStates[e] \in EdgeStateType /\ edgeStates[e].Window \in WindowType
      BY DEF TypesInv, EdgeStateType
    <3>2. Aged(edgeStates[e].Window) \in WindowType
      BY <3>1, AgedType
    <3>3. [edgeStates[e] EXCEPT !.Window = Aged(@)] \in EdgeStateType
      BY <3>1, <3>2 DEF EdgeStateType
    <3> QED BY <2>1, <3>3
  <2> QED BY <2>1, <2>2, <2>3 DEF TypesInv
<1>2. CASE Arrival
  <2>1. PICK e \in EdgeKeys, k \in Kinds, ns \in Durations : processEvent(e, k, ns)
    BY <1>2 DEF Arrival
  <2> DEFINE states == getOrCreateEdgeState(e)
  <2>2. /\ DOMAIN states \subseteq EdgeKeys /\ tracked \subseteq DOMAIN states
        /\ \A f \in DOMAIN states : states[f] \in EdgeStateType
    <3>1. CASE states = edgeStates
      BY <3>1 DEF TypesInv, tracked
    <3>2. CASE states = With(edgeStates, e, NewEdgeState)
      <4>1. DOMAIN states = tracked \union {e}
            /\ \A f \in DOMAIN states : states[f] = IF f = e THEN NewEdgeState ELSE edgeStates[f]
        BY <3>2 DEF With, tracked
      <4> HIDE DEF states
      <4> QED BY <4>1, NewEdgeStateType DEF TypesInv
    <3> QED BY <3>1, <3>2 DEF getOrCreateEdgeState
  <2>3. edgeStates' = (IF e \in DOMAIN states THEN [states EXCEPT ![e] = Recorded(@, k, ns)] ELSE states)
        /\ edges' = edges /\ entries' = entries /\ quiet' = quiet
    BY <2>1 DEF processEvent
  <2> HIDE DEF states
  <2>4. tracked' = DOMAIN states
    BY <2>3 DEF tracked
  <2>5. ASSUME NEW f \in DOMAIN states PROVE edgeStates'[f] \in EdgeStateType
    <3>1. states[f] \in EdgeStateType /\ Recorded(states[f], k, ns) \in EdgeStateType
      BY <2>2, RecordedType
    <3>2. edgeStates'[f] = states[f] \/ edgeStates'[f] = Recorded(states[f], k, ns)
      BY <2>3
    <3> QED BY <3>1, <3>2
  <2> QED BY <2>2, <2>3, <2>4, <2>5 DEF TypesInv
<1>3. CASE \E e \in EdgeKeys : GoesQuiet(e)
  BY <1>3 DEF GoesQuiet, TypesInv, tracked
<1>4. CASE FlushBegin
  BY <1>4 DEF FlushBegin, TypesInv, tracked
<1>5. CASE \E e \in EdgeKeys : FlushEntry(e)
  <2>1. PICK e \in EdgeKeys : FlushEntry(e)
    BY <1>5
  <2> DEFINE w == ReadNow(edgeStates[e].Window)
             m == MetricsOf(w, edgeStates[e].Histogram)
  <2>2. /\ e \in entries /\ entries' = entries \ {e} /\ quiet' = quiet
        /\ edgeStates' = [edgeStates EXCEPT ![e].Window = w]
        /\ edges' = UpdateEdgeMetrics(e, m)
    BY <2>1 DEF FlushEntry
  <2>3. e \in tracked
    BY <2>2 DEF TypesInv
  <2>4. edgeStates[e] \in EdgeStateType /\ w \in WindowType /\ edgeStates[e].Histogram \in [BucketIds -> Nat]
    <3>1. edgeStates[e] \in EdgeStateType
      BY <2>3 DEF TypesInv
    <3>2. edgeStates[e].Window \in WindowType /\ edgeStates[e].Histogram \in [BucketIds -> Nat]
      BY <3>1 DEF EdgeStateType
    <3>3. Advance(edgeStates[e].Window, 0) \in WindowType
      BY <3>2, AdvanceType
    <3> QED BY <3>1, <3>2, <3>3 DEF ReadNow
  <2>5. m \in Metrics
    BY <2>4, MetricsType
  <2> HIDE DEF w, m
  <2>6. tracked' = tracked
    BY <2>2 DEF tracked
  <2>7. ASSUME NEW f \in tracked PROVE edgeStates'[f] \in EdgeStateType
    <3>1. edgeStates[f] \in EdgeStateType
      BY DEF TypesInv
    <3>2. [edgeStates[e] EXCEPT !.Window = w] \in EdgeStateType
      BY <2>4 DEF EdgeStateType
    <3>3. edgeStates'[f] = IF f = e THEN [edgeStates[e] EXCEPT !.Window = w] ELSE edgeStates[f]
      BY <2>2, <2>3 DEF tracked
    <3> QED BY <3>1, <3>2, <3>3
  <2>8. DOMAIN edges' = DOMAIN edges /\ \A f \in DOMAIN edges : edges'[f] \in Metrics
    <3>1. DOMAIN edges' = DOMAIN edges /\ \A f \in DOMAIN edges : edges'[f] = edges[f] \/ edges'[f] = m
      BY <2>2 DEF UpdateEdgeMetrics
    <3> QED BY <2>5, <3>1 DEF TypesInv
  <2> QED BY <2>2, <2>6, <2>7, <2>8 DEF TypesInv
<1>6. CASE BuilderStep
  <2>1. PICK e \in EdgeKeys : AddEdge(e) \/ PruneEdge(e)
    BY <1>6 DEF BuilderStep
  <2>2. edgeStates' = edgeStates /\ entries' = entries /\ quiet' = quiet
    BY <2>1 DEF AddEdge, PruneEdge
  <2>3. NoMetrics \in Metrics
    BY DEF NoMetrics, Metrics
  <2>4. DOMAIN edges' \subseteq EdgeKeys /\ \A f \in DOMAIN edges' : edges'[f] \in Metrics
    <3>1. CASE AddEdge(e)
      <4>1. DOMAIN edges' = DOMAIN edges \union {e}
            /\ \A f \in DOMAIN edges' : edges'[f] = IF f = e THEN NoMetrics ELSE edges[f]
        BY <3>1 DEF AddEdge, With
      <4> QED BY <2>3, <4>1 DEF TypesInv
    <3>2. CASE PruneEdge(e)
      BY <3>2 DEF PruneEdge, TypesInv
    <3> QED BY <2>1, <3>1, <3>2
  <2> QED BY <2>2, <2>4 DEF TypesInv, tracked
<1>7. CASE UNCHANGED annotatorVars
  BY <1>7 DEF annotatorVars, TypesInv, tracked
<1> QED BY <1>1, <1>2, <1>3, <1>4, <1>5, <1>6, <1>7 DEF AnnotatorNext, Flush

(* The annotator's state keeps its types: a flush writes whole numbers only,    *)
(* from windows whose current bucket lies in the ring and histograms whose      *)
(* buckets exist, whatever arrived before it (annotator.go:121-196,             *)
(* histogram.go:91-136).                                                        *)
THEOREM AnnotatorTypes == AnnotatorSpec => []AnnotatorTypeOK
<1>1. AnnotatorInit => TypesInv
  BY DEF AnnotatorInit, TypesInv, tracked
<1>2. TypesInv => AnnotatorTypeOK
  BY DEF TypesInv, AnnotatorTypeOK, EdgeStateType, WindowType
<1> QED BY <1>1, <1>2, TypesStepSafe, PTL DEF AnnotatorSpec


-----------------------------------------------------------------------------
(* How the metrics of an edge without traffic decay. *)

(* Every tracked window, at any time: its slices are consecutive and the        *)
(* current one began in the past.                                               *)
InRing(w) == w \in WindowType /\ Consecutive(w) /\ SliceStart(w) < 0

(* What the window counts it counts in slices that began n ago or earlier.      *)
SilentSince(w, n) == \A i \in Slots : Fresh(w.buckets[i]) \/ w.buckets[i].StartTime <= -n

LEMMA SlicesPast ==
  ASSUME NEW w, InRing(w), NEW i \in Slots
  PROVE  /\ w.buckets[i].StartTime \in Int /\ w.buckets[i].StartTime <= SliceStart(w)
         /\ w.buckets[i].StartTime >= SliceStart(w) + SlideInterval - Span
<1> DEFINE d == Behind(i, w.currentIdx)
<1>1. w.currentIdx \in Slots /\ SliceStart(w) \in Int /\ w.buckets[i].StartTime \in Int
  BY SliceTypes DEF InRing
<1>2. d \in 0 .. BucketCount - 1 /\ BucketCount \in Nat \ {0} /\ SlideInterval \in Nat \ {0}
  BY <1>1, RingStep, WindowConstants, SlideIntervalPositive DEF Slots
<1>3. w.buckets[i].StartTime = SliceStart(w) - d * SlideInterval
  BY DEF InRing, Consecutive
<1> HIDE DEF d
<1>4. d * SlideInterval \in Nat /\ (BucketCount - 1) * SlideInterval \in Nat
      /\ d * SlideInterval <= (BucketCount - 1) * SlideInterval
  BY <1>2, ProductsGrow
<1>5. (BucketCount - 1) * SlideInterval = Span - SlideInterval /\ Span \in Int
  BY <1>2 DEF Span
<1> QED BY <1>1, <1>2, <1>3, <1>4, <1>5

LEMMA NewWindowInRing == InRing(NewWindow(0)) /\ SilentSince(NewWindow(0), 1)
<1> DEFINE S == SlideInterval
           start(i) == 0 - WindowDuration + i * S
           bs == [i \in Slots |-> Bucket(start(i))]
           w == NewWindow(0)
<1>1. S \in Nat \ {0} /\ WindowDuration \in Nat /\ BucketCount \in Nat \ {0}
  BY SlideIntervalPositive, WindowConstants
<1>2. w = [buckets |-> bs, currentIdx |-> BucketCount - 1]
  BY DEF NewWindow
<1>3. BucketCount - 1 \in Slots /\ \A i \in Slots : i \in Int /\ start(i) \in Int
  BY <1>1 DEF Slots
<1>4. \A t \in Int : Bucket(t).StartTime = t /\ Fresh(Bucket(t))
  BY DEF Bucket, Fresh
<1> HIDE DEF start, w
<1>5. w.buckets = bs /\ w.currentIdx = BucketCount - 1
  BY <1>2
<1>6. \A i \in Slots : w.buckets[i].StartTime = start(i) /\ Fresh(w.buckets[i])
  BY <1>3, <1>4, <1>5
<1>7. SliceStart(w) = start(BucketCount - 1)
  BY <1>3, <1>5, <1>6 DEF SliceStart
<1>8. SliceStart(w) < 0
  <2>1. S * BucketCount <= WindowDuration
    BY <1>1, Division DEF SlideInterval
  <2>2. (BucketCount - 1) * S = S * BucketCount - S /\ S * BucketCount \in Int
    BY <1>1
  <2> QED BY <1>1, <1>7, <2>1, <2>2 DEF start
<1>9. ASSUME NEW i \in Slots
      PROVE  start(i) = start(BucketCount - 1) - Behind(i, BucketCount - 1) * S
  <2>1. Behind(i, BucketCount - 1) = BucketCount - 1 - i
    BY <1>1 DEF Behind, Slots
  <2> QED BY <1>1, <1>3, <2>1 DEF start
<1>10. w \in WindowType
  BY NewEdgeStateType DEF NewEdgeState, EdgeStateType, w
<1> QED BY <1>5, <1>6, <1>7, <1>8, <1>9, <1>10 DEF InRing, Consecutive, SilentSince, w

(* A read opens no bucket in the past and counts nothing.                       *)
LEMMA ReadSilent ==
  ASSUME NEW w, InRing(w)
  PROVE  /\ InRing(Advance(w, 0)) /\ 0 <= SliceEnd(Advance(w, 0))
         /\ \A n : SilentSince(w, n) => SilentSince(Advance(w, 0), n)
<1> DEFINE v == Advance(w, 0)
<1>1. /\ v \in WindowType /\ Consecutive(v) /\ SliceStart(v) < 0 /\ 0 <= SliceEnd(v)
      /\ \A i \in Slots : v.buckets[i] = w.buckets[i] \/ Fresh(v.buckets[i])
  BY AdvanceSafe DEF InRing
<1> HIDE DEF v
<1> QED BY <1>1 DEF InRing, SilentSince, v

LEMMA RecordInRing ==
  ASSUME NEW w, InRing(w), NEW k \in Kinds
  PROVE  InRing(Record(w, k, 0)) /\ SilentSince(Record(w, k, 0), 1)
<1> DEFINE v == Advance(w, 0)
           r == Record(w, k, 0)
<1>1. InRing(v) /\ v \in WindowType
  BY ReadSilent DEF InRing
<1>2. r \in WindowType
  BY RecordType DEF InRing
<1>3. r.currentIdx = v.currentIdx /\ \A i \in Slots : r.buckets[i].StartTime = v.buckets[i].StartTime
  <2>1. r = [v EXCEPT !.buckets[v.currentIdx].count[k] = @ + 1]
    BY DEF Record
  <2>2. v.buckets \in [Slots -> BucketType] /\ v.currentIdx \in Slots
        /\ \A i \in Slots : v.buckets[i] \in BucketType
    BY <1>1 DEF WindowType
  <2> HIDE DEF r, v
  <2> QED BY <1>1, <2>1, <2>2 DEF WindowType, BucketType
<1> HIDE DEF r, v
<1>4. v.currentIdx \in Slots
  BY <1>1 DEF WindowType
<1>5. SliceStart(r) = SliceStart(v)
  BY <1>3, <1>4 DEF SliceStart
<1>6. InRing(r)
  BY <1>1, <1>2, <1>3, <1>5 DEF InRing, Consecutive
<1>7. \A i \in Slots : r.buckets[i].StartTime <= -1
  BY <1>6, SlicesPast, SliceTypes DEF InRing
<1> QED BY <1>6, <1>7 DEF SilentSince, r


(* A moment makes every slice older; when an untouched window is not followed   *)
(* any further it is already older than it can show.                            *)
LEMMA AgedInRing ==
  ASSUME NEW w, InRing(w)
  PROVE  /\ InRing(Aged(w))
         /\ \A n \in 1 .. Span + 1 : SilentSince(w, n) => SilentSince(Aged(w), n)
         /\ \A n \in 1 .. Span : SilentSince(w, n) => SilentSince(Aged(w), n + 1)
<1> DEFINE far == SliceStart(w) <= -(BucketCount + 1) * SlideInterval
           shift == IF far THEN SlideInterval - 1 ELSE -1
           v == Aged(w)
<1>1. /\ w \in WindowType /\ SliceStart(w) \in Int /\ SliceStart(w) < 0 /\ w.currentIdx \in Slots
      /\ SlideInterval \in Nat \ {0} /\ Span \in Nat
      /\ -(BucketCount + 1) * SlideInterval = -Span - SlideInterval
  BY SliceTypes, SlideIntervalPositive, WindowConstants DEF InRing, Span
<1>2. v \in WindowType /\ v.currentIdx = w.currentIdx
      /\ \A i \in Slots : /\ v.buckets[i].StartTime = w.buckets[i].StartTime + shift
                          /\ v.buckets[i].count = w.buckets[i].count
  <2> HIDE DEF shift
  <2>1. v = [w EXCEPT !.buckets =
               [i \in Slots |-> [StartTime |-> w.buckets[i].StartTime + shift,
                                 count |-> w.buckets[i].count]]]
    BY DEF Aged, shift
  <2>2. v \in WindowType
    BY <1>1, AgedType
  <2> HIDE DEF v
  <2> QED BY <1>1, <2>1, <2>2 DEF WindowType
<1>3. far => shift = SlideInterval - 1 /\ SliceStart(w) <= -Span - SlideInterval
  BY <1>1
<1>4. shift \in Int /\ (~far => shift = -1)
  BY <1>1
<1> HIDE DEF far, shift, v
<1>5. SliceStart(v) = SliceStart(w) + shift
  BY <1>1, <1>2 DEF SliceStart
<1>6. InRing(v)
  <2>1. SliceStart(v) < 0
    BY <1>1, <1>3, <1>4, <1>5
  <2>2. ASSUME NEW i \in Slots
        PROVE v.buckets[i].StartTime = SliceStart(v) - Behind(i, v.currentIdx) * SlideInterval
    <3>1. w.buckets[i].StartTime = SliceStart(w) - Behind(i, w.currentIdx) * SlideInterval
      BY DEF InRing, Consecutive
    <3>2. Behind(i, w.currentIdx) \in Slots
      BY <1>1, RingStep
    <3>3. Behind(i, w.currentIdx) * SlideInterval \in Int
      BY <1>1, <3>2 DEF Slots
    <3> QED BY <1>1, <1>2, <1>4, <1>5, <3>1, <3>3
  <2> QED BY <1>2, <2>1, <2>2 DEF InRing, Consecutive
<1>7. ASSUME NEW i \in Slots
      PROVE  /\ far => v.buckets[i].StartTime <= -(Span + 1)
             /\ ~far => v.buckets[i].StartTime = w.buckets[i].StartTime - 1
             /\ w.buckets[i].StartTime \in Int /\ v.buckets[i].StartTime \in Int
  BY <1>1, <1>2, <1>3, <1>4, SlicesPast
<1>8. \A i \in Slots : Fresh(w.buckets[i]) => Fresh(v.buckets[i])
  BY <1>2 DEF Fresh
<1>9. ASSUME NEW n \in Int, SilentSince(w, n),
             NEW m \in {n, n + 1}, m <= Span + 1
      PROVE  SilentSince(v, m)
  <2>1. ASSUME NEW i \in Slots, ~Fresh(w.buckets[i]) PROVE v.buckets[i].StartTime <= -m
    <3>1. w.buckets[i].StartTime <= -n
      BY <1>9, <2>1 DEF SilentSince
    <3>2. CASE far
      BY <1>1, <1>7, <1>9, <3>2
    <3>3. CASE ~far
      BY <1>1, <1>7, <1>9, <3>1, <3>3
    <3> QED BY <3>2, <3>3
  <2> QED BY <1>8, <2>1 DEF SilentSince
<1>10. /\ \A n \in 1 .. Span + 1 : SilentSince(w, n) => SilentSince(v, n)
       /\ \A n \in 1 .. Span : SilentSince(w, n) => SilentSince(v, n + 1)
  BY <1>1, <1>9
<1> QED BY <1>6, <1>10 DEF v

(* What began more than a span ago is behind the ring.                          *)
LEMMA SilentReadsZero ==
  ASSUME NEW w, InRing(w), SilentSince(w, Span + 1), NEW h
  PROVE  LET m == MetricsOf(Advance(w, 0), h) IN m.RequestRate = 0 /\ m.ErrorRate = 0
<1> DEFINE v == Advance(w, 0)
<1>1. InRing(v) /\ 0 <= SliceEnd(v) /\ SilentSince(v, Span + 1)
  BY ReadSilent
<1> HIDE DEF v
<1>2. /\ v \in WindowType /\ SliceStart(v) \in Int /\ SliceEnd(v) = SliceStart(v) + SlideInterval
      /\ SlideInterval \in Nat \ {0} /\ Span \in Nat
  BY <1>1, SliceTypes, SlideIntervalPositive, WindowConstants DEF InRing, Span
<1>3. \A i \in Slots : v.buckets[i].StartTime \in Int /\ v.buckets[i].StartTime >= -Span
  BY <1>1, <1>2, SlicesPast
<1>4. \A i \in Slots : Fresh(v.buckets[i])
  BY <1>1, <1>2, <1>3 DEF SilentSince
<1>5. Total(v, "connect") = 0
  BY <1>2, <1>4, TotalType DEF Kinds
<1> QED BY <1>5 DEF MetricsOf, v

WindowsInv == \A e \in tracked : InRing(edgeStates[e].Window) /\ SilentSince(edgeStates[e].Window, 1)


(* What a step may do to the window of one edge.                                *)
LEMMA WindowSteps ==
  ASSUME TypesInv, WindowsInv, [AnnotatorNext]_annotatorVars, NEW e \in tracked'
  PROVE  \/ e \notin quiet /\ \E w \in WindowType, k \in Kinds :
              InRing(w) /\ edgeStates'[e].Window = Record(w, k, 0)
         \/ /\ e \in tracked
            /\ edgeStates'[e].Window \in {edgeStates[e].Window, Advance(edgeStates[e].Window, 0)}
         \/ /\ e \in tracked /\ TimePasses
            /\ edgeStates'[e].Window = Aged(edgeStates[e].Window)
<1>1. CASE TimePasses
  <2>1. tracked' = tracked /\ edgeStates'[e] = [edgeStates[e] EXCEPT !.Window = Aged(@)]
        /\ edgeStates[e] \in EdgeStateType
    BY <1>1 DEF TimePasses, tracked, TypesInv
  <2>2. edgeStates'[e].Window = Aged(edgeStates[e].Window)
    BY <2>1 DEF EdgeStateType
  <2> QED BY <1>1, <2>1, <2>2
<1>2. CASE Arrival
  <2>1. PICK f \in EdgeKeys, k \in Kinds, ns \in Durations : processEvent(f, k, ns)
    BY <1>2 DEF Arrival
  <2> DEFINE states == getOrCreateEdgeState(f)
  <2>2. states = edgeStates \/ states = With(edgeStates, f, NewEdgeState)
    BY DEF getOrCreateEdgeState
  <2>3. f \notin quiet
        /\ edgeStates' = IF f \in DOMAIN states THEN [states EXCEPT ![f] = Recorded(@, k, ns)] ELSE states
    BY <2>1 DEF processEvent
  <2> HIDE DEF states
  <2>4. /\ \A g \in DOMAIN states : InRing(states[g].Window)
        /\ \A g \in DOMAIN states \ {f} : g \in tracked /\ states[g] = edgeStates[g]
    <3>1. CASE states = edgeStates
      BY <3>1 DEF WindowsInv, tracked
    <3>2. CASE states = With(edgeStates, f, NewEdgeState)
      <4>1. DOMAIN states = tracked \union {f}
            /\ \A g \in DOMAIN states : states[g] = IF g = f THEN NewEdgeState ELSE edgeStates[g]
        BY <3>2 DEF With, tracked
      <4>2. NewEdgeState.Window = NewWindow(0)
        BY DEF NewEdgeState
      <4> QED BY <4>1, <4>2, NewWindowInRing DEF WindowsInv
    <3> QED BY <2>2, <3>1, <3>2
  <2>5. e \in DOMAIN states
    BY <2>3 DEF tracked
  <2>6. CASE e = f
    <3>1. edgeStates'[e] = Recorded(states[e], k, ns)
      BY <2>3, <2>5, <2>6
    <3>2. edgeStates'[e].Window = Record(states[e].Window, k, 0)
      BY <3>1 DEF Recorded
    <3>3. e \notin quiet /\ InRing(states[e].Window)
      BY <2>3, <2>4, <2>5, <2>6
    <3> QED BY <3>2, <3>3 DEF InRing
  <2>7. CASE e # f
    <3>1. edgeStates'[e] = states[e] /\ e \in tracked /\ states[e] = edgeStates[e]
      BY <2>3, <2>4, <2>5, <2>7
    <3> QED BY <3>1
  <2> QED BY <2>6, <2>7
<1>3. CASE \E f \in EdgeKeys : FlushEntry(f)
  <2>1. PICK f \in EdgeKeys : FlushEntry(f)
    BY <1>3
  <2> DEFINE w == ReadNow(edgeStates[f].Window)
  <2>2. f \in tracked /\ edgeStates' = [edgeStates EXCEPT ![f].Window = w]
    BY <2>1 DEF FlushEntry, TypesInv
  <2> HIDE DEF w
  <2>3. tracked' = tracked /\ \A g \in tracked : edgeStates[g] \in EdgeStateType
    BY <2>2 DEF tracked, TypesInv
  <2>4. edgeStates'[e].Window = IF e = f THEN w ELSE edgeStates[e].Window
    BY <2>2, <2>3 DEF tracked, EdgeStateType
  <2> QED BY <2>3, <2>4 DEF w, ReadNow
<1>4. CASE (\E f \in EdgeKeys : GoesQuiet(f)) \/ FlushBegin \/ BuilderStep \/ UNCHANGED annotatorVars
  <2>1. edgeStates' = edgeStates
    BY <1>4 DEF GoesQuiet, FlushBegin, BuilderStep, AddEdge, PruneEdge, annotatorVars
  <2> QED BY <2>1 DEF tracked
<1> QED BY <1>1, <1>2, <1>3, <1>4 DEF AnnotatorNext, Flush

LEMMA WindowsStepSafe == TypesInv /\ WindowsInv /\ [AnnotatorNext]_annotatorVars => WindowsInv'
<1> SUFFICES ASSUME TypesInv, WindowsInv, [AnnotatorNext]_annotatorVars, NEW e \in tracked'
             PROVE  InRing(edgeStates'[e].Window) /\ SilentSince(edgeStates'[e].Window, 1)
  BY DEF WindowsInv
<1>1. Span \in Nat
  BY SlideIntervalPositive, WindowConstants DEF Span
<1>2. e \in tracked => InRing(edgeStates[e].Window) /\ SilentSince(edgeStates[e].Window, 1)
  BY DEF WindowsInv
<1>3. 1 \in 1 .. Span + 1
  BY <1>1
<1> QED BY <1>2, <1>3, WindowSteps, RecordInRing, ReadSilent, AgedInRing

AnnotatorInv == TypesInv /\ TableInv /\ WindowsInv

LEMMA AnnotatorInvariance == AnnotatorSpec => []AnnotatorInv
<1>1. AnnotatorInit => AnnotatorInv
  BY TableInitSafe DEF AnnotatorInit, AnnotatorInv, TypesInv, WindowsInv, tracked
<1>2. AnnotatorInv /\ [AnnotatorNext]_annotatorVars => AnnotatorInv'
  BY TypesStepSafe, TableStepSafe, WindowsStepSafe DEF AnnotatorInv
<1> QED BY <1>1, <1>2, PTL DEF AnnotatorSpec

(* The annotator has recorded nothing about the edge for n units.               *)
QuietFor(e, n) == e \in tracked => SilentSince(edgeStates[e].Window, n)

ShowsNoTraffic(e) == e \in DOMAIN edges => edges[e].RequestRate = 0 /\ edges[e].ErrorRate = 0

LEMMA QuietStep ==
  ASSUME AnnotatorInv, [AnnotatorNext]_annotatorVars, NEW e \in quiet,
         NEW n \in 1 .. Span + 1, QuietFor(e, n)
  PROVE  QuietFor(e, n)'
<1> SUFFICES ASSUME e \in tracked' PROVE SilentSince(edgeStates'[e].Window, n)
  BY DEF QuietFor
<1>1. TypesInv /\ WindowsInv
  BY DEF AnnotatorInv
<1>2. e \in tracked => InRing(edgeStates[e].Window) /\ SilentSince(edgeStates[e].Window, n)
  BY <1>1 DEF WindowsInv, QuietFor
<1> QED BY <1>1, <1>2, WindowSteps, ReadSilent, AgedInRing

LEMMA QuietAges ==
  ASSUME AnnotatorInv, TimePasses, NEW e, NEW n \in 1 .. Span, QuietFor(e, n)
  PROVE  QuietFor(e, n + 1)'
<1> SUFFICES ASSUME e \in tracked' PROVE SilentSince(edgeStates'[e].Window, n + 1)
  BY DEF QuietFor
<1>1. tracked' = tracked /\ edgeStates'[e] = [edgeStates[e] EXCEPT !.Window = Aged(@)]
      /\ edgeStates[e] \in EdgeStateType
  BY DEF TimePasses, tracked, AnnotatorInv, TypesInv
<1>2. edgeStates'[e].Window = Aged(edgeStates[e].Window)
  BY <1>1 DEF EdgeStateType
<1>3. InRing(edgeStates[e].Window) /\ SilentSince(edgeStates[e].Window, n)
  BY <1>1 DEF AnnotatorInv, WindowsInv, QuietFor
<1> QED BY <1>2, <1>3, AgedInRing

LEMMA FlushShowsNothing ==
  ASSUME AnnotatorInv, NEW e, FlushEntry(e), QuietFor(e, Span + 1)
  PROVE  ShowsNoTraffic(e)'
<1> DEFINE w == edgeStates[e].Window
           m == MetricsOf(Advance(w, 0), edgeStates[e].Histogram)
<1>1. e \in entries /\ edges' = UpdateEdgeMetrics(e, m)
  BY DEF FlushEntry, ReadNow
<1>2. e \in tracked
  BY <1>1 DEF AnnotatorInv, TypesInv
<1>3. InRing(w) /\ SilentSince(w, Span + 1)
  BY <1>2 DEF AnnotatorInv, WindowsInv, QuietFor
<1> HIDE DEF w
<1>4. m.RequestRate = 0 /\ m.ErrorRate = 0
  BY <1>3, SilentReadsZero
<1> HIDE DEF m
<1> QED BY <1>1, <1>4 DEF ShowsNoTraffic, UpdateEdgeMetrics

LEMMA ShowsNothingStays ==
  ASSUME AnnotatorInv, [AnnotatorNext]_annotatorVars, NEW e \in quiet, QuietFor(e, Span + 1),
         ShowsNoTraffic(e)
  PROVE  ShowsNoTraffic(e)'
<1>1. ASSUME NEW f, FlushEntry(f), f # e PROVE ShowsNoTraffic(e)'
  <2>1. DOMAIN edges' = DOMAIN edges /\ \A g \in DOMAIN edges \ {f} : edges'[g] = edges[g]
    BY <1>1 DEF FlushEntry, UpdateEdgeMetrics
  <2> QED BY <1>1, <2>1 DEF ShowsNoTraffic
<1>2. ASSUME NEW f, AddEdge(f) \/ PruneEdge(f) PROVE ShowsNoTraffic(e)'
  BY <1>2 DEF AddEdge, PruneEdge, With, NoMetrics, ShowsNoTraffic
<1>3. CASE edges' = edges
  BY <1>3 DEF ShowsNoTraffic
<1> QED BY <1>1, <1>2, <1>3, FlushShowsNothing
        DEF AnnotatorNext, TimePasses, Arrival, processEvent, GoesQuiet, Flush, FlushBegin, BuilderStep,
            annotatorVars

(* What is under QuietRateFalls, with the time it takes.  No event of another   *)
(* edge, no read and no tick makes a silent edge look younger; a span of the    *)
(* window after its last event the next flush writes that it has no requests    *)
(* and no errors, although nothing is recorded on it, and no later flush writes *)
(* anything else (window.go:74-92, 145-164, annotator.go:121-150).  An edge the *)
(* table had no room for shows none from the start.                             *)
THEOREM QuietRateFallsInTime ==
  ASSUME NEW e \in EdgeKeys
  PROVE  /\ AnnotatorSpec => []QuietFor(e, 1)
         /\ \A n \in 1 .. Span + 1 :
              AnnotatorSpec => [][QuietFor(e, n) /\ e \in quiet => QuietFor(e, n)']_annotatorVars
         /\ \A n \in 1 .. Span :
              AnnotatorSpec => [][QuietFor(e, n) /\ TimePasses => QuietFor(e, n + 1)']_annotatorVars
         /\ AnnotatorSpec =>
              [][QuietFor(e, Span + 1) /\ FlushEntry(e) => ShowsNoTraffic(e)']_annotatorVars
         /\ AnnotatorSpec =>
              [][QuietFor(e, Span + 1) /\ e \in quiet /\ ShowsNoTraffic(e) => ShowsNoTraffic(e)']_annotatorVars
         /\ AnnotatorSpec => [](e \notin tracked => ShowsNoTraffic(e))
<1>1. AnnotatorInv => QuietFor(e, 1)
  BY DEF AnnotatorInv, WindowsInv, QuietFor
<1>2. ASSUME NEW n \in 1 .. Span + 1
      PROVE  AnnotatorSpec => [][QuietFor(e, n) /\ e \in quiet => QuietFor(e, n)']_annotatorVars
  <2>1. AnnotatorInv /\ [AnnotatorNext]_annotatorVars
          => [QuietFor(e, n) /\ e \in quiet => QuietFor(e, n)']_annotatorVars
    BY QuietStep
  <2> QED BY <2>1, AnnotatorInvariance, PTL DEF AnnotatorSpec
<1>3. ASSUME NEW n \in 1 .. Span
      PROVE  AnnotatorSpec => [][QuietFor(e, n) /\ TimePasses => QuietFor(e, n + 1)']_annotatorVars
  <2>1. AnnotatorInv /\ [AnnotatorNext]_annotatorVars
          => [QuietFor(e, n) /\ TimePasses => QuietFor(e, n + 1)']_annotatorVars
    BY QuietAges
  <2> QED BY <2>1, AnnotatorInvariance, PTL DEF AnnotatorSpec
<1>4. AnnotatorInv /\ [AnnotatorNext]_annotatorVars
        => [QuietFor(e, Span + 1) /\ FlushEntry(e) => ShowsNoTraffic(e)']_annotatorVars
  BY FlushShowsNothing
<1>5. AnnotatorInv /\ [AnnotatorNext]_annotatorVars
        => [QuietFor(e, Span + 1) /\ e \in quiet /\ ShowsNoTraffic(e) => ShowsNoTraffic(e)']_annotatorVars
  BY ShowsNothingStays
<1>6. AnnotatorInv => (e \notin tracked => ShowsNoTraffic(e))
  BY DEF AnnotatorInv, TableInv, MetricsAreMaintained, NoMetrics, ShowsNoTraffic
<1>7. AnnotatorSpec =>
        [][QuietFor(e, Span + 1) /\ FlushEntry(e) => ShowsNoTraffic(e)']_annotatorVars
  BY <1>4, AnnotatorInvariance, PTL DEF AnnotatorSpec
<1>8. AnnotatorSpec =>
        [][QuietFor(e, Span + 1) /\ e \in quiet /\ ShowsNoTraffic(e) => ShowsNoTraffic(e)']_annotatorVars
  BY <1>5, AnnotatorInvariance, PTL DEF AnnotatorSpec
<1>9. AnnotatorSpec => []QuietFor(e, 1)
  BY <1>1, AnnotatorInvariance, PTL
<1>10. AnnotatorSpec => [](e \notin tracked => ShowsNoTraffic(e))
  BY <1>6, AnnotatorInvariance, PTL
<1> QED BY <1>2, <1>3, <1>7, <1>8, <1>9, <1>10
=============================================================================
