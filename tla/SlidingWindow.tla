--------------------------- MODULE SlidingWindow ---------------------------
(***************************************************************************)
(* One edge's window in use: connections, closes and retransmits are       *)
(* recorded in it and totals are read from it at any time, with pauses of  *)
(* any length between the calls.  The window only moves when it is called. *)
(*                                                                         *)
(* log is a history variable: the events recorded so far and the time of   *)
(* each, which is what the totals are to be about.                         *)
(***************************************************************************)
EXTENDS Window

CONSTANTS
  MaxTime,      (* bound: the clock stops here                                   *)
  MaxEvents     (* bound: events recorded                                        *)

ASSUME SlidingWindowBounds == MaxTime \in Nat /\ MaxEvents \in Nat

VARIABLES
  now,          (* the clock                                                     *)
  window,       (* EdgeState.Window                                              *)
  log           (* history: records [id, kind, time]                             *)

vars == <<now, window, log>>

Event == [id : 1 .. MaxEvents, kind : Kinds, time : 0 .. MaxTime]

Init ==
  /\ now = 0
  /\ window = NewWindow(0)
  /\ log = {}

-----------------------------------------------------------------------------
Tick ==
  /\ now < MaxTime
  /\ now' = now + 1
  /\ UNCHANGED <<window, log>>

RecordEvent(k) ==
  /\ Cardinality(log) < MaxEvents
  /\ window' = Record(window, k, now)
  /\ log' = log \union {[id |-> Cardinality(log) + 1, kind |-> k, time |-> now]}
  /\ UNCHANGED now

(* A read advances the window as well.                                          *)
Aggregate ==
  /\ window' = Advance(window, now)
  /\ UNCHANGED <<now, log>>

Next ==
  \/ Tick
  \/ \E k \in Kinds : RecordEvent(k)
  \/ Aggregate

Spec == Init /\ [][Next]_vars

-----------------------------------------------------------------------------
(* What the window should hold, in terms of the events themselves. *)

(* The events of kind k after time a and up to time b.                          *)
Logged(k, a, b) == {e \in log : e.kind = k /\ a < e.time /\ e.time <= b}

(* The history of the bucket in slot i: its slice is (start, start + slide].    *)
InBucket(i, k) ==
  LET start == window.buckets[i].StartTime IN Logged(k, start, start + SlideInterval)

Span == BucketCount * SlideInterval

-----------------------------------------------------------------------------
BucketType == [StartTime : Int, count : [Kinds -> Nat]]

WindowType == [buckets : [Slots -> BucketType], currentIdx : Slots]

TypeOK ==
  /\ now \in 0 .. MaxTime
  /\ window \in WindowType
  /\ log \subseteq Event

(* The ring's slices are consecutive: going back from the current bucket each  *)
(* one ends where its successor starts, whatever has been overwritten           *)
(* (window.go:79-87).                                                           *)
Consecutive(w) ==
  \A i \in Slots :
    w.buckets[i].StartTime = SliceStart(w) - Behind(i, w.currentIdx) * SlideInterval

SlicesAreConsecutive == Consecutive(window)

(* Every bucket counts exactly the events of its own time slice: none is lost   *)
(* or counted twice when a bucket is reused, after a pause of any length        *)
(* (window.go:74-116).                                                          *)
BucketsCountTheirSlice ==
  \A i \in Slots, k \in Kinds : window.buckets[i].count[k] = Cardinality(InBucket(i, k))

(* Whenever the window is advanced, every instant of the full slices behind     *)
(* the current one falls into exactly one bucket, and no bucket reaches back    *)
(* further than the window: an event cannot be summed twice or fall between     *)
(* two buckets (window.go:145-164).                                             *)
Covers(w, i, t) ==
  w.buckets[i].StartTime < t /\ t <= w.buckets[i].StartTime + SlideInterval

ReadCoversTheWindow ==
  LET v == Advance(window, now) IN
  /\ \A i \in Slots : now - Span <= v.buckets[i].StartTime
  /\ \A t \in (now - Span + SlideInterval + 1) .. now :
       /\ \E i \in Slots : Covers(v, i, t)
       /\ \A i, j \in Slots : Covers(v, i, t) /\ Covers(v, j, t) => i = j

(* One turn of advance's loop: the oldest bucket starts the next slice.         *)
Turn(w) ==
  LET idx == (w.currentIdx + 1) % BucketCount
  IN  [buckets |-> [w.buckets EXCEPT ![idx] = Bucket(SliceEnd(w))], currentIdx |-> idx]

(* The closed form that the model uses for advance is what the loop computes:   *)
(* turn after turn while the slice's end is before the time t, for every pause  *)
(* that a state can still see (window.go:79-87).  A turn gains a time unit at   *)
(* least, which bounds their number.                                            *)
AdvanceIsTheLoop ==
  \A t \in now .. MaxTime :
    LET turns[n \in 0 .. t - SliceStart(window)] ==
          IF n = 0 THEN window ELSE Turn(turns[n - 1])
    IN  \E n \in DOMAIN turns :
          /\ \A m \in 0 .. n - 1 : t > SliceEnd(turns[m])
          /\ ~(t > SliceEnd(turns[n]))
          /\ Advance(window, t) = turns[n]
=============================================================================
