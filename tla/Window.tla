------------------------------- MODULE Window -------------------------------
(***************************************************************************)
(* The ring of tumbling buckets of pkg/metrics/window.go, as operators on  *)
(* a window value.  A method of the Go type runs under the window's mutex  *)
(* and reads the clock after taking it, so a call is one application of    *)
(* the operator to the window and the present time.                        *)
(*                                                                         *)
(* A bucket's ConnectionCount, CloseCount and RetransmitCount are its      *)
(* count["connect"], count["close"] and count["retransmit"].  The byte and *)
(* duration totals are summed and reset with them and are left out.        *)
(***************************************************************************)
EXTENDS Integers, FiniteSetsExt

CONSTANTS
  BucketCount,      (* number of buckets in the ring                             *)
  WindowDuration    (* time the whole window spans                               *)

(* advance would never return with an empty slice.                             *)
ASSUME WindowConstants ==
  /\ BucketCount \in Nat \ {0}
  /\ WindowDuration \in Nat
  /\ WindowDuration >= BucketCount

Kinds == {"connect", "close", "retransmit"}

Slots == 0 .. BucketCount - 1

(* Integer division: a window that is no multiple of its bucket count covers   *)
(* less than WindowDuration.                                                    *)
SlideInterval == WindowDuration \div BucketCount

Bucket(start) == [StartTime |-> start, count |-> [k \in Kinds |-> 0]]

(* Fault: the first current bucket lies past the ring's end.                    *)
NewWindowPastEnd(now) ==
  [buckets    |-> [i \in Slots |-> Bucket(now - WindowDuration + i * SlideInterval)],
   currentIdx |-> BucketCount]

NewWindow(now) ==
  [buckets    |-> [i \in Slots |-> Bucket(now - WindowDuration + i * SlideInterval)],
   currentIdx |-> BucketCount - 1]

-----------------------------------------------------------------------------
SliceStart(w) == w.buckets[w.currentIdx].StartTime
SliceEnd(w)   == SliceStart(w) + SlideInterval

(* The slot k places after i in the ring, and how far i lies behind j.          *)
Forward(i, k) ==
  LET r == k % BucketCount IN IF i + r < BucketCount THEN i + r ELSE i + r - BucketCount
Behind(i, j)  == IF i <= j THEN j - i ELSE j - i + BucketCount

(* How often advance's loop runs: until the slice's end is not before now.      *)
Expired(w, now) ==
  IF now > SliceEnd(w) THEN (now - SliceEnd(w) - 1) \div SlideInterval + 1 ELSE 0

(***************************************************************************)
(* advance, its loop taken as a whole: k slices have expired, so the       *)
(* current index moves k places and the buckets it passes are emptied,     *)
(* each starting where the one before it ends.                             *)
(***************************************************************************)
AdvanceBy(w, k) ==
  LET idx == Forward(w.currentIdx, k)
  IN  [buckets    |-> [i \in Slots |->
                         IF Behind(i, idx) < k
                           THEN Bucket(SliceStart(w) + (k - Behind(i, idx)) * SlideInterval)
                           ELSE w.buckets[i]],
       currentIdx |-> idx]

(* Faults: one slice per call; a slice restarted at the present time; counts    *)
(* left in the bucket that is opened again.                                     *)
AdvanceOnce(w, now) == AdvanceBy(w, IF now > SliceEnd(w) THEN 1 ELSE 0)

AdvanceRebased(w, now) ==
  LET next == AdvanceBy(w, Expired(w, now))
  IN  IF now > SliceEnd(w)
        THEN [next EXCEPT !.buckets[next.currentIdx].StartTime = now]
        ELSE w

AdvanceDirty(w, now) ==
  LET next == AdvanceBy(w, Expired(w, now))
  IN  [next EXCEPT !.buckets = [i \in Slots |-> [@[i] EXCEPT !.count = w.buckets[i].count]]]

Advance(w, now) == AdvanceBy(w, Expired(w, now))

(* RecordConnect, RecordClose and RecordRetransmit.                             *)
Record(w, k, now) ==
  LET next == Advance(w, now)
  IN  [next EXCEPT !.buckets[next.currentIdx].count[k] = @ + 1]

(* The sums that Aggregate returns of a window it has advanced.                 *)
Total(w, k) == MapThenSumSet(LAMBDA i : w.buckets[i].count[k], Slots)
=============================================================================
