--------------------------- MODULE CascadeProofs ---------------------------
(***************************************************************************)
(* What one run of the Oracle guarantees for every graph and every metric. *)
(* The search is correct whatever the failure models say: only its order   *)
(* is used.  The types are the other half: there the models' numbers are   *)
(* followed through every conversion.                                      *)
(***************************************************************************)
EXTENDS Cascade, FiniteSums

(* The shape of the search.  effect is left open: nothing below reads it but   *)
(* through Outcome.                                                            *)
SearchState ==
  /\ path \in Seq(Nodes) /\ path # <<>>
  /\ next \in 1 .. Len(path) + 1
  /\ current \in Visited
  /\ pending \subseteq CallersOf(current)
  /\ health = [n \in Nodes |-> health[n]]
  /\ effect = [n \in Nodes |-> effect[n]]

Holds(m, n) == Outcome(m, n, effect[n].latency) = StateHealthy

(* A caller of a service that left the queue failed too, or holds against it,  *)
(* or is still to be asked.                                                    *)
DequeuedIsAsked ==
  \A j \in 1 .. next - 1, m \in Nodes :
    <<m, path[j]>> \in Edges =>
      \/ m \in Visited
      \/ Holds(m, path[j])
      \/ path[j] = current /\ m \in pending

IInv == SearchState /\ CauseOfFailure /\ PathIsFailures /\ DequeuedIsAsked

-----------------------------------------------------------------------------
(* Whether a caller holds against n depends on what n adds, and on nothing     *)
(* else that a step may change.                                                *)
LEMMA HoldsStable ==
  ASSUME NEW n, effect'[n] = effect[n]
  PROVE  \A m \in Nodes : Holds(m, n)' <=> Holds(m, n)
  BY DEF Holds, Outcome, SeenLatency, SeenError

LEMMA InitInv == Init => IInv
  <1> SUFFICES ASSUME Init PROVE IInv
    OBVIOUS
  <1>1. PICK origin \in Nodes, l \in Latencies, r \in Errors :
          /\ path = <<origin>> /\ next = 1 /\ current = origin /\ pending = {}
          /\ health = [n \in Nodes |-> IF n = origin THEN StateDegraded ELSE StateHealthy]
          /\ effect = [n \in Nodes |-> IF n = origin THEN [latency |-> l, error |-> r] ELSE NoEffect]
    BY DEF Init
  <1>2. Visited = {origin}
    BY <1>1 DEF Visited
  <1>3. SearchState
    BY <1>1, <1>2 DEF SearchState
  <1>4. CauseOfFailure
    BY <1>1 DEF CauseOfFailure
  <1>5. PathIsFailures
    BY <1>1, <1>2 DEF PathIsFailures, StateDegraded, StateHealthy
  <1>6. DequeuedIsAsked
    BY <1>1 DEF DequeuedIsAsked
  <1> QED
    BY <1>3, <1>4, <1>5, <1>6 DEF IInv

(* A step that leaves path, health and effect alone can only disturb the       *)
(* bookkeeping of the queue.                                                   *)
LEMMA DequeueInv == IInv /\ Dequeue => IInv'
  <1> SUFFICES ASSUME IInv, Dequeue PROVE IInv'
    OBVIOUS
  <1>1. UNCHANGED <<path, health, effect>> /\ Visited' = Visited
    BY DEF Dequeue, Visited
  <1>2. SearchState'
    BY <1>1 DEF IInv, SearchState, Dequeue, Visited, CallersOf
  <1>3. CauseOfFailure' /\ PathIsFailures'
    BY <1>1 DEF IInv, CauseOfFailure, PathIsFailures
  <1>4. DequeuedIsAsked'
    <2> SUFFICES ASSUME NEW j \in 1 .. next, NEW m \in Nodes, <<m, path[j]>> \in Edges
                 PROVE m \in Visited \/ Holds(m, path[j])' \/ (path[j] = current' /\ m \in pending')
      BY <1>1 DEF IInv, SearchState, DequeuedIsAsked, Dequeue
    <2>1. CASE j = next
      BY <2>1 DEF Dequeue, CallersOf
    <2>2. CASE j \in 1 .. next - 1
      <3>1. m \in Visited \/ Holds(m, path[j])
        BY <2>2 DEF IInv, DequeuedIsAsked, Dequeue
      <3> QED
        BY <1>1, <3>1, HoldsStable
    <2> QED
      BY <2>1, <2>2 DEF IInv, SearchState
  <1> QED
    BY <1>2, <1>3, <1>4 DEF IInv

LEMMA NoFailureInv ==
  ASSUME IInv, NEW c \in Nodes, CallerVisited(c) \/ CallerHolds(c) PROVE IInv'
  <1>1. /\ UNCHANGED <<path, next, current, health, effect>> /\ Visited' = Visited
        /\ pending' = pending \ {c}
    BY DEF CallerVisited, CallerHolds, Visited
  <1>2. SearchState'
    BY <1>1 DEF IInv, SearchState, CallersOf
  <1>3. CauseOfFailure' /\ PathIsFailures'
    BY <1>1 DEF IInv, CauseOfFailure, PathIsFailures
  <1>4. c \in Visited \/ Holds(c, current)
    BY DEF CallerVisited, CallerHolds, Holds
  <1>5. DequeuedIsAsked'
    <2>1. \A n : \A m \in Nodes : Holds(m, n)' <=> Holds(m, n)
      BY <1>1, HoldsStable
    <2> QED
      BY <1>1, <1>4, <2>1 DEF IInv, DequeuedIsAsked
  <1> QED
    BY <1>2, <1>3, <1>5 DEF IInv

LEMMA FailureInv == ASSUME IInv, NEW c \in Nodes, CallerFails(c) PROVE IInv'
  <1>1. /\ c \in pending /\ c \notin Visited
        /\ path' = Append(path, c) /\ next' = next /\ current' = current
        /\ pending' = pending \ {c}
        /\ Outcome(c, current, effect[current].latency) > StateHealthy
        /\ health' = [health EXCEPT ![c] = Outcome(c, current, effect[current].latency)]
        /\ effect' = [effect EXCEPT ![c] = PassedOn(c, current)]
    BY DEF CallerFails
  <1>2. /\ path \in Seq(Nodes) /\ path' \in Seq(Nodes)
        /\ Len(path') = Len(path) + 1 /\ Len(path) \in Nat
        /\ path'[Len(path) + 1] = c
        /\ \A i \in 1 .. Len(path) : path'[i] = path[i]
    BY <1>1 DEF IInv, SearchState
  <1>3. DOMAIN path = 1 .. Len(path) /\ DOMAIN path' = 1 .. Len(path) + 1
    BY <1>2
  <1>4. Visited' = Visited \cup {c}
    BY <1>2, <1>3 DEF Visited
  <1>5. SearchState'
    <2>1. path' # <<>>
      BY <1>2
    <2>2. next' \in 1 .. Len(path') + 1
      BY <1>1, <1>2 DEF IInv, SearchState
    <2>3. current' \in Visited' /\ pending' \subseteq CallersOf(current')
      BY <1>1, <1>4 DEF IInv, SearchState, CallersOf
    <2>4. /\ health' = [n \in Nodes |-> health'[n]]
          /\ effect' = [n \in Nodes |-> effect'[n]]
      BY <1>1 DEF IInv, SearchState
    <2> QED
      BY <1>2, <2>1, <2>2, <2>3, <2>4 DEF SearchState
  <1>6. CauseOfFailure'
    <2>1. PICK j \in 1 .. Len(path) : path[j] = current
      BY <1>3 DEF IInv, SearchState, Visited
    <2>2. <<c, path[j]>> \in Edges
      BY <1>1, <2>1 DEF IInv, SearchState, CallersOf
    <2> SUFFICES ASSUME NEW i \in 2 .. Len(path) + 1
                 PROVE \E k \in 1 .. i - 1 : <<path'[i], path'[k]>> \in Edges
      BY <1>2, <1>3 DEF CauseOfFailure
    <2>3. CASE i = Len(path) + 1
      <3>1. path'[i] = c /\ path'[j] = path[j]
        BY <1>2, <2>3
      <3>2. j \in 1 .. i - 1
        BY <1>2, <2>3
      <3> QED
        BY <2>2, <3>1, <3>2
    <2>4. CASE i \in 2 .. Len(path)
      <3>1. PICK k \in 1 .. i - 1 : <<path[i], path[k]>> \in Edges
        BY <2>4 DEF IInv, CauseOfFailure
      <3>2. k \in 1 .. Len(path) /\ i \in 1 .. Len(path)
        BY <1>2, <2>4
      <3>3. path'[i] = path[i] /\ path'[k] = path[k]
        BY <1>2, <3>2
      <3> QED
        BY <3>1, <3>3
    <2>5. i = Len(path) + 1 \/ i \in 2 .. Len(path)
      BY <1>2
    <2> QED
      BY <2>3, <2>4, <2>5
  <1>7. PathIsFailures'
    <2>1. \A i, j \in DOMAIN path' : path'[i] = path'[j] => i = j
      BY <1>1, <1>2, <1>3 DEF IInv, PathIsFailures, Visited
    <2>2. \A n \in Nodes : health'[n] = IF n = c THEN Outcome(c, current, effect[current].latency)
                                                 ELSE health[n]
      BY <1>1 DEF IInv, SearchState
    <2>3. Visited' = {n \in Nodes : health'[n] > StateHealthy}
      BY <1>1, <1>4, <2>2 DEF IInv, PathIsFailures
    <2> QED
      BY <2>1, <2>3 DEF PathIsFailures
  <1>8. DequeuedIsAsked'
    <2>1. \A j \in 1 .. next - 1 :
            /\ path'[j] = path[j] /\ path[j] \in Visited
            /\ path[j] # c /\ effect'[path[j]] = effect[path[j]]
      BY <1>1, <1>2, <1>3 DEF IInv, SearchState, Visited
    <2> SUFFICES ASSUME NEW j \in 1 .. next - 1, NEW m \in Nodes, <<m, path[j]>> \in Edges
                 PROVE \/ m \in Visited'
                       \/ Holds(m, path[j])'
                       \/ path[j] = current /\ m \in pending'
      BY <1>1, <2>1 DEF DequeuedIsAsked
    <2>2. \/ m \in Visited
          \/ Holds(m, path[j])
          \/ path[j] = current /\ m \in pending
      BY DEF IInv, DequeuedIsAsked
    <2> QED
      BY <1>1, <1>4, <2>1, <2>2, HoldsStable
  <1> QED
    BY <1>5, <1>6, <1>7, <1>8 DEF IInv

(* Whatever the metrics are, a search stays in the states IInv describes.      *)
THEOREM Invariance == Spec => []IInv
  <1>1. IInv /\ [Next]_vars => IInv'
    <2> SUFFICES ASSUME IInv, [Next]_vars PROVE IInv'
      OBVIOUS
    <2>1. CASE Dequeue
      BY <2>1, DequeueInv
    <2>2. ASSUME NEW c \in Nodes, AskCaller(c) PROVE IInv'
      BY <2>2, NoFailureInv, FailureInv DEF AskCaller
    <2>3. CASE UNCHANGED vars
      <3>1. \A n : \A m \in Nodes : Holds(m, n)' <=> Holds(m, n)
        BY <2>3, HoldsStable DEF vars
      <3>0. UNCHANGED <<path, next, current, pending, health, effect>> /\ Visited' = Visited
        BY <2>3 DEF vars, Visited
      <3>2. SearchState' /\ CauseOfFailure' /\ PathIsFailures'
        BY <3>0 DEF IInv, SearchState, Visited, CallersOf, CauseOfFailure, PathIsFailures
      <3>3. DequeuedIsAsked'
        BY <3>0, <3>1 DEF IInv, DequeuedIsAsked
      <3> QED
        BY <3>2, <3>3 DEF IInv
    <2> QED
      BY <2>1, <2>2, <2>3 DEF Next
  <1> QED
    BY InitInv, <1>1, PTL DEF Spec
(* Every service of the path but the first calls one that failed before it.    *)
THEOREM FailuresHaveCauses == Spec => []CauseOfFailure
  <1>1. IInv => CauseOfFailure
    BY DEF IInv
  <1> QED
    BY <1>1, Invariance, PTL

(* So the edge the Shield cuts, from the second service of a cascade path to   *)
(* the first (strategy.go:51-60), is a link of the snapshot.                   *)
CutEdge == Len(path) >= 2 => <<path[2], path[1]>> \in Edges

THEOREM CutIsALink == Spec => []CutEdge
  <1>1. IInv => CutEdge
    <2> SUFFICES ASSUME IInv, Len(path) >= 2 PROVE <<path[2], path[1]>> \in Edges
      BY DEF CutEdge
    <2>1. 2 \in 2 .. Len(path)
      BY DEF IInv, SearchState
    <2>2. PICK j \in 1 .. 2 - 1 : <<path[2], path[j]>> \in Edges
      BY <2>1 DEF IInv, CauseOfFailure
    <2>3. j = 1
      BY <2>2
    <2> QED
      BY <2>2, <2>3
  <1> QED
    BY <1>1, Invariance, PTL

(* The path lists exactly the failed services, each of them once.              *)
THEOREM PathListsFailures == Spec => []PathIsFailures
  <1>1. IInv => PathIsFailures
    BY DEF IInv
  <1> QED
    BY <1>1, Invariance, PTL

(* The search is complete: at its end a healthy caller of a failed service     *)
(* would hold against it, in whatever order the callers were asked.            *)
THEOREM SearchIsComplete == Spec => []NobodyOverlooked
  <1>1. IInv => NobodyOverlooked
    <2> SUFFICES ASSUME IInv, Finished, NEW e \in Edges,
                        health[e[1]] = StateHealthy, health[e[2]] > StateHealthy
                 PROVE Holds(e[1], e[2])
      BY DEF NobodyOverlooked, Holds
    <2>1. e[1] \in Nodes /\ e[2] \in Nodes /\ e = <<e[1], e[2]>>
      BY SnapshotAssumption
    <2>2. e[1] \notin Visited /\ e[2] \in Visited
      BY <2>1 DEF IInv, PathIsFailures, StateHealthy
    <2>3. PICK j \in DOMAIN path : path[j] = e[2]
      BY <2>2 DEF Visited
    <2>4. j \in 1 .. next - 1 /\ pending = {}
      BY <2>3 DEF IInv, SearchState, Finished
    <2> QED
      BY <2>1, <2>2, <2>3, <2>4 DEF IInv, DequeuedIsAsked
  <1> QED
    BY <1>1, Invariance, PTL

-----------------------------------------------------------------------------
(* Types.  What a failing caller passes on are natural numbers again: no       *)
(* divisor is zero, and no difference in the models falls below zero.          *)

LEMMA Constants ==
  /\ DefaultThreadPoolSize \in Nat /\ DefaultConnPoolSize \in Nat /\ DefaultTimeout \in Nat
  /\ DefaultMaxRetries \in Nat /\ DefaultRetryBackoff \in Nat /\ MaxRetryIterations \in Nat
  /\ Second \in Nat \ {0} /\ Whole \in Nat \ {0}
BY ModelConfig

(* A quotient is as large as any number whose product it covers.               *)
LEMMA QuotientAtLeast ==
  ASSUME NEW a \in Int, NEW s \in Nat \ {0}, NEW b \in Int, b * s <= a
  PROVE  b <= a \div s
<1> DEFINE q == a \div s
<1>1. q \in Int /\ a < q * s + s
  BY Quotient
<1> HIDE DEF q
<1>2. SUFFICES ASSUME q + 1 <= b PROVE FALSE
  BY <1>1 DEF q
<1>3. (b - (q + 1)) * s >= 0 /\ (b - (q + 1)) * s = b * s - (q * s + s)
      /\ b * s \in Int /\ q * s \in Int
  BY <1>1, <1>2
<1> QED BY <1>1, <1>3

LEMMA QuotientsGrow ==
  ASSUME NEW a \in Int, NEW b \in Int, a <= b, NEW s \in Nat \ {0}
  PROVE  a \div s <= b \div s
<1> DEFINE q == a \div s
<1>1. q \in Int /\ q * s <= a
  BY Quotient
<1> HIDE DEF q
<1>2. q * s \in Int
  BY <1>1
<1>3. q * s <= b
  BY <1>1, <1>2
<1> QED BY <1>1, <1>3, QuotientAtLeast DEF q

LEMMA Products ==
  ASSUME NEW a \in Nat, NEW b \in Nat
  PROVE  a * b \in Nat
OBVIOUS

LEMMA SeverityType ==
  ASSUME NEW rate, NEW latency, NEW error
  PROVE  Severity(rate, latency, error) \in StateHealthy .. StateExhausted
<1> DEFINE T == {StateHealthy, StateDegraded, StateExhausted}
<1>1. ThreadPoolExhaustion(rate, latency).state \in T
  BY DEF ThreadPoolExhaustion, Fine, Result
<1>2. ConnPoolSaturation(rate, latency).state \in T
  BY DEF ConnPoolSaturation, Fine, Result
<1>3. EvaluateTimeout(latency).state \in T
  BY DEF EvaluateTimeout, Fine, Result
<1>4. RetryAmplification(rate, error, latency).state \in T
  BY DEF RetryAmplification, Fine, Result
<1>5. \A s, t \in T : Worse(s, t) \in T
  BY DEF Worse
<1>6. Severity(rate, latency, error) \in T
  BY <1>1, <1>2, <1>3, <1>4, <1>5 DEF Severity
<1> QED BY <1>6 DEF StateHealthy, StateDegraded, StateExhausted

LEMMA DelayTypes ==
  ASSUME NEW rate \in Nat, NEW latency \in Nat
  PROVE  AdditionalLatency(rate, latency) \in Nat
<1> DEFINE busy == Busy(rate, latency)
<1>0. busy \in Nat
  BY Products DEF Busy
<1> HIDE DEF busy
<1>1. ThreadPoolExhaustion(rate, latency).delay \in Nat
  <2> DEFINE room == DefaultThreadPoolSize * Second
             q == (busy * latency) \div (room - busy + Second)
  <2>1. room \in Nat
    BY Constants, Products
  <2>2. ASSUME busy <= room PROVE q \in Nat
    <3>1. room - busy + Second \in Nat \ {0} /\ busy * latency \in Nat
      BY <1>0, <2>1, <2>2, Constants, Products
    <3> QED BY <3>1, Quotient
  <2>3. \/ ThreadPoolExhaustion(rate, latency) = Fine
        \/ busy <= room /\ ThreadPoolExhaustion(rate, latency) = Result(StateDegraded, q, 0)
        \/ ThreadPoolExhaustion(rate, latency) = Result(StateExhausted, 0, 0)
    BY DEF ThreadPoolExhaustion, busy
  <2> HIDE DEF q
  <2> QED BY <2>2, <2>3 DEF Fine, Result
<1>2. ConnPoolSaturation(rate, latency).delay \in Nat
  <2> DEFINE room == DefaultConnPoolSize * Second
             q == (10 * busy * latency) \div (101 * DefaultConnPoolSize * Second - 100 * busy)
             p == ((busy - room) * latency) \div room
  <2>1. room \in Nat /\ 101 * DefaultConnPoolSize * Second = 101 * room
        /\ (DefaultConnPoolSize # 0 => room # 0)
    <3>1. room \in Nat /\ DefaultConnPoolSize \in Nat /\ Second \in Nat \ {0}
      BY Constants, Products
    <3>2. 101 * DefaultConnPoolSize * Second = 101 * room
      BY <3>1
    <3>3. DefaultConnPoolSize # 0 => room # 0
      BY <3>1
    <3> QED BY <3>1, <3>2, <3>3
  <2>2. ASSUME busy <= room, room # 0 PROVE q \in Nat
    <3>1. 101 * room - 100 * busy \in Nat \ {0}
      <4> HIDE DEF room
      <4> QED BY <1>0, <2>1, <2>2
    <3>2. 10 * busy * latency \in Nat
      <4>1. 10 * busy \in Nat
        BY <1>0
      <4> QED BY <4>1, Products
    <3>3. 101 * DefaultConnPoolSize * Second - 100 * busy \in Nat \ {0}
      BY <2>1, <3>1
    <3> QED BY <3>2, <3>3, Quotient
  <2>3. ASSUME ~(busy <= room), room # 0 PROVE p \in Nat
    <3>1. busy - room \in Nat
      BY <1>0, <2>1, <2>3
    <3>2. (busy - room) * latency \in Nat
      BY <3>1, Products
    <3> HIDE DEF room
    <3> QED BY <2>1, <2>3, <3>2, Quotient
  <2>4. \/ ConnPoolSaturation(rate, latency) = Fine
        \/ /\ DefaultConnPoolSize # 0 /\ busy <= room
           /\ ConnPoolSaturation(rate, latency) = Result(StateDegraded, q, 0)
        \/ /\ DefaultConnPoolSize # 0 /\ ~(busy <= room)
           /\ ConnPoolSaturation(rate, latency) = Result(StateExhausted, p, 0)
    BY DEF ConnPoolSaturation, busy
  <2> HIDE DEF q, p, room
  <2> QED BY <2>1, <2>2, <2>3, <2>4 DEF Fine, Result
<1>3. EvaluateTimeout(latency).delay \in Nat
  <2>1. EffectiveLatency(latency) \in Nat
    <3>1. DefaultRetryBackoff + latency \in Nat
      BY Constants
    <3>2. DefaultMaxRetries * (DefaultRetryBackoff + latency) \in Nat
      BY <3>1, Constants, Products
    <3> QED BY <3>2, Constants DEF EffectiveLatency
  <2> QED BY <2>1 DEF EvaluateTimeout, Fine, Result
<1> QED BY <1>1, <1>2, <1>3 DEF AdditionalLatency

-----------------------------------------------------------------------------
(* The retry loop. *)

FirstRound(rate, error, latency) == RoundEnd(0, error, Overload(rate, error, latency))

Later(rate, error, latency, last) ==
  IF last.converged THEN last
  ELSE RoundEnd(last.before, last.error,
                Feedback(rate, error, latency, Distance(last.error, last.before)))

LEMMA LoopConstants ==
  /\ Room \in Nat /\ Room * Whole \in Nat /\ (Room # 0 => Room * Whole # 0)
  /\ Whole \in Nat \ {0} /\ Rounds - 1 \in Nat
  /\ \A error \in Nat : Spared(error) \in 0 .. Whole
<1>1. Room \in Nat /\ Whole \in Nat \ {0}
  BY Constants, Products DEF Room
<1>2. Room * Whole \in Nat /\ (Room # 0 => Room * Whole # 0)
  BY <1>1
<1>3. Rounds - 1 \in Nat
  BY Constants DEF Rounds
<1>4. \A error \in Nat : Spared(error) \in 0 .. Whole
  BY <1>1 DEF Spared, AtMost
<1> QED BY <1>1, <1>2, <1>3, <1>4

LEMMA LoadType ==
  ASSUME NEW rate \in Nat, NEW errors \in Nat
  PROVE  Load(rate, errors) \in Nat
<1>1. errors * DefaultMaxRetries \in Nat
  BY Constants, Products
<1>2. Whole + errors * DefaultMaxRetries \in Nat
  BY <1>1, Constants
<1> QED BY <1>2, Products DEF Load

LEMMA ExcessType ==
  ASSUME NEW load \in Nat, NEW latency \in Nat
  PROVE  Excess(load, latency) \in Nat /\ Excess(load, latency) <= Room * Whole
<1> DEFINE w == Room * Whole
           x == load * latency
<1>1. w \in Nat /\ x \in Nat
  BY LoopConstants, Products
<1> HIDE DEF w, x
<1>2. Excess(load, latency) = IF x - w > 0 THEN AtMost(x - w, w) ELSE 0
  BY DEF Excess, w, x
<1>3. Excess(load, latency) \in Nat /\ Excess(load, latency) <= w
  BY <1>1, <1>2 DEF AtMost
<1> QED BY <1>3 DEF w

LEMMA GainTypes ==
  ASSUME NEW rate \in Nat, NEW error \in Nat, NEW latency \in Nat, NEW added \in Nat
  PROVE  Overload(rate, error, latency) \in Nat /\ Feedback(rate, error, latency, added) \in Nat
<1> DEFINE w == Room * Whole
           x == Spared(error) * Excess(Load(rate, error), latency)
           y == Spared(error) * (rate * (added * DefaultMaxRetries) * latency)
<1>1. w \in Nat /\ (Room # 0 => w # 0)
  BY LoopConstants
<1>2. x \in Nat
  <2>1. Spared(error) \in Nat
    BY LoopConstants
  <2>2. Load(rate, error) \in Nat
    BY LoadType
  <2>3. Excess(Load(rate, error), latency) \in Nat
    BY <2>2, ExcessType
  <2> QED BY <2>1, <2>3, Products
<1>3. y \in Nat
  <2>1. added * DefaultMaxRetries \in Nat /\ Spared(error) \in Nat
    BY Constants, LoopConstants, Products
  <2>2. rate * (added * DefaultMaxRetries) \in Nat
    BY <2>1, Products
  <2>3. rate * (added * DefaultMaxRetries) * latency \in Nat
    BY <2>2, Products
  <2> QED BY <2>1, <2>3, Products
<1>4. /\ Overload(rate, error, latency) = IF Room = 0 THEN 0 ELSE x \div w
      /\ Feedback(rate, error, latency, added) = IF Room = 0 THEN 0 ELSE y \div w
  BY DEF Overload, Feedback
<1> HIDE DEF w, x, y
<1> QED BY <1>1, <1>2, <1>3, <1>4, Quotient

LEMMA RoundEndType ==
  ASSUME NEW before \in Nat, NEW now \in Nat, NEW gain \in Nat
  PROVE  /\ RoundEnd(before, now, gain) \in RetryState
         /\ RoundEnd(before, now, gain).error \in 0 .. Whole
<1>1. AtMost(now + gain, Whole) \in 0 .. Whole
  BY LoopConstants DEF AtMost
<1> QED BY <1>1 DEF RoundEnd, RetryState

LEMMA RoundTypes ==
  ASSUME NEW rate \in Nat, NEW error \in Nat, NEW latency \in Nat
  PROVE  /\ FirstRound(rate, error, latency) \in RetryState
         /\ \A last \in RetryState : Later(rate, error, latency, last) \in RetryState
<1>1. FirstRound(rate, error, latency) \in RetryState
  BY GainTypes, RoundEndType DEF FirstRound
<1>2. ASSUME NEW last \in RetryState PROVE Later(rate, error, latency, last) \in RetryState
  <2> DEFINE added == Distance(last.error, last.before)
  <2>1. last.before \in Nat /\ last.error \in Nat /\ added \in Nat
    BY DEF RetryState, Distance
  <2>2. Feedback(rate, error, latency, added) \in Nat
    <3> HIDE DEF added
    <3> QED BY <2>1, GainTypes
  <2> QED BY <2>1, <2>2, RoundEndType DEF Later
<1> QED BY <1>1, <1>2

(* The rounds of the loop, one after the other.                                *)
Run(r, rate, error, latency) ==
  /\ r[0] = FirstRound(rate, error, latency)
  /\ \A i \in 1 .. Rounds - 1 : r[i] = Later(rate, error, latency, r[i - 1])

LEMMA LoopRuns ==
  ASSUME NEW rate \in Nat, NEW error \in Nat, NEW latency \in Nat
  PROVE  \E r \in [0 .. Rounds - 1 -> RetryState] :
           Run(r, rate, error, latency) /\ RetryIteration(rate, error, latency) = r[Rounds - 1]
<1> DEFINE n == Rounds - 1
           start == FirstRound(rate, error, latency)
           later == [last \in RetryState |-> Later(rate, error, latency, last)]
           Turns(g) == [i \in 0 .. n |-> IF i = 0 THEN start ELSE later[g[i - 1]]]
           round == CHOOSE g : g = Turns(g)
<1>1. n \in Nat /\ start \in RetryState /\ later \in [RetryState -> RetryState]
  BY LoopConstants, RoundTypes
<1>2. RetryIteration(rate, error, latency) = round[n]
  BY DEF RetryIteration, FirstRound, Later
<1>3. \A last \in RetryState : later[last] = Later(rate, error, latency, last)
  OBVIOUS
<1>4. start = FirstRound(rate, error, latency)
  OBVIOUS
<1> HIDE DEF n, start, later
<1>5. PICK r \in [0 .. n -> RetryState] : r[0] = start /\ \A i \in 1 .. n : r[i] = later[r[i - 1]]
  <2>1. \E r \in [0 .. n -> RetryState] : Iterates(r, later, start, n)
    BY <1>1, Iteration
  <2> QED BY <2>1 DEF Iterates
<1>6. r = Turns(r)
  <2>1. \A i \in 0 .. n : r[i] = IF i = 0 THEN start ELSE later[r[i - 1]]
    BY <1>1, <1>5
  <2>2. r = [i \in 0 .. n |-> r[i]]
    OBVIOUS
  <2> QED BY <2>1, <2>2
<1>7. round = Turns(round)
  <2> HIDE DEF Turns
  <2> QED BY <1>6
<1> HIDE DEF round
<1>8. round[0] = start /\ \A i \in 1 .. n : round[i] = later[round[i - 1]]
  BY <1>1, <1>7
<1>9. round = [i \in 0 .. n |-> round[i]]
  BY <1>7
<1> DEFINE P == {i \in Nat : i <= n => round[i] \in RetryState}
<1>10. 0 \in P
  BY <1>1, <1>8
<1>11. ASSUME NEW i \in Nat, i \in P PROVE i + 1 \in P
  <2> SUFFICES ASSUME i + 1 <= n PROVE round[i + 1] \in RetryState
    OBVIOUS
  <2>1. i + 1 \in 1 .. n /\ (i + 1) - 1 = i /\ i <= n
    BY <1>1
  <2>2. round[i] \in RetryState
    BY <1>11, <2>1
  <2> QED BY <1>1, <1>8, <2>1, <2>2
<1>12. \A i \in 0 .. n : round[i] \in RetryState
  <2> HIDE DEF P
  <2>1. Nat \subseteq P
    BY <1>10, <1>11, Induction
  <2> QED BY <1>1, <2>1 DEF P
<1>13. round \in [0 .. n -> RetryState]
  BY <1>9, <1>12
<1>14. \A i \in 1 .. n : round[i] = Later(rate, error, latency, round[i - 1])
  <2> SUFFICES ASSUME NEW i \in 1 .. n PROVE round[i] = Later(rate, error, latency, round[i - 1])
    OBVIOUS
  <2>1. i - 1 \in 0 .. n
    BY <1>1
  <2> QED BY <1>3, <1>8, <1>12, <2>1
<1> QED BY <1>2, <1>4, <1>8, <1>13, <1>14 DEF Run, n

LEMMA ExtraLoadType ==
  ASSUME NEW rate \in Nat, NEW error \in Nat, NEW latency \in Nat
  PROVE  AdditionalErrors(rate, latency, error) \in Nat
<1> DEFINE end == RetryIteration(rate, error, latency)
           extra == end.before * DefaultMaxRetries
<1>1. end \in RetryState
  <2>1. PICK r \in [0 .. Rounds - 1 -> RetryState] : RetryIteration(rate, error, latency) = r[Rounds - 1]
    BY LoopRuns
  <2>2. Rounds - 1 \in 0 .. Rounds - 1
    BY LoopConstants
  <2> QED BY <2>1, <2>2
<1>2. extra \in Nat
  BY <1>1, Constants, Products DEF RetryState
<1>3. \/ RetryAmplification(rate, error, latency).extraLoad = 0
      \/ RetryAmplification(rate, error, latency).extraLoad = extra
  BY DEF RetryAmplification, Fine, Result
<1> HIDE DEF end, extra
<1>4. RetryAmplification(rate, error, latency).extraLoad \in Nat
  BY <1>2, <1>3
<1> QED BY <1>4, Quotient DEF AdditionalErrors

EffectType == [latency : Nat, error : 0 .. Whole]

LEMMA PassedOnType ==
  ASSUME NEW c, NEW n, <<c, n>> \in Edges, effect[n] \in EffectType
  PROVE  PassedOn(c, n) \in EffectType
<1> DEFINE rate == RequestRate[<<c, n>>]
           seen == SeenLatency(c, n, effect[n].latency)
           error == SeenError(c, n)
<1>1. effect[n].latency \in Nat /\ effect[n].error \in Nat /\ Whole \in Nat
  BY Constants DEF EffectType
<1>2. rate \in Nat /\ seen \in Nat /\ error \in Nat
  <2>1. LatencyP99[<<c, n>>] \in Nat /\ RequestRate[<<c, n>>] \in Nat /\ ErrorRate[<<c, n>>] \in 0 .. Whole
    BY SnapshotAssumption
  <2> QED BY <1>1, <2>1 DEF SeenLatency, SeenError
<1>3. AdditionalLatency(rate, seen) \in Nat /\ AdditionalErrors(rate, seen, error) \in Nat
  <2> HIDE DEF rate, seen, error
  <2> QED BY <1>2, DelayTypes, ExtraLoadType
<1>4. effect[n].latency \div 2 \in Nat /\ effect[n].error \div 2 \in Nat
  BY <1>1, Quotient
<1>5. PassedOn(c, n) = [latency |-> AdditionalLatency(rate, seen) + effect[n].latency \div 2,
                        error |-> AtMost(AdditionalErrors(rate, seen, error) + effect[n].error \div 2, Whole)]
  BY DEF PassedOn
<1> HIDE DEF rate, seen, error
<1> QED BY <1>1, <1>3, <1>4, <1>5 DEF AtMost, EffectType

-----------------------------------------------------------------------------
StatesTyped ==
  /\ health \in [Nodes -> StateHealthy .. StateExhausted]
  /\ effect \in [Nodes -> EffectType]

LEMMA InitTypes == Init => StatesTyped
<1> SUFFICES ASSUME Init PROVE StatesTyped
  OBVIOUS
<1>1. PICK origin \in Nodes, l \in Latencies, r \in Errors :
        /\ health = [n \in Nodes |-> IF n = origin THEN StateDegraded ELSE StateHealthy]
        /\ effect = [n \in Nodes |-> IF n = origin THEN [latency |-> l, error |-> r] ELSE NoEffect]
  BY DEF Init
<1>2. l \in Nat /\ r \in 0 .. Whole /\ Whole \in Nat
  BY SnapshotAssumption, Constants
<1>3. [latency |-> l, error |-> r] \in EffectType /\ NoEffect \in EffectType
  BY <1>2 DEF EffectType, NoEffect
<1> QED BY <1>1, <1>3 DEF StatesTyped, StateDegraded, StateHealthy, StateExhausted

LEMMA StepTypes == IInv /\ StatesTyped /\ [Next]_vars => StatesTyped'
<1> SUFFICES ASSUME IInv, StatesTyped, [Next]_vars PROVE StatesTyped'
  OBVIOUS
<1>1. CASE UNCHANGED <<health, effect>>
  BY <1>1 DEF StatesTyped
<1>2. ASSUME NEW c \in Nodes, CallerFails(c) PROVE StatesTyped'
  <2>1. /\ health' = [health EXCEPT ![c] = Outcome(c, current, effect[current].latency)]
        /\ effect' = [effect EXCEPT ![c] = PassedOn(c, current)]
        /\ c \in pending
    BY <1>2 DEF CallerFails
  <2>2. <<c, current>> \in Edges /\ current \in Nodes
    BY <2>1, SnapshotAssumption DEF IInv, SearchState, CallersOf
  <2>3. Outcome(c, current, effect[current].latency) \in StateHealthy .. StateExhausted
    BY SeverityType DEF Outcome
  <2>4. PassedOn(c, current) \in EffectType
    BY <2>2, PassedOnType DEF StatesTyped
  <2> QED BY <2>1, <2>3, <2>4 DEF StatesTyped
<1>3. \/ UNCHANGED <<health, effect>>
      \/ \E c \in Nodes : CallerFails(c)
  BY DEF Next, AskCaller, Dequeue, CallerVisited, CallerHolds, vars
<1> QED BY <1>1, <1>2, <1>3

(* Latencies and errors stay natural numbers along any path, for every metric  *)
(* and every setting of the pools, the timeout and the retries: the models      *)
(* never divide by zero, and the retry loop never gains capacity               *)
(* (threadpool.go, connpool.go, timeout.go, retry.go; cascade.go:91-128).      *)
THEOREM TypeCorrect == Spec => []TypeOK
<1>1. IInv /\ StatesTyped => TypeOK
  <2> SUFFICES ASSUME IInv, StatesTyped PROVE TypeOK
    OBVIOUS
  <2>1. current \in Nodes
    BY DEF IInv, SearchState, Visited
  <2> QED BY <2>1 DEF IInv, SearchState, StatesTyped, EffectType, TypeOK, CallersOf
<1> QED BY <1>1, InitTypes, StepTypes, InitInv, Invariance, PTL DEF Spec

-----------------------------------------------------------------------------
(* Latency and severity. *)

(* A busier pool is in no better state: both pools compare what is busy to two  *)
(* shares of their size.                                                        *)
LEMMA PoolsMonotone ==
  ASSUME NEW rate \in Nat, NEW slow \in Nat, NEW fast \in 0 .. slow
  PROVE  /\ ThreadPoolExhaustion(rate, fast).state <= ThreadPoolExhaustion(rate, slow).state
         /\ ConnPoolSaturation(rate, fast).state <= ConnPoolSaturation(rate, slow).state
<1> DEFINE State(busy, pool) == IF busy = 0 \/ pool = 0 \/ WellWithin(busy, pool) THEN StateHealthy
                                ELSE IF busy <= pool * Second THEN StateDegraded ELSE StateExhausted
<1>1. ASSUME NEW latency
      PROVE  /\ ThreadPoolExhaustion(rate, latency).state = State(Busy(rate, latency), DefaultThreadPoolSize)
             /\ ConnPoolSaturation(rate, latency).state = State(Busy(rate, latency), DefaultConnPoolSize)
  BY DEF ThreadPoolExhaustion, ConnPoolSaturation, Fine, Result
<1>2. Busy(rate, fast) \in Nat /\ Busy(rate, slow) \in Nat /\ Busy(rate, fast) <= Busy(rate, slow)
  BY ProductsGrow DEF Busy
<1>3. ASSUME NEW a \in Nat, NEW b \in Nat, a <= b, NEW pool \in Nat PROVE State(a, pool) <= State(b, pool)
  <2>1. pool * Second \in Nat /\ 8 * pool * Second = 8 * (pool * Second)
    BY Constants
  <2>2. WellWithin(b, pool) => WellWithin(a, pool)
    BY <1>3, <2>1 DEF WellWithin
  <2>3. b <= pool * Second => a <= pool * Second
    BY <1>3, <2>1
  <2> QED BY <1>3, <2>2, <2>3 DEF StateHealthy, StateDegraded, StateExhausted
<1> HIDE DEF State
<1> QED BY <1>1, <1>2, <1>3, Constants

(* A call that takes longer is no further from its timeout: what the retries    *)
(* add grows with it, until the timeout itself is all that counts.              *)
LEMMA TimeoutMonotone ==
  ASSUME NEW slow \in Nat, NEW fast \in 0 .. slow
  PROVE  EvaluateTimeout(fast).state <= EvaluateTimeout(slow).state
<1> DEFINE Late(l) == TimedOut(l) \/ 2 * EffectiveLatency(l) > DefaultTimeout
<1>1. \A l : EvaluateTimeout(l).state = IF Late(l) THEN StateDegraded ELSE StateHealthy
  BY DEF EvaluateTimeout, Fine, Result
<1>2. Late(fast) => Late(slow)
  <2> SUFFICES ASSUME Late(fast), ~TimedOut(slow) PROVE 2 * EffectiveLatency(slow) > DefaultTimeout
    OBVIOUS
  <2>1. ~TimedOut(fast)
    BY Constants DEF TimedOut
  <2>2. CASE DefaultTimeout = 0
    BY <2>1, <2>2 DEF EffectiveLatency
  <2>3. CASE DefaultTimeout # 0
    <3> DEFINE a == DefaultRetryBackoff + fast
               b == DefaultRetryBackoff + slow
    <3>1. a \in Nat /\ b \in Nat /\ a <= b
      BY Constants
    <3>2. /\ EffectiveLatency(fast) = fast + DefaultMaxRetries * a
          /\ EffectiveLatency(slow) = slow + DefaultMaxRetries * b
      BY <2>1, <2>3 DEF EffectiveLatency
    <3> HIDE DEF a, b
    <3>3. DefaultMaxRetries * a \in Nat /\ DefaultMaxRetries * b \in Nat /\ DefaultMaxRetries * a <= DefaultMaxRetries * b
      BY <3>1, Constants, ProductsGrow
    <3> QED BY <2>1, <3>2, <3>3, Constants
  <2> QED BY <2>2, <2>3
<1> HIDE DEF Late
<1> QED BY <1>1, <1>2 DEF StateHealthy, StateDegraded

(* The retry loop, for two latencies in lockstep.  Slow is the run of the       *)
(* slower callee: it has lost every call, or it is ahead of the other in load   *)
(* and errors, still adds at least as much, and does not settle before it.      *)
Ahead(slow, fast) ==
  /\ slow \in RetryState /\ fast \in RetryState
  /\ \/ slow.error = Whole
     \/ /\ fast.before <= slow.before /\ fast.error <= slow.error
        /\ fast.before <= fast.error /\ slow.before <= slow.error /\ slow.error <= Whole
        /\ \/ fast.converged
           \/ ~slow.converged /\ fast.error - fast.before <= slow.error - slow.before

LEMMA GainsGrow ==
  ASSUME NEW rate \in Nat, NEW error \in Nat, NEW slow \in Nat, NEW fast \in 0 .. slow,
         NEW more \in Nat, NEW added \in 0 .. more
  PROVE  /\ Overload(rate, error, fast) <= Overload(rate, error, slow)
         /\ Feedback(rate, error, fast, added) <= Feedback(rate, error, slow, more)
<1> DEFINE w == Room * Whole
           s == Spared(error)
           load == Load(rate, error)
           x(latency) == s * Excess(load, latency)
           y(latency, a) == s * (rate * (a * DefaultMaxRetries) * latency)
<1>1. /\ w \in Nat /\ (Room # 0 => w # 0) /\ s \in Nat
      /\ fast \in Nat /\ fast <= slow /\ added \in Nat /\ added <= more
  BY LoopConstants
<1>2. load \in Nat
  BY LoadType
<1>3. Excess(load, fast) <= Excess(load, slow)
  <2> HIDE DEF load
  <2> DEFINE a == load * fast
             b == load * slow
  <2>1. a \in Nat /\ b \in Nat /\ a <= b
    BY <1>1, <1>2, ProductsGrow
  <2>2. \A l : Excess(load, l) = IF load * l - w > 0 THEN AtMost(load * l - w, w) ELSE 0
    BY DEF Excess
  <2>3. /\ Excess(load, fast) = IF a - w > 0 THEN AtMost(a - w, w) ELSE 0
        /\ Excess(load, slow) = IF b - w > 0 THEN AtMost(b - w, w) ELSE 0
    BY <2>2
  <2> HIDE DEF a, b, w
  <2> QED BY <1>1, <2>1, <2>3 DEF AtMost
<1>4. x(fast) \in Nat /\ x(slow) \in Nat /\ x(fast) <= x(slow)
  <2>1. Excess(load, fast) \in Nat /\ Excess(load, slow) \in Nat
    <3> HIDE DEF load
    <3> QED BY <1>1, <1>2, ExcessType
  <2> HIDE DEF s, load
  <2> QED BY <1>1, <1>3, <2>1, ProductsGrow
<1>5. y(fast, added) \in Nat /\ y(slow, more) \in Nat /\ y(fast, added) <= y(slow, more)
  <2> DEFINE p == added * DefaultMaxRetries
             q == more * DefaultMaxRetries
  <2>1. p \in Nat /\ q \in Nat /\ p <= q
    BY <1>1, Constants, ProductsGrow
  <2> HIDE DEF p, q
  <2>2. rate * p \in Nat /\ rate * q \in Nat /\ rate * p <= rate * q
    BY <2>1, ProductsGrow
  <2>3. rate * p * fast \in Nat /\ rate * q * slow \in Nat /\ rate * p * fast <= rate * q * slow
    BY <1>1, <2>2, ProductsGrow
  <2> HIDE DEF s
  <2>4. s * (rate * p * fast) \in Nat /\ s * (rate * q * slow) \in Nat
        /\ s * (rate * p * fast) <= s * (rate * q * slow)
    BY <1>1, <2>3, ProductsGrow
  <2> QED BY <2>4 DEF p, q
<1>6. /\ Overload(rate, error, fast) = IF Room = 0 THEN 0 ELSE x(fast) \div w
      /\ Overload(rate, error, slow) = IF Room = 0 THEN 0 ELSE x(slow) \div w
      /\ Feedback(rate, error, fast, added) = IF Room = 0 THEN 0 ELSE y(fast, added) \div w
      /\ Feedback(rate, error, slow, more) = IF Room = 0 THEN 0 ELSE y(slow, more) \div w
  BY DEF Overload, Feedback
<1> HIDE DEF w, x, y
<1>7. CASE Room = 0
  BY <1>6, <1>7
<1>8. CASE Room # 0
  <2>1. x(fast) \div w <= x(slow) \div w
    BY <1>1, <1>4, <1>8, QuotientsGrow
  <2>2. y(fast, added) \div w <= y(slow, more) \div w
    BY <1>1, <1>5, <1>8, QuotientsGrow
  <2> QED BY <1>6, <1>8, <2>1, <2>2
<1> QED BY <1>7, <1>8

(* Two rounds that add no less to a higher error rate end no lower.            *)
LEMMA RoundsKeepOrder ==
  ASSUME NEW b1 \in Nat, NEW b2 \in Nat, NEW e1 \in Nat, NEW e2 \in Nat, NEW g1 \in Nat, NEW g2 \in Nat,
         e1 <= e2, e2 <= Whole, g1 <= g2, Distance(e1, b1) <= Distance(e2, b2)
  PROVE  Ahead(RoundEnd(b2, e2, g2), RoundEnd(b1, e1, g1))
<1> DEFINE f == RoundEnd(b1, e1, g1)
           s == RoundEnd(b2, e2, g2)
           d1 == Distance(e1, b1)
           d2 == Distance(e2, b2)
<1>0. Whole \in Nat /\ DefaultMaxRetries \in Nat
  BY Constants
<1>1. f \in RetryState /\ s \in RetryState
  BY RoundEndType
<1> DEFINE Settled(d, x, e) == 100 * (d * DefaultMaxRetries) < Whole /\ 1000 * Distance(x, e) < Whole
           x1 == AtMost(e1 + g1, Whole)
           x2 == AtMost(e2 + g2, Whole)
<1>2. /\ f = [before |-> e1, error |-> x1, converged |-> Settled(d1, x1, e1)]
      /\ s = [before |-> e2, error |-> x2, converged |-> Settled(d2, x2, e2)]
  BY DEF RoundEnd
<1>3. /\ f.before = e1 /\ f.error = x1 /\ f.converged = Settled(d1, x1, e1)
      /\ s.before = e2 /\ s.error = x2 /\ s.converged = Settled(d2, x2, e2)
  <2> HIDE DEF f, s, x1, x2, d1, d2, Settled
  <2> QED BY <1>2, Zenon
<1>4. d1 \in Nat /\ d2 \in Nat /\ d1 <= d2
  BY DEF Distance
<1> HIDE DEF d1, d2, f, s
<1>5. CASE s.error = Whole
  BY <1>1, <1>5 DEF Ahead, f, s
<1>6. CASE s.error # Whole
  <2>1. /\ s.error = e2 + g2 /\ f.error = e1 + g1 /\ f.error <= s.error /\ s.error <= Whole
    BY <1>0, <1>3, <1>6 DEF AtMost
  <2>2. Distance(f.error, e1) = g1 /\ Distance(s.error, e2) = g2
    BY <2>1 DEF Distance
  <2>3. s.converged => f.converged
    <3>1. d1 * DefaultMaxRetries \in Nat /\ d2 * DefaultMaxRetries \in Nat
          /\ d1 * DefaultMaxRetries <= d2 * DefaultMaxRetries
      BY <1>0, <1>4, ProductsGrow
    <3>2. 100 * (d2 * DefaultMaxRetries) < Whole => 100 * (d1 * DefaultMaxRetries) < Whole
      BY <1>0, <3>1
    <3>3. 1000 * g2 < Whole => 1000 * g1 < Whole
      BY <1>0
    <3>4. Settled(d2, s.error, e2) => Settled(d1, f.error, e1)
      BY <2>2, <3>2, <3>3
    <3> HIDE DEF Settled, x1, x2
    <3> QED BY <1>3, <3>4, Zenon
  <2>4. /\ f.before <= s.before /\ f.error <= s.error /\ f.before <= f.error /\ s.before <= s.error
        /\ f.error - f.before <= s.error - s.before
    BY <1>3, <2>1
  <2>5. f.converged \in BOOLEAN /\ s.converged \in BOOLEAN
    BY <1>1 DEF RetryState
  <2> QED BY <1>1, <2>1, <2>3, <2>4, <2>5 DEF Ahead, f, s
<1> QED BY <1>5, <1>6

LEMMA FirstRoundAhead ==
  ASSUME NEW rate \in Nat, NEW error \in Nat, NEW slow \in Nat, NEW fast \in 0 .. slow
  PROVE  Ahead(FirstRound(rate, error, slow), FirstRound(rate, error, fast))
<1> DEFINE g1 == Overload(rate, error, fast)
           g2 == Overload(rate, error, slow)
<1>1. fast \in Nat /\ g1 \in Nat /\ g2 \in Nat
  <2>1. fast \in Nat /\ 0 \in Nat
    OBVIOUS
  <2> QED BY <2>1, GainTypes
<1>2. g1 <= g2
  <2>1. 0 \in Nat /\ 0 \in 0 .. 0
    OBVIOUS
  <2> QED BY <2>1, GainsGrow
<1>3. FirstRound(rate, error, fast) = RoundEnd(0, error, g1) /\ FirstRound(rate, error, slow) = RoundEnd(0, error, g2)
  BY DEF FirstRound
<1> HIDE DEF g1, g2
<1>4. CASE error <= Whole
  <2>1. Distance(error, 0) <= Distance(error, 0)
    BY DEF Distance
  <2> QED BY <1>1, <1>2, <1>3, <1>4, <2>1, RoundsKeepOrder
<1>5. CASE error > Whole
  <2>1. RoundEnd(0, error, g2).error = Whole
    BY <1>1, <1>5, Constants DEF RoundEnd, AtMost
  <2> QED BY <1>1, <1>3, <2>1, RoundEndType DEF Ahead
<1> QED BY <1>4, <1>5, Constants

LEMMA LaterRoundAhead ==
  ASSUME NEW rate \in Nat, NEW error \in Nat, NEW slow \in Nat, NEW fast \in 0 .. slow,
         NEW s, NEW f, Ahead(s, f)
  PROVE  Ahead(Later(rate, error, slow, s), Later(rate, error, fast, f))
<1> DEFINE s1 == Later(rate, error, slow, s)
           f1 == Later(rate, error, fast, f)
           a1 == Distance(f.error, f.before)
           a2 == Distance(s.error, s.before)
           g1 == Feedback(rate, error, fast, a1)
           g2 == Feedback(rate, error, slow, a2)
<1>0. Whole \in Nat /\ fast \in Nat
  BY Constants
<1>1. /\ s \in RetryState /\ f \in RetryState
      /\ s.before \in Nat /\ s.error \in Nat /\ s.converged \in BOOLEAN
      /\ f.before \in Nat /\ f.error \in Nat /\ f.converged \in BOOLEAN
  BY DEF Ahead, RetryState
<1>2. a1 \in Nat /\ a2 \in Nat
  BY <1>1 DEF Distance
<1>3. g1 \in Nat /\ g2 \in Nat
  <2> HIDE DEF a1, a2
  <2> QED BY <1>0, <1>2, GainTypes
<1>4. s1 \in RetryState /\ f1 \in RetryState
  BY <1>0, <1>1, RoundTypes
<1>5. /\ s1 = IF s.converged THEN s ELSE RoundEnd(s.before, s.error, g2)
      /\ f1 = IF f.converged THEN f ELSE RoundEnd(f.before, f.error, g1)
  BY DEF Later
<1> HIDE DEF s1, f1
<1>6. CASE s.error = Whole
  <2>1. RoundEnd(s.before, s.error, g2).error = Whole
    <3> HIDE DEF g2
    <3> QED BY <1>0, <1>3, <1>6 DEF RoundEnd, AtMost
  <2>2. s1.error = Whole
    BY <1>5, <1>6, <2>1
  <2> QED BY <1>4, <2>2 DEF Ahead, s1, f1
<1>7. CASE s.error # Whole
  <2>1. /\ f.before <= s.before /\ f.error <= s.error
        /\ f.before <= f.error /\ s.before <= s.error /\ s.error <= Whole
        /\ \/ f.converged
           \/ ~s.converged /\ f.error - f.before <= s.error - s.before
    BY <1>7 DEF Ahead
  <2>2. CASE f.converged /\ s.converged
    BY <1>5, <2>2 DEF s1, f1
  <2>3. CASE f.converged /\ ~s.converged
    <3> HIDE DEF g2
    <3>1. s1.before = s.error /\ s1.error = AtMost(s.error + g2, Whole)
      BY <1>5, <2>3 DEF RoundEnd
    <3>2. s.error <= s1.error /\ s1.error <= Whole
      BY <1>0, <1>1, <1>3, <2>1, <3>1 DEF AtMost
    <3>3. f1 = f
      BY <1>5, <2>3
    <3>4. /\ f1.before <= s1.before /\ f1.error <= s1.error
          /\ f1.before <= f1.error /\ s1.before <= s1.error /\ s1.error <= Whole /\ f1.converged
      BY <1>0, <1>1, <1>4, <2>1, <2>3, <3>1, <3>2, <3>3 DEF RetryState
    <3> QED BY <1>4, <3>4 DEF Ahead, s1, f1
  <2>4. CASE ~f.converged
    <3>1. a1 <= a2
      BY <1>1, <2>1, <2>4 DEF Distance
    <3>2. g1 <= g2
      <4> HIDE DEF a1, a2
      <4> QED BY <1>2, <3>1, GainsGrow
    <3>3. ~s.converged
      BY <2>1, <2>4
    <3>4. Ahead(RoundEnd(s.before, s.error, g2), RoundEnd(f.before, f.error, g1))
      <4> HIDE DEF g1, g2
      <4> QED BY <1>1, <1>3, <2>1, <3>1, <3>2, RoundsKeepOrder
    <3> QED BY <1>5, <2>4, <3>3, <3>4 DEF s1, f1
  <2> QED BY <1>1, <2>2, <2>3, <2>4
<1> QED BY <1>6, <1>7

LEMMA LoopAhead ==
  ASSUME NEW rate \in Nat, NEW error \in Nat, NEW slow \in Nat, NEW fast \in 0 .. slow
  PROVE  Ahead(RetryIteration(rate, error, slow), RetryIteration(rate, error, fast))
<1> DEFINE n == Rounds - 1
<1>0. n \in Nat /\ fast \in Nat
  BY LoopConstants
<1>1. PICK s \in [0 .. n -> RetryState] :
        Run(s, rate, error, slow) /\ RetryIteration(rate, error, slow) = s[n]
  BY LoopRuns
<1>2. PICK f \in [0 .. n -> RetryState] :
        Run(f, rate, error, fast) /\ RetryIteration(rate, error, fast) = f[n]
  BY <1>0, LoopRuns
<1> HIDE DEF n
<1> DEFINE P == {i \in Nat : i <= n => Ahead(s[i], f[i])}
<1>3. 0 \in P
  BY <1>0, <1>1, <1>2, FirstRoundAhead DEF Run
<1>4. ASSUME NEW i \in Nat, i \in P PROVE i + 1 \in P
  <2> SUFFICES ASSUME i + 1 <= n PROVE Ahead(s[i + 1], f[i + 1])
    OBVIOUS
  <2>1. i + 1 \in 1 .. Rounds - 1 /\ (i + 1) - 1 = i /\ i <= n
    BY <1>0 DEF n
  <2>2. s[i + 1] = Later(rate, error, slow, s[i]) /\ f[i + 1] = Later(rate, error, fast, f[i])
    BY <1>1, <1>2, <2>1 DEF Run
  <2>3. Ahead(s[i], f[i])
    BY <1>4, <2>1
  <2> QED BY <2>2, <2>3, LaterRoundAhead
<1>5. n \in P
  <2> HIDE DEF P
  <2> QED BY <1>0, <1>3, <1>4, Induction
<1> QED BY <1>0, <1>1, <1>2, <1>5

LEMMA RetriesMonotone ==
  ASSUME NEW rate \in Nat, NEW error \in Nat, NEW slow \in Nat, NEW fast \in 0 .. slow
  PROVE  RetryAmplification(rate, error, fast).state <= RetryAmplification(rate, error, slow).state
<1> DEFINE s == RetryIteration(rate, error, slow)
           f == RetryIteration(rate, error, fast)
           Lost(r, latency) == \/ 10 * r.error > 9 * Whole
                               \/ Room > 0 /\ Load(rate, r.before) * latency > 2 * (Room * Whole)
           Amplified(r) == 2 * (r.before * DefaultMaxRetries) > Whole \/ 2 * r.error > Whole
           State(r, latency) == IF DefaultMaxRetries = 0 \/ rate = 0 THEN StateHealthy
                                ELSE IF Lost(r, latency) THEN StateExhausted
                                ELSE IF Amplified(r) THEN StateDegraded ELSE StateHealthy
<1>1. /\ RetryAmplification(rate, error, fast).state = State(f, fast)
      /\ RetryAmplification(rate, error, slow).state = State(s, slow)
  BY DEF RetryAmplification, Fine, Result
<1>2. Ahead(s, f)
  BY LoopAhead
<1> HIDE DEF s, f
<1>3. /\ s.before \in Nat /\ s.error \in Nat /\ f.before \in Nat /\ f.error \in Nat
  BY <1>2 DEF Ahead, RetryState
<1>4. CASE s.error = Whole
  <2>1. Lost(s, slow)
    BY <1>4, Constants
  <2> HIDE DEF Lost, Amplified
  <2> QED BY <1>1, <2>1 DEF StateHealthy, StateDegraded, StateExhausted
<1>5. CASE s.error # Whole
  <2>1. f.before <= s.before /\ f.error <= s.error
    BY <1>2, <1>5 DEF Ahead
  <2>2. Lost(f, fast) => Lost(s, slow)
    <3>1. 10 * f.error > 9 * Whole => 10 * s.error > 9 * Whole
      BY <1>3, <2>1, Constants
    <3> DEFINE lf == Load(rate, f.before)
               ls == Load(rate, s.before)
    <3>2. lf \in Nat /\ ls \in Nat /\ lf <= ls
      <4>1. /\ f.before * DefaultMaxRetries \in Nat /\ s.before * DefaultMaxRetries \in Nat
            /\ f.before * DefaultMaxRetries <= s.before * DefaultMaxRetries
        BY <1>3, <2>1, Constants, ProductsGrow
      <4> DEFINE p == Whole + f.before * DefaultMaxRetries
                 q == Whole + s.before * DefaultMaxRetries
      <4>2. p \in Nat /\ q \in Nat /\ p <= q
        BY <4>1, Constants
      <4> HIDE DEF p, q
      <4>3. rate * p \in Nat /\ rate * q \in Nat /\ rate * p <= rate * q
        BY <4>2, ProductsGrow
      <4> QED BY <4>3 DEF Load, p, q
    <3> HIDE DEF lf, ls
    <3>3. lf * fast \in Nat /\ ls * slow \in Nat /\ lf * fast <= ls * slow
      BY <3>2, ProductsGrow
    <3> DEFINE w == Room * Whole
    <3>4. w \in Nat
      BY LoopConstants
    <3> HIDE DEF w
    <3>5. lf * fast > 2 * w => ls * slow > 2 * w
      BY <3>3, <3>4
    <3> QED BY <3>1, <3>5 DEF lf, ls, w
  <2>3. Amplified(f) => Amplified(s)
    <3>1. /\ f.before * DefaultMaxRetries \in Nat /\ s.before * DefaultMaxRetries \in Nat
          /\ f.before * DefaultMaxRetries <= s.before * DefaultMaxRetries
      BY <1>3, <2>1, Constants, ProductsGrow
    <3> QED BY <1>3, <2>1, <3>1, Constants
  <2> HIDE DEF Lost, Amplified
  <2> QED BY <1>1, <2>2, <2>3 DEF StateHealthy, StateDegraded, StateExhausted
<1> QED BY <1>4, <1>5

(* Every round of retry.go:52-82 computes the error rate afresh from its load:  *)
(* base + (1 - base) * clamp((load - capacity) / capacity, 0, 1).  The model    *)
(* adds to the last error rate instead.  The two agree before rounding: while   *)
(* the load is between capacity and twice that, an error rate that rose by d    *)
(* raises the next one by exactly what Feedback adds for d; where the clamp     *)
(* bites every call is lost, which no later round undoes; and where a round     *)
(* adds nothing to the error rate neither does the next.                        *)
THEOREM RoundsAddUp ==
  \A rate \in Nat, error \in Nat, latency \in Nat, e \in Nat, d \in Nat :
    /\ /\ Load(rate, e) * latency >= Room * Whole
       /\ Load(rate, e + d) * latency <= 2 * (Room * Whole)
       => Spared(error) * Excess(Load(rate, e + d), latency)
            = Spared(error) * Excess(Load(rate, e), latency)
                + Spared(error) * (rate * (d * DefaultMaxRetries) * latency)
    /\ Room > 0 /\ Load(rate, e) * latency >= 2 * (Room * Whole)
       => AtMost(error + (Spared(error) * Excess(Load(rate, e), latency)) \div (Room * Whole), Whole) = Whole
    /\ AtMost(Whole + Feedback(rate, error, latency, d), Whole) = Whole
    /\ Feedback(rate, error, latency, 0) = 0
<1> SUFFICES ASSUME NEW rate \in Nat, NEW error \in Nat, NEW latency \in Nat, NEW e \in Nat, NEW d \in Nat
             PROVE  /\ /\ Load(rate, e) * latency >= Room * Whole
                       /\ Load(rate, e + d) * latency <= 2 * (Room * Whole)
                       => Spared(error) * Excess(Load(rate, e + d), latency)
                            = Spared(error) * Excess(Load(rate, e), latency)
                                + Spared(error) * (rate * (d * DefaultMaxRetries) * latency)
                    /\ Room > 0 /\ Load(rate, e) * latency >= 2 * (Room * Whole)
                       => AtMost(error + (Spared(error) * Excess(Load(rate, e), latency)) \div (Room * Whole), Whole) = Whole
                    /\ AtMost(Whole + Feedback(rate, error, latency, d), Whole) = Whole
                    /\ Feedback(rate, error, latency, 0) = 0
  OBVIOUS
<1> DEFINE w == Room * Whole
           s == Spared(error)
           more == rate * (d * DefaultMaxRetries) * latency
           x == Load(rate, e) * latency
           y == Load(rate, e + d) * latency
<1>1. w \in Nat /\ (Room # 0 => w # 0) /\ s \in Nat /\ Room \in Nat /\ Whole \in Nat
  BY LoopConstants
<1>2. x \in Nat /\ y \in Nat /\ more \in Nat /\ y = x + more
  <2> DEFINE p == e * DefaultMaxRetries
             q == d * DefaultMaxRetries
  <2>1. p \in Nat /\ q \in Nat /\ (e + d) * DefaultMaxRetries = p + q
    BY Constants, Products
  <2> HIDE DEF p, q
  <2> DEFINE a == rate * (Whole + p)
             b == rate * q
  <2>2. a \in Nat /\ b \in Nat /\ rate * (Whole + (p + q)) = a + b
    BY <1>1, <2>1, Products
  <2> HIDE DEF a, b
  <2>3. a * latency \in Nat /\ b * latency \in Nat /\ (a + b) * latency = a * latency + b * latency
    BY <2>2, Products
  <2>4. x = a * latency /\ y = (a + b) * latency /\ more = b * latency
    BY <2>1, <2>2 DEF Load, a, b, p, q
  <2> HIDE DEF x, y, more
  <2> QED BY <2>2, <2>3, <2>4
<1>3. /\ Excess(Load(rate, e), latency) = IF x - w > 0 THEN AtMost(x - w, w) ELSE 0
      /\ Excess(Load(rate, e + d), latency) = IF y - w > 0 THEN AtMost(y - w, w) ELSE 0
  BY DEF Excess
<1> DEFINE ex == Excess(Load(rate, e), latency)
           ey == Excess(Load(rate, e + d), latency)
<1>4. ASSUME x >= w, y <= 2 * w PROVE s * ey = s * ex + s * more
  <2> HIDE DEF x, y, w, more, ex, ey
  <2>1. ex = x - w /\ ey = x - w + more /\ ex \in Nat
    BY <1>1, <1>2, <1>3, <1>4 DEF AtMost, ex, ey
  <2>2. ey = ex + more
    BY <2>1, <1>1, <1>2
  <2> HIDE DEF s
  <2> QED BY <1>1, <1>2, <2>1, <2>2
<1>5. ASSUME Room > 0, x >= 2 * w PROVE AtMost(error + (s * ex) \div w, Whole) = Whole
  <2>0. w \in Nat \ {0}
    BY <1>1, <1>5
  <2>1. ex = w
    <3> HIDE DEF x, w, ex
    <3> QED BY <1>2, <1>3, <1>5, <2>0 DEF AtMost, ex
  <2>2. s <= (s * ex) \div w
    <3> HIDE DEF s, w, ex
    <3>1. s * w \in Int
      BY <1>1
    <3> QED BY <1>1, <2>0, <2>1, <3>1, QuotientAtLeast
  <2>3. error + s >= Whole
    BY <1>1 DEF Spared, AtMost
  <2>4. (s * ex) \div w \in Int
    <3> HIDE DEF s, w, ex
    <3> QED BY <1>1, <2>0, <2>1, Quotient
  <2> DEFINE g == (s * ex) \div w
  <2> HIDE DEF s, g
  <2>5. error + g >= Whole /\ g \in Int
    BY <1>1, <2>2, <2>3, <2>4 DEF g
  <2>6. AtMost(error + g, Whole) = Whole
    BY <1>1, <2>5 DEF AtMost
  <2> QED BY <2>6 DEF g
<1>6. AtMost(Whole + Feedback(rate, error, latency, d), Whole) = Whole
  <2>1. Feedback(rate, error, latency, d) \in Nat
    BY GainTypes
  <2> QED BY <1>1, <2>1 DEF AtMost
<1>7. Feedback(rate, error, latency, 0) = 0
  <2>1. rate * (0 * DefaultMaxRetries) * latency = 0
    BY Constants
  <2>2. Feedback(rate, error, latency, 0) = IF Room = 0 THEN 0 ELSE (s * 0) \div w
    BY <2>1 DEF Feedback
  <2> HIDE DEF s, w
  <2>3. s * 0 = 0
    BY <1>1
  <2>4. w # 0 => 0 \div w = 0
    <3>1. ASSUME w # 0 PROVE 0 \div w = 0
      BY <1>1, <3>1
    <3> QED BY <3>1
  <2> QED BY <1>1, <2>2, <2>3, <2>4
<1> HIDE DEF ex, ey, more
<1> QED BY <1>4, <1>5, <1>6, <1>7 DEF w, s, x, y, ex, ey, more

(* All four models are monotone in the latency, for every pool size, timeout    *)
(* and number of retries and rounds: no slower callee leaves a pool, a timeout  *)
(* or the retry loop in a better state (threadpool.go, connpool.go, timeout.go, *)
(* retry.go).  That the loop stops early does not upset this: the run of the    *)
(* slower callee never settles before the other's.                              *)
THEOREM SaturationIsMonotone ==
  \A rate \in Nat, error \in Nat, slow \in Nat : \A fast \in 0 .. slow :
    /\ ThreadPoolExhaustion(rate, fast).state <= ThreadPoolExhaustion(rate, slow).state
    /\ ConnPoolSaturation(rate, fast).state <= ConnPoolSaturation(rate, slow).state
    /\ EvaluateTimeout(fast).state <= EvaluateTimeout(slow).state
    /\ RetryAmplification(rate, error, fast).state <= RetryAmplification(rate, error, slow).state
BY PoolsMonotone, TimeoutMonotone, RetriesMonotone

(* So no state of a search holds a caller that would be worse off with a faster *)
(* callee: what PropagateCascade makes of the four models (the worst state,     *)
(* cascade.go:110-123) is monotone in the latency as well.                      *)
THEOREM LatencyNeverHelps == Spec => []MoreLatencyNeverHelps
<1>1. ASSUME IInv, StatesTyped, NEW c \in pending, NEW l \in 0 .. effect[current].latency
      PROVE  Outcome(c, current, l) <= Outcome(c, current, effect[current].latency)
  <2> DEFINE e == <<c, current>>
             rate == RequestRate[e]
             error == SeenError(c, current)
             fast == SeenLatency(c, current, l)
             slow == SeenLatency(c, current, effect[current].latency)
  <2>1. current \in Nodes /\ e \in Edges
    BY <1>1 DEF IInv, SearchState, Visited, CallersOf
  <2>2. /\ rate \in Nat /\ LatencyP99[e] \in Nat /\ ErrorRate[e] \in Nat
        /\ effect[current].latency \in Nat /\ effect[current].error \in Nat
    BY <1>1, <2>1, SnapshotAssumption, Constants DEF StatesTyped, EffectType
  <2>3. error \in Nat /\ slow \in Nat /\ fast \in 0 .. slow
    BY <2>2 DEF SeenError, SeenLatency
  <2> HIDE DEF rate, error, fast, slow
  <2> DEFINE T == {StateHealthy, StateDegraded, StateExhausted}
  <2>4. ASSUME NEW x
        PROVE  /\ ThreadPoolExhaustion(rate, x).state \in T /\ ConnPoolSaturation(rate, x).state \in T
               /\ EvaluateTimeout(x).state \in T /\ RetryAmplification(rate, error, x).state \in T
    BY DEF ThreadPoolExhaustion, ConnPoolSaturation, EvaluateTimeout, RetryAmplification, Fine, Result
  <2>5. /\ ThreadPoolExhaustion(rate, fast).state <= ThreadPoolExhaustion(rate, slow).state
        /\ ConnPoolSaturation(rate, fast).state <= ConnPoolSaturation(rate, slow).state
        /\ EvaluateTimeout(fast).state <= EvaluateTimeout(slow).state
        /\ RetryAmplification(rate, error, fast).state <= RetryAmplification(rate, error, slow).state
    BY <2>2, <2>3, SaturationIsMonotone
  <2>6. \A s1, t1, s2, t2 \in T : s1 <= s2 /\ t1 <= t2 => Worse(s1, t1) \in T /\ Worse(s2, t2) \in T
                                                          /\ Worse(s1, t1) <= Worse(s2, t2)
    BY DEF Worse, StateHealthy, StateDegraded, StateExhausted
  <2> HIDE DEF T
  <2>7. Severity(rate, fast, error) <= Severity(rate, slow, error)
    <3>1. /\ Worse(ThreadPoolExhaustion(rate, fast).state, ConnPoolSaturation(rate, fast).state) \in T
          /\ Worse(ThreadPoolExhaustion(rate, slow).state, ConnPoolSaturation(rate, slow).state) \in T
          /\ Worse(ThreadPoolExhaustion(rate, fast).state, ConnPoolSaturation(rate, fast).state)
               <= Worse(ThreadPoolExhaustion(rate, slow).state, ConnPoolSaturation(rate, slow).state)
      BY <2>4, <2>5, <2>6
    <3>2. /\ Worse(EvaluateTimeout(fast).state, RetryAmplification(rate, error, fast).state) \in T
          /\ Worse(EvaluateTimeout(slow).state, RetryAmplification(rate, error, slow).state) \in T
          /\ Worse(EvaluateTimeout(fast).state, RetryAmplification(rate, error, fast).state)
               <= Worse(EvaluateTimeout(slow).state, RetryAmplification(rate, error, slow).state)
      BY <2>4, <2>5, <2>6
    <3> QED BY <2>6, <3>1, <3>2 DEF Severity
  <2> QED BY <2>7 DEF Outcome, rate, error, fast, slow, e
<1>2. IInv /\ StatesTyped => MoreLatencyNeverHelps
  BY <1>1 DEF MoreLatencyNeverHelps
<1> QED BY <1>2, InitTypes, StepTypes, InitInv, Invariance, PTL DEF Spec

-----------------------------------------------------------------------------
(* The end of the search. *)

(* What is left of a search: a service to dequeue, the one a caller may still  *)
(* put into the queue included, can bring every service as a caller.            *)
StepsLeft ==
  (Cardinality(Nodes) + 1) * (Cardinality(Nodes) + 1 - next) + Cardinality(pending)

(* The queue has room for every service once.                                  *)
LEMMA PathIsShort == IInv => Len(path) <= Cardinality(Nodes)
<1> SUFFICES ASSUME IInv, Len(path) > Cardinality(Nodes) PROVE FALSE
  BY FS_CardinalityType, SnapshotAssumption DEF IInv, SearchState
<1>1. /\ Len(path) \in Nat /\ path \in [1 .. Len(path) -> Nodes] /\ DOMAIN path = 1 .. Len(path)
      /\ IsFiniteSet(Nodes) /\ Cardinality(Nodes) \in Nat
  BY FS_CardinalityType, SnapshotAssumption DEF IInv, SearchState
<1>2. IsFiniteSet(1 .. Len(path)) /\ Cardinality(1 .. Len(path)) = Len(path)
  <2>1. 1 \in Int /\ Len(path) \in Int
    BY <1>1
  <2>2. /\ IsFiniteSet(1 .. Len(path))
        /\ Cardinality(1 .. Len(path)) = IF 1 > Len(path) THEN 0 ELSE Len(path) - 1 + 1
    BY <2>1, FS_Interval
  <2> QED BY <1>1, <2>2
<1>3. PICK i, j \in 1 .. Len(path) : i # j /\ path[i] = path[j]
  BY <1>1, <1>2, FS_PigeonHole
<1> QED BY <1>1, <1>3 DEF IInv, PathIsFailures

LEMMA StepsLeftType ==
  ASSUME IInv
  PROVE  StepsLeft \in Nat /\ Cardinality(pending) \in 0 .. Cardinality(Nodes)
<1> DEFINE n == Cardinality(Nodes)
           p == Cardinality(pending)
<1>1. n \in Nat /\ p \in Nat /\ p <= n
  <2>1. pending \in SUBSET Nodes
    BY DEF IInv, SearchState, CallersOf
  <2> QED BY <2>1, FS_Subset, FS_CardinalityType, SnapshotAssumption
<1>2. next \in Nat /\ n + 1 - next \in Nat
  <2>1. next \in 1 .. Len(path) + 1 /\ Len(path) \in Nat
    BY DEF IInv, SearchState
  <2>2. Len(path) <= n
    BY PathIsShort
  <2> HIDE DEF n
  <2> QED BY <1>1, <2>1, <2>2
<1> HIDE DEF n, p
<1>3. (n + 1) * (n + 1 - next) \in Nat
  <2>1. n + 1 \in Nat
    BY <1>1
  <2> QED BY <1>2, <2>1, Products
<1> QED BY <1>1, <1>3 DEF StepsLeft, n, p

(* The search ends whatever the failure models answer and whatever cycles the   *)
(* graph has: every step, of the loop over the queue (cascade.go:74-78) or of   *)
(* the loop over the callers (cascade.go:80-84), leaves less to do, and a       *)
(* search of n services takes at most n(n + 1) of them.                         *)
THEOREM SearchIsBounded ==
  /\ Init => StepsLeft = (Cardinality(Nodes) + 1) * Cardinality(Nodes)
  /\ Spec => [](StepsLeft \in Nat)
  /\ Spec => [][StepsLeft' < StepsLeft]_vars
<1> DEFINE n == Cardinality(Nodes)
<1>0. n \in Nat
  BY FS_CardinalityType, SnapshotAssumption
<1>1. Init => StepsLeft = (n + 1) * n
  <2> SUFFICES ASSUME Init PROVE StepsLeft = (n + 1) * n
    OBVIOUS
  <2>1. next = 1 /\ Cardinality(pending) = 0
    BY FS_EmptySet DEF Init
  <2> HIDE DEF n
  <2>2. n + 1 - 1 = n /\ (n + 1) * n \in Nat
    BY <1>0, Products
  <2>3. StepsLeft = (n + 1) * (n + 1 - 1) + 0
    BY <2>1 DEF StepsLeft, n
  <2> QED BY <2>2, <2>3
<1>2. IInv => StepsLeft \in Nat
  BY StepsLeftType
<1>3. IInv /\ IInv' /\ [Next]_vars => [StepsLeft' < StepsLeft]_vars
  <2> SUFFICES ASSUME IInv, IInv', Next PROVE StepsLeft' < StepsLeft
    OBVIOUS
  <2> DEFINE p == Cardinality(pending)
             k == n + 1 - next
  <2>1. /\ next \in Nat /\ p \in Nat /\ p' \in Nat /\ p' <= n
        /\ StepsLeft = (n + 1) * k + p
    <3>1. next \in Nat
      BY DEF IInv, SearchState
    <3>2. p \in 0 .. n /\ p' \in 0 .. n
      <4>1. p \in 0 .. n
        BY StepsLeftType
      <4>2. pending' \in SUBSET Nodes
        BY DEF IInv, SearchState, CallersOf
      <4>3. p' \in Nat /\ p' <= n
        BY <4>2, FS_Subset, FS_CardinalityType, SnapshotAssumption
      <4> QED BY <1>0, <4>1, <4>3
    <3> HIDE DEF p
    <3> QED BY <1>0, <3>1, <3>2 DEF StepsLeft, p
  <2>2. CASE Dequeue
    <3>1. next' = next + 1 /\ p = 0
      BY <2>2, FS_EmptySet DEF Dequeue
    <3>2. StepsLeft' = (n + 1) * (n + 1 - (next + 1)) + p'
      BY <3>1 DEF StepsLeft
    <3> HIDE DEF n, p
    <3>3. (n + 1) * (n + 1 - (next + 1)) = (n + 1) * k - (n + 1) /\ (n + 1) * k \in Int
      BY <1>0, <2>1
    <3> HIDE DEF k
    <3> QED BY <1>0, <2>1, <3>1, <3>2, <3>3
  <2>3. ASSUME NEW c \in Nodes, AskCaller(c) PROVE StepsLeft' < StepsLeft
    <3>1. next' = next /\ c \in pending /\ pending' = pending \ {c}
      BY <2>3 DEF AskCaller, CallerVisited, CallerHolds, CallerFails
    <3>2. p' = p - 1
      <4>1. pending \in SUBSET Nodes
        BY DEF IInv, SearchState, CallersOf
      <4>2. IsFiniteSet(pending)
        BY <4>1, FS_Subset, SnapshotAssumption
      <4> QED BY <3>1, <4>2, FS_RemoveElement
    <3>3. StepsLeft' = (n + 1) * k + p'
      BY <3>1 DEF StepsLeft
    <3> HIDE DEF n, p
    <3>4. (n + 1) * k \in Int
      BY <1>0, <2>1
    <3> HIDE DEF k
    <3> QED BY <2>1, <3>2, <3>3, <3>4
  <2> QED BY <2>2, <2>3 DEF Next
<1> QED BY <1>1, <1>2, <1>3, Invariance, PTL DEF Spec
=============================================================================
