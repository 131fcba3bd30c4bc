--------------------------- MODULE FailureModels ---------------------------
(***************************************************************************)
(* The four failure models of pkg/simulator/models, for one caller and the *)
(* degraded service it calls, as PropagateCascade (pkg/simulator/          *)
(* cascade.go) combines them.                                              *)
(*                                                                         *)
(* Latencies, delays and timeouts are natural numbers of ticks, Second     *)
(* ticks to a second; error rates are shares of Whole; request rates are   *)
(* per second.  Divisions round down where float64 would not; a comparison *)
(* against a quotient is made on the products, and stays exact.            *)
(***************************************************************************)
EXTENDS Integers

CONSTANTS
  Second, Whole,
  DefaultThreadPoolSize, DefaultConnPoolSize,   (* every caller's: no node has    *)
  DefaultTimeout,                               (* ResourceLimits                 *)
  DefaultMaxRetries, DefaultRetryBackoff,
  MaxRetryIterations

ASSUME ModelConfig ==
  /\ {DefaultThreadPoolSize, DefaultConnPoolSize, DefaultTimeout, DefaultMaxRetries,
      DefaultRetryBackoff, MaxRetryIterations} \subseteq Nat
  /\ {Second, Whole} \subseteq Nat \ {0}

(* NodeState, in the order of severity. *)
StateHealthy   == 0
StateDegraded  == 1
StateExhausted == 2

AtMost(x, cap) == IF x > cap THEN cap ELSE x

Together(s, t) == s + t             \* fault: states add up

Worse(s, t) == IF s > t THEN s ELSE t

(* TargetState, QueueingDelay, and AdditionalLoad - 1.0 of a ModelResult. *)
Result(state, delay, extraLoad) == [state |-> state, delay |-> delay, extraLoad |-> extraLoad]

Fine == Result(StateHealthy, 0, 0)

(* Busy threads or connections, times Second. *)
Busy(rate, latency) == rate * latency

(* The share of a pool that is healthy use: 0.8. *)
WellWithin(busy, pool) == 10 * busy <= 8 * pool * Second

ThreadPoolExhaustion(rate, latency) ==
  LET busy == Busy(rate, latency)
      pool == DefaultThreadPoolSize
  IN  IF busy = 0 \/ pool = 0 \/ WellWithin(busy, pool) THEN Fine
      ELSE IF busy <= pool * Second
        THEN Result(StateDegraded, (busy * latency) \div (pool * Second - busy + Second), 0)
        ELSE Result(StateExhausted, 0, 0)

ConnPoolSaturation(rate, latency) ==
  LET busy == Busy(rate, latency)
      pool == DefaultConnPoolSize
  IN  IF busy = 0 \/ pool = 0 \/ WellWithin(busy, pool) THEN Fine
      ELSE IF busy <= pool * Second
        THEN Result(StateDegraded, (10 * busy * latency) \div (101 * pool * Second - 100 * busy), 0)
        ELSE Result(StateExhausted, ((busy - pool * Second) * latency) \div (pool * Second), 0)

(* TimeoutChainPropagation with MaxRetries retries, and EvaluateTimeout.  A   *)
(* Timeout of 0 stands for "no timeout".                                      *)
TimedOut(latency) == DefaultTimeout > 0 /\ latency > DefaultTimeout

EffectiveLatency(latency) ==
  IF DefaultTimeout = 0 THEN latency
  ELSE IF TimedOut(latency) THEN DefaultTimeout
  ELSE latency + DefaultMaxRetries * (DefaultRetryBackoff + latency)

EvaluateTimeout(latency) ==
  IF TimedOut(latency) \/ 2 * EffectiveLatency(latency) > DefaultTimeout
    THEN Result(StateDegraded, EffectiveLatency(latency), 0)
    ELSE Fine

(* The retry feedback loop.  capacity is Room / latency; the 0.001 s that keep  *)
(* the code from dividing by 0 are left out.                                    *)
Room == DefaultThreadPoolSize * Second

Distance(x, y) == IF x > y THEN x - y ELSE y - x

(* The load of a round that starts from the error rate errors, times Whole.    *)
Load(rate, errors) == rate * (Whole + errors * DefaultMaxRetries)

(* The calls that overload can still fail. *)
Spared(error) == Whole - AtMost(error, Whole)

(* By how much a load exceeds the capacity, up to twice the capacity; times    *)
(* Whole * Room.                                                                *)
Excess(load, latency) ==
  LET over == load * latency - Room * Whole
  IN  IF over > 0 THEN AtMost(over, Room * Whole) ELSE 0

(* What the overload of the first round adds to the error rate.                *)
Overload(rate, error, latency) ==
  IF Room = 0 THEN 0
  ELSE (Spared(error) * Excess(Load(rate, error), latency)) \div (Room * Whole)

(* Any later round adds what the last one added, times a constant: over        *)
(* capacity the error rate is linear in the one before it.  Computed from what *)
(* it adds, and not afresh as in the code, a round rounds two runs alike.       *)
Feedback(rate, error, latency, added) ==
  IF Room = 0 THEN 0
  ELSE (Spared(error) * (rate * (added * DefaultMaxRetries) * latency)) \div (Room * Whole)

(* A round's load follows from the error rate before it, its own error rate is *)
(* error; the loop ends early when the load moved by less than 1% and the      *)
(* error rate by less than 0.001.                                               *)
Rounds == IF MaxRetryIterations = 0 THEN 10 ELSE MaxRetryIterations

RetryState == [before : Nat, error : Nat, converged : BOOLEAN]

RoundEnd(before, now, gain) ==
  LET newError == AtMost(now + gain, Whole)
  IN  [before |-> now, error |-> newError,
       converged |-> /\ 100 * (Distance(now, before) * DefaultMaxRetries) < Whole
                     /\ 1000 * Distance(newError, now) < Whole]

RetryIteration(rate, error, latency) ==
  LET later[last \in RetryState] ==
        IF last.converged THEN last
        ELSE RoundEnd(last.before, last.error,
                      Feedback(rate, error, latency, Distance(last.error, last.before)))
      round[i \in 0 .. Rounds - 1] ==
        IF i = 0 THEN RoundEnd(0, error, Overload(rate, error, latency)) ELSE later[round[i - 1]]
  IN  round[Rounds - 1]

RetryAmplification(rate, error, latency) ==
  LET end   == RetryIteration(rate, error, latency)
      extra == end.before * DefaultMaxRetries
  IN  IF DefaultMaxRetries = 0 \/ rate = 0 THEN Fine
      ELSE IF 10 * end.error > 9 * Whole
              \/ (Room > 0 /\ Load(rate, end.before) * latency > 2 * (Room * Whole))
        THEN Result(StateExhausted, 0, extra)
      ELSE IF 2 * extra > Whole \/ 2 * end.error > Whole
        THEN Result(StateDegraded, 0, extra)
        ELSE Result(StateHealthy, 0, extra)

(***************************************************************************)
(* One hop: the worst state of the four, the sum of their delays, and a    *)
(* tenth of the extra load as additional errors.                           *)
(***************************************************************************)
SeverityOfLast(rate, latency, error) ==     \* fault: a later failure replaces a worse one
  LET states == <<ThreadPoolExhaustion(rate, latency).state, ConnPoolSaturation(rate, latency).state,
                  EvaluateTimeout(latency).state, RetryAmplification(rate, error, latency).state>>
      failed == {i \in 1 .. 4 : states[i] > StateHealthy}
  IN  IF failed = {} THEN StateHealthy
      ELSE states[CHOOSE i \in failed : \A j \in failed : j <= i]

Severity(rate, latency, error) ==
  Worse(Worse(ThreadPoolExhaustion(rate, latency).state, ConnPoolSaturation(rate, latency).state),
        Worse(EvaluateTimeout(latency).state, RetryAmplification(rate, error, latency).state))

AdditionalLatency(rate, latency) ==
  ThreadPoolExhaustion(rate, latency).delay + ConnPoolSaturation(rate, latency).delay
    + EvaluateTimeout(latency).delay

AdditionalErrors(rate, latency, error) == RetryAmplification(rate, error, latency).extraLoad \div 10
=============================================================================
