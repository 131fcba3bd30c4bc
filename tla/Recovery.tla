------------------------------ MODULE Recovery ------------------------------
(***************************************************************************)
(* The rate limiter of the Shield: pkg/shield/recovery.go (EdgeState and   *)
(* RecoveryManager) and pkg/shield/strategy.go, as operators over the data *)
(* they transform.  The module has no variables: the controller that calls *)
(* these functions, one control interval at a time, is module Shield.      *)
(*                                                                         *)
(* Shares of traffic (float64 in [0.0, 1.0]) are natural numbers in        *)
(* 0 .. Full; rounding of float64 is abstracted away.                      *)
(***************************************************************************)
EXTENDS Integers

CONSTANTS
  Edges,                   (* the edges <<caller, callee>> a report may cut      *)
  Full,                    (* the share that stands for 1.0                      *)
  ShedThreshold,           (* risk from which a node is acted upon               *)
  RecoveryThreshold,       (* documented, never read by the code                 *)
  ConsecutiveLowIntervals, (* intervals without a decision until full removal    *)
  MaxShedPercentage,       (* cap of any target                                  *)
  MinShed,                 (* floor of any target, the literal 0.05              *)
  RampUpStep,              (* largest increase per interval                      *)
  RampDownStep,            (* decrease per interval                              *)
  NoCaller                 (* no cascade path with a caller was found            *)

(* What Config's defaults satisfy and what the code relies on.              *)
ASSUME RecoveryConfig ==
  /\ {Full, ShedThreshold, RecoveryThreshold, ConsecutiveLowIntervals,
      MaxShedPercentage, MinShed, RampUpStep, RampDownStep} \subseteq Nat
  /\ ShedThreshold < Full
  /\ 0 < MinShed /\ MinShed <= MaxShedPercentage /\ MaxShedPercentage <= Full
  /\ 0 < RampUpStep
  /\ 0 < ConsecutiveLowIntervals

Share == 0 .. Full

(***************************************************************************)
(* An entry of RecoveryManager.states.  The code inserts an entry and sets *)
(* Active in the same call, and clears Active in the call that deletes the *)
(* entry, so Active says that the edge has an entry; Untracked stands for  *)
(* an edge without one.                                                    *)
(***************************************************************************)
EdgeState == [Active : BOOLEAN, CurrentShed : Share, TargetShed : Share, LowRiskCount : Nat]

Untracked == [Active |-> FALSE, CurrentShed |-> 0, TargetShed |-> 0, LowRiskCount |-> 0]

NoStates == [e \in Edges |-> Untracked]

AtMost(x, cap) == IF x > cap THEN cap ELSE x

AtLeast(x, floor) == IF x < floor THEN floor ELSE x

(***************************************************************************)
(* Strategy.  A report gives every node a risk score and the caller that   *)
(* its top cascade path reaches first; the decisions are the edges to cut  *)
(* with their target share.  Decision 0 stands for "no decision": a        *)
(* decision is never below MinShed.                                        *)
(***************************************************************************)
ShedPercent(risk) ==
  AtLeast(AtMost(((risk - ShedThreshold) * Full) \div (Full - ShedThreshold), MaxShedPercentage),
          MinShed)

ComputeSheddingStrategy(report) ==
  [e \in Edges |->
     IF report[e[2]].risk >= ShedThreshold /\ report[e[2]].caller = e[1]
       THEN ShedPercent(report[e[2]].risk)
       ELSE 0]

(***************************************************************************)
(* ProcessDecisions, edge by edge: the entries do not influence each other.*)
(***************************************************************************)
RampJump(current, target) == target                       \* fault: no step limit

Ramp(current, target) ==
  IF current < target
    THEN AtMost(AtMost(current + RampUpStep, target), MaxShedPercentage)
    ELSE AtLeast(current - RampDownStep, target)

(* Fault: the count of quiet intervals survives a new decision. *)
WithDecisionKeepsCount(state, target) ==
  [Active |-> TRUE, CurrentShed |-> Ramp(state.CurrentShed, target),
   TargetShed |-> target, LowRiskCount |-> state.LowRiskCount]

(* An edge with a decision this interval. *)
WithDecision(state, target) ==
  [Active |-> TRUE, CurrentShed |-> Ramp(state.CurrentShed, target),
   TargetShed |-> target, LowRiskCount |-> 0]

(* Fault: no floor under the ramp. *)
WithoutDecisionNoFloor(state) ==
  LET low == state.LowRiskCount + 1
  IN  IF low >= ConsecutiveLowIntervals THEN Untracked
      ELSE [state EXCEPT !.CurrentShed = @ - RampDownStep, !.LowRiskCount = low]

(* A tracked edge without one: count, ramp down, or forget the edge.        *)
WithoutDecision(state) ==
  LET low  == state.LowRiskCount + 1
      shed == AtLeast(state.CurrentShed - RampDownStep, 0)
  IN  IF low >= ConsecutiveLowIntervals \/ shed = 0
        THEN Untracked
        ELSE [state EXCEPT !.CurrentShed = shed, !.LowRiskCount = low]

ProcessEdge(state, decision) ==
  IF decision > 0 THEN WithDecision(state, decision)
  ELSE IF state.Active THEN WithoutDecision(state)
  ELSE state

ProcessDecisions(states, decisions) == [e \in Edges |-> ProcessEdge(states[e], decisions[e])]

(* The two lists ProcessDecisions returns: an edge is applied when it is    *)
(* tracked afterwards, removed when it is not any more.                     *)
ToApply(states, decisions) == {e \in Edges : ProcessEdge(states[e], decisions[e]).Active}

(* Fault: an edge that ramped down to 0 early is forgotten, not removed. *)
ToRemoveOnlyPatient(states, decisions) ==
  {e \in Edges : /\ states[e].Active /\ ~ProcessEdge(states[e], decisions[e]).Active
                 /\ states[e].LowRiskCount + 1 >= ConsecutiveLowIntervals}

ToRemove(states, decisions) ==
  {e \in Edges : states[e].Active /\ ~ProcessEdge(states[e], decisions[e]).Active}

(***************************************************************************)
(* What the Prometheus exporter and the TUI read from another goroutine.   *)
(***************************************************************************)
ActiveEdges(states) == {e \in Edges : states[e].Active}

ActiveSheddingStates(states) == {e \in ActiveEdges(states) : states[e].CurrentShed > 0}
=============================================================================
