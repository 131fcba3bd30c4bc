---------------------------- MODULE ShieldProofs ----------------------------
(***************************************************************************)
(* Proofs about the Shield controller for every graph, every set of        *)
(* reports and every configuration that satisfies RecoveryConfig.          *)
(***************************************************************************)
EXTENDS Shield, TLAPS

-----------------------------------------------------------------------------
(* The rate limiter, one edge at a time.                                    *)

(* What holds of every entry of the recovery manager.                        *)
EdgeInv(s) ==
  /\ s \in EdgeState
  /\ s.CurrentShed <= MaxShedPercentage
  /\ s.LowRiskCount < ConsecutiveLowIntervals
  /\ IF s.Active THEN s.CurrentShed > 0 ELSE s = Untracked

Target == 0 .. MaxShedPercentage

(* A target is at least MinShed and at most MaxShedPercentage                *)
(* (strategy.go:61-68).                                                      *)
LEMMA ShedPercentBounds ==
  ASSUME NEW risk \in Share, risk >= ShedThreshold
  PROVE  /\ ShedPercent(risk) \in Target
         /\ ShedPercent(risk) >= MinShed
<1> DEFINE over == (risk - ShedThreshold) * Full
<1> DEFINE span == Full - ShedThreshold
<1>1. over \in Int /\ span \in Nat /\ span > 0
  BY RecoveryConfig DEF Share
<1>2. over \div span \in Int
  <2> HIDE DEF over, span
  <2> QED BY <1>1
<1>3. ShedPercent(risk) = AtLeast(AtMost(over \div span, MaxShedPercentage), MinShed)
  BY DEF ShedPercent
<1> HIDE DEF over, span
<1> QED BY <1>2, <1>3, RecoveryConfig DEF AtLeast, AtMost, Target

(* One interval's ramp towards a target moves by at most one step and never  *)
(* past the cap (recovery.go:76-93).                                         *)
LEMMA RampBounds ==
  ASSUME NEW current \in Target, NEW target \in Target, target > 0
  PROVE  /\ Ramp(current, target) \in Target
         /\ Ramp(current, target) > 0
         /\ Ramp(current, target) <= current + RampUpStep
         /\ Ramp(current, target) >= current - RampDownStep
BY RecoveryConfig DEF Ramp, AtMost, AtLeast, Target

(* ProcessDecisions keeps EdgeInv and moves every edge as SheddingPromise     *)
(* allows (recovery.go:51-136).                                               *)
LEMMA ProcessEdgeSafe ==
  ASSUME NEW s, EdgeInv(s), NEW d \in Target
  PROVE  LET t == ProcessEdge(s, d) IN
         /\ EdgeInv(t)
         /\ t.CurrentShed <= s.CurrentShed + RampUpStep
         /\ \/ /\ t.LowRiskCount = 0
               /\ 0 < t.CurrentShed /\ t.CurrentShed <= MaxShedPercentage
               /\ s.CurrentShed - RampDownStep <= t.CurrentShed
               /\ t.CurrentShed <= s.CurrentShed + RampUpStep
            \/ /\ t.LowRiskCount = s.LowRiskCount + 1
               /\ t.LowRiskCount < ConsecutiveLowIntervals
               /\ 0 < t.CurrentShed /\ t.CurrentShed = s.CurrentShed - RampDownStep
            \/ /\ t.LowRiskCount = 0
               /\ t.CurrentShed = 0
<1>1. /\ s \in EdgeState /\ s.CurrentShed \in Target /\ s.LowRiskCount \in Nat
      /\ s.CurrentShed \in Nat
  BY RecoveryConfig DEF EdgeInv, EdgeState, Share, Target
<1>2. CASE d > 0
  <2> DEFINE r == Ramp(s.CurrentShed, d)
  <2>1. /\ r \in Target /\ r > 0
        /\ r <= s.CurrentShed + RampUpStep /\ r >= s.CurrentShed - RampDownStep
    BY <1>1, <1>2, RampBounds
  <2>2. ProcessEdge(s, d) = [Active |-> TRUE, CurrentShed |-> r, TargetShed |-> d, LowRiskCount |-> 0]
    BY <1>2 DEF ProcessEdge, WithDecision
  <2> HIDE DEF r
  <2> QED BY <2>1, <2>2, RecoveryConfig DEF EdgeInv, EdgeState, Share, Target
<1>3. CASE ~(d > 0) /\ s.Active
  <2> DEFINE low == s.LowRiskCount + 1
             shed == AtLeast(s.CurrentShed - RampDownStep, 0)
  <2>1. /\ low \in Nat /\ shed \in Target /\ shed <= s.CurrentShed
        /\ shed = 0 \/ shed = s.CurrentShed - RampDownStep
    BY <1>1, RecoveryConfig DEF AtLeast, Target
  <2>2. CASE low >= ConsecutiveLowIntervals \/ shed = 0
    <3>1. ProcessEdge(s, d) = Untracked
      BY <1>3, <2>2 DEF ProcessEdge, WithoutDecision
    <3> QED BY <1>1, <3>1, RecoveryConfig DEF EdgeInv, EdgeState, Share, Target, Untracked
  <2>3. CASE ~(low >= ConsecutiveLowIntervals \/ shed = 0)
    <3>1. ProcessEdge(s, d) = [s EXCEPT !.CurrentShed = shed, !.LowRiskCount = low]
      BY <1>3, <2>3 DEF ProcessEdge, WithoutDecision
    <3>2. ProcessEdge(s, d) = [Active |-> TRUE, CurrentShed |-> shed,
                               TargetShed |-> s.TargetShed, LowRiskCount |-> low]
      BY <1>1, <1>3, <3>1 DEF EdgeState
    <3>3. s.TargetShed \in Share
      BY <1>1 DEF EdgeState
    <3> HIDE DEF low, shed
    <3>4. low < ConsecutiveLowIntervals /\ shed > 0 /\ low = s.LowRiskCount + 1
      BY <2>1, <2>3, RecoveryConfig DEF Target, low
    <3> QED BY <1>1, <2>1, <3>2, <3>3, <3>4, RecoveryConfig DEF EdgeInv, EdgeState, Share, Target
  <2> QED BY <2>2, <2>3
<1>4. CASE ~(d > 0) /\ ~s.Active
  <2>1. ProcessEdge(s, d) = s /\ s = Untracked
    BY <1>4 DEF ProcessEdge, EdgeInv
  <2> QED BY <1>1, <2>1, RecoveryConfig DEF EdgeInv, EdgeState, Share, Untracked
<1> QED BY <1>2, <1>3, <1>4
-----------------------------------------------------------------------------
(* The controller.                                                            *)

(***************************************************************************)
(* The inductive invariant.  Reading a tick backwards from RulesMatchStates*)
(* it says: while the tick acts, an edge is either still due in one of the *)
(* two disjoint lists, with the share planned for it within one step of    *)
(* what the actuator enforces, or it is settled; before the tick acts every*)
(* edge is settled; an edge is unsettled only if its last call failed.     *)
(***************************************************************************)
Settled(e) == e \in failed \/ rules[e] = states[e].CurrentShed

Due(e) ==
  /\ planned[e] = states[e].CurrentShed
  /\ e \in toApply => e \in failed \/ planned[e] <= rules[e] + RampUpStep
  /\ e \in toRemove => planned[e] = 0 /\ e \notin toApply
  /\ e \notin toApply \union toRemove => Settled(e)

StatesInv == \A e \in Edges : EdgeInv(states[e])

CallsInv ==
  /\ pc \notin {"act", "exited"} => toApply = {} /\ toRemove = {}
  /\ pc = "act" /\ kill = "ready" => \A e \in Edges : Due(e)
  /\ pc \in {"select", "decided"} /\ kill = "ready" => \A e \in Edges : Settled(e)

BoundaryInv ==
  /\ pc = "new" => states = NoStates /\ rules = NoRules
  /\ pc \in {"reset", "stopped"} /\ failed = {} => rules = NoRules
  /\ pc = "stopped" => states = NoStates

IInv ==
  /\ TypeOK
  /\ decisions \in [Edges -> Target]
  /\ StatesInv
  /\ CallsInv
  /\ BoundaryInv

LEMMA UntrackedSafe == EdgeInv(Untracked)
BY RecoveryConfig DEF EdgeInv, EdgeState, Share, Untracked

LEMMA TargetsAreShares == Target \subseteq Share
BY RecoveryConfig DEF Target, Share

(* The strategy asks for shares between MinShed and the cap, or for nothing.   *)
LEMMA StrategyTargets ==
  ASSUME NEW r \in Reports
  PROVE  ComputeSheddingStrategy(r) \in [Edges -> Target]
<1> SUFFICES ASSUME NEW e \in Edges
             PROVE  (IF r[e[2]].risk >= ShedThreshold /\ r[e[2]].caller = e[1]
                       THEN ShedPercent(r[e[2]].risk) ELSE 0) \in Target
  BY DEF ComputeSheddingStrategy
<1>1. r[e[2]].risk \in Share
  <2>1. e \in Nodes \X Nodes /\ r \in Report
    BY ShieldConstants
  <2> QED BY <2>1 DEF Report
<1>2. 0 \in Target
  BY RecoveryConfig DEF Target
<1> QED BY <1>1, <1>2, ShedPercentBounds

LEMMA InitInv == Init => IInv
<1> SUFFICES ASSUME Init PROVE IInv
  OBVIOUS
<1>1. 0 \in Target /\ 0 \in Share
  BY RecoveryConfig DEF Target, Share
<1>2. NoStates \in [Edges -> EdgeState] /\ \A e \in Edges : EdgeInv(NoStates[e])
  BY UntrackedSafe DEF NoStates, EdgeInv
<1> QED BY <1>1, <1>2 DEF Init, IInv, TypeOK, StatesInv, CallsInv, BoundaryInv, NoRules

(* The steps that touch neither the entries nor the actuator.                  *)
LEMMA QuietSteps ==
  ASSUME IInv,
         StoreReport \/ TickerFires \/ Cancel \/ StartRun \/ TickNoReport \/ TickDecide \/ Exit
  PROVE  IInv'
<1> USE DEF IInv, TypeOK, loopVars, callVars, actuatorVars
<1>1. CASE StoreReport \/ TickerFires \/ Cancel
  BY <1>1 DEF StoreReport, TickerFires, Cancel, StatesInv, CallsInv, BoundaryInv, Due, Settled
<1>2. CASE StartRun
  <2>1. ASSUME NEW e \in Edges PROVE rules[e] = states[e].CurrentShed
    BY <1>2, <2>1 DEF StartRun, BoundaryInv, NoStates, NoRules, Untracked
  <2> QED BY <1>2, <2>1 DEF StartRun, StatesInv, CallsInv, BoundaryInv, Settled
<1>3. CASE TickNoReport
  BY <1>3 DEF TickNoReport, StatesInv, CallsInv, BoundaryInv, Due, Settled
<1>4. CASE TickDecide
  <2>1. report \in Reports
    BY <1>4 DEF TickDecide
  <2>2. decisions' \in [Edges -> Target]
    BY <1>4, <2>1, StrategyTargets DEF TickDecide
  <2> QED BY <1>4, <2>2, TargetsAreShares DEF TickDecide, StatesInv, CallsInv, BoundaryInv, Settled
<1>5. CASE Exit
  BY <1>5 DEF Exit, StatesInv, CallsInv, BoundaryInv
<1> QED BY <1>1, <1>2, <1>3, <1>4, <1>5

LEMMA RecoverStep ==
  ASSUME IInv, TickRecover
  PROVE  IInv'
<1> USE DEF IInv
<1>1. ASSUME NEW e \in Edges
      PROVE  /\ states'[e] = ProcessEdge(states[e], decisions[e])
             /\ EdgeInv(states'[e])
             /\ states'[e].CurrentShed <= states[e].CurrentShed + RampUpStep
             /\ planned'[e] = states'[e].CurrentShed
  <2>1. EdgeInv(states[e]) /\ decisions[e] \in Target
    BY <1>1 DEF StatesInv
  <2>2. states'[e] = ProcessEdge(states[e], decisions[e]) /\ planned'[e] = states'[e].CurrentShed
    BY <1>1 DEF TickRecover, ProcessDecisions
  <2> QED BY <2>1, <2>2, ProcessEdgeSafe
<1>2. states' \in [Edges -> EdgeState] /\ StatesInv'
  BY <1>1 DEF TickRecover, ProcessDecisions, StatesInv, EdgeInv
<1>3. planned' \in [Edges -> Share]
  BY <1>2 DEF TickRecover, EdgeState
<1>4. TypeOK' /\ decisions' \in [Edges -> Target]
  <2>1. decisions' \in [Edges -> Target]
    BY RecoveryConfig DEF TickRecover, NoRules, Target
  <2> QED BY <1>2, <1>3, <2>1, TargetsAreShares
          DEF TickRecover, TypeOK, actuatorVars, ToApply, ToRemove
<1>5. CallsInv'
  <2> SUFFICES ASSUME kill = "ready", NEW e \in Edges PROVE Due(e)'
    BY DEF TickRecover, CallsInv
  <2>1. Settled(e)
    BY DEF TickRecover, CallsInv
  <2>2. /\ rules'[e] = rules[e] /\ failed' = failed
        /\ e \in toApply' <=> states'[e].Active
        /\ e \in toRemove' <=> states[e].Active /\ ~states'[e].Active
    BY <1>1 DEF TickRecover, actuatorVars, ToApply, ToRemove
  <2>3. ~states'[e].Active => states'[e].CurrentShed = 0
    BY <1>1 DEF EdgeInv, Untracked
  <2>4. ~states[e].Active => states[e].CurrentShed = 0
    BY DEF StatesInv, EdgeInv, Untracked
  <2>5. e \in toApply' => e \in failed' \/ planned'[e] <= rules'[e] + RampUpStep
    BY <1>1, <2>1, <2>2 DEF Settled
  <2>6. e \notin toApply' \union toRemove' => Settled(e)'
    BY <1>1, <2>1, <2>2, <2>3, <2>4 DEF Settled
  <2> QED BY <1>1, <2>2, <2>3, <2>5, <2>6 DEF Due
<1>6. BoundaryInv'
  BY DEF TickRecover, BoundaryInv
<1> QED BY <1>2, <1>4, <1>5, <1>6
LEMMA ActStep ==
  ASSUME IInv, TickApply \/ TickRemove \/ TickDone
  PROVE  IInv'
<1> USE DEF IInv
<1>1. pc = "act" /\ states' = states /\ kill' = kill /\ decisions' = decisions
  BY DEF TickApply, TickRemove, TickDone, loopVars
<1>2. StatesInv' /\ BoundaryInv'
  BY <1>1 DEF TickApply, TickRemove, TickDone, loopVars, StatesInv, BoundaryInv
<1>3. CASE TickApply
  <2>1. PICK e \in toApply, ok \in Outcomes :
          /\ toApply' = toApply \ {e}
          /\ rules' = IF ok THEN [rules EXCEPT ![e] = planned[e]] ELSE rules
          /\ failed' = IF ok THEN failed \ {e} ELSE failed \union {e}
    BY <1>3 DEF TickApply
  <2>2. ok \in BOOLEAN
    BY <2>1 DEF Outcomes
  <2>3. TypeOK'
    BY <1>3, <2>1, <2>2 DEF TickApply, TypeOK, loopVars
  <2>4. ASSUME kill = "ready", NEW x \in Edges PROVE Due(x)'
    <3>1. Due(x) /\ planned' = planned /\ toRemove' = toRemove
      BY <1>1, <1>3, <2>4 DEF CallsInv, TickApply
    <3>2. CASE x = e
      BY <1>1, <2>1, <2>2, <3>1, <3>2 DEF Due, Settled, TypeOK
    <3>3. CASE x # e
      BY <1>1, <2>1, <2>2, <3>1, <3>3 DEF Due, Settled, TypeOK
    <3> QED BY <3>2, <3>3
  <2> QED BY <1>1, <1>2, <1>3, <2>3, <2>4 DEF CallsInv, TickApply, loopVars
<1>4. CASE TickRemove
  <2>1. PICK e \in toRemove, ok \in Outcomes :
          /\ toRemove' = toRemove \ {e}
          /\ rules' = IF ok THEN [rules EXCEPT ![e] = 0] ELSE rules
          /\ failed' = IF ok THEN failed \ {e} ELSE failed \union {e}
    BY <1>4 DEF TickRemove
  <2>2. ok \in BOOLEAN
    BY <2>1 DEF Outcomes
  <2>3. TypeOK'
    <3>1. 0 \in Share
      BY RecoveryConfig DEF Share
    <3> QED BY <1>4, <2>1, <2>2, <3>1 DEF TickRemove, TypeOK, loopVars
  <2>4. ASSUME kill = "ready", NEW x \in Edges PROVE Due(x)'
    <3>1. Due(x) /\ planned' = planned /\ toApply' = toApply /\ toApply = {}
      BY <1>1, <1>4, <2>4 DEF CallsInv, TickRemove
    <3>2. CASE x = e
      BY <1>1, <2>1, <2>2, <3>1, <3>2 DEF Due, Settled, TypeOK
    <3>3. CASE x # e
      BY <1>1, <2>1, <2>2, <3>1, <3>3 DEF Due, Settled, TypeOK
    <3> QED BY <3>2, <3>3
  <2> QED BY <1>1, <1>2, <1>4, <2>3, <2>4 DEF CallsInv, TickRemove, loopVars
<1>5. CASE TickDone
  <2>1. TypeOK'
    BY <1>5, RecoveryConfig DEF TickDone, TypeOK, actuatorVars, NoRules, Share
  <2>2. ASSUME kill = "ready", NEW e \in Edges PROVE Settled(e)'
    BY <1>5, <2>2 DEF TickDone, CallsInv, Due, Settled, actuatorVars
  <2> QED BY <1>1, <1>2, <1>5, <2>1, <2>2 DEF CallsInv, TickDone
<1> QED BY <1>3, <1>4, <1>5

LEMMA ReleaseSteps ==
  ASSUME IInv, Shutdown \/ KillSwitch
  PROVE  IInv'
<1> USE DEF IInv
<1>1. NoStates \in [Edges -> EdgeState] /\ \A e \in Edges : EdgeInv(NoStates[e])
  BY UntrackedSafe DEF NoStates, EdgeInv
<1>2. ASSUME RemoveAll
      PROVE  /\ rules' \in [Edges -> Share] /\ failed' \in SUBSET Edges
             /\ failed' = {} => rules' = NoRules
             /\ rules = NoRules => rules' = NoRules
  BY <1>2, RecoveryConfig DEF RemoveAll, Outcomes, NoRules, Share, TypeOK
<1>3. CASE ShutdownRemoveAll
  BY <1>2, <1>3 DEF ShutdownRemoveAll, TypeOK, callVars, StatesInv, CallsInv, BoundaryInv
<1>4. CASE ShutdownReset
  BY <1>1, <1>4 DEF ShutdownReset, TypeOK, callVars, actuatorVars, StatesInv, CallsInv, BoundaryInv
<1>5. CASE KillRemoveAll
  BY <1>2, <1>5 DEF KillRemoveAll, TypeOK, loopVars, callVars, StatesInv, CallsInv, BoundaryInv
<1>6. CASE KillReset
  BY <1>1, <1>6 DEF KillReset, TypeOK, loopVars, callVars, actuatorVars, StatesInv, CallsInv, BoundaryInv
<1> QED BY <1>3, <1>4, <1>5, <1>6 DEF Shutdown, KillSwitch

LEMMA StutterStep ==
  ASSUME IInv, UNCHANGED vars
  PROVE  IInv'
BY DEF IInv, TypeOK, vars, loopVars, callVars, actuatorVars, StatesInv, CallsInv, BoundaryInv,
       Due, Settled

(* The controller's inductive invariant holds of every behaviour.              *)
THEOREM Invariance == Spec => []IInv
<1>1. IInv /\ [Next]_vars => IInv'
  BY QuietSteps, RecoverStep, ActStep, ReleaseSteps, StutterStep DEF Next, Tick
<1> QED BY InitInv, <1>1, PTL DEF Spec

(* Every variable of the controller keeps its type.                            *)
THEOREM TypeCorrect == Spec => []TypeOK
<1>1. IInv => TypeOK
  BY DEF IInv
<1> QED BY Invariance, <1>1, PTL

(* Between ticks the actuator enforces what the recovery manager remembers.    *)
THEOREM ActuatorAgrees == Spec => []RulesMatchStates
<1>1. IInv => RulesMatchStates
  BY DEF IInv, CallsInv, Settled, RulesMatchStates
<1> QED BY Invariance, <1>1, PTL

(* The two views of the recovery manager never disagree.                       *)
THEOREM ViewsAgree == Spec => []ActiveMeansShedding
<1>1. IInv => ActiveMeansShedding
  BY DEF IInv, StatesInv, EdgeInv, ActiveMeansShedding, ActiveSheddingStates, ActiveEdges
<1> QED BY Invariance, <1>1, PTL

(* A stopped controller leaves nothing behind unless RemoveAll failed.         *)
THEOREM CleanStop == Spec => []StoppedIsClean
<1>1. IInv => StoppedIsClean
  BY DEF IInv, BoundaryInv, StoppedIsClean
<1> QED BY Invariance, <1>1, PTL

(* No actuator call raises an edge by more than RampUpStep, unless the call    *)
(* before it failed or the kill switch interfered.                             *)
THEOREM RampUpBounded == Spec => RulesRampUp
<1> DEFINE Up == kill = "ready" => \A e \in Edges \ failed : rules'[e] <= rules[e] + RampUpStep
<1>1. IInv /\ [Next]_vars => [Up]_vars
  <2> SUFFICES ASSUME IInv, Next, kill = "ready", NEW e \in Edges, e \notin failed
               PROVE  rules'[e] <= rules[e] + RampUpStep
    OBVIOUS
  <2>1. rules \in [Edges -> Share] /\ planned \in [Edges -> Share]
    BY DEF IInv, TypeOK
  <2>2. rules[e] \in Nat
    BY <2>1, RecoveryConfig DEF Share
  <2>3. CASE rules' = rules
    BY <2>2, <2>3, RecoveryConfig
  <2>4. CASE rules' = NoRules
    BY <2>2, <2>4, RecoveryConfig DEF NoRules
  <2>5. CASE TickApply
    <3>1. PICK x \in toApply, ok \in Outcomes :
            rules' = IF ok THEN [rules EXCEPT ![x] = planned[x]] ELSE rules
      BY <2>5 DEF TickApply
    <3>2. CASE x = e /\ ok
      <4>1. planned[e] <= rules[e] + RampUpStep
        BY <2>5, <3>2 DEF TickApply, IInv, CallsInv, Due
      <4> QED BY <2>1, <3>1, <3>2, <4>1
    <3>3. CASE x # e \/ ~ok
      BY <2>1, <2>2, <3>1, <3>3, RecoveryConfig
    <3> QED BY <3>2, <3>3
  <2>6. CASE TickRemove
    <3>1. PICK x \in toRemove, ok \in Outcomes :
            rules' = IF ok THEN [rules EXCEPT ![x] = 0] ELSE rules
      BY <2>6 DEF TickRemove
    <3> QED BY <2>1, <2>2, <3>1, RecoveryConfig
  <2>7. CASE ShutdownRemoveAll \/ KillRemoveAll
    BY <2>3, <2>4, <2>7 DEF ShutdownRemoveAll, KillRemoveAll, RemoveAll
  <2>8. CASE StoreReport \/ TickerFires \/ Cancel \/ StartRun \/ TickNoReport \/ TickDecide
             \/ TickRecover \/ TickDone \/ ShutdownReset \/ KillReset \/ Exit
    BY <2>3, <2>8 DEF StoreReport, TickerFires, Cancel, StartRun, TickNoReport, TickDecide,
         TickRecover, TickDone, ShutdownReset, KillReset, Exit, actuatorVars
  <2> QED BY <2>5, <2>6, <2>7, <2>8 DEF Next, Tick, Shutdown, KillSwitch
<1> QED BY Invariance, <1>1, PTL DEF RulesRampUp, Spec
(***************************************************************************)
(* The controller implements SheddingPromise: ProcessDecisions is an       *)
(* Interval (or changes nothing), Reset releases every edge, and all other *)
(* steps, the actuator calls included, leave the promise's state alone.    *)
(***************************************************************************)
THEOREM PromiseRefined == Spec => PromiseKept
<1> DEFINE L == [e \in Edges |-> states[e].CurrentShed]
           Q == [e \in Edges |-> states[e].LowRiskCount]
<1>1. Init => Promise!Init
  BY DEF Init, NoStates, Untracked, Promise!Init
<1>2. IInv /\ [Next]_vars => [Promise!Next]_(Promise!vars)
  <2> SUFFICES ASSUME IInv, [Next]_vars
               PROVE  Promise!Next \/ UNCHANGED <<L, Q>>
    BY DEF Promise!vars
  <2>1. CASE states' = states
    BY <2>1
  <2>2. CASE TickRecover
    <3>1. ASSUME NEW e \in Edges
          PROVE  Promise!Pressed(e) \/ Promise!Relaxed(e)
      <4>1. EdgeInv(states[e]) /\ decisions[e] \in Target
        BY <3>1 DEF IInv, StatesInv
      <4>2. states'[e] = ProcessEdge(states[e], decisions[e])
        BY <2>2, <3>1 DEF TickRecover, ProcessDecisions
      <4>3. L[e] = states[e].CurrentShed /\ L'[e] = states'[e].CurrentShed
            /\ Q[e] = states[e].LowRiskCount /\ Q'[e] = states'[e].LowRiskCount
        OBVIOUS
      <4> HIDE DEF L, Q
      <4> QED BY <4>1, <4>2, <4>3, ProcessEdgeSafe DEF Promise!Pressed, Promise!Relaxed, L, Q
    <3> QED BY <3>1 DEF Promise!Next, Promise!Interval
  <2>3. CASE ShutdownReset \/ KillReset
    <3>1. states' = NoStates
      BY <2>3 DEF ShutdownReset, KillReset
    <3>2. L' = [e \in Edges |-> 0] /\ Q' = [e \in Edges |-> 0]
      BY <3>1 DEF NoStates, Untracked
    <3> QED BY <3>2 DEF Promise!Next, Promise!ReleaseAll, Promise!Init
  <2>4. CASE ~(TickRecover \/ ShutdownReset \/ KillReset)
    <3>1. states' = states
      BY <2>4 DEF Next, Tick, Shutdown, KillSwitch, vars, StoreReport, TickerFires, Cancel, StartRun,
           TickNoReport, TickDecide, TickApply, TickRemove, TickDone, ShutdownRemoveAll, KillRemoveAll,
           Exit
    <3> QED BY <3>1
  <2> QED BY <2>2, <2>3, <2>4
<1> QED BY Invariance, <1>1, <1>2, PTL DEF PromiseKept, Promise!Spec, Spec

-----------------------------------------------------------------------------
(* How release comes about: the safety halves of QuietEdgesReleased and of     *)
(* ShutdownReleases.                                                           *)

(* Every quiet interval since the last decision took a whole RampDownStep off   *)
(* the level.                                                                   *)
Fallen(s) == s.CurrentShed + RampDownStep * s.LowRiskCount <= MaxShedPercentage

LevelsFall == \A e \in Edges : Fallen(states[e]) /\ states[e].LowRiskCount < ConsecutiveLowIntervals

LEMMA ProcessEdgeFalls ==
  ASSUME NEW s, EdgeInv(s), Fallen(s), NEW d \in Target
  PROVE  LET t == ProcessEdge(s, d) IN
         /\ Fallen(t)
         /\ d = 0 /\ s.Active => t = Untracked \/ t.LowRiskCount = s.LowRiskCount + 1
<1> DEFINE t == ProcessEdge(s, d)
<1>1. /\ t.CurrentShed \in Nat /\ t.CurrentShed <= MaxShedPercentage /\ t.LowRiskCount \in Nat
      /\ s.CurrentShed \in Nat /\ s.LowRiskCount \in Nat /\ d \in Nat
      /\ RampDownStep \in Nat /\ MaxShedPercentage \in Nat
      /\ (t.LowRiskCount = 0 \/ (t.LowRiskCount = s.LowRiskCount + 1
                                 /\ t.CurrentShed = s.CurrentShed - RampDownStep))
  BY ProcessEdgeSafe, RecoveryConfig DEF EdgeInv, EdgeState, Share, Target
<1>2. d = 0 /\ s.Active => t = Untracked \/ t.LowRiskCount = s.LowRiskCount + 1
  <2> SUFFICES ASSUME d = 0, s.Active PROVE t = Untracked \/ t.LowRiskCount = s.LowRiskCount + 1
    OBVIOUS
  <2>1. t = WithoutDecision(s)
    BY DEF ProcessEdge
  <2> QED BY <2>1 DEF WithoutDecision, EdgeInv, EdgeState
<1>3. Fallen(t)
  <2> HIDE DEF t
  <2>1. CASE t.LowRiskCount = 0
    <3>1. RampDownStep * t.LowRiskCount = 0
      BY <1>1, <2>1
    <3> QED BY <1>1, <3>1 DEF Fallen
  <2>2. CASE t.LowRiskCount # 0
    <3>1. /\ t.LowRiskCount = s.LowRiskCount + 1 /\ t.CurrentShed = s.CurrentShed - RampDownStep
          /\ s.CurrentShed + RampDownStep * s.LowRiskCount <= MaxShedPercentage
      BY <1>1, <2>2 DEF Fallen
    <3>2. /\ RampDownStep * (s.LowRiskCount + 1) = RampDownStep * s.LowRiskCount + RampDownStep
          /\ RampDownStep * s.LowRiskCount \in Nat
      BY <1>1
    <3> QED BY <1>1, <3>1, <3>2 DEF Fallen
  <2> QED BY <2>1, <2>2
<1> QED BY <1>2, <1>3

LEMMA RecoverFalls ==
  ASSUME IInv, LevelsFall, TickRecover
  PROVE  \A e \in Edges :
           /\ Fallen(states'[e]) /\ states'[e].LowRiskCount < ConsecutiveLowIntervals
           /\ decisions[e] = 0 /\ states[e].Active
                => states'[e] = Untracked \/ states'[e].LowRiskCount = states[e].LowRiskCount + 1
<1> SUFFICES ASSUME NEW e \in Edges
             PROVE  /\ Fallen(states'[e]) /\ states'[e].LowRiskCount < ConsecutiveLowIntervals
                    /\ decisions[e] = 0 /\ states[e].Active
                         => states'[e] = Untracked \/ states'[e].LowRiskCount = states[e].LowRiskCount + 1
  OBVIOUS
<1>1. EdgeInv(states[e]) /\ Fallen(states[e]) /\ decisions[e] \in Target
  BY DEF IInv, StatesInv, LevelsFall
<1>2. states'[e] = ProcessEdge(states[e], decisions[e])
  BY DEF TickRecover, ProcessDecisions
<1>3. EdgeInv(states'[e])
  BY <1>1, <1>2, ProcessEdgeSafe
<1> QED BY <1>1, <1>2, <1>3, ProcessEdgeFalls DEF EdgeInv

(* Only ProcessDecisions and Reset touch the entries.                          *)
LEMMA EntriesAreKept == [Next]_vars => TickRecover \/ states' = states \/ states' = NoStates
BY DEF Next, Tick, Shutdown, KillSwitch, vars, StoreReport, TickerFires, Cancel, StartRun,
       TickNoReport, TickDecide, TickApply, TickRemove, TickDone, ShutdownRemoveAll, KillRemoveAll,
       ShutdownReset, KillReset, Exit

(* An edge without decisions is on its way out: each control interval that asks *)
(* for none either forgets it or counts one more, the count stays below         *)
(* ConsecutiveLowIntervals, and after k of them the level is k steps below the  *)
(* cap.  So the edge is forgotten after ConsecutiveLowIntervals such intervals, *)
(* or as soon as RampDownStep times their number reaches the cap, whatever the  *)
(* decisions were before (recovery.go:98-133).                                  *)
THEOREM QuietEdgesFall ==
  /\ Spec => []LevelsFall
  /\ Spec => [][pc = "decided" /\ pc' = "act" =>
                  \A e \in Edges : decisions[e] = 0 /\ states[e].Active
                    => states'[e] = Untracked \/ states'[e].LowRiskCount = states[e].LowRiskCount + 1]_vars
<1> DEFINE Counted ==
      pc = "decided" /\ pc' = "act" =>
        \A e \in Edges : decisions[e] = 0 /\ states[e].Active
          => states'[e] = Untracked \/ states'[e].LowRiskCount = states[e].LowRiskCount + 1
<1>1. Fallen(Untracked) /\ Untracked.LowRiskCount < ConsecutiveLowIntervals
  BY RecoveryConfig DEF Fallen, Untracked
<1>2. Init => LevelsFall
  BY <1>1 DEF Init, NoStates, LevelsFall
<1>3. IInv /\ LevelsFall /\ [Next]_vars => LevelsFall'
  <2> SUFFICES ASSUME IInv, LevelsFall, [Next]_vars PROVE LevelsFall'
    OBVIOUS
  <2>1. CASE TickRecover
    BY <2>1, RecoverFalls DEF LevelsFall, Fallen
  <2>2. CASE states' = states
    BY <2>2 DEF LevelsFall, Fallen
  <2>3. CASE states' = NoStates
    BY <1>1, <2>3 DEF LevelsFall, Fallen, NoStates
  <2> QED BY <2>1, <2>2, <2>3, EntriesAreKept
<1>4. IInv /\ LevelsFall /\ [Next]_vars => [Counted]_vars
  <2> SUFFICES ASSUME IInv, LevelsFall, Next, pc = "decided", pc' = "act" PROVE Counted
    OBVIOUS
  <2>1. TickRecover
    BY DEF Next, Tick, Shutdown, KillSwitch, StoreReport, TickerFires, Cancel, StartRun,
       TickNoReport, TickDecide, TickApply, TickRemove, TickDone, ShutdownRemoveAll, KillRemoveAll,
       ShutdownReset, KillReset, Exit, loopVars
  <2> QED BY <2>1, RecoverFalls
<1> HIDE DEF Counted
<1>5. Spec => []LevelsFall
  BY Invariance, <1>2, <1>3, PTL DEF Spec
<1>6. Spec => [][Counted]_vars
  BY Invariance, <1>5, <1>4, PTL DEF Spec
<1> QED BY <1>5, <1>6 DEF Counted

(* A controller that has stopped stays stopped until the process ends, and no  *)
(* later call, a late kill switch included, brings a rule or an entry back      *)
(* (controller.go:158-188); an ended process makes no call at all.              *)
THEOREM StopIsFinal ==
  /\ Spec => [][pc = "stopped" => /\ pc' \in {"stopped", "exited"} /\ states' = NoStates
                                  /\ \A e \in Edges : rules'[e] <= rules[e]]_vars
  /\ Spec => [][pc = "exited" => UNCHANGED vars]_vars
<1> DEFINE Final == pc = "stopped" => /\ pc' \in {"stopped", "exited"} /\ states' = NoStates
                                      /\ \A e \in Edges : rules'[e] <= rules[e]
           Ended == pc = "exited" => UNCHANGED vars
<1>1. IInv /\ [Next]_vars => [Final]_vars
  <2> SUFFICES ASSUME IInv, Next, pc = "stopped"
               PROVE  /\ pc' \in {"stopped", "exited"} /\ states' = NoStates
                      /\ \A e \in Edges : rules'[e] <= rules[e]
    OBVIOUS
  <2>1. StoreReport \/ Cancel \/ KillSwitch \/ Exit
    BY DEF Next, Tick, Shutdown, TickerFires, StartRun, TickNoReport, TickDecide, TickRecover,
           TickApply, TickRemove, TickDone, ShutdownRemoveAll, ShutdownReset
  <2>2. states = NoStates
    BY DEF IInv, BoundaryInv
  <2>3. pc' \in {"stopped", "exited"} /\ states' = NoStates /\ (rules' = rules \/ rules' = NoRules)
    BY <2>1, <2>2 DEF StoreReport, Cancel, KillSwitch, KillRemoveAll, KillReset, RemoveAll, Exit,
       loopVars, actuatorVars
  <2>4. \A e \in Edges : rules[e] \in Nat
    BY RecoveryConfig DEF IInv, TypeOK, Share
  <2> QED BY <2>3, <2>4 DEF NoRules
<1>2. Next => Ended
  BY DEF Next, Tick, Shutdown, KillSwitch, StoreReport, TickerFires, Cancel, StartRun,
     TickNoReport, TickDecide, TickRecover, TickApply, TickRemove, TickDone, ShutdownRemoveAll,
     KillRemoveAll, ShutdownReset, KillReset, Exit
<1> HIDE DEF Final, Ended
<1>3. Spec => [][Final]_vars
  BY Invariance, <1>1, PTL DEF Spec
<1>4. Spec => [][Ended]_vars
  <2>1. [Next]_vars => [Ended]_vars
    BY <1>2
  <2> QED BY <2>1, PTL DEF Spec
<1> QED BY <1>3, <1>4 DEF Final, Ended
=============================================================================
