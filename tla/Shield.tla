------------------------------- MODULE Shield -------------------------------
(***************************************************************************)
(* The Shield controller: pkg/shield/controller.go, with the actuator      *)
(* interface of pkg/shield/actuator.go and the calls cmd/cascadeshield/    *)
(* main.go makes.                                                          *)
(*                                                                         *)
(* Goroutines.  The controller's goroutine runs Run: a select on the       *)
(* context and the ticker, and a tick of several steps (read the report,   *)
(* decide, call the actuator edge by edge).  The Oracle's goroutine stores *)
(* a new report at any time.  The operator cancels the context, and        *)
(* KillSwitch may be called: by main before Run is started, as the program *)
(* does, or by another goroutine while Run is active, as the exported      *)
(* method and the locked RecoveryManager allow (KillSwitchWhileRunning).   *)
(*                                                                         *)
(* Nothing waits for the controller's goroutine: when main returns, on the *)
(* same cancelled context, or calls os.Exit after the kill switch, the     *)
(* process ends wherever the controller is (Exit; pc = "exited").          *)
(*                                                                         *)
(* rules is what the actuator holds: rules[e] = 0 is "no rule"; the shares *)
(* the controller applies are never 0 (see ActiveMeansShedding).           *)
(***************************************************************************)
EXTENDS Recovery

CONSTANTS
  Nodes,                  (* the services                                     *)
  Reports,                (* the reports the Oracle may store                 *)
  NoReport,               (* LatestReport() = nil                             *)
  ActuatorMayFail,        (* whether actuator calls may return an error       *)
  KillSwitchWhileRunning  (* whether KillSwitch may race with Run             *)

Report == [Nodes -> [risk : Share, caller : Nodes \union {NoCaller}]]

ASSUME ShieldConstants ==
  /\ Edges \subseteq Nodes \X Nodes
  /\ Reports \subseteq Report
  /\ NoReport \notin Reports
  /\ ActuatorMayFail \in BOOLEAN
  /\ KillSwitchWhileRunning \in BOOLEAN

VARIABLES
  report,       (* the Oracle's latest report                                 *)
  cancelled,    (* the context is done                                        *)
  tickReady,    (* the ticker's channel holds a tick                          *)
  pc,           (* where the controller's goroutine is                        *)
  decisions,    (* the tick's decisions                                       *)
  states,       (* RecoveryManager.states                                     *)
  toApply,      (* edges the tick still has to Apply ...                      *)
  planned,      (* ... each with this share, copied out of states             *)
  toRemove,     (* edges the tick still has to Remove                         *)
  rules,        (* the actuator's rules                                       *)
  failed,       (* history: edges whose last actuator call returned an error  *)
  kill          (* progress of KillSwitch                                     *)

loopVars     == <<tickReady, pc, decisions>>
callVars     == <<toApply, planned, toRemove>>
actuatorVars == <<rules, failed>>
vars == <<report, cancelled, loopVars, states, callVars, actuatorVars, kill>>

NoRules == [e \in Edges |-> 0]

(* Whether an actuator call succeeds. *)
Outcomes == IF ActuatorMayFail THEN {TRUE, FALSE} ELSE {TRUE}

Init ==
  /\ report = NoReport
  /\ cancelled = FALSE
  /\ tickReady = FALSE
  /\ pc = "new"
  /\ decisions = NoRules
  /\ states = NoStates
  /\ toApply = {} /\ toRemove = {}
  /\ planned = NoRules
  /\ rules = NoRules
  /\ failed = {}
  /\ kill = "ready"

-----------------------------------------------------------------------------
(* The environment: the Oracle, the timer, the operator.                      *)

StoreReport ==
  /\ pc # "exited"
  /\ report' \in Reports \ {report}
  /\ UNCHANGED <<cancelled, loopVars, states, callVars, actuatorVars, kill>>

(* The ticker's channel has room for one tick; a slow receiver loses ticks.   *)
TickerFires ==
  /\ pc \notin {"new", "stopped", "exited"}
  /\ ~tickReady
  /\ tickReady' = TRUE
  /\ UNCHANGED <<report, cancelled, pc, decisions, states, callVars, actuatorVars, kill>>

Cancel ==
  /\ ~cancelled /\ pc # "exited"
  /\ cancelled' = TRUE
  /\ UNCHANGED <<report, loopVars, states, callVars, actuatorVars, kill>>

(* main returns when its own select sees the done context, or os.Exit(0) ends *)
(* the process after the kill switch; the controller may be anywhere, also in *)
(* the middle of a tick or before its shutdown.  What the actuator had put in *)
(* force outside the process stays as it is.                                  *)
Exit ==
  /\ pc # "exited"
  /\ \/ cancelled /\ (pc # "new" \/ kill = "ready")
     \/ pc = "new" /\ kill = "done"
  /\ pc' = "exited"
  /\ UNCHANGED <<report, cancelled, tickReady, decisions, states, callVars,
                 actuatorVars, kill>>

-----------------------------------------------------------------------------
(* The controller's goroutine. *)

StartRun ==
  /\ pc = "new" /\ kill = "ready"
  /\ pc' = "select"
  /\ UNCHANGED <<report, cancelled, tickReady, decisions, states, callVars,
                 actuatorVars, kill>>

(* tick, observe and decide. *)
TickNoReport ==
  /\ pc = "select" /\ tickReady
  /\ report = NoReport
  /\ tickReady' = FALSE
  /\ UNCHANGED <<report, cancelled, pc, decisions, states, callVars, actuatorVars, kill>>

TickDecide ==
  /\ pc = "select" /\ tickReady
  /\ report # NoReport
  /\ tickReady' = FALSE
  /\ decisions' = ComputeSheddingStrategy(report)
  /\ pc' = "decided"
  /\ UNCHANGED <<report, cancelled, states, callVars, actuatorVars, kill>>

(* tick, recover and rate-limit: one critical section of rm.mu.               *)
TickRecover ==
  /\ pc = "decided"
  /\ states' = ProcessDecisions(states, decisions)
  /\ toApply' = ToApply(states, decisions)
  /\ planned' = [e \in Edges |-> states'[e].CurrentShed]
  /\ toRemove' = ToRemove(states, decisions)
  /\ decisions' = NoRules
  /\ pc' = "act"
  /\ UNCHANGED <<report, cancelled, tickReady, actuatorVars, kill>>

(* tick, act: first the Apply loop, then the Remove loop.  The order within a *)
(* loop is left open; the Remove loop's is the iteration order of a Go map.   *)
(* An error is logged and the loop goes on.                                   *)
TickApply ==
  /\ pc = "act"
  /\ \E e \in toApply, ok \in Outcomes :
       /\ toApply' = toApply \ {e}
       /\ rules' = IF ok THEN [rules EXCEPT ![e] = planned[e]] ELSE rules
       /\ failed' = IF ok THEN failed \ {e} ELSE failed \union {e}
  /\ UNCHANGED <<report, cancelled, loopVars, states, planned, toRemove, kill>>

TickRemove ==
  /\ pc = "act" /\ toApply = {}
  /\ \E e \in toRemove, ok \in Outcomes :
       /\ toRemove' = toRemove \ {e}
       /\ rules' = IF ok THEN [rules EXCEPT ![e] = 0] ELSE rules
       /\ failed' = IF ok THEN failed \ {e} ELSE failed \union {e}
  /\ UNCHANGED <<report, cancelled, loopVars, states, toApply, planned, kill>>

TickDone ==
  /\ pc = "act" /\ toApply = {} /\ toRemove = {}
  /\ pc' = "select"
  /\ planned' = NoRules
  /\ UNCHANGED <<report, cancelled, tickReady, decisions, states, toApply, toRemove,
                 actuatorVars, kill>>

(* RemoveAll of the actuator, from shutdown or from KillSwitch.               *)
RemoveAll ==
  \E ok \in Outcomes :
    /\ rules' = IF ok THEN NoRules ELSE rules
    /\ failed' = IF ok THEN {} ELSE Edges

(* Faults: shutdown forgets the actuator; Run goes on after shutdown. *)
ShutdownForgetsRules ==
  /\ pc = "select" /\ cancelled
  /\ pc' = "reset"
  /\ UNCHANGED <<report, cancelled, tickReady, decisions, states, callVars, actuatorVars, kill>>

ShutdownKeepsRunning ==
  /\ pc = "reset"
  /\ states' = NoStates
  /\ pc' = "select"
  /\ UNCHANGED <<report, cancelled, tickReady, decisions, callVars, actuatorVars, kill>>

(* shutdown, when the select sees that the context is done.                   *)
ShutdownRemoveAll ==
  /\ pc = "select" /\ cancelled
  /\ RemoveAll
  /\ pc' = "reset"
  /\ UNCHANGED <<report, cancelled, tickReady, decisions, states, callVars, kill>>

ShutdownReset ==
  /\ pc = "reset"
  /\ states' = NoStates
  /\ pc' = "stopped"
  /\ UNCHANGED <<report, cancelled, tickReady, decisions, callVars, actuatorVars, kill>>

-----------------------------------------------------------------------------
(* KillSwitch: RemoveAll, then Reset.  main calls it instead of Run.          *)

KillRemoveAll ==
  /\ kill = "ready" /\ pc # "exited"
  /\ pc = "new" \/ KillSwitchWhileRunning
  /\ RemoveAll
  /\ kill' = "reset"
  /\ UNCHANGED <<report, cancelled, loopVars, states, callVars>>

KillReset ==
  /\ kill = "reset" /\ pc # "exited"
  /\ states' = NoStates
  /\ kill' = "done"
  /\ UNCHANGED <<report, cancelled, loopVars, callVars, actuatorVars>>

-----------------------------------------------------------------------------
Tick == TickNoReport \/ TickDecide \/ TickRecover \/ TickApply \/ TickRemove \/ TickDone

Shutdown == ShutdownRemoveAll \/ ShutdownReset

KillSwitch == KillRemoveAll \/ KillReset

Next ==
  StoreReport \/ TickerFires \/ Cancel \/ StartRun \/ Tick \/ Shutdown \/ KillSwitch \/ Exit

Spec == Init /\ [][Next]_vars

(***************************************************************************)
(* The controller's goroutine is scheduled and its ticker keeps firing.    *)
(* When both channels of the select are ready Go chooses among them at     *)
(* random, so a done context is not passed over for ever: strong fairness  *)
(* of the shutdown, in a process that lives on.  Nothing is assumed of the *)
(* Oracle, of the operator or of main's return, which may come at any time *)
(* or never (a terminal UI that goes on).                                  *)
(***************************************************************************)
Fairness ==
  /\ WF_vars(TickerFires)
  /\ WF_vars(Tick)
  /\ SF_vars(Shutdown)

FairSpec == Spec /\ Fairness /\ WF_vars(StartRun)

-----------------------------------------------------------------------------
TypeOK ==
  /\ report \in Reports \union {NoReport}
  /\ cancelled \in BOOLEAN
  /\ tickReady \in BOOLEAN
  /\ pc \in {"new", "select", "decided", "act", "reset", "stopped", "exited"}
  /\ decisions \in [Edges -> Share]
  /\ states \in [Edges -> EdgeState]
  /\ toApply \in SUBSET Edges
  /\ planned \in [Edges -> Share]
  /\ toRemove \in SUBSET Edges
  /\ rules \in [Edges -> Share]
  /\ failed \in SUBSET Edges
  /\ kill \in {"ready", "reset", "done"}

(***************************************************************************)
(* Between ticks the actuator enforces exactly the shares the recovery     *)
(* manager remembers (controller.go:100-147 makes one call for every       *)
(* change), except for edges whose last call returned an error, which the  *)
(* controller only logs.                                                   *)
(***************************************************************************)
RulesMatchStates ==
  pc = "select" /\ kill = "ready" =>
    \A e \in Edges \ failed : rules[e] = states[e].CurrentShed

(***************************************************************************)
(* An entry of the recovery manager sheds something: the two views other   *)
(* goroutines read, ActiveEdgeCount and ActiveSheddingStates               *)
(* (recovery.go:139-164), name the same edges, and no tick calls           *)
(* Apply(..., 0), which would be a rule that sheds nothing.                *)
(***************************************************************************)
ActiveMeansShedding == ActiveSheddingStates(states) = ActiveEdges(states)

(* A controller that has stopped leaves no rule and no state behind, as     *)
(* "Removes all shedding rules" (controller.go:159) says, if no call fails.  *)
StoppedIsClean ==
  pc = "stopped" /\ failed = {} => rules = NoRules /\ states = NoStates

(***************************************************************************)
(* What traffic sees: no actuator call raises an edge by more than         *)
(* RampUpStep over what the actuator enforced before (recovery.go:20), as  *)
(* long as the call before it succeeded and no kill switch interfered.     *)
(***************************************************************************)
RulesRampUp ==
  [][kill = "ready" => \A e \in Edges \ failed : rules'[e] <= rules[e] + RampUpStep]_vars

(* The recovery manager keeps SheddingPromise on every edge: ProcessDecisions*)
(* is an Interval of it, Reset a ReleaseAll, everything else a stutter.      *)
Promise == INSTANCE SheddingPromise WITH
  Cap <- MaxShedPercentage, UpStep <- RampUpStep, DownStep <- RampDownStep,
  Patience <- ConsecutiveLowIntervals,
  level <- [e \in Edges |-> states[e].CurrentShed],
  quiet <- [e \in Edges |-> states[e].LowRiskCount]

PromiseKept == Promise!Spec

(* An edge the Oracle's reports stop asking to shed is eventually released   *)
(* for good, by recovery, shutdown or the kill switch, unless the process     *)
(* ends before: then nobody is left to remove the rule.                       *)
NotAsked(e) == report # NoReport /\ ComputeSheddingStrategy(report)[e] = 0

QuietEdgesReleased ==
  \A e \in Edges : <>[]NotAsked(e) => <>[](rules[e] = 0) \/ <>(pc = "exited")

(***************************************************************************)
(* Once the context is cancelled a running controller removes every rule   *)
(* and no rule ever comes back (controller.go:158-174), unless main, which *)
(* the same cancellation ends (main.go:338-351), was faster: the program   *)
(* does not promise the release itself, only that nothing else prevents it.*)
(***************************************************************************)
ShutdownReleases ==
  (cancelled /\ pc # "new") ~>
    \/ pc = "exited"
    \/ [](pc \in {"stopped", "exited"} /\ rules = NoRules)

=============================================================================
