--------------------------- MODULE SheddingPromise ---------------------------
(***************************************************************************)
(* What the Shield promises the traffic of every edge, whatever the Oracle *)
(* reports: how fast the share shed on an edge may grow, how fast it       *)
(* shrinks, and how long it can outlive the last decision about the edge.  *)
(* One Interval is one pass of the control loop.                           *)
(***************************************************************************)
EXTENDS Integers

CONSTANTS
  Edges,
  Cap,          (* no edge ever loses more than this                          *)
  UpStep,       (* largest increase per interval                              *)
  DownStep,     (* largest decrease per interval, short of a full release     *)
  Patience      (* an edge nobody asks to shed is released within this many   *)

VARIABLES
  level,        (* level[e]: the share of the traffic shed on e               *)
  quiet         (* quiet[e]: intervals since shedding on e was last asked for *)

vars == <<level, quiet>>

Init ==
  /\ level = [e \in Edges |-> 0]
  /\ quiet = [e \in Edges |-> 0]

(* Somebody asks to shed on e: the level moves towards the request, gently.  *)
Pressed(e) ==
  /\ quiet'[e] = 0
  /\ 0 < level'[e] /\ level'[e] <= Cap
  /\ level[e] - DownStep <= level'[e]
  /\ level'[e] <= level[e] + UpStep

(* Nobody does: the level falls by DownStep, or the edge is released.        *)
Relaxed(e) ==
  \/ /\ quiet'[e] = quiet[e] + 1
     /\ quiet'[e] < Patience
     /\ 0 < level'[e] /\ level'[e] = level[e] - DownStep
  \/ /\ quiet'[e] = 0
     /\ level'[e] = 0

Interval ==
  /\ DOMAIN level' = Edges /\ DOMAIN quiet' = Edges
  /\ \A e \in Edges : Pressed(e) \/ Relaxed(e)

(* Shutdown or kill switch: no ramp. *)
ReleaseAll == Init'

Next == Interval \/ ReleaseAll

Spec == Init /\ [][Next]_vars
=============================================================================
