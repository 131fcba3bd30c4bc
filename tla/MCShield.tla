------------------------------ MODULE MCShield ------------------------------
(* Instances of Shield for TLC, in units of 5% with the values of             *)
(* DefaultConfig (pkg/shield/config.go).                                      *)
EXTENDS Shield

CONSTANTS gateway, orders, payments

MCNodes == {gateway, orders, payments}

(* payments is called by both other services, so that a new report may move   *)
(* the cut from one of its edges to the other.                                *)
OneCallee == {<<gateway, payments>>, <<orders, payments>>}

Healthy == [risk |-> 0, caller |-> NoCaller]

(* Reports: risk and first caller of the callees, the rest is healthy. *)
ReportsOn(edges, risks) ==
  {r \in [MCNodes -> {Healthy} \union [risk : risks, caller : {e[1] : e \in edges}]] :
     \A n \in MCNodes : r[n] = Healthy \/ \E e \in edges : e[1] = r[n].caller /\ e[2] = n}

FlipReports == ReportsOn(OneCallee, {17, 20})
LiveReports == ReportsOn(OneCallee, {20})
(* Enough for a target at the floor, one at the cap, a falling target, a moved cut. *)
CoarseReports ==
  {r \in ReportsOn(OneCallee, {2, 4}) : r[payments].caller = gateway => r[payments].risk = 4}
NeverLowReports == ReportsOn(OneCallee, {10, 20}) \ {[n \in MCNodes |-> Healthy]}
=============================================================================
