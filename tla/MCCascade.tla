----------------------------- MODULE MCCascade -----------------------------
(* A shop of five services with a diamond (gateway calls orders and auth,     *)
(* both call payments), a cycle (payments calls back orders) and a loop       *)
(* (payments -> payments).  Ticks of 100 ms, error shares of 5%.              *)
EXTENDS Cascade

CONSTANTS gateway, orders, auth, payments, inventory

MCNodes == {gateway, orders, auth, payments, inventory}

MCEdges ==
  {<<gateway, orders>>, <<gateway, auth>>, <<orders, payments>>, <<auth, payments>>,
   <<orders, inventory>>, <<payments, orders>>, <<payments, payments>>}

(* Busy enough on orders -> payments to exhaust a pool before the timeout      *)
(* model sees anything; the other links fail later, or hold.  The delays add   *)
(* up along a path: on the way back into the shop the links are quiet.         *)
MCRate ==
  [e \in MCEdges |-> CASE e = <<orders, payments>> -> 110
                       [] e \in {<<orders, inventory>>, <<auth, payments>>} -> 50
                       [] e[1] = gateway -> 20
                       [] OTHER -> 5]

MCLatency == [e \in MCEdges |-> IF e[2] = payments THEN 2 ELSE 1]

MCErrorRate == [e \in MCEdges |-> IF e[1] = auth THEN 2 ELSE 0]

MCLatencies == 1 .. 12
MCErrors == {0, 1, 4, 10}
=============================================================================
