--------------------------- MODULE MCDependencyDAG ---------------------------
(* Three services with room for two nodes and one outbound edge each.  The     *)
(* gateway calls payments, payments calls orders, and payments accepts from    *)
(* orders: recorded from its own address, closed on its link to orders.        *)
EXTENDS DependencyDAG

CONSTANTS gateway, orders, payments

MCServices == {gateway, orders, payments}

called   == <<gateway, payments>>
accepted == <<payments, payments>>
back     == <<payments, orders>>

MCLinks == {called, accepted, back}

MCClosesOn == [l \in MCLinks |-> IF l = accepted THEN {back} ELSE {l}]
=============================================================================
