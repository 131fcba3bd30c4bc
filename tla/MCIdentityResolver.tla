------------------------- MODULE MCIdentityResolver -------------------------
(* Three PIDs and room for two: one that goes back and forth between a          *)
(* container and the host, one in the same container, one on the host.          *)
EXTENDS IdentityResolver

MCMayBe == <<{"orders", "sh"}, {"orders"}, {"sh"}>>

MCContainer == [p \in {"orders", "sh"} |-> IF p = "orders" THEN "c1" ELSE NoContainer]
=============================================================================
