------------------------------- MODULE MCLots -------------------------------
(* Values of Lots' constants that a .cfg cannot express. *)
EXTENDS Lots

MCSlots == 1..2
MCSessions == {"s1", "s2"}
MCSessionOf == [s \in MCSlots |-> IF s = 2 THEN "s2" ELSE "s1"]
(* The default, and far more than aging can make up for. *)
MCPolicies == {[x \in MCSessions |-> IF x = "s1" THEN n ELSE 0] : n \in {0, 9}}
MCWorkerSessions == {{"s2"}}
=============================================================================
