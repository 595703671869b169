--------------------------- MODULE MCMultiDeploy ----------------------------
(* Devices with names of their own, or the first two with one name. *)
EXTENDS MultiDeploy

Distinct == [d \in Devices |-> d]
Shared == [d \in Devices |-> IF d = 2 THEN 1 ELSE d]
Both == {Distinct, Shared}
=============================================================================
