--------------------------- MODULE MCWorkflowLock ---------------------------
(* Runs are model values; the ticks are small, in the proportions of the   *)
(* defaults: Interval + Buffer < TTL, and a deadline longer than one tick. *)
EXTENDS WorkflowLock
=============================================================================
