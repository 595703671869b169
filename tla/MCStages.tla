------------------------------ MODULE MCStages ------------------------------
(* Values for the model checker: the whole catalogue, or one workflow of it.   *)
EXTENDS StageWalks, WorkflowCatalogue

Everything == AllWorkflows
OnlyRedfish == [w \in {"RedfishProvisioningWorkflow"} |-> AllWorkflows[w]]
=============================================================================
