SPECIFICATION Spec
CONSTANTS
  Catalogue <- OnlyRedfish
  MaxFailures = 0
  Ungated = {"RedfishProvisioningWorkflow"}
  Unsettled = {"RedfishProvisioningWorkflow"}
  Misdeclared = {}
INVARIANT RejectionStops
