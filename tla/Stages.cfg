SPECIFICATION FairSpec
CONSTANTS
  Catalogue <- Everything
  MaxFailures = 2
  Ungated = {"RedfishProvisioningWorkflow", "HelloWorldApproval"}
  Unsettled = {"RedfishProvisioningWorkflow", "InfinibandMlnxOSUpgradeWorkflow", "MultiDeployWorkflow", "DiagnosticsTechSupport"}
  Misdeclared = {"SwitchOSUpgradeWorkflow", "HelloWorldApproval"}
INVARIANTS TypeOK DeclaredOrder EndedSettled IndexCurrent
PROPERTIES GateSpec EndsOrListed
