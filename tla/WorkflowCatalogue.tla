------------------------- MODULE WorkflowCatalogue -------------------------
(* The workflows of the workflow package: for each one the stages its __init__ *)
(* defines and the order in which its run method awaits them.  The module      *)
(* Stages interprets these records.                                            *)
(*                                                                             *)
(* depends_on  stage -> the stages it depends on                               *)
(* reviewed    stages defined with requires_approval = True                    *)
(* unretryable stages defined with retryable = False                           *)
(* notifies    reviewed stages that await an activity while they are pending   *)
(* parallel    label of a group -> its stages, in the order they are awaited   *)
(* gathered    groups awaited with asyncio.gather                              *)
(* run         label -> the ways run goes on once the label's stages are done; *)
(*             the label of a single stage is its name                         *)
(* "archive" awaits archive_results and returns, "return" returns at once,     *)
(* "raise" raises a non-retryable ApplicationError.                            *)
EXTENDS Sequences, SequencesExt, TLC

\* A way to go on: the outcome of the awaited stage it belongs to, the stages
\* marked UNREACHABLE (in order, with or without their dependents), the next label.
On(outcome, skip, to) ==
  [on |-> outcome, skip |-> skip, cascade |-> TRUE, to |-> to]
Alone(way) == [way EXCEPT !.cascade = FALSE]
Go(to) == On("done", <<>>, to)

\* Stages that depend on the one defined before them, and run in that order.
ChainDeps(stages) ==
  [s \in Range(stages) |-> {stages[i] : i \in {j \in 1 .. Len(stages) - 1 : stages[j + 1] = s}}]
ChainRun(stages, end) ==
  [s \in Range(stages) |->
     LET i == CHOOSE j \in 1 .. Len(stages) : stages[j] = s
     IN  {Go(IF i = Len(stages) THEN end ELSE stages[i + 1])}]

\* A workflow without reviews, parallel stages or initial skips.
Plain(depends_on, first, run) ==
  [ depends_on |-> depends_on, reviewed |-> {}, unretryable |-> {}, notifies |-> {},
    parallel |-> <<>>, gathered |-> {}, start |-> {Go(first)}, run |-> run ]
Chain(stages, end) == Plain(ChainDeps(stages), Head(stages), ChainRun(stages, end))
Reviewed(workflow, stage) == [workflow EXCEPT !.reviewed = {stage}]

-----------------------------------------------------------------------------
(* Deployment and backup *)

BackupWorkflow ==
  [Plain("load_running_configuration" :> {} @@ "check_drift" :> {}
           @@ "persist_backup" :> {"load_running_configuration", "check_drift"},
         "reads",
         "reads" :> {Go("persist_backup")} @@ "persist_backup" :> {Go("archive")})
   EXCEPT !.parallel = "reads" :> <<"load_running_configuration", "check_drift">>,
          !.gathered = {"reads"}]

DeployWorkflow ==
  Reviewed(
    Plain(ChainDeps(<<"load_intended_configuration", "perform_configuration_diff",
                      "apply_configuration">>)
            @@ "perform_backup" :> {"perform_configuration_diff"},
          "load_intended_configuration",
          "load_intended_configuration" :> {Go("perform_configuration_diff")}
            @@ "perform_configuration_diff" :>
                 {On("approved", <<>>, "apply_configuration"),
                  On("rejected", <<"apply_configuration", "perform_backup">>, "archive"),
                  On("waived", <<"apply_configuration">>, "perform_backup")}
            @@ ChainRun(<<"apply_configuration", "perform_backup">>, "archive")),
    "perform_configuration_diff")

TenantDeployWorkflow ==
  Plain(ChainDeps(<<"load_tenant_configuration", "perform_configuration_diff",
                    "validate_configuration_diff", "apply_configuration">>)
          @@ "perform_backup" :> {"perform_configuration_diff"},
        "load_tenant_configuration",
        "load_tenant_configuration" :> {Go("perform_configuration_diff")}
          @@ "perform_configuration_diff" :>
               {Go("validate_configuration_diff"),
                On("no_diff", <<"validate_configuration_diff", "apply_configuration">>,
                   "perform_backup")}
          @@ ChainRun(<<"validate_configuration_diff", "apply_configuration",
                        "perform_backup">>, "archive"))

\* The review of the diff is always waived: a diff that is not only a password
\* fails the stage.
DevicePasswordRotationWorkflow ==
  [DeployWorkflow EXCEPT
     !.run = [@ EXCEPT !["perform_configuration_diff"] =
                {On("waived", <<>>, "apply_configuration"),
                 On("waived", <<"apply_configuration">>, "perform_backup")}]]

BatchDeployWorkflow ==
  Reviewed(
    [Chain(<<"review_shared_diff", "apply_configurations", "perform_backups">>, "archive")
     EXCEPT !.run = [@ EXCEPT !["review_shared_diff"] =
       {On("approved", <<>>, "apply_configurations"),
        On("rejected", <<"apply_configurations", "perform_backups">>, "archive")}]],
    "review_shared_diff")

MultiDeployWorkflow ==
  [Chain(<<"discover_devices", "collect_diffs", "group_and_batch", "execute_batches">>, "archive")
   EXCEPT !.run = [@ EXCEPT !["discover_devices"] = @ \cup {On("none", <<>>, "return")},
                            !["collect_diffs"] = @ \cup {On("none", <<>>, "return")}]]

ConfigDiffWorkflow ==
  Chain(<<"get_device_data", "load_intended_configuration", "perform_configuration_diff">>,
        "archive")

SiteBackupWorkflow ==
  [Chain(<<"get_devices", "perform_backups", "format_result">>, "archive")
   EXCEPT !.start = @ \cup {On("no_user", <<>>, "raise")},
          !.run = [@ EXCEPT !["get_devices"] =
            @ \cup {On("none", <<"perform_backups", "format_result">>, "archive")}]]

SitePasswordRotationWorkflow ==
  Chain(<<"get_devices", "rotate_passwords", "format_result">>, "archive")

-----------------------------------------------------------------------------
(* Upgrades and provisioning *)

\* An unsupported platform returns from the stage without waiving the review.
SwitchOSUpgradeWorkflow ==
  LET rest == <<"update_device_configuration", "perform_backup", "perform_upgrade">>
      done == ChainRun(<<"update_device_configuration", "perform_upgrade">>, "archive")
  IN  Reviewed(
        Plain(ChainDeps(<<"approve_upgrade", "perform_backup", "update_device_configuration",
                          "perform_upgrade">>),
              "approve_upgrade",
              done @@ "approve_upgrade" :>
                        {On("approved", <<>>, "perform_backup"), On("rejected", rest, "return"),
                         On("waived", rest, "return"), On("unsupported", rest, "return")}
                   @@ "perform_backup" :>
                        {Go("update_device_configuration"),
                         On("drift", <<"update_device_configuration", "perform_upgrade">>,
                            "return")}),
        "approve_upgrade")

NVLinkSwitchFirmwareUpgradeWorkflow ==
  LET stages == <<"get_current_state", "compare_versions", "perform_backup",
                  "update_context_and_validate", "execute_firmware_upgrade",
                  "validate_firmware_upgrade">>
      Stop(why, n) == On(why, SubSeq(stages, n, 6), "return")
  IN  [Chain(stages, "archive") EXCEPT
         !.run = [@ EXCEPT !["get_current_state"] = @ \cup {Stop("unsupported", 2)},
                           !["compare_versions"] = @ \cup {Stop("current", 3)},
                           !["perform_backup"] = @ \cup {Stop("drift", 4)}]]

\* A rejection returns and leaves the later stages as they are.
InfinibandMlnxOSUpgradeWorkflow ==
  LET rest == <<"approve_upgrade", "download_os", "upgrade_partition_1",
                "upgrade_partition_2", "cleanup_os">>
  IN  Reviewed(
        Plain(ChainDeps(<<"get_device_info", "get_current_os_versions">> \o rest)
                @@ "get_intended_os_version" :> {},
              "get_intended_os_version",
              "get_current_os_versions" :>
                   {Go("approve_upgrade"), On("current", rest, "return")}
                @@ "approve_upgrade" :>
                   {On("approved", <<>>, "download_os"), On("rejected", <<>>, "return")}
                @@ ChainRun(<<"get_intended_os_version", "get_device_info">>,
                            "get_current_os_versions")
                @@ ChainRun(Tail(rest), "return")),
        "approve_upgrade")

\* Runs started before the patch that added pre_reprovision_backup are left out.
ReprovisionWorkflow ==
  Chain(<<"pre_reprovision_backup", "execute_ztp", "perform_backup">>, "archive")

\* The result of the review is not looked at; without hosts to reset the last
\* stage is never started.
RedfishProvisioningWorkflow ==
  LET stages == <<"get_bmc_switches", "discover_hosts", "set_host_password", "power_on_host",
                  "wait_for_power_on", "discover_addl_hosts", "set_addl_host_password",
                  "power_on_addl_hosts", "wait_for_addl_power_on", "discover_host_details",
                  "update_dpu_mapping", "write_to_dcim", "approve_factory_reset",
                  "factory_reset_hosts">>
  IN  Reviewed(
        [Chain(stages, "return") EXCEPT
           !.run = [@ EXCEPT !["approve_factory_reset"] =
             {On(verdict, <<>>, to) : verdict \in {"approved", "rejected"},
                                      to \in {"factory_reset_hosts", "return"}}]],
        "approve_factory_reset")

-----------------------------------------------------------------------------
(* Validation, diagnostics and host data *)

SiteCableValidationWorkflow ==
  [Chain(<<"get_devices_to_validate", "validate_devices", "format_result">>, "archive")
   EXCEPT !.run = [@ EXCEPT !["get_devices_to_validate"] =
     @ \cup {On("none", <<"validate_devices", "format_result">>, "archive")}]]

DeviceCableValidationWorkflow ==
  LET reads == <<"get_device_intended_neighbors", "get_device_actual_neighbors",
                 "get_device_mac_table">>
  IN  [Plain(ChainDeps(<<"get_device_data", "validate_device_hostname">>)
               @@ [s \in Range(reads) |-> {"validate_device_hostname"}]
               @@ "validate_connections" :> Range(reads),
             "get_device_data",
             ChainRun(<<"get_device_data", "validate_device_hostname", "reads",
                        "validate_connections">>, "archive"))
       EXCEPT !.parallel = "reads" :> reads, !.unretryable = {"validate_connections"}]

ValidateHardwareWorkflow ==
  LET reads == <<"get_platform", "get_environment_fan", "get_environment_led",
                 "get_environment_psu", "get_environment_voltage", "get_inventory">>
      last == "generate_consolidated_report"
  IN  [Plain(ChainDeps(<<"get_devices_to_validate", "get_device_info">>)
               @@ [s \in Range(reads) |-> {"get_device_info"}] @@ last :> Range(reads),
             "get_devices_to_validate",
             "get_devices_to_validate" :>
                  {Go("get_device_info"),
                   On("none", <<"get_device_info">> \o reads \o <<last>>, "archive")}
               @@ ChainRun(<<"get_device_info", "reads", last>>, "archive"))
       EXCEPT !.parallel = "reads" :> reads]

ConnectedHostMetadataWorkflow ==
  Plain("get_device_mac_table" :> {} @@ "get_device_neighbors" :> {}
          @@ "get_connected_host_data" :> {"get_device_mac_table", "get_device_neighbors"},
        "get_device_mac_table",
        "get_device_neighbors" :> {Go("get_connected_host_data"),
                                   On("none", <<"get_connected_host_data">>, "archive")}
          @@ "get_device_mac_table" :> {Go("get_device_neighbors")}
          @@ "get_connected_host_data" :> {Go("archive")})

PortLLDPInfoWorkflow == Chain(<<"get_switch_port", "get_interface_neighbor_data">>, "archive")

\* The input asks for tech-support bundles or not, and names no ticket, one that
\* can be read or one that cannot.
DiagnosticsWorkflow(tech_support, ticket) ==
  LET uploads == <<"upload_attachment", "upload_tech_support", "post_comment">>
      skipped == (IF tech_support THEN <<>> ELSE <<"collect_tech_support", "upload_tech_support">>)
                   \o (IF ticket = "none" THEN <<"validate_ticket">> \o uploads ELSE <<>>)
      without == Range(skipped) \cup (IF ticket = "inaccessible" THEN Range(uploads) ELSE {})
      stages == SelectSeq(<<"validate_ticket", "resolve_devices", "run_diagnostics",
                            "collect_tech_support", "assemble_output">> \o uploads,
                          LAMBDA s : s \notin without)
      special == (IF ticket = "inaccessible"
                  THEN "validate_ticket" :> {Alone(On("done", uploads, "resolve_devices"))}
                  ELSE <<>>)
                 @@ (IF ticket = "valid" /\ tech_support  \* an empty list of devices
                     THEN "upload_attachment" :> {Go("upload_tech_support"),
                                                  On("no_bundles", <<>>, "post_comment")}
                     ELSE <<>>)
  IN  [Plain(ChainDeps(<<"validate_ticket", "resolve_devices", "run_diagnostics",
                         "assemble_output", "upload_attachment", "post_comment">>)
               @@ "collect_tech_support" :> {"resolve_devices"}
               @@ "upload_tech_support" :> {"collect_tech_support"},
             Head(stages), special @@ ChainRun(stages, "archive"))
       EXCEPT !.start = {Alone(On("done", skipped, Head(stages)))}]

HelloWorld == Chain(<<"hello_world">>, "return")

HelloWorldApproval ==
  [Plain("prompt" :> {} @@ "greet" :> {"prompt"} @@ "goodbye" :> {"prompt"},
         "prompt",
         "prompt" :> {On("approved", <<"goodbye">>, "greet"), On("rejected", <<"greet">>, "goodbye")}
           @@ "greet" :> {Go("return")} @@ "goodbye" :> {Go("return")})
   EXCEPT !.reviewed = {"prompt"}, !.notifies = {"prompt"}]

-----------------------------------------------------------------------------
(* InfiniBand *)

IBPKeyCreationWorkflow ==
  Chain(<<"resolve_context", "validate_pkey", "create_pkey", "verify_pkey", "record_dcim">>,
        "archive")

IBPKeyMemberAddWorkflow ==
  Chain(<<"resolve_context", "resolve_guids", "add_members", "verify_members",
          "record_assignments">>, "archive")

IBPKeyMemberDeleteWorkflow ==
  Chain(<<"resolve_context", "resolve_guids", "remove_members", "verify_removed",
          "remove_assignments", "cleanup_partition">>, "archive")

\* The review is waived when no member is removed.
IBPKeyMemberUpdateWorkflow ==
  Reviewed(
    [Chain(<<"resolve_context", "resolve_desired", "query_current", "validate_diff",
             "update_dcim", "update_ufm", "verify_ufm">>, "archive")
     EXCEPT !.run = [@ EXCEPT !["validate_diff"] =
       {On("approved", <<>>, "update_dcim"), On("waived", <<>>, "update_dcim"),
        On("rejected", <<"update_dcim", "update_ufm", "verify_ufm">>, "archive")}]],
    "validate_diff")

IBPortGuidDiscoveryWorkflow == Chain(<<"resolve_ufm", "discover", "sync">>, "return")

InfinibandCableValidationWorkflow ==
  Plain(ChainDeps(<<"get_ufm_device", "get_ib_ports_from_ufm">>)
          @@ ChainDeps(<<"get_switch_data", "get_intended_neighbors">>)
          @@ "compare_states" :> {"get_ib_ports_from_ufm", "get_intended_neighbors"},
        "get_ufm_device",
        ChainRun(<<"get_ufm_device", "get_ib_ports_from_ufm", "get_switch_data",
                   "get_intended_neighbors", "compare_states">>, "return"))

InfinibandGetUnhealthyPortsWorkflow == Chain(<<"validate_fabric_health">>, "return")

-----------------------------------------------------------------------------
(* SpX overlays *)

SpXOverlayCreationWorkflow == Chain(<<"create_spx_overlay">>, "archive")

SpXOverlayDeletionWorkflow == Chain(<<"delete_spx_overlay">>, "archive")

SpXOverlayAssignmentWorkflow ==
  Chain(<<"get_device_and_vrf", "assign_vrf_to_device", "assign_vrf_to_ports">>, "archive")

SpXOverlayTenantChangeWorkflow ==
  LET stages == <<"get_device", "assign_spx_overlay", "determine_deployment_action",
                  "render_tenant_config", "wait_for_render", "deploy">>
  IN  [Chain(stages, "archive") EXCEPT
         !.run = [@ EXCEPT
           !["assign_spx_overlay"] =
              @ \cup {Alone(On("error", SubSeq(stages, 3, 6), "raise"))},
           !["determine_deployment_action"] =
              @ \cup {On("not_required", SubSeq(stages, 4, 6), "archive"),
                      Alone(On("latest_render", SubSeq(stages, 4, 5), "deploy"))},
           !["deploy"] = @ \cup {On("error", <<>>, "raise")}]]

-----------------------------------------------------------------------------
\* Every registered workflow, by the name of its class.
AllWorkflows ==
  [ BackupWorkflow |-> BackupWorkflow,
    BatchDeployWorkflow |-> BatchDeployWorkflow,
    ConfigDiffWorkflow |-> ConfigDiffWorkflow,
    ConnectedHostMetadataWorkflow |-> ConnectedHostMetadataWorkflow,
    DeployWorkflow |-> DeployWorkflow,
    DeviceCableValidationWorkflow |-> DeviceCableValidationWorkflow,
    DevicePasswordRotationWorkflow |-> DevicePasswordRotationWorkflow,
    Diagnostics |-> DiagnosticsWorkflow(FALSE, "valid"),
    DiagnosticsInaccessible |-> DiagnosticsWorkflow(FALSE, "inaccessible"),
    DiagnosticsTicketless |-> DiagnosticsWorkflow(FALSE, "none"),
    DiagnosticsTechSupport |-> DiagnosticsWorkflow(TRUE, "valid"),
    DiagnosticsTechSupportInaccessible |-> DiagnosticsWorkflow(TRUE, "inaccessible"),
    DiagnosticsTechSupportTicketless |-> DiagnosticsWorkflow(TRUE, "none"),
    HelloWorld |-> HelloWorld,
    HelloWorldApproval |-> HelloWorldApproval,
    IBPKeyCreationWorkflow |-> IBPKeyCreationWorkflow,
    IBPKeyMemberAddWorkflow |-> IBPKeyMemberAddWorkflow,
    IBPKeyMemberDeleteWorkflow |-> IBPKeyMemberDeleteWorkflow,
    IBPKeyMemberUpdateWorkflow |-> IBPKeyMemberUpdateWorkflow,
    IBPortGuidDiscoveryWorkflow |-> IBPortGuidDiscoveryWorkflow,
    InfinibandCableValidationWorkflow |-> InfinibandCableValidationWorkflow,
    InfinibandGetUnhealthyPortsWorkflow |-> InfinibandGetUnhealthyPortsWorkflow,
    InfinibandMlnxOSUpgradeWorkflow |-> InfinibandMlnxOSUpgradeWorkflow,
    MultiDeployWorkflow |-> MultiDeployWorkflow,
    NVLinkSwitchFirmwareUpgradeWorkflow |-> NVLinkSwitchFirmwareUpgradeWorkflow,
    PortLLDPInfoWorkflow |-> PortLLDPInfoWorkflow,
    RedfishProvisioningWorkflow |-> RedfishProvisioningWorkflow,
    ReprovisionWorkflow |-> ReprovisionWorkflow,
    SiteBackupWorkflow |-> SiteBackupWorkflow,
    SiteCableValidationWorkflow |-> SiteCableValidationWorkflow,
    SitePasswordRotationWorkflow |-> SitePasswordRotationWorkflow,
    SpXOverlayAssignmentWorkflow |-> SpXOverlayAssignmentWorkflow,
    SpXOverlayCreationWorkflow |-> SpXOverlayCreationWorkflow,
    SpXOverlayDeletionWorkflow |-> SpXOverlayDeletionWorkflow,
    SpXOverlayTenantChangeWorkflow |-> SpXOverlayTenantChangeWorkflow,
    SwitchOSUpgradeWorkflow |-> SwitchOSUpgradeWorkflow,
    TenantDeployWorkflow |-> TenantDeployWorkflow,
    ValidateHardwareWorkflow |-> ValidateHardwareWorkflow ]
=============================================================================
