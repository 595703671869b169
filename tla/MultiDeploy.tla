----------------------------- MODULE MultiDeploy -----------------------------
(* A deployment to all devices of a role: the parent workflow collects the     *)
(* diffs, groups the devices by diff, cuts the groups into batches and starts  *)
(* a child workflow for each batch; a child waits for one review, applies the  *)
(* batch's configurations in parallel, backs the configured devices up and     *)
(* archives its result.  A child that cannot archive its result fails after    *)
(* it has done its work, and Temporal runs it again from the review.  The      *)
(* parent adds up what the children report.  A stage whose activity is out of  *)
(* attempts waits for an operator's retry signal.  What an apply does to a     *)
(* device is the subject of ConfirmedCommit; here it is one step, or two if it *)
(* is given up before it has its effect.                                       *)
EXTENDS Integers, FiniteSets

CONSTANTS N,           \* the devices there are, in the order DCIM lists them
          Diffs,       \* contents of diffs
          BatchSizes,  \* values of max_batch_size
          Namings,     \* device -> name, not always one-to-one
          MaxAttempts, \* maximum_attempts of DEFAULT_ACTIVITY_RETRY_POLICY
          MaxFaults    \* bound on failed archives, ended workflows and applies broken off

Devices == 1 .. N

ASSUME ConstantsAssumption ==
  /\ N \in Nat /\ BatchSizes \subseteq Nat \ {0} /\ MaxAttempts \in Nat \ {0} /\ MaxFaults \in Nat
  /\ \A naming \in Namings : DOMAIN naming = Devices
  /\ Diffs \cap {"", "error"} = {}

VARIABLES name,           \* the devices' names
          max_batch_size, \* of the input
          stage,          \* the parent's stage, or how it ended
          devices,        \* the devices discovered
          diff,           \* device -> its diff, "" for none, or "error"
          batches,        \* the batches: diff and offset in its group -> devices
          child,          \* batch -> what its child workflow is doing
          attempt,        \* batch -> runs of that child so far
          approved,       \* batch -> the review of the run
          granted,        \* the batches approved in one of their runs (history)
          outcome,        \* device -> its apply in the run
          backup,         \* device -> its backup in the run
          batch_results,  \* batch -> the result the parent has read
          totals,         \* successful, failed and rejected devices
          result,         \* what the parent returns
          changed,        \* the batches of which the deployment has changed a device
          late,           \* those with an apply that broke off and may still commit
          faults          \* the faults so far

input == <<name, max_batch_size>>
parent == <<stage, devices, diff, batches, batch_results, totals, result>>
children == <<child, attempt, approved, granted, outcome, backup>>
network == <<changed, late>>
vars == <<input, parent, children, network, faults>>

Names(set) == {name[d] : d \in set}

NoTotals == [successful |-> 0, failed |-> 0, rejected |-> 0]
NoResult == [total |-> 0, successful |-> 0, failed |-> 0, rejected |-> 0, total_backups |-> 0,
             successful_backups |-> 0, failed_backups |-> 0, discovery_failures |-> 0]

Init ==
  /\ name \in Namings /\ max_batch_size \in BatchSizes
  /\ stage = "discover_devices" /\ devices = {} /\ diff = [d \in Devices |-> ""]
  /\ batches = <<>> /\ child = <<>> /\ attempt = <<>> /\ approved = <<>> /\ granted = {}
  /\ outcome = [d \in Devices |-> "none"] /\ backup = [d \in Devices |-> "none"]
  /\ batch_results = <<>> /\ totals = NoTotals /\ result = NoResult
  /\ changed = {} /\ late = {} /\ faults = 0

Fault == faults < MaxFaults /\ faults' = faults + 1

-----------------------------------------------------------------------------
(* The parent *)

discover_devices ==
  /\ stage = "discover_devices"
  /\ devices' \in SUBSET Devices
  /\ stage' = IF devices' = {} THEN "returned" ELSE "collect_diffs"
  /\ UNCHANGED <<input, diff, batches, batch_results, totals, result, children, network, faults>>

\* get_network_devices is out of attempts: wrap_stage marks the stage FAILED and
\* waits for a retry signal.
discover_devices_fails ==
  /\ stage = "discover_devices" /\ stage' = "discover_devices_failed"
  /\ UNCHANGED <<input, devices, diff, batches, batch_results, totals, result, children, network, faults>>

\* The devices whose diff could not be read, counted by name (a dict by name).
Unread(diffs) == Names({d \in devices : diffs[d] = "error"})

\* The diffs are read in parallel; a device without one is left out, and without
\* any the parent returns, its failed_devices 0.
collect_diffs ==
  /\ stage = "collect_diffs"
  /\ \E found \in [devices -> Diffs \cup {"", "error"}] :
       LET some == \E d \in devices : found[d] \in Diffs
       IN  /\ diff' = [d \in Devices |-> IF d \in devices THEN found[d] ELSE ""]
           /\ stage' = IF some THEN "group_and_batch" ELSE "returned"
           /\ result' = IF some THEN result
                        ELSE [NoResult EXCEPT !.total = Cardinality(devices),
                                !.discovery_failures = Cardinality(Unread(found))]
  /\ UNCHANGED <<input, devices, batches, batch_results, totals, children, network, faults>>

\* The devices of one diff, and how many of them are listed before a device.
Group(x) == {d \in devices : diff[d] = x}
Rank(d) == Cardinality({e \in Group(diff[d]) : e < d})

\* Mutant: a slice takes one device too many.
SliceOverlapping(x, offset) == {d \in Group(x) : Rank(d) \in offset .. offset + max_batch_size}

\* A slice of the list of a group's devices.
Slice(x, offset) == {d \in Group(x) : Rank(d) \in offset .. offset + max_batch_size - 1}

\* Each group is cut into slices at the multiples of max_batch_size.
group_and_batch ==
  /\ stage = "group_and_batch"
  /\ LET Offsets(x) == {i \in 0 .. Cardinality(Group(x)) - 1 : i % max_batch_size = 0}
     IN  batches' = [b \in UNION {{x} \X Offsets(x) : x \in Diffs} |-> Slice(b[1], b[2])]
  /\ stage' = "start_batches"
  /\ UNCHANGED <<input, devices, diff, batch_results, totals, result, children, network, faults>>

\* execute_batches, first part: a child workflow for each batch.
start_batches ==
  /\ stage = "start_batches" /\ stage' = "execute_batches"
  /\ child' = [i \in DOMAIN batches |-> "review"]
  /\ attempt' = [i \in DOMAIN batches |-> 1]
  /\ approved' = [i \in DOMAIN batches |-> FALSE]
  /\ UNCHANGED <<input, devices, diff, batches, batch_results, totals, result, granted, outcome, backup,
                 network, faults>>

\* It fails before it has started a child: get_ui_base_url is out of attempts.
start_batches_fails ==
  /\ stage = "start_batches" /\ stage' = "start_batches_failed"
  /\ UNCHANGED <<input, devices, diff, batches, batch_results, totals, result, children, network, faults>>

\* The retry signal of an operator: wrap_stage calls the stage function again.
retry ==
  /\ \/ stage = "discover_devices_failed" /\ stage' = "discover_devices"
     \/ stage = "start_batches_failed" /\ stage' = "start_batches"
  /\ UNCHANGED <<input, devices, diff, batches, batch_results, totals, result, children, network, faults>>

-----------------------------------------------------------------------------
(* The children *)

Configured(i) == {d \in batches[i] : outcome[d] = "ok"}

\* The devices that are backed up: the list is searched by name.
BackedUp(i) == {d \in batches[i] : name[d] \in Names(Configured(i))}

\* The backups a child waits for: the last handle under each name.
Awaited(i) == {d \in BackedUp(i) : \A e \in BackedUp(i) : name[e] = name[d] => e <= d}

\* review_shared_diff; the configurations of an approved batch are applied.
Review(i, decision) ==
  /\ child[i] = "review"
  /\ approved' = [approved EXCEPT ![i] = decision]
  /\ granted' = IF decision THEN granted \cup {i} ELSE granted
  /\ child' = [child EXCEPT ![i] = IF decision THEN "apply" ELSE "archive"]
  /\ outcome' = [d \in Devices |-> IF decision /\ d \in batches[i] THEN "running" ELSE outcome[d]]
  /\ UNCHANGED <<input, parent, attempt, backup, network, faults>>

\* A batch is rejected before any of its devices has been changed, or too late: an
\* earlier run of the child was approved and has changed some.
RejectedInTime(i) == i \notin changed /\ Review(i, FALSE)
RejectedTooLate(i) == i \in changed /\ Review(i, FALSE)

BatchesOf(d) == {i \in DOMAIN batches : d \in batches[i]}

\* apply_approved_configuration succeeds: it has committed the approved diff, or has
\* found none and takes the configuration for applied, whoever has put it there.
ApplySucceeds(d) ==
  /\ outcome[d] = "running"
  /\ outcome' = [outcome EXCEPT ![d] = "ok"]
  /\ changed' \in {changed, changed \cup BatchesOf(d)}
  /\ UNCHANGED <<input, parent, child, attempt, approved, granted, backup, late, faults>>

\* It fails, somebody else having changed the device for example.
ApplyFails(d) ==
  /\ outcome[d] = "running"
  /\ outcome' = [outcome EXCEPT ![d] = "error"]
  /\ UNCHANGED <<input, parent, child, attempt, approved, granted, backup, network, faults>>

\* It is given up, or fails after the commit; a worker may go on with the last attempt.
ApplyBreaksOff(d) ==
  /\ outcome[d] = "running" /\ Fault
  /\ outcome' = [outcome EXCEPT ![d] = "error"]
  /\ late' = late \cup BatchesOf(d)
  /\ UNCHANGED <<input, parent, child, attempt, approved, granted, backup, changed>>

\* The commit of such an attempt.
AppliesLate(i) ==
  /\ i \in late
  /\ changed' = changed \cup {i} /\ late' = late \ {i}
  /\ UNCHANGED <<input, parent, children, faults>>

\* Mutant: gather returns with the first failure, and the other applies go on.
ApplyUntilFailure(i) ==
  /\ child[i] = "apply"
  /\ \/ \A d \in batches[i] : outcome[d] # "running"
     \/ \E d \in batches[i] : outcome[d] = "error"
  /\ child' = [child EXCEPT ![i] = "backup"]
  /\ UNCHANGED <<input, parent, attempt, approved, granted, outcome, backup, network, faults>>

\* apply_configurations ends when every apply has.
apply_configurations(i) ==
  /\ child[i] = "apply" /\ \A d \in batches[i] : outcome[d] # "running"
  /\ child' = [child EXCEPT ![i] = "backup"]
  /\ UNCHANGED <<input, parent, attempt, approved, granted, outcome, backup, network, faults>>

\* A child workflow for each device configured, whose failure is a result like any
\* other.
perform_backups(i) ==
  /\ child[i] = "backup"
  /\ \E good \in SUBSET Awaited(i) :
       backup' = [d \in Devices |-> IF d \in Awaited(i)
                                   THEN IF d \in good THEN "ok" ELSE "failed"
                                   ELSE backup[d]]
  /\ child' = [child EXCEPT ![i] = "archive"]
  /\ UNCHANGED <<input, parent, attempt, approved, granted, outcome, network, faults>>

\* It fails before it has started a backup: get_ui_base_url is out of attempts.
perform_backups_fails(i) ==
  /\ child[i] = "backup"
  /\ child' = [child EXCEPT ![i] = "backup_failed"]
  /\ UNCHANGED <<input, parent, attempt, approved, granted, outcome, backup, network, faults>>

retry_backups(i) ==
  /\ child[i] = "backup_failed"
  /\ child' = [child EXCEPT ![i] = "backup"]
  /\ UNCHANGED <<input, parent, attempt, approved, granted, outcome, backup, network, faults>>

\* archive_results of a child.
child_archives(i) ==
  /\ child[i] = "archive"
  /\ child' = [child EXCEPT ![i] = "done"]
  /\ UNCHANGED <<input, parent, attempt, approved, granted, outcome, backup, network, faults>>

\* Mutant: Temporal runs the child again without limit.
RunAgainUnlimited(i) ==
  /\ child[i] = "archive" /\ Fault
  /\ child' = [child EXCEPT ![i] = "review"]
  /\ attempt' = [attempt EXCEPT ![i] = @ + 1]
  /\ approved' = [approved EXCEPT ![i] = FALSE]
  /\ UNCHANGED <<input, parent, granted, outcome, backup, network>>

\* It fails: Temporal runs the child again, from the start, or the child has failed.
child_archive_fails(i) ==
  /\ child[i] = "archive" /\ Fault
  /\ IF attempt[i] < MaxAttempts
     THEN /\ child' = [child EXCEPT ![i] = "review"]
          /\ attempt' = [attempt EXCEPT ![i] = @ + 1]
          /\ approved' = [approved EXCEPT ![i] = FALSE]
          /\ outcome' = [d \in Devices |-> IF d \in batches[i] THEN "none" ELSE outcome[d]]
          /\ backup' = [d \in Devices |-> IF d \in batches[i] THEN "none" ELSE backup[d]]
     ELSE child' = [child EXCEPT ![i] = "failed"] /\ UNCHANGED <<attempt, approved, outcome, backup>>
  /\ UNCHANGED <<input, parent, granted, network>>

\* A child is terminated, or fails by a review out of turn; applies that are under
\* way go on.
ChildFails(i) ==
  /\ child[i] \notin {"done", "failed"} /\ Fault
  /\ child' = [child EXCEPT ![i] = "failed"]
  /\ UNCHANGED <<input, parent, attempt, approved, granted, outcome, backup, network>>

-----------------------------------------------------------------------------
(* The parent reads the results *)

\* What a child returns, its backups as sets of devices in place of their numbers;
\* "error" stands for ChildWorkflowError.
ResultOf(i) ==
  [ error |-> child[i] = "failed", approved |-> approved[i],
    successful_devices |-> IF approved[i] THEN Configured(i) ELSE {},
    failed_devices |-> IF approved[i] THEN batches[i] \ Configured(i) ELSE {},
    backups |-> [ total      |-> Awaited(i),
                  successful |-> {d \in Awaited(i) : backup[d] = "ok"},
                  failed     |-> {d \in Awaited(i) : backup[d] = "failed"} ] ]

\* Mutant: a batch whose child failed is not counted.
AddedWithoutErrors(r, size) ==
  [ successful |-> totals.successful + Cardinality(r.successful_devices),
    failed     |-> totals.failed + Cardinality(Names(r.failed_devices)),
    rejected   |-> totals.rejected + IF r.approved \/ r.error THEN 0 ELSE size ]

\* The totals with one more result; failed_devices is a dict by name.
Added(r, size) ==
  IF r.error THEN [totals EXCEPT !.failed = @ + size]
  ELSE IF r.approved
  THEN [totals EXCEPT !.successful = @ + Cardinality(r.successful_devices),
                      !.failed = @ + Cardinality(Names(r.failed_devices))]
  ELSE [totals EXCEPT !.rejected = @ + size]

\* The results read so far and that of one more child.
WithResult(i) == [j \in DOMAIN batch_results \cup {i} |->
                    IF j = i THEN ResultOf(i) ELSE batch_results[j]]

Unfinished == {i \in DOMAIN batches : i \notin DOMAIN batch_results}

\* Mutant: a child that has finished together with another one is passed over.
CollectAlone(i) ==
  /\ stage = "execute_batches" /\ i \in Unfinished /\ child[i] \in {"done", "failed"}
  /\ IF \E j \in Unfinished \ {i} : child[j] \in {"done", "failed"}
     THEN UNCHANGED vars
     ELSE /\ batch_results' = WithResult(i)
          /\ totals' = Added(ResultOf(i), Cardinality(batches[i]))
          /\ stage' = IF Unfinished = {i} THEN "archive" ELSE stage
          /\ UNCHANGED <<input, devices, diff, batches, result, children, network, faults>>

\* A finished child is taken from the list of those awaited, and counted.
collect_result(i) ==
  /\ stage = "execute_batches" /\ i \in Unfinished /\ child[i] \in {"done", "failed"}
  /\ batch_results' = WithResult(i)
  /\ totals' = Added(ResultOf(i), Cardinality(batches[i]))
  /\ stage' = IF Unfinished = {i} THEN "archive" ELSE stage
  /\ UNCHANGED <<input, devices, diff, batches, result, children, network, faults>>

\* archive_results of the parent, and what it returns: the backups of the batches
\* without an error, added up.
archive_results ==
  /\ stage = "archive" /\ stage' = "returned"
  /\ LET Backups(field) == Cardinality({b \in (DOMAIN batch_results) \X Devices :
                                         /\ ~batch_results[b[1]].error
                                         /\ b[2] \in batch_results[b[1]].backups[field]})
     IN  result' = [ total |-> Cardinality(devices), successful |-> totals.successful,
                     failed |-> totals.failed + Cardinality(Unread(diff)),
                     rejected |-> totals.rejected, total_backups |-> Backups("total"),
                     successful_backups |-> Backups("successful"),
                     failed_backups |-> Backups("failed"),
                     discovery_failures |-> Cardinality(Unread(diff)) ]
  /\ UNCHANGED <<input, devices, diff, batches, batch_results, totals, children, network, faults>>

Ended == stage \in {"returned", "failed"}

\* Its archive fails, or an operator terminates the parent: Temporal terminates the
\* children that run.
ParentEnds ==
  /\ ~Ended /\ stage' = "failed" /\ Fault
  /\ child' = [i \in DOMAIN child |-> IF child[i] = "done" THEN "done" ELSE "failed"]
  /\ UNCHANGED <<input, devices, diff, batches, batch_results, totals, result, attempt, approved,
                 granted, outcome, backup, network>>

-----------------------------------------------------------------------------
EndedStutters == Ended /\ UNCHANGED vars

ParentStep == \/ discover_devices \/ collect_diffs \/ group_and_batch \/ start_batches
              \/ \E i \in DOMAIN batches : collect_result(i)
              \/ archive_results
ParentFails == discover_devices_fails \/ start_batches_fails \/ ParentEnds
ChildStep(i) == apply_configurations(i) \/ perform_backups(i) \/ child_archives(i)
ChildStops(i) == perform_backups_fails(i) \/ child_archive_fails(i) \/ ChildFails(i)
Decision(i) == Review(i, TRUE) \/ RejectedInTime(i) \/ RejectedTooLate(i)
DeviceStep(d) == ApplySucceeds(d) \/ ApplyFails(d)

Next == \/ ParentStep \/ ParentFails \/ retry \/ EndedStutters
        \/ \E i \in DOMAIN child : ChildStep(i) \/ ChildStops(i) \/ retry_backups(i) \/ Decision(i)
                                   \/ AppliesLate(i)
        \/ \E d \in Devices : DeviceStep(d) \/ ApplyBreaksOff(d)

\* Temporal hands out the work that is due; every activity has a timeout, and so
\* has the backup workflow.  Nothing is assumed of reviewers and operators.
Spec == /\ Init /\ [][Next]_vars
        /\ WF_vars(ParentStep)
        /\ WF_vars(\E i \in DOMAIN child : ChildStep(i))
        /\ WF_vars(\E d \in Devices : DeviceStep(d))

-----------------------------------------------------------------------------
(* Properties *)

TypeOK ==
  /\ name \in Namings /\ max_batch_size \in BatchSizes
  /\ stage \in {"discover_devices", "discover_devices_failed", "collect_diffs", "group_and_batch",
                "start_batches", "start_batches_failed", "execute_batches", "archive",
                "returned", "failed"}
  /\ devices \subseteq Devices /\ diff \in [Devices -> Diffs \cup {"", "error"}]
  /\ \A i \in DOMAIN child :
       /\ child[i] \in {"review", "apply", "backup", "backup_failed", "archive", "done", "failed"}
       /\ attempt[i] \in 1 .. MaxAttempts /\ approved[i] \in BOOLEAN
  /\ outcome \in [Devices -> {"none", "running", "ok", "error"}]
  /\ backup \in [Devices -> {"none", "ok", "failed"}]
  /\ granted \cup changed \cup late \subseteq DOMAIN child /\ faults \in 0 .. MaxFaults

\* Batches are made of the devices discovered, and no device is in two of them.
BatchesDisjoint ==
  /\ \A i \in DOMAIN batches : batches[i] \subseteq devices
  /\ \A i, j \in DOMAIN batches : i # j => batches[i] \cap batches[j] = {}

\* group_and_batch: every device with a diff is in one batch, once; a reviewer of a
\* batch sees the diff of each of its devices; no batch exceeds max_batch_size, and
\* only the last one of a group is smaller.  (A parent may end before it has grouped.)
BatchesPartition ==
  DOMAIN batches # {} \/ stage \notin {"group_and_batch", "failed"} =>
    /\ BatchesDisjoint
    /\ \A d \in devices : diff[d] \in Diffs <=> \E i \in DOMAIN batches : d \in batches[i]
    /\ \A i \in DOMAIN batches :
         /\ Cardinality(batches[i]) \in 1 .. max_batch_size
         /\ \A d, e \in batches[i] : diff[d] = diff[e]
    /\ \A x \in Diffs :
         Cardinality({i \in DOMAIN batches : /\ Cardinality(batches[i]) < max_batch_size
                                            /\ \A d \in batches[i] : diff[d] = x}) <= 1

UniqueNames == \A d, e \in devices : name[d] = name[e] => d = e

\* What the parent returns accounts for every device whatever order the children
\* end in, fail or run again, and for one backup of each configured device, if
\* the devices' names differ.  (The early return for lack of any diff counts no
\* failed devices.)
CountsAddUp ==
  stage = "returned" /\ DOMAIN batches # {} /\ UniqueNames =>
    /\ result.successful + result.failed + result.rejected
         + Cardinality({d \in devices : diff[d] = ""}) = result.total
    /\ result.total_backups = result.successful
    /\ result.successful_backups + result.failed_backups = result.total_backups

\* A batch is changed, also by an apply that broke off, only if a review has
\* approved it; and an apply is under way only in a run of the child whose own review
\* approved it, before the run goes on to its backups, or after it was terminated.
\* So nothing is being applied while a child that is run again waits for its review,
\* nor when it archives and reports what it has applied.
AppliesReviewed ==
  /\ changed \cup late \subseteq granted
  /\ \A i \in DOMAIN child : \A d \in batches[i] :
       outcome[d] = "running" => approved[i] /\ child[i] \in {"apply", "failed"}

\* The parent ends, a batch waits for its review, or a stage is listed as failed and
\* waits for an operator.
EndsOrWaits ==
  []<>(\/ Ended \/ stage \in {"discover_devices_failed", "start_batches_failed"}
       \/ \E i \in DOMAIN child : child[i] \in {"review", "backup_failed"})
=============================================================================
