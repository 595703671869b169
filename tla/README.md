# Verification of NVIDIA Config Manager

NVIDIA Config Manager (`nv-config-manager`) turns the data of a DCIM (Nautobot or
NetBox) into device configurations, keeps their versions, and deploys them to
network devices. It is a set of Python services around PostgreSQL, Redis, NATS
JetStream and Temporal, each with several replicas. This directory holds TLA+
models of the parts where those replicas, retries and timers meet, TLC
configurations that check them on small instances, and TLAPS proofs of the
central invariants. Paths below are relative to the root of the repository.

- [1. The system](#1-the-system)
- [2. Modules](#2-modules)
- [3. Runs](#3-runs)
- [4. Proofs](#4-proofs)
- [5. What the models show](#5-what-the-models-show)
- [6. What is not modelled](#6-what-is-not-modelled)
- [7. Plan](#7-plan)

To check a model: `tlc -config ConfigStore.cfg MCConfigStore`; to check the
proofs: `tlapm ConfigStoreProofs.tla`. `PROJECT.json` lists the runs, the source
lines each definition stands for, and, for every property, a mutated definition
under which TLC finds the property violated.

## 1. The system

```
  DCIM --events--> render service --files--> Config Store (PostgreSQL)
    ^                  |  Redis: queued flag,      |
    |                  |  per-device lock          | intended configuration
    +--commit pointer--+                           v
                                  Temporal workflows: deploy, backup, upgrade ...
                                     |  Redis: workflow lock
                                     v
                                  network devices (NVUE, EOS, Junos, IOS XR, ...)
```

### Inventory

| Component | State it keeps | Operations | What is hard | What makes it correct |
|---|---|---|---|---|
| **Config Store** write API (`config_store/core/storage.py`, `api/config_v1.py`, `api/admin_v1.py`) | rows of `config_files`, advisory locks, open transactions | create, batch create, delete device | several statements per transaction at READ COMMITTED; delete takes no lock; batches take locks in the caller's order | versions of a file are unique and form a log; every request is answered |
| **Render service** (`render/pull_consumer.py`, `dispatch.py`, `events/util.py`, `render.py`, `api/render_v1.py`) | JetStream messages and their delivery state, Redis keys `<device>_queued` and the device lock, the commit recorded in the DCIM | consume event, queue, render, store, record; REST renders; template updater | at-least-once delivery, expiring flag and lock, crashes between steps, errors that are logged and acknowledged | no change is lost, renders of a device exclude each other, the store never goes back, work drains |
| **Workflow lock** (`infrastructure/lock.py`, `activities/lock/activities.py`, `decorators/workflow.py`) | a Redis key with a token and a lease | acquire, renew, release as activities; renewal loop; cancellation; terminate | attempts that time out and still reach Redis, leases against timers, lost keys | the body of a run executes only while the run holds the lock; no run waits for ever |
| **Apply stage and device clients** (`activities/deploy/`, `clients/device/*`) | running and startup configuration, a trial commit and its rollback timer; the stage's state | load candidate, compare with the approved diff, commit, confirm, save; Temporal's retries and the retry signal | repeated and overlapping attempts around a non-idempotent change, a timer that undoes it | success means the change is permanent; an attempt recognizes an earlier one's work; nobody else's change is overwritten |
| **Stage framework** (`stage/executor.py`, `mixin.py`, `models.py`) | state of each stage, pending signals, search attributes | execute, approve, reject, retry, skip, archive | signals that come late or twice, skips that cascade one level, parallel stages, retries after a task has raised | no stage is begun behind a review that was not approved; a run that returns has settled every stage; a run that waits is listed |
| **Workflows** (`workflows/*.py`, 33 classes) | their stages | the order in which `run` awaits, skips and ends | early returns, reviews without a waiver, `asyncio.gather` against one await after another | they ask the framework only for what it accepts |
| **Multi-deploy** (`workflows/multi_deploy.py`) | batches, child workflows, totals | discover, diff, group, start, review, apply, back up, collect | children end in any order, fail, are terminated or run again; applies that commit after they were given up; failed stages that wait for a retry signal | batches partition the devices; the totals account for each; nothing is applied without an approval, nor outside the run that was approved |
| **DHCP** (`dhcp/cli.py`, `kea.py`, `api.py`) | configuration in Redis, in Kea, on Kea's disk, the verified hash | generate, test, publish; apply, verify, monitor, repair; probe | restarts of Kea and of the sidecar, lost answers, outages of Redis, a configuration that Kea refuses | Kea runs the last good configuration; an unconfigured pod is not ready |
| **Device cache** (`config_store/core/device_cache_redis.py`, `cache_refresh_service.py`) | Redis entries, name index, active set | refresh, fetch on a miss, delete | several Redis commands of three writers without a transaction | managed devices are found, others hidden |
| **Streams and durables** (`render/pull_consumer.py`, `common/nats_admin.py`, `components/nats-ready`) | streams and durable consumers | create, check, re-create | a re-created stream loses its durables | nothing published after start-up is skipped |
| **IB partition keys, passwords, upgrades, provisioning, diagnostics** | device, UFM, vault and DCIM state behind the activities | long sequences of stages | failure between two systems | both systems agree in the end |
| **Temporal API, worker, schedulers, archive** | schedules | start, list, signal, terminate, archive | signals are sent without a look at the run | - |
| **ZTP** | image files | serve files | - | - |
| **DCIM abstraction**, clients, templates, logging, MCP, auth | none | queries, translation, rendering | - | - |
| **UI, installer, bindings, deployment** | none of the core's | - | - | - |

How they interact: the DCIM publishes change events to JetStream; the render
service's first consumer turns them into one render message per affected device,
its second consumer renders and stores through the Config Store's batch API and
writes the commit back to the DCIM. The deploy workflow reads the stored file,
has its diff against the device approved, applies it through a device client and
stores a backup in the Config Store. Workflows that declare a resource take the
workflow lock around their body. The DHCP refreshers publish Kea's configuration through
Redis to a sidecar in each pod; the Config Store's search uses the device cache. `PROJECT.json` lists, under `hazards`, the places
where this can go wrong, each at its line, with the properties that cover it.

## 2. Modules

| Module | Models | Kind |
|---|---|---|
| `VersionLog` | what the Config Store promises of its rows | abstract specification |
| `ConfigStore` | the write API, statement by statement | detailed; implements `VersionLog` |
| `RenderPipeline` | the path of a device's change | composes DCIM, JetStream, Redis, both consumers, Config Store |
| `WorkflowLock` | the lock, its activities, the run decorator | detailed, with time |
| `ConfirmedCommit` | the apply stage, four device clients, Temporal's retries | detailed |
| `ApprovalGate` | what the reviews of a workflow promise | abstract specification |
| `Stages` | the stage framework and the end of a run | detailed, with liveness; implements `ApprovalGate` |
| `WorkflowCatalogue` | the stages and `run` methods of all workflows | data that `Stages` interprets |
| `StageWalks` | the ways a workflow's `run` can go, apart from what happens at its awaits | conditions on the catalogue |
| `MultiDeploy` | the multi-deploy parent and its batch workflows | composes parent, children, devices |
| `DhcpSync` | DHCP configuration from the DCIM to Kea | composes refreshers, Redis, sidecar, Kea, probe |
| `DeviceCache` | the Config Store's device cache | composes refresh service, requests, deletion |
| `MC...` | constants for TLC | |
| `...Proofs` | theorems about the module of that name, one for each detailed module (section 4) | TLAPS |

Some definitions stand directly before the action they resemble, for example
`AcquireUnguarded` before `acquire_file_lock`. They are mutants: plausible mistakes in that
action, used by nothing in the specification.

### ConfigStore

One request is one PostgreSQL transaction and every SQL statement is a step, so that
any other request may commit between two of them. `rows` are the committed rows
of one device (requests for different devices share neither rows nor locks);
`added` and `gone` are what a transaction has inserted and what its DELETE will
remove; `held` are its advisory locks.

| Action | Code |
|---|---|
| `StartCreate`, `StartBatch`, `StartDelete` | the three handlers |
| `Check` | the batch handler's comparison *before* the lock |
| `acquire_file_lock` | `pg_advisory_xact_lock`, kept until the transaction ends |
| `ReadMax`, `ReadLatest`, `Insert` | `create_or_update_config` |
| `Count`, `Snapshot`, `Delete` | `delete_device_configs`: the count is one statement, the DELETE another that sees the rows committed when it starts and waits for other DELETEs of them |
| `Commit`, `Rollback`, `DeadlockVictim` | the session's end, an error or a lost connection, and PostgreSQL's deadlock detection |

Contents are compared as a whole: compression and hashing are left out.

`VersionLog` is the promise: `rows` changes only by `Append` (new versions right
behind the newest one, no hole, each with another content than the one before)
and `Purge` (of each file the oldest versions). The refinement mapping is the identity on `rows`.

### RenderPipeline

The module is about one device, since flag, lock and files are per device. Changes
of the DCIM are numbered; `stored` is the change the files in the Config Store
show and `synced` the change whose deployable file the DCIM points to. An event
or message is `ready`, `taken` or acknowledged, and is redelivered when its consumer has
stopped or takes too long. Every `await` of the handlers is a step of its own:
`is_queued`, `should_run`, `mark_queued`, `publish`, `AckEvent` for queueing;
`Acquire`, `clear_queued`, `get_render_data`, `persist_files`, `load_file`,
`upsert_intended_configuration`, `AckMessage`, `Release` for rendering. REST requests
that queue (`ApiCallers`) or render directly, and the template updater
(`Renderers`), run the same steps without a message.

Failures come in two kinds. Crashes, lost acknowledgements and errors that lead to
a NAK are always possible, up to `MaxFaults`. Errors that the code swallows and
timeouts it exceeds are named in `Faults`, so that each run says which of them it
admits: `publish`, `dcim`, `render`, `store` (logged and acknowledged), `slow`
(longer than the `ack_wait` of 360 s), `lease` (a render longer than the 180 s of
the lock), `api` (a process stops while it serves a queueing request).

### WorkflowLock

The module is about one key. `holder` and `left` are the token in Redis and the
rest of its lease, in ticks. `pc` follows `_run_with_lock`, `renew` and `timer` follow
`_renew_loop`, `job` the lock activity the run waits for. An attempt that timed out
goes to `late` and may reach Redis at any later time. `body` says what the body
waits for: an activity or, in a body of stages (`Staged`), a signal.
Time passes with `Tick`, for everyone at once; `lag` and `since` count the ticks by which
a run reacts late to a timer or a result, up to `MaxLag`.

### ConfirmedCommit

`target` is a platform with or without `commit_confirm`. `running`, `startup`,
`trial` and `prev` are the device; attempts have their own `pc` and overlap when
Temporal has given one up. `LoadCandidate`, `Commit`, `Confirm`, `ConfirmTooLate`
and `Save` are `commit_candidate_config` of the client; the platforms differ in what an
empty diff means (`AlreadyApplied`), in locking (`Exclusive`), saving (`Saves`),
late confirmations and which failures are repeated (`Failure`). The retry policy,
the start-to-close timeout and the stage's retry signal are `AttemptFails`,
`AttemptTimesOut`, `AttemptIsFatal` and `RetryStage`.
An assumption about devices: while a trial is pending the device's applied
configuration is the new one, so a diff against it is empty. The comment in
`cisco_xr/connection.py:519-522` states this of IOS XR; for NVUE it follows from the
client diffing against the `applied` revision.

### Stages, WorkflowCatalogue, StageWalks and ApprovalGate

`WorkflowCatalogue` has one record per workflow: the stages that its `__init__` defines with
their dependencies, reviews and retryability, and, as a graph of labels, the order in which
its `run` awaits them. A `way` from one label to the next says for which outcome of the
awaited stage it is taken, which stages it marks UNREACHABLE (in the code's order, with or
without their dependents) and where it leads: to another stage or group, to the
archive, a return or an exception. What decides between two ways with the same outcome is data
and left open.

`Stages` executes such a record. `transition`, `Moved` and `set_stage_state` are the framework's
table, cascade and dependency check; the executor is `RequestReview`, `Complete`
and `FailStage`, the signals are `approve`, `reject` and `retry`, which may come at any time, and `todo` holds the changes that `run` makes between two
awaits, one after another, before any signal is delivered. `indexed` are the search
attributes. `verdict` and `stray` are history variables. Stages run at once when a label names a
group; `MeetsException` tells `asyncio.gather` from awaiting tasks in turn.

`ApprovalGate` has three variables: the gated stages, the begun ones and the decisions. Stages are
begun only while every gated stage that has been begun is approved or waived. The refinement maps
`begun` to the stages that have left NOT_STARTED without being skipped, and `decision` to `verdict`.

Three constants name the workflows for which a property does not hold: `Ungated`, `Unsettled` and `Misdeclared`
(section 5). For them the property is not claimed; all their other properties are
checked.

Five assumptions say what is taken for granted of a catalogue, two in `Stages`. `CatalogueAssumption`: a definition names its own
stages only and its ways lead to its own labels. `GateAssumption`, of the workflows that are not `Ungated`: a reviewed stage is
awaited alone, a way taken after a rejection leads to an end, and only a review is waived.

The other three are in `StageWalks` and about the *walks* of a definition: the configurations of label, requested changes and stages
that `run` comes to if every stage it awaits is done at once, at most 31 per workflow. `DeclaredAssumption`: on every walk what is skipped or
begun has not been begun, what is begun depends on settled stages only, and at a label just the stages awaited there have begun.
`ReviewsAssumption`, of the workflows that are not `Misdeclared`: a reviewed stage returns approved, rejected or waived.
`SettlesAssumption`, of those that are not `Unsettled`: where a walk returns, every stage is settled. Walks know nothing of
failures, retries, reviews, signals or search attributes.

TLC evaluates all five for the whole catalogue; the proofs use them in place of it, so they hold of any workflow added later that keeps
to them. The last two fail for exactly the workflows that `Misdeclared` and `Unsettled` name, so nothing is exempted without need.

### MultiDeploy

`stage` is the parent's stage, `child[i]` that of the workflow of batch `i`. `discover_devices`,
`collect_diffs`, `group_and_batch`, `start_batches`, `collect_result` and `archive_results` are the parent;
`Review`, `apply_configurations`, `perform_backups` and `child_archives` the children, `ApplySucceeds` and `ApplyFails` the
activities that a child runs in parallel. Results are kept by device name, and names need
not differ, so `Awaited`, `Unread` and the totals go through `name`. A batch is the set of its devices, and its key says which slice
of which group it is: the devices of a group are those of one diff, and the slice at `offset` has those that have `offset` to
`offset + max_batch_size - 1` others listed before them.

What an apply does on the device is `ConfirmedCommit`'s subject. Here it is one step, which may succeed without changing anything, when
the client finds an empty diff, or two: `ApplyBreaksOff` gives it up while it may still commit, or after it has, and `AppliesLate` is that
commit. `changed` is the set of batches of which the deployment has changed a device, `late` that of those with such a commit to come, and
`granted` remembers the batches that a review has approved.

Failures come in three kinds:

- `discover_devices`, `execute_batches` and a child's `perform_backups` begin with an activity. When it is out of attempts, `stage_executor` marks
  the stage FAILED and waits for a retry signal (`executor.py:70-114`): `discover_devices_fails`, `start_batches_fails` and
  `perform_backups_fails`, as often as they like, and `retry` and `retry_backups`. The other stages catch what their activities raise.
- A failure that the executor does not hold back, a termination, a review out of turn, or a failed archive of the parent ends the workflow:
  `ParentEnds`, at any time, with the children that run, and `ChildFails`. This is also what becomes of an error of `start_child_workflow`:
  the children's ids are random, so none is taken, and any other error is no `TemporalError` and not retryable.
  `MultiDeployInput` and `BatchDeployInput` have no `terminate_on_failure`.
- A child that cannot archive fails with its work done, and its retry policy runs it again from the review (`child_archive_fails`),
  until `MaxAttempts`. `RejectedTooLate` is a rejection in such a run of a batch that is changed already.

### DhcpSync

A configuration is the version of the DCIM's data from which it was generated, and its digest is itself, or nothing from a Kea
that reports none. Refreshers generate, test and publish, with any other step in between.
The sidecar's `pc` is its next call (`load`, `set`, `write`, `verify`, `hash`), `phase` says whether the
apply belongs to startup, to a publication or to a repair, and `Raised` is what an exception leads to in that
phase. `previous`, `expected` and `file` are the baseline it keeps in memory and on disk. `running` and `disk`
are Kea's; Kea and the sidecar restart at any time, answers are lost after the call has taken
effect, Redis comes and goes without bound. The probe reads Kea's digest and the file in two steps.

### DeviceCache

The entries, the name index and the active set are separate keys; each Redis call of the refresh service,
of a request that missed an entry and of a deletion is a step, and each may fail. The DCIM renames
devices and takes them in or out of management between them.

## 3. Runs

Every bound is a constant of the module. Deadlock is checked where the system goes on or ends
in a state of its own (`Stages`, `MultiDeploy`, `DhcpSync`); elsewhere `CHECK_DEADLOCK FALSE` is set because
requests, runs, changes and attempts are finite and the system may stop when they are used up.

| Run | Shows | Bounds | Why they are enough |
|---|---|---|---|
| `config_store` | `VersionsUnique`, `ImplementsVersionLog`, `RequestsAnswered` | 3 requests of any kind, 2 files, 2 contents, batches over both files in opposite orders | two writers and a delete between their statements; a circular wait; a third version to compare with. The first two properties are also proved for all bounds, as are the safety properties of the runs below (section 4) |
| `render` | `RendersExclusive`, `NoChangeLost`, `FlagMeansPending`, `StoreNeverRegresses` | 2 changes, 2 + 2 consumers, 1 direct render, 3 messages, 1 fault of any kind that is not swallowed, or a slow consumer | a change before, during and after a render of the previous one; both consumers at work on the same device; a redelivery beside its first delivery |
| `render_live` | `EventuallyFresh`, `WorkDrains` | 2 changes, 1 event consumer, 2 device consumers, 1 queueing request, 1 fault of any kind, the swallowed ones included | the fault falls between any two steps, also between storing and recording |
| `workflow_lock` | `UnstagedBodyHoldsLock`, `LostLockNoticed`, `WaitersServed` | 2 runs, one of stages that fails fast, one that waits; lease 6, interval 2, buffer 2 ticks, 2 attempts, lag 1, lost keys | exclusion is a matter of pairs; the first property is proved for all values |
| `workflow_lock_staged` | `BodyHoldsLock` is violated | lease 24, interval 9, buffer 3 (the defaults 120 s, 45 s, 15 s in ticks of 5 s), one run of stages | finding 1 |
| `apply` | `SuccessWithoutTrialIsPermanent`, `DiffChangedIsForeign`, `ForeignChangeKept`, `ApplyEnds` | every platform with and without trial; 4 attempts, 3 per activity, 3 faults | three attempts of the policy and one of the retry signal |
| `apply_cumulus` | `SuccessIsPermanent` is violated | Cumulus with trial | finding 2 |
| `stages` | `DeclaredOrder`, `EndedSettled`, `IndexCurrent`, `GateSpec`, `EndsOrListed` | every workflow of the catalogue, 2 failures of stages or archive, any reviews | a stage that fails, is retried and fails again; two failing stages of a group |
| `stages_reject` | `RejectionStops` is violated | the Redfish provisioning workflow | finding 3 |
| `multi_deploy` | `BatchesPartition`, `CountsAddUp`, `AppliesReviewed`, `EndsOrWaits` | up to 3 devices, 2 diffs, batches of 2, names all different or two the same, 2 runs per child, 2 faults (failed archives, ended workflows, applies that break off); stages fail and are retried without bound | a full and a partial batch of one diff, or two groups; a child that runs again beside one that ends; an apply that breaks off and commits in the next run, before or after its review |
| `dhcp_sync` | `NeverReadyUnconfigured`, `BaselineMatches`, `ReconciledIsServed`, `DriftRepaired`, `EventuallyServed` | 2 refreshers, 4 versions, one that `config-test` refuses and one that only `config-set` refuses, 2 startup attempts, 2 faults; Redis may come and go for ever | overtaking needs two refreshers; a good version before and after each bad one; a restart of Kea and one of the sidecar |
| `device_cache` | `ManagedFound`, `UnmanagedHidden` | 2 devices, 3 names, 1 request, 2 changes, 1 deletion, 1 failing call | a name moves from one device to the other while each of the three writers has an old value in its hands |

The largest runs, `device_cache`, `multi_deploy` and `render_live`, have 1.8, 1.8 and 1.2 million distinct states.
`TypeOK` is checked once per module. Symmetry is used in the safety run of
`RenderPipeline` only, over actors of a kind and messages, which no definition
tells apart.

### What the properties say

- `VersionsUnique`: no two rows, committed or pending, have the same file and
  version; the unique constraint never fires.
- `ImplementsVersionLog`: the committed rows behave as `VersionLog`, although delete
  takes no lock and the batch compares before it has the lock.
- `RequestsAnswered`: a started request ends, by its commit, an error or as a victim.
- `RendersExclusive`, `StoreNeverRegresses`: at most one render between acquire and
  release; the store never shows an older change than before.
- `NoChangeLost`: while the store does not show the latest change of an enabled device, an event,
  a message or a render with fresh data is on its way.
- `FlagMeansPending`: a set flag stands for a queued render, or for an event that will be
  delivered again.
- `EventuallyFresh`, `WorkDrains`: once changes and faults are over, the store and the
  DCIM's pointer are up to date; everything is acknowledged and the lock is free.
- `UnstagedBodyHoldsLock`: a body without stages executes an activity only while its run holds the
  key, unless Redis has lost the key of that very run. `BodyHoldsLock` says it of every body.
- `LostLockNoticed`, `WaitersServed`: a run whose key is gone stops (or gets it back);
  a run that waits gets its turn.
- `SuccessIsPermanent`: a stage that reported success leaves a permanent change;
  `SuccessWithoutTrialIsPermanent` says it of the platforms without a trial commit and of IOS XR with one.
- `DiffChangedIsForeign`, `ForeignChangeKept`, `ApplyEnds`: an attempt recognizes what an earlier one
  applied; nobody else's change is overwritten by clients that lock the candidate; the stage does not hang.
- `DeclaredOrder`: `run` asks for no transition that the framework refuses.
- `EndedSettled`: a run that returns leaves every stage complete or unreachable.
- `IndexCurrent`: the lists of pending and failed runs agree with the stages.
- `GateSpec`: the workflow implements `ApprovalGate`. `RejectionStops`: after a rejection no stage that depends on the
  rejected one is begun.
- `EndsOrListed`: a run ends or is listed as waiting for a reviewer or an operator.
- `BatchesPartition`, `CountsAddUp`: every device with a diff is in one batch of its diff; the totals add up to the devices.
- `AppliesReviewed`: a batch is changed, or may still be, only if one of its reviews has approved it; an apply is under way only in the
  run whose own review approved it and before its backups, so never beside the review of a child that is run again, nor after its report.
- `EndsOrWaits`: the parent ends, a batch waits for its review, or a stage is listed as failed and waits for an operator.
- `NeverReadyUnconfigured`, `BaselineMatches`, `ReconciledIsServed`: the probe never calls Kea's delivered
  configuration ready; the expected hash is that of the configuration a repair would apply; a recorded reconciliation was one.
- `DriftRepaired`, `EventuallyServed`: a Kea that lost its configuration gets it back even without Redis; a
  version that stays in the DCIM and that Kea accepts is served and verified for good.
- `ManagedFound`, `UnmanagedHidden`: once changes and deletions are over, a search finds every managed device under its
  name, and no other device is active.

### Fairness

- `ConfigStore`: weak fairness of each request's next statement. PostgreSQL serves lock
  queues in order and looks for circular waits after `deadlock_timeout`. Requests need
  not start, and rollbacks need not happen.
- `RenderPipeline`: weak fairness of each replica's steps (the consumers poll in
  endless loops and a crashed process is restarted), of redelivery, and of
  the expiry of flag and lock, which JetStream and Redis do on their own. Changes,
  faults and API requests are not fair. Redelivery has no upper number
  (`CONSUMER_MAX_DELIVER` is -1).
- `WorkflowLock`: weak fairness of time and of the steps by which Redis answers and the run
  takes results. `WaitersServed` assumes in addition (`BodiesEnd`) that bodies end and that not every one
  of endlessly many acquire attempts is lost; nothing in the code bounds a body.
- `ConfirmedCommit`: weak fairness of Temporal and of attempts whose worker lives. Timers,
  foreign changes, retries by users and faults are not fair.
- `Stages`: weak fairness of what the worker does by itself (activations of `run`, stage functions that end,
  the archive). Reviewers and operators may never act.
- `MultiDeploy`: weak fairness of the parent's, the children's and the applies' steps, which Temporal hands out and which time out.
  Stages may fail each time they are retried; reviewers and operators may never act.
- `DhcpSync`: weak fairness of each refresher and of the sidecar, which loop and are restarted. Nothing is assumed of
  Redis, the DCIM or the probe; `EventuallyServed` has as its premise that Redis answers for good and that the DCIM
  no longer changes.
- `DeviceCache`: weak fairness of the refresh service, an endless loop. Requests and deletions may hang at any step.

## 4. Proofs

All theorems hold for every value of the constants within the named assumptions
of the modules.

**`ConfigStoreProofs`** assumes `BatchesAssumption` only.
`TypeCorrect`, `UniqueVersions` (`Spec => []VersionsUnique`) and `LogRefinement`
(`Spec => ImplementsVersionLog`) follow from `Invariance`: `Spec => []IndInv`.
Uniqueness is not inductive, because it says nothing about what a transaction has read. `IndInv` adds:

- `FlowInv`: a transaction that stores deletes nothing and vice versa, and one
  that has ended has nothing pending;
- `LockInv`: locks exclude each other, and a transaction holds the lock of every file it
  has inserted into or reads the maximum of. Since the lock is kept to the end,
  nobody else's insert can come between;
- `GoneInv`: what a DELETE sees of a file is a prefix of its versions. This is
  why a delete without a lock does no harm: it can only take the oldest;
- `LogInv`: what a transaction has inserted continues what is committed;
- `ReadInv`: what was read under the lock stays true or the whole file is gone. That the row of version
  `maxv` is there when any row is carries the "no hole" part of `Append`;
- `FiniteInv`: only finitely many rows, so that the count is a number.

The refinement then maps `Commit` of a storing transaction to `Append`, of a deleting
one to `Purge`, and every other step to a stutter.

**`WorkflowLockProofs`** assumes what `WorkflowLockSpec._validate_intervals` checks
(`Interval + Buffer < TTL`). `TypeCorrect` needs no more. `BodyLocked` states
`Punctual => (Spec => []UnstagedBodyHoldsLock)`, where `Punctual` says what the code relies on
without checking it: results and timers that are late by less than the buffer in total
(`MaxLag < Buffer`). Runs of stages may take part, and Redis may lose keys; the property exempts
a body of stages (finding 1) and a run whose own key was lost. The inductive invariant:

- `LoopInv`: the loop's timer is within its interval or its deadline;
- `FlowInv`: a body runs only in `run`; a release that may come late belongs
  to a run that has ended, so no attempt frees the lock under its own run;
- `LeaseInv`: the rest of the lease, the time since it was set and the delays
  make up at least the TTL. With the deadline `TTL - Interval - Buffer` the lease thus
  has at least `Buffer - MaxLag` ticks left, more than none, whenever the body still runs.

**`RenderPipelineProofs`** is about any number of consumers, requests, jobs, messages and changes, and any number of faults.
What may fail is stated as a hypothesis on `Faults`, because the properties are false without it (section 5):

- `TypeCorrect` needs none.
- `ExclusiveRenders` and `NoRegress` (`RendersExclusive`, `StoreNeverRegresses`) need `LeaseKept`: no render outlives the 180 s
  of its lock. `LockInv`: who renders holds the lock. `DataInv`: what is about to be stored was read after what is in the store,
  and nothing is newer than the DCIM. Uniqueness of the lock's holder alone is not enough for the second theorem, since the
  data of a render is read before it is stored.
- `FlagPending` (`FlagMeansPending`) needs `FlagKeptUp`: deliveries end within `ack_wait`, and a publication neither fails unseen nor is
  cut off between `mark_queued` and `publish` in an API process. Crashes of consumers and swallowed errors of the DCIM, of rendering and of storing
  are admitted.
- `ChangeKept` (`NoChangeLost`) needs `OnlyCrashes`: no error is swallowed and no timeout exceeded; any process may stop
  anywhere, and errors are negatively acknowledged, any number of times.

`FlagMeansPending` and `NoChangeLost` are not inductive: each names events and messages that somebody may be about to
acknowledge. `FlagInv` and `PendingInv` rest on those that nobody is about to acknowledge (`Live`, `Waiting`). That an
acknowledgement disturbs none of them follows from `EventInv` and `MessageInv`: an event or a
message is in the hands of one actor, and a consumer that has not marked the device yet cannot be the one whose event the flag names.

**`ConfirmedCommitProofs`** has no hypotheses beyond the bounds. `TypeCorrect`; `ForeignKept` (`ForeignChangeKept`), from `CommitInv`: with the candidate's
lock at most one attempt is about to commit, and nothing has changed since it compared the diff; `DiffChanged` (`DiffChangedIsForeign`), from
`ForeignInv` and `TrialInv`: who sees a changed diff sees somebody else's configuration, running or to go back to; `SuccessPermanent`
(`SuccessWithoutTrialIsPermanent`), from `PlainInv`: without trials whoever is past its commit has applied the intended
configuration, and saved it where the platform saves; and from `ConfirmedInv`: on IOS XR only the attempt that
confirmed its own trial is done.

**`StagesProofs`** is about every catalogue that satisfies the five assumptions of `Stages` and `StageWalks`; only `OrderKept` and `AllSettled` need the latter. `TypeCorrect` rests on `ChangesOf` and `WayPlace`: what a way asks
for is a sequence of changes of the workflow's own stages. `ListedRuns` (`IndexCurrent`) covers `set_stage_state`, the executor and the
signals, which write the states and the search attributes on different paths. `GateKept` (`Spec => GateSpec`) is the refinement
of `ApprovalGate`. Its invariant `GateInv` relates where run is to what has been decided:

- `StartAt`: before run starts no stage is begun;
- `ReviewAt`: only reviewed stages are reviewed, APPROVED goes with an approval, and a reviewed stage that is not
  complete still asks for its review;
- `TodoAt`: a reviewed stage that run is going to begin is the only one it is going to begin, and is awaited alone;
- `HeldAt`: a reviewed stage that has begun is complete and approved or waived; or run awaits that stage alone, or an end, and
  has no stage to begin.

`HeldAt` is why the gate holds although `run` never asks whether a stage was approved: after a rejection the only way on
leads to an end, and a return without a decision is refused by `transition` unless it waives the review. `approve`, `reject`
and a waiver that comes with a completion map to `Decide`, the beginning of a stage to `Begin`, and every other step, a retry
included, to a stutter. For an `Ungated` workflow the mapping is constant and the theorem says nothing.

`RejectionHeld` is the positive side of finding 3: in a gated workflow no stage that depends on a rejected one is begun. The gate alone
does not give it, because it does not say what was begun before the rejection. `DependInv` does (a begun stage is behind settled ones, and a
stage that waits for its review is not settled); `HeldAt` excludes that a stage is begun afterwards.

`OrderKept` (`DeclaredOrder`) and `AllSettled` (`EndedSettled`) rest on `WalkInv`: while a run goes on there is a configuration on a walk of its
definition with the same label, the same requested changes and the same stages, except that a stage that has begun on the walk and is not done there
may be in any state but NOT_STARTED and UNREACHABLE. Advancing takes the walk's next change (`ChangeAccepted`: the framework's cascade moves just the
stages the walk moves, and accepts them); a completion that ends an await takes the way on (`WalkOn`, `CompletionAccepted`); reviews,
failures, retries and completions of one stage of a group leave the walk where it is (`AwaitMoves`). So what TLC has to find out about a workflow is
reduced to its walks, without interleavings and without the bound on failures.

**`DhcpSyncProofs`** assumes `DhcpAssumption`, whichever versions Kea refuses. `TypeCorrect`, `NotReadyUnconfigured` (`NeverReadyUnconfigured`),
`OneBaseline` (`BaselineMatches`) and `Reconciled` (`ReconciledIsServed`) follow from one inductive invariant. The three properties need each other, and in addition `IterationInv`:
in a repair the sidecar applies the baseline, which is what Redis offers if it offers anything, and otherwise what was published, and it
compares hashes only when it has a baseline; and `VerifiedInv`: the delivered configuration is never a verified one.

**`MultiDeployProofs`** is about any number of devices, diffs, batches, runs and faults: `TypeCorrect`, `Partitioned` (`BatchesPartition`),
`Reviewed` (`AppliesReviewed`) and `Accounted` (`CountsAddUp`), from one invariant.

- The grouping: a device's rank is the number of devices listed before it in its group, and `Ranks` says that ranks are one-to-one
  and onto `0 .. n - 1`. Hence a slice has as many devices as there are ranks in it (`SliceSize`), and the multiples of `max_batch_size`
  (`Multiples`, `LastMultiple`) cut the ranks into slices that meet no other and leave none out. No induction is needed.
- The steps: those of the children and devices leave the parent's variables alone (`WorkKeeps`), and most of the parent's leave the
  batches and the children alone (`ParentAloneKeeps`); each invariant is then a matter of the few that remain.
- `StartInv`: once there are children there is one for each batch, and before that nothing is applied. `ApprovedInv`: `AppliesReviewed`, a run starts
  without a review, and an approval is remembered. It needs that no device is in two batches: the review of one child starts applies on its own
  devices only. `RunInv`: a run that archives has the result of each backup it awaits, and one that is not approved has done nothing.
- `PartsInv`: the devices of a batch that was read are succeeded, lost or refused, each one thing, and have one backup if they succeeded;
  `TotalsInv`: the totals are the numbers of the devices in these three sets over all batches read. With the partition, that and the devices
  without a diff and with an unreadable one make up all devices. `NamesCounted` carries the hypothesis of the property that names differ:
  failures are counted by name.

**`DeviceCacheProofs`**: `TypeCorrect`, from `CacheAssumption`. The strengthening is that a device being indexed is no longer on
the refresh's list. `NamesSuffice` shows that the initial state exists.

Every safety invariant and action property of the passing runs is stated by a theorem. Only model-checked:

- liveness (`RequestsAnswered`, `EventuallyFresh`, `WorkDrains`, `LostLockNoticed`, `WaitersServed`, `ApplyEnds`, `EndsOrListed`,
  `EndsOrWaits`, `DriftRepaired`, `EventuallyServed`, `ManagedFound`, `UnmanagedHidden`): the provers do not reason about
  fairness and ENABLED;
- that the catalogue satisfies the assumptions of `Stages` and `StageWalks`: facts about given definitions, which TLC evaluates.

## 5. What the models show

Three runs end in a violation of what a comment, a document or a test says, and a fourth, which passes, takes an action that a
document excludes (`findings` in `PROJECT.json` quotes the lines):

1. **A lost lock does not stop a staged body** (`workflow_lock_staged`). The
   cancellation reaches a stage as a failure of its activity, which the stage framework turns
   into a wait for the retry signal.
2. **A repeated apply on Cumulus takes a pending trial for success**
   (`apply_cumulus`). IOS XR's client refuses this very case, Cumulus's saves and reports success.
3. **A rejected factory reset goes on** (`stages_reject`). `RedfishProvisioningWorkflow.run` awaits the
   review and does not look at its outcome.
4. **A rejected batch may have been configured** (`multi_deploy`, which takes `RejectedTooLate`). A child that applied its diff and could not
   archive is run again from the review (`multi_deploy.py:927`). If it is rejected then, the parent reports its devices as rejected, and
   `docs/user-guides/multi-deploy/index.mdx:89` says that such devices "never had configuration applied". `AppliesReviewed` says what does hold.

Behaviour that the models contain and that no property claims to be otherwise:

- after a delete that overlaps a create, the first version left may be greater than 1
  (compare `docs/config-store/config-store-architecture.mdx:152`), and the number of
  deleted rows that is reported may be too small;
- a worker that stops between storing and recording, followed by a change that shows
  only in files that are not deployable, leaves the DCIM's pointer behind
  (`DeployableChanges` smaller than the set of changes; `EventuallyFresh` then fails);
- a failed publication of a render message is a record that `_queue_requests` logs, and the handler
  acknowledges the event (`dispatch.py:166`, fault `publish`): the change is not rendered, and `NoChangeLost` does not hold
  under that fault; the comment at `pull_consumer.py:577` reads "Only acknowledge if processing succeeded";
- a `DCIMError` in a handler is logged and acknowledged, although
  `docs/render/render-service.mdx:162` says it is retried (fault `dcim`);
- renders longer than the 180 s lease overlap (fault `lease`), although
  `docs/render/render-service.mdx:181` excludes it;
- a consumer that is slow with an event and then stops may lose a change (fault `slow`, two faults): the event is redelivered to
  a second consumer; the first one sets the flag and stops; the second sees the flag and acknowledges. No event or message
  is left until the next change, or the flag's 60 s are over and something else queues the device. `render` admits one fault, under which
  `NoChangeLost` holds; `ChangeKept` is proved without slow deliveries;
- an API process that stops between `mark_queued` and `publish` leaves a flag without a
  render for up to 60 s (fault `api`);
- on Junos a confirmation after the rollback succeeds and changes nothing
  (`ConfirmTooLate`), so that `SuccessIsPermanent` is not claimed for Junos with trial;
- a repeated apply on EOS, after a failed save, reports a changed diff: `_diff_eq` looks for the empty diff in
  the wrong argument (`arista.py:362`). `DiffChangedIsForeign` leaves EOS out;
- without any diff, multi-deploy reports 0 failed devices whatever failed (`multi_deploy.py:1159`), and devices
  that share a name are counted once;
- on an unsupported platform `SwitchOSUpgradeWorkflow` returns from its reviewed stage without a waiver, and the
  run fails (`os_upgrade.py:191`); `HelloWorldApproval` does when its prompt fails (`Misdeclared`);
- `RedfishProvisioningWorkflow`, `InfinibandMlnxOSUpgradeWorkflow`, `MultiDeployWorkflow` and
  `DiagnosticsTechSupport` have returns that leave stages NOT_STARTED (`Unsettled`);
- a review that comes late or twice fails the run (`stray` in `DeclaredOrder`);
- a published configuration that passes `config-test` and fails `config-set` is tried in every iteration before the
  drift check, and keeps the sidecar from repairing (`DriftRepaired` leaves it out); and a pod whose restarted
  sidecar cannot apply what is published may stay ready on the configuration verified before, although the log
  (`cli.py:705`) says it "stays unready";
- when the DCIM lists no device, the refresh returns before it replaces the active set, and old devices stay active
  (`device_cache_redis.py:244`, left out of `UnmanagedHidden`);
- `DiffChangedException` is repeated by Temporal although the retry policy names it and
  `docs/user-guides/workflow-lifecycle/index.mdx:48` lists it as not retryable.

## 6. What is not modelled

The models cover the code that decides what happens when steps interleave, fail or repeat. Most of the
repository's lines are of another kind, which is why the share of all lines in `PROJECT.json`'s map is small:

- generated HTTP clients and Go bindings (`packages/clients/.../generated`), the UI, the installer with its
  simulator, Helm charts and scripts;
- the DCIM plugins and providers: queries and their translation, without state of their own;
- ZTP and the temporal API's listing endpoints: I/O and wrappers around other services' operations;
- the data inside an activity: which devices an event affects, template selection and rendering, parsing of device output,
  computing a Kea configuration, comparing cables, the sequences of calls to UFM, Redfish and vaults. The workflows
  around these activities are all in `WorkflowCatalogue`;
- the reading endpoints, search and diff of the Config Store; DHCP leases, metrics and heartbeat;
- the Mellanox client, which applies line by line;
- the life of streams and durables: what happens to messages there is decided by the NATS server, of which the
  code shows too little to model it.

A thread of an activity that goes on after its
run was cancelled or terminated is modelled where it reaches Redis (`late`) and where it
reaches the device (`ConfirmedCommit`), not in the body of a locked run.

External services are modelled by what the code relies on: PostgreSQL (READ COMMITTED,
advisory locks, deadlock detection), Redis (keys with a TTL, token comparison), JetStream
(at-least-once delivery), Temporal (attempts, timeouts, signals, cancellation), Kea (commands and restarts), and the devices.

## 7. Plan

Done: all modules of section 2 and the proofs of section 4. Worth adding next, in this order:

1. Streams and durables: what a durable consumer that is created anew skips (`pull_consumer.py:461`), once the guarantees of the NATS server
   that the code relies on are written down somewhere to model from.
2. The Mellanox client's line-by-line apply as a further platform of `ConfirmedCommit`: there an attempt that fails leaves the device between two
   configurations, and the next one computes its diff from there.
3. The result of the backup child in the deploy workflow (`deploy.py:360`), as a display state beside the stage's state in `Stages`.
4. The worker threads that outlive a cancelled body (`decorators/workflow.py:134`), with what they still do to devices beside the next run's body.
