-------------------------- MODULE ConfirmedCommit ---------------------------
(***************************************************************************)
(* The apply stage of a deployment, and the device it changes.             *)
(*                                                                         *)
(* The activity apply_approved_configuration loads the intended            *)
(* configuration as a candidate, compares its diff with the approved one   *)
(* and commits.  With commit_confirm the commit is a trial: the device     *)
(* goes back to the old configuration unless it is confirmed within five   *)
(* minutes.  Temporal repeats an attempt that fails or times out, next to  *)
(* the first one if that still runs; each platform's client decides what   *)
(* an attempt does that finds the configuration applied already.           *)
(***************************************************************************)
EXTENDS Naturals

CONSTANTS Targets,     \* the platforms, each with or without commit_confirm
          MaxTries,    \* attempts of an activity (the retry policy)
          MaxAttempts, \* bound: the attempts there are, retries by users included
          MaxFaults    \* bound: the failures, crashes and timeouts

Platforms == {"cumulus", "arista", "juniper", "cisco_xr"}

ASSUME TargetsAssumption == Targets \subseteq Platforms \X BOOLEAN
ASSUME BoundsAssumption ==
    MaxTries \in Nat \ {0} /\ MaxAttempts \in Nat \ {0} /\ MaxFaults \in Nat

Attempts == 1..MaxAttempts

VARIABLES target,   \* the device's platform, and commit_confirm of the input
          running,  \* its configuration: the one the diff was approved for,
                    \* the intended one, or one somebody else made since
          trial,    \* the attempt whose commit waits for confirmation, or 0
          prev,     \* the configuration such a commit goes back to
          startup,  \* the configuration it starts with
          changed,  \* history: whether somebody else changed the configuration
          pc,       \* the next step of each attempt
          cur,      \* the attempt Temporal waits for
          tries,    \* its number among the attempts of this activity
          stage,    \* the state of apply_configuration, "ended" if the run failed
          faults    \* the faults so far

device == <<running, trial, prev, startup, changed>>
temporal == <<cur, tries, stage>>
vars == <<target, running, trial, prev, startup, changed, pc, cur, tries, stage, faults>>

platform == target[1]
commit_confirm == target[2]

Configs == {"approved_for", "intended", "foreign"}
Active == {"load", "commit", "confirm", "save"}
Finished == {"ok", "error", "changed", "fatal"}

TypeOK ==
    /\ target \in Targets
    /\ running \in Configs /\ prev \in Configs /\ startup \in Configs
    /\ trial \in 0..MaxAttempts /\ changed \in BOOLEAN
    /\ pc \in [Attempts -> {"none", "gone"} \cup Active \cup Finished]
    /\ cur \in Attempts /\ tries \in 1..MaxTries
    /\ stage \in {"IN_PROGRESS", "COMPLETE", "FAILED", "ended"}
    /\ faults \in 0..MaxFaults

(* The diff has been approved; the first attempt is scheduled. *)
Init ==
    /\ target \in Targets
    /\ running = "approved_for" /\ prev = running /\ startup = running
    /\ trial = 0 /\ changed = FALSE
    /\ pc = [i \in Attempts |-> IF i = 1 THEN "load" ELSE "none"]
    /\ cur = 1 /\ tries = 1 /\ stage = "IN_PROGRESS"
    /\ faults = 0

Fault == faults < MaxFaults /\ faults' = faults + 1
Go(i, step) == pc' = [pc EXCEPT ![i] = step]

(* Junos and IOS XR clients hold the candidate's lock from the load to the *)
(* commit.                                                                 *)
Exclusive == platform \in {"juniper", "cisco_xr"}
Locked == Exclusive /\ \E i \in Attempts : pc[i] = "commit"

(* NVUE and EOS keep a commit over a restart only once it is saved. *)
Saves == platform \in {"cumulus", "arista"}

-----------------------------------------------------------------------------
(* The device. *)

(* The timer of a trial commit (COMMIT_CONFIRM_ROLLBACK_SECONDS). *)
Rollback ==
    /\ trial # 0
    /\ running' = prev /\ trial' = 0
    /\ UNCHANGED <<target, prev, startup, changed, pc, temporal, faults>>

(* Somebody else changes the configuration after the approval. *)
ForeignChange ==
    /\ running = "approved_for" /\ ~Locked
    /\ running' = "foreign" /\ changed' = TRUE
    /\ UNCHANGED <<target, trial, prev, startup, pc, temporal, faults>>

(* A commit makes the candidate the running configuration, for good or on  *)
(* trial.                                                                  *)
Committed(i) ==
    /\ running' = "intended"
    /\ trial' = IF commit_confirm THEN i ELSE 0
    /\ prev' = IF trial # 0 THEN prev ELSE running
    /\ UNCHANGED <<startup, changed>>

-----------------------------------------------------------------------------
(* An attempt: commit_candidate_config of the platform's client.  It ends  *)
(* "ok", with a retryable "error", with DiffChangedException ("changed"),  *)
(* or with an error that must not be repeated ("fatal").                   *)

EmptyDiffAccepted ==
    [cumulus |-> "save", arista |-> "changed", juniper |-> "ok", cisco_xr |-> "ok"][platform]

(* What an attempt does that finds no diff: Cumulus takes the configuration *)
(* for applied and saves it, Junos confirms, IOS XR fails if a trial may be *)
(* pending, and on EOS the empty diff is not the approved one.              *)
AlreadyApplied ==
    [cumulus  |-> "save",
     arista   |-> "changed",
     juniper  |-> IF commit_confirm THEN "confirm" ELSE "ok",
     cisco_xr |-> IF commit_confirm THEN "fatal" ELSE "ok"][platform]

AnyDiffAccepted(i) ==
    /\ pc[i] = "load"
    /\ Go(i, IF running = "intended" THEN AlreadyApplied ELSE "commit")
    /\ UNCHANGED <<target, device, temporal, faults>>

EmptyDiffRefused(i) ==
    /\ pc[i] = "load"
    /\ Go(i, IF Locked THEN "error" ELSE
             IF running = "approved_for" THEN "commit" ELSE "changed")
    /\ UNCHANGED <<target, device, temporal, faults>>

(* Load the candidate, and compare its diff with the approved one. *)
LoadCandidate(i) ==
    /\ pc[i] = "load"
    /\ Go(i, IF Locked THEN "error" ELSE
             CASE running = "intended" -> AlreadyApplied
               [] running = "approved_for" -> "commit"
               [] running = "foreign" -> "changed")
    /\ UNCHANGED <<target, device, temporal, faults>>

AfterConfirm == IF Saves THEN "save" ELSE "ok"

Commit(i) ==
    /\ pc[i] = "commit"
    /\ Committed(i)
    /\ Go(i, IF commit_confirm THEN "confirm" ELSE AfterConfirm)
    /\ UNCHANGED <<target, temporal, faults>>

(* The device refuses: a configuration with a syntax error, or one that    *)
(* NVUE finds invalid or cannot apply.                                     *)
Refused(i) ==
    /\ \/ pc[i] = "load"
       \/ platform = "cumulus" /\ pc[i] = "commit"
    /\ Go(i, "fatal")
    /\ UNCHANGED <<target, device, temporal, faults>>

(* A confirmation in time ends the trial.  On Junos any commit confirms    *)
(* the pending one.                                                        *)
Confirm(i) ==
    /\ pc[i] = "confirm"
    /\ IF platform = "juniper" THEN trial # 0 ELSE trial = i
    /\ trial' = 0
    /\ Go(i, AfterConfirm)
    /\ UNCHANGED <<target, running, prev, startup, changed, temporal, faults>>

(* Nothing of this attempt waits for confirmation any more.  Junos commits *)
(* what is running if no other attempt holds the lock, IOS XR knows from   *)
(* its deadline that the timer has expired, an EOS session is gone, and an *)
(* NVUE revision is gone or applied once more.                             *)
ConfirmTooLate(i) ==
    /\ pc[i] = "confirm"
    /\ IF platform = "juniper" THEN trial = 0 ELSE trial # i
    /\ \/ /\ Go(i, CASE platform = "juniper" -> IF Locked THEN "error" ELSE "ok"
                     [] platform = "cisco_xr" -> "fatal"
                     [] OTHER -> "error")
          /\ UNCHANGED device
       \/ /\ platform = "cumulus"
          /\ running' = "intended" /\ trial' = 0 /\ Go(i, "save")
          /\ UNCHANGED <<prev, startup, changed>>
    /\ UNCHANGED <<target, temporal, faults>>

Save(i) ==
    /\ pc[i] = "save"
    /\ startup' = running
    /\ Go(i, "ok")
    /\ UNCHANGED <<target, running, trial, prev, changed, temporal, faults>>

(* A failure is retryable, but on IOS XR not once a trial may be pending. *)
Failure(i) ==
    IF platform = "cisco_xr" /\ commit_confirm /\ pc[i] \in {"commit", "confirm"}
    THEN "fatal" ELSE "error"

(* A request fails; it may have reached the device all the same. *)
RequestFails(i) ==
    /\ pc[i] \in Active /\ Fault
    /\ \/ UNCHANGED device
       \/ pc[i] = "commit" /\ Committed(i)
       \/ /\ pc[i] = "confirm" /\ trial = i
          /\ trial' = 0 /\ UNCHANGED <<running, prev, startup, changed>>
       \/ /\ pc[i] = "save"
          /\ startup' = running /\ UNCHANGED <<running, trial, prev, changed>>
    /\ Go(i, Failure(i))
    /\ UNCHANGED <<target, temporal>>

(* The worker stops; nobody is told before the activity times out. *)
WorkerStops(i) ==
    /\ pc[i] \in Active /\ Fault
    /\ Go(i, "gone")
    /\ UNCHANGED <<target, device, temporal>>

-----------------------------------------------------------------------------
(* Temporal and the stage executor. *)

Schedule ==
    /\ cur < MaxAttempts
    /\ cur' = cur + 1
    /\ pc' = [pc EXCEPT ![cur + 1] = "load"]

TryWithoutLimit == Schedule /\ tries' = tries + 1 /\ UNCHANGED stage

(* The next attempt, or the stage waits for a retry signal. *)
TryAgain ==
    IF tries < MaxTries
    THEN Schedule /\ tries' = tries + 1 /\ UNCHANGED stage
    ELSE stage' = "FAILED" /\ UNCHANGED <<pc, cur, tries>>

(* The retry policy names DiffChangedException, but compares the failure's *)
(* type, which that exception (an ApplicationError) leaves empty.          *)
AttemptFails ==
    /\ stage = "IN_PROGRESS" /\ pc[cur] \in {"error", "changed"}
    /\ TryAgain
    /\ UNCHANGED <<target, device, faults>>

AttemptNeverTimesOut ==
    /\ stage = "IN_PROGRESS" /\ pc[cur] # "gone" /\ Fault
    /\ TryAgain
    /\ UNCHANGED <<target, device>>

(* start_to_close_timeout: the attempt hangs, its worker stopped, or its   *)
(* result is lost.  A thread that still works on it goes on.               *)
AttemptTimesOut ==
    /\ stage = "IN_PROGRESS"
    /\ \/ pc[cur] = "gone" /\ UNCHANGED faults
       \/ pc[cur] # "gone" /\ Fault
    /\ TryAgain
    /\ UNCHANGED <<target, device>>

(* A non-retryable error fails the run. *)
AttemptIsFatal ==
    /\ stage = "IN_PROGRESS" /\ pc[cur] = "fatal"
    /\ stage' = "ended"
    /\ UNCHANGED <<target, device, pc, cur, tries, faults>>

(* "Configuration Applied Successfully." *)
AttemptSucceeds ==
    /\ stage = "IN_PROGRESS" /\ pc[cur] = "ok"
    /\ stage' = "COMPLETE"
    /\ UNCHANGED <<target, device, pc, cur, tries, faults>>

(* The retry signal executes the stage again. *)
RetryStage ==
    /\ stage = "FAILED" /\ Schedule
    /\ stage' = "IN_PROGRESS" /\ tries' = 1
    /\ UNCHANGED <<target, device, faults>>

AttemptStep(i) ==
    \/ LoadCandidate(i) \/ Commit(i) \/ Confirm(i) \/ ConfirmTooLate(i) \/ Save(i)

TemporalStep == AttemptFails \/ AttemptTimesOut \/ AttemptIsFatal \/ AttemptSucceeds

Next ==
    \/ \E i \in Attempts : AttemptStep(i) \/ Refused(i) \/ RequestFails(i) \/ WorkerStops(i)
    \/ TemporalStep \/ RetryStage
    \/ Rollback \/ ForeignChange

Spec == Init /\ [][Next]_vars

(* Temporal schedules, times out and takes results; a worker that lives    *)
(* goes on.                                                                *)
FairSpec == /\ Spec
            /\ WF_vars(TemporalStep)
            /\ \A i \in Attempts : WF_vars(AttemptStep(i))

-----------------------------------------------------------------------------
(* The intended configuration is there for good: no timer will revert it, *)
(* and a restart does not.                                                *)
Applied == running = "intended" /\ trial = 0
Permanent == Applied /\ (Saves => startup = "intended")

(* A stage that reports "Configuration Applied Successfully." has changed  *)
(* the device for good: no trial is pending that nobody will confirm, and  *)
(* none has been rolled back unnoticed (apply_configuration).              *)
SuccessIsPermanent == stage = "COMPLETE" => Permanent

(* The same for every client that makes no trial commit, and for IOS XR    *)
(* with trials as well, which refuses to repeat a pending one.             *)
SuccessWithoutTrialIsPermanent ==
    ~commit_confirm \/ platform = "cisco_xr" => SuccessIsPermanent

(* A stage that fails with "Diff has changed since approval, aborting."    *)
(* has met somebody else's change and not its own: an attempt takes what   *)
(* an earlier attempt applied for applied (commit_candidate_config).  On   *)
(* EOS it does not: _diff_eq excuses an empty approved diff, and it is the *)
(* other one that is empty.                                                *)
DiffChangedIsForeign ==
    stage = "FAILED" /\ pc[cur] = "changed" /\ platform # "arista" => changed

(* No attempt, not even one that Temporal has given up, replaces a         *)
(* configuration somebody else made after the approval: the clients with   *)
(* the candidate's lock compare and commit under it.                       *)
ForeignChangeKept == [][Exclusive /\ running = "foreign" => running' = "foreign"]_vars

(* Whatever attempts hang and workers stop, the apply activity ends and    *)
(* the stage is completed, waits for a retry signal or ends the run.       *)
ApplyEnds == <>(stage # "IN_PROGRESS")
=============================================================================
