----------------------- MODULE ConfirmedCommitProofs ------------------------
(***************************************************************************)
(* For any number of attempts, retries and faults, on every platform: what *)
(* a client with the candidate's lock never does to somebody else's        *)
(* change, what "Diff has changed" means, and when a reported success is   *)
(* permanent.                                                              *)
(***************************************************************************)
EXTENDS ConfirmedCommit, TLAPS

-----------------------------------------------------------------------------
(* A trial is one of the intended configuration.  With the candidate's     *)
(* lock, the attempt about to commit is the only one, and nothing has      *)
(* changed since it compared the diff.                                     *)
TrialInv == trial # 0 => running = "intended"
CommitInv ==
    Exclusive => \A i \in Attempts : pc[i] = "commit" =>
        running = "approved_for" /\ \A j \in Attempts : pc[j] = "commit" => j = i

(* A configuration somebody else made, running or to go back to, and the   *)
(* diff it has changed.                                                    *)
ForeignInv ==
    /\ running = "foreign" \/ prev = "foreign" => changed
    /\ platform # "arista" => \A i \in Attempts : pc[i] = "changed" => changed

(* Without trials, an attempt that got past the commit has applied the     *)
(* intended configuration, and it stays.                                   *)
PlainInv ==
    ~commit_confirm =>
       /\ trial = 0
       /\ \A i \in Attempts : /\ pc[i] # "confirm"
                              /\ pc[i] \in {"save", "ok"} => running = "intended"
                              /\ pc[i] = "ok" /\ Saves => startup = "intended"

(* On IOS XR only the attempt that confirmed its own trial is done. *)
ConfirmedInv ==
    platform = "cisco_xr" =>
       \A i \in Attempts : pc[i] # "save" /\ (pc[i] = "ok" => Applied)

-----------------------------------------------------------------------------
LEMMA TypeInitially == Init => TypeOK
<1> SUFFICES ASSUME Init PROVE TypeOK
    OBVIOUS
<1>1. 1 \in Attempts /\ 1 \in 1..MaxTries /\ 0 \in 0..MaxAttempts /\ 0 \in 0..MaxFaults
    BY BoundsAssumption DEF Attempts
<1>2. pc \in [Attempts -> {"none", "gone"} \cup Active \cup Finished]
    BY DEF Init, Active
<1>3. QED
    BY <1>1, <1>2 DEF Init, TypeOK, Configs

(* Every step keeps the types. *)
LEMMA TypeStep ==
    ASSUME TypeOK, [Next]_vars
    PROVE  TypeOK'
<1> USE BoundsAssumption, TargetsAssumption
    DEF TypeOK, Configs, Active, Finished, Attempts, Fault, Go, device, temporal
<1>1. ASSUME NEW i \in Attempts, LoadCandidate(i) PROVE TypeOK'
    BY <1>1 DEF LoadCandidate, AlreadyApplied, platform, commit_confirm, Platforms
<1>2. ASSUME NEW i \in Attempts, Commit(i) PROVE TypeOK'
    BY <1>2 DEF Commit, Committed, AfterConfirm
<1>3. ASSUME NEW i \in Attempts, Confirm(i) PROVE TypeOK'
    BY <1>3 DEF Confirm, AfterConfirm
<1>4. ASSUME NEW i \in Attempts, ConfirmTooLate(i) PROVE TypeOK'
    <2>1. \E step \in Finished \cup {"save"} : pc' = [pc EXCEPT ![i] = step]
        <3>1. {"error", "ok", "fatal"} \subseteq Finished
            OBVIOUS
        <3> HIDE DEF Finished
        <3>2. QED
            BY <1>4, <3>1 DEF ConfirmTooLate
    <2>2. pc' \in [Attempts -> {"none", "gone"} \cup Active \cup Finished]
        BY <2>1
    <2>3. UNCHANGED <<target, temporal, faults>>
        BY <1>4 DEF ConfirmTooLate
    <2>4. UNCHANGED <<prev, startup, changed>>
        BY <1>4 DEF ConfirmTooLate
    <2>5. running' \in {running, "intended"} /\ trial' \in {trial, 0}
        BY <1>4 DEF ConfirmTooLate
    <2>6. QED
        BY <2>2, <2>3, <2>4, <2>5
<1>5. ASSUME NEW i \in Attempts, Save(i) PROVE TypeOK'
    BY <1>5 DEF Save
<1>6. ASSUME NEW i \in Attempts, Refused(i) PROVE TypeOK'
    BY <1>6 DEF Refused
<1>7. ASSUME NEW i \in Attempts, RequestFails(i) PROVE TypeOK'
    BY <1>7 DEF RequestFails, Committed, Failure
<1>8. ASSUME NEW i \in Attempts, WorkerStops(i) PROVE TypeOK'
    BY <1>8 DEF WorkerStops
<1>9. CASE AttemptFails
    BY <1>9 DEF AttemptFails, TryAgain, Schedule
<1>10. CASE AttemptTimesOut
    BY <1>10 DEF AttemptTimesOut, TryAgain, Schedule
<1>11. CASE AttemptIsFatal
    BY <1>11 DEF AttemptIsFatal
<1>12. CASE AttemptSucceeds
    BY <1>12 DEF AttemptSucceeds
<1>13. CASE RetryStage
    BY <1>13 DEF RetryStage, Schedule
<1>14. CASE Rollback
    BY <1>14 DEF Rollback
<1>15. CASE ForeignChange
    BY <1>15 DEF ForeignChange
<1>16. CASE UNCHANGED vars
    BY <1>16 DEF vars
<1>17. QED
    BY <1>1, <1>2, <1>3, <1>4, <1>5, <1>6, <1>7, <1>8, <1>9, <1>10,
       <1>11, <1>12, <1>13, <1>14, <1>15, <1>16
       DEF Next, AttemptStep, TemporalStep

(* The attempts, the trial and the configurations of the device are of     *)
(* their types in every state: no table of a platform's reactions is read  *)
(* outside its domain.                                                     *)
THEOREM TypeCorrect == Spec => []TypeOK
BY TypeInitially, TypeStep, PTL DEF Spec

-----------------------------------------------------------------------------
(* What an attempt that finds the configuration applied goes on with. *)
LEMMA AppliedSteps ==
    ASSUME TypeOK
    PROVE  /\ AlreadyApplied \in {"save", "changed", "confirm", "ok", "fatal"}
           /\ AlreadyApplied = "changed" => platform = "arista"
           /\ AlreadyApplied = "confirm" => commit_confirm
           /\ AlreadyApplied = "ok" => ~commit_confirm /\ ~Saves
           /\ AlreadyApplied = "save" => platform = "cumulus"
BY TargetsAssumption DEF TypeOK, AlreadyApplied, Platforms, platform, commit_confirm, Saves

(* Every step keeps the lock's promise, and no step replaces somebody      *)
(* else's configuration on a device with a lock.                           *)
Kept == Exclusive /\ running = "foreign" => running' = "foreign"

LEMMA CommitStep ==
    ASSUME TypeOK, TrialInv, CommitInv, [Next]_vars
    PROVE  TrialInv' /\ CommitInv' /\ Kept
<1> DEFINE Goal == TrialInv' /\ CommitInv' /\ Kept
<1> USE BoundsAssumption
    DEF TypeOK, TrialInv, CommitInv, Kept, Exclusive, platform, Attempts, Active, Fault, Go,
        device, temporal
<1>1. ASSUME NEW i \in Attempts, LoadCandidate(i) PROVE Goal
  <2>1. pc[i] = "load" /\ UNCHANGED <<target, running, trial>>
    BY <1>1 DEF LoadCandidate
  <2>2. \A j \in Attempts : j # i => pc'[j] = pc[j]
    BY <1>1 DEF LoadCandidate
  <2>3. pc'[i] = "commit" => ~Locked /\ running = "approved_for"
    BY <1>1, AppliedSteps DEF LoadCandidate, Configs
  <2>4. QED
    BY <2>1, <2>2, <2>3 DEF Locked
<1>2. ASSUME NEW i \in Attempts, Commit(i) PROVE Goal
    BY <1>2 DEF Commit, Committed, AfterConfirm
<1>3. ASSUME NEW i \in Attempts, Confirm(i) PROVE Goal
    BY <1>3 DEF Confirm, AfterConfirm
<1>4. ASSUME NEW i \in Attempts, ConfirmTooLate(i) PROVE Goal
    BY <1>4 DEF ConfirmTooLate
<1>5. ASSUME NEW i \in Attempts, Save(i) PROVE Goal
    BY <1>5 DEF Save
<1>6. ASSUME NEW i \in Attempts, Refused(i) PROVE Goal
    BY <1>6 DEF Refused
<1>7. ASSUME NEW i \in Attempts, RequestFails(i) PROVE Goal
    BY <1>7 DEF RequestFails, Committed, Failure
<1>8. ASSUME NEW i \in Attempts, WorkerStops(i) PROVE Goal
    BY <1>8 DEF WorkerStops
<1>9. CASE AttemptFails
    BY <1>9 DEF AttemptFails, TryAgain, Schedule
<1>10. CASE AttemptTimesOut
    BY <1>10 DEF AttemptTimesOut, TryAgain, Schedule
<1>11. CASE AttemptIsFatal
    BY <1>11 DEF AttemptIsFatal
<1>12. CASE AttemptSucceeds
    BY <1>12 DEF AttemptSucceeds
<1>13. CASE RetryStage
    BY <1>13 DEF RetryStage, Schedule
<1>14. CASE Rollback
    BY <1>14 DEF Rollback
<1>15. CASE ForeignChange
    BY <1>15 DEF ForeignChange, Locked
<1>16. CASE UNCHANGED vars
    BY <1>16 DEF vars
<1>17. QED
    BY <1>1, <1>2, <1>3, <1>4, <1>5, <1>6, <1>7, <1>8, <1>9, <1>10,
       <1>11, <1>12, <1>13, <1>14, <1>15, <1>16
       DEF Next, AttemptStep, TemporalStep

LEMMA CommitInitially == Init => TrialInv /\ CommitInv
BY DEF Init, TrialInv, CommitInv, Attempts

(* Whoever changes the configuration of a Junos or IOS XR device after the *)
(* approval keeps the change: no attempt replaces it, however many run at  *)
(* once and whichever of them Temporal has given up.                       *)
THEOREM ForeignKept == Spec => ForeignChangeKept
<1> DEFINE Inv == TypeOK /\ TrialInv /\ CommitInv
<1>1. Init => Inv
    BY TypeInitially, CommitInitially
<1>2. Inv /\ [Next]_vars => Inv' /\ [Exclusive /\ running = "foreign" => running' = "foreign"]_vars
    BY TypeStep, CommitStep DEF Kept
<1> HIDE DEF Inv
<1>3. QED
    BY <1>1, <1>2, PTL DEF Spec, ForeignChangeKept

-----------------------------------------------------------------------------
LEMMA ForeignStep ==
    ASSUME TypeOK, ForeignInv, [Next]_vars
    PROVE  ForeignInv'
<1> USE BoundsAssumption, AppliedSteps
    DEF TypeOK, ForeignInv, platform, Attempts, Active, Configs, Fault, Go, device, temporal
<1>1. ASSUME NEW i \in Attempts, LoadCandidate(i) PROVE ForeignInv'
    BY <1>1 DEF LoadCandidate, Locked
<1>2. ASSUME NEW i \in Attempts, Commit(i) PROVE ForeignInv'
    BY <1>2 DEF Commit, Committed, AfterConfirm
<1>3. ASSUME NEW i \in Attempts, Confirm(i) PROVE ForeignInv'
    BY <1>3 DEF Confirm, AfterConfirm
<1>4. ASSUME NEW i \in Attempts, ConfirmTooLate(i) PROVE ForeignInv'
    BY <1>4 DEF ConfirmTooLate
<1>5. ASSUME NEW i \in Attempts, Save(i) PROVE ForeignInv'
    BY <1>5 DEF Save
<1>6. ASSUME NEW i \in Attempts, Refused(i) PROVE ForeignInv'
    BY <1>6 DEF Refused
<1>7. ASSUME NEW i \in Attempts, RequestFails(i) PROVE ForeignInv'
    BY <1>7 DEF RequestFails, Committed, Failure
<1>8. ASSUME NEW i \in Attempts, WorkerStops(i) PROVE ForeignInv'
    BY <1>8 DEF WorkerStops
<1>9. CASE AttemptFails
    BY <1>9 DEF AttemptFails, TryAgain, Schedule
<1>10. CASE AttemptTimesOut
    BY <1>10 DEF AttemptTimesOut, TryAgain, Schedule
<1>11. CASE AttemptIsFatal
    BY <1>11 DEF AttemptIsFatal
<1>12. CASE AttemptSucceeds
    BY <1>12 DEF AttemptSucceeds
<1>13. CASE RetryStage
    BY <1>13 DEF RetryStage, Schedule
<1>14. CASE Rollback
    BY <1>14 DEF Rollback
<1>15. CASE ForeignChange
    BY <1>15 DEF ForeignChange, Locked
<1>16. CASE UNCHANGED vars
    BY <1>16 DEF vars
<1>17. QED
    BY <1>1, <1>2, <1>3, <1>4, <1>5, <1>6, <1>7, <1>8, <1>9, <1>10,
       <1>11, <1>12, <1>13, <1>14, <1>15, <1>16
       DEF Next, AttemptStep, TemporalStep

(* A stage that fails because the diff has changed, on a platform other    *)
(* than EOS, has met somebody else's change: never what an earlier attempt *)
(* of its own did.                                                         *)
THEOREM DiffChanged == Spec => []DiffChangedIsForeign
<1>1. Init => ForeignInv
    BY DEF Init, ForeignInv
<1>2. TypeOK /\ ForeignInv => DiffChangedIsForeign
    BY DEF TypeOK, ForeignInv, DiffChangedIsForeign
<1>3. QED
    BY <1>1, <1>2, TypeInitially, TypeStep, ForeignStep, PTL DEF Spec

-----------------------------------------------------------------------------
(* Without trials the intended configuration stays once it is there. *)
LEMMA PlainStep ==
    ASSUME TypeOK, PlainInv, [Next]_vars
    PROVE  /\ PlainInv'
           /\ ~commit_confirm /\ running = "intended" => running' = "intended"
           /\ ~commit_confirm /\ startup = "intended" => startup' = "intended"
<1> DEFINE Goal == /\ PlainInv'
                   /\ ~commit_confirm /\ running = "intended" => running' = "intended"
                   /\ ~commit_confirm /\ startup = "intended" => startup' = "intended"
<1> USE BoundsAssumption, AppliedSteps
    DEF TypeOK, PlainInv, Saves, platform, commit_confirm, Attempts, Active, Configs, Fault, Go,
        device, temporal
<1>1. ASSUME NEW i \in Attempts, LoadCandidate(i) PROVE Goal
    BY <1>1 DEF LoadCandidate, Locked
<1>2. ASSUME NEW i \in Attempts, Commit(i) PROVE Goal
    BY <1>2 DEF Commit, Committed, AfterConfirm
<1>3. ASSUME NEW i \in Attempts, Confirm(i) PROVE Goal
    BY <1>3 DEF Confirm, AfterConfirm
<1>4. ASSUME NEW i \in Attempts, ConfirmTooLate(i) PROVE Goal
    BY <1>4 DEF ConfirmTooLate
<1>5. ASSUME NEW i \in Attempts, Save(i) PROVE Goal
    BY <1>5 DEF Save
<1>6. ASSUME NEW i \in Attempts, Refused(i) PROVE Goal
    BY <1>6 DEF Refused
<1>7. ASSUME NEW i \in Attempts, RequestFails(i) PROVE Goal
    BY <1>7 DEF RequestFails, Committed, Failure
<1>8. ASSUME NEW i \in Attempts, WorkerStops(i) PROVE Goal
    BY <1>8 DEF WorkerStops
<1>9. CASE AttemptFails
    BY <1>9 DEF AttemptFails, TryAgain, Schedule
<1>10. CASE AttemptTimesOut
    BY <1>10 DEF AttemptTimesOut, TryAgain, Schedule
<1>11. CASE AttemptIsFatal
    BY <1>11 DEF AttemptIsFatal
<1>12. CASE AttemptSucceeds
    BY <1>12 DEF AttemptSucceeds
<1>13. CASE RetryStage
    BY <1>13 DEF RetryStage, Schedule
<1>14. CASE Rollback
    BY <1>14 DEF Rollback
<1>15. CASE ForeignChange
    BY <1>15 DEF ForeignChange, Locked
<1>16. CASE UNCHANGED vars
    BY <1>16 DEF vars
<1>17. QED
    BY <1>1, <1>2, <1>3, <1>4, <1>5, <1>6, <1>7, <1>8, <1>9, <1>10,
       <1>11, <1>12, <1>13, <1>14, <1>15, <1>16
       DEF Next, AttemptStep, TemporalStep

(* On IOS XR a confirmed trial stays. *)
LEMMA ConfirmedStep ==
    ASSUME TypeOK, TrialInv, CommitInv, PlainInv, ConfirmedInv, [Next]_vars
    PROVE  ConfirmedInv' /\ (platform = "cisco_xr" /\ Applied => Applied')
<1> DEFINE Goal == ConfirmedInv' /\ (platform = "cisco_xr" /\ Applied => Applied')
<1> USE BoundsAssumption, AppliedSteps
    DEF TypeOK, ConfirmedInv, Applied, Saves, platform, commit_confirm, Attempts, Active,
        Configs, Fault, Go, device, temporal
<1>1. ASSUME NEW i \in Attempts, LoadCandidate(i) PROVE Goal
    BY <1>1 DEF LoadCandidate, PlainInv
<1>2. ASSUME NEW i \in Attempts, Commit(i) PROVE Goal
    BY <1>2 DEF Commit, Committed, AfterConfirm, CommitInv, Exclusive
<1>3. ASSUME NEW i \in Attempts, Confirm(i) PROVE Goal
    BY <1>3 DEF Confirm, AfterConfirm, TrialInv
<1>4. ASSUME NEW i \in Attempts, ConfirmTooLate(i) PROVE Goal
    BY <1>4 DEF ConfirmTooLate
<1>5. ASSUME NEW i \in Attempts, Save(i) PROVE Goal
    BY <1>5 DEF Save
<1>6. ASSUME NEW i \in Attempts, Refused(i) PROVE Goal
    BY <1>6 DEF Refused
<1>7. ASSUME NEW i \in Attempts, RequestFails(i) PROVE Goal
    BY <1>7 DEF RequestFails, Committed, Failure, CommitInv, TrialInv, Exclusive
<1>8. ASSUME NEW i \in Attempts, WorkerStops(i) PROVE Goal
    BY <1>8 DEF WorkerStops
<1>9. CASE AttemptFails
    BY <1>9 DEF AttemptFails, TryAgain, Schedule
<1>10. CASE AttemptTimesOut
    BY <1>10 DEF AttemptTimesOut, TryAgain, Schedule
<1>11. CASE AttemptIsFatal
    BY <1>11 DEF AttemptIsFatal
<1>12. CASE AttemptSucceeds
    BY <1>12 DEF AttemptSucceeds
<1>13. CASE RetryStage
    BY <1>13 DEF RetryStage, Schedule
<1>14. CASE Rollback
    BY <1>14 DEF Rollback
<1>15. CASE ForeignChange
    BY <1>15 DEF ForeignChange, Locked
<1>16. CASE UNCHANGED vars
    BY <1>16 DEF vars
<1>17. QED
    BY <1>1, <1>2, <1>3, <1>4, <1>5, <1>6, <1>7, <1>8, <1>9, <1>10,
       <1>11, <1>12, <1>13, <1>14, <1>15, <1>16
       DEF Next, AttemptStep, TemporalStep

(* A success is reported of the attempt Temporal waits for, when it is     *)
(* done.                                                                   *)
LEMMA ReportStep ==
    ASSUME TypeOK, [Next]_vars
    PROVE  target' = target /\ (stage' = "COMPLETE" =>
                                  stage = "COMPLETE" \/ (pc[cur] = "ok" /\ UNCHANGED device))
<1> DEFINE Goal == target' = target /\ (stage' = "COMPLETE" =>
                                  stage = "COMPLETE" \/ (pc[cur] = "ok" /\ UNCHANGED device))
<1> USE DEF temporal
<1>1. ASSUME NEW i \in Attempts, LoadCandidate(i) PROVE Goal
    BY <1>1 DEF LoadCandidate
<1>2. ASSUME NEW i \in Attempts, Commit(i) PROVE Goal
    BY <1>2 DEF Commit
<1>3. ASSUME NEW i \in Attempts, Confirm(i) PROVE Goal
    BY <1>3 DEF Confirm
<1>4. ASSUME NEW i \in Attempts, ConfirmTooLate(i) PROVE Goal
    BY <1>4 DEF ConfirmTooLate
<1>5. ASSUME NEW i \in Attempts, Save(i) PROVE Goal
    BY <1>5 DEF Save
<1>6. ASSUME NEW i \in Attempts, Refused(i) PROVE Goal
    BY <1>6 DEF Refused
<1>7. ASSUME NEW i \in Attempts, RequestFails(i) PROVE Goal
    BY <1>7 DEF RequestFails
<1>8. ASSUME NEW i \in Attempts, WorkerStops(i) PROVE Goal
    BY <1>8 DEF WorkerStops
<1>9. CASE AttemptFails
    BY <1>9 DEF AttemptFails, TryAgain
<1>10. CASE AttemptTimesOut
    BY <1>10 DEF AttemptTimesOut, TryAgain
<1>11. CASE AttemptIsFatal
    BY <1>11 DEF AttemptIsFatal
<1>12. CASE AttemptSucceeds
    BY <1>12 DEF AttemptSucceeds
<1>13. CASE RetryStage
    BY <1>13 DEF RetryStage
<1>14. CASE Rollback
    BY <1>14 DEF Rollback
<1>15. CASE ForeignChange
    BY <1>15 DEF ForeignChange
<1>16. CASE UNCHANGED vars
    BY <1>16 DEF vars
<1>17. QED
    BY <1>1, <1>2, <1>3, <1>4, <1>5, <1>6, <1>7, <1>8, <1>9, <1>10,
       <1>11, <1>12, <1>13, <1>14, <1>15, <1>16
       DEF Next, AttemptStep, TemporalStep

(* A stage that reports success without trials, or on IOS XR with them,    *)
(* has changed the device for good, whatever attempts were repeated beside *)
(* each other: no timer reverts it, nor does a restart.                    *)
THEOREM SuccessPermanent == Spec => []SuccessWithoutTrialIsPermanent
<1> DEFINE Inv == /\ TypeOK /\ TrialInv /\ CommitInv /\ PlainInv /\ ConfirmedInv
                  /\ SuccessWithoutTrialIsPermanent
<1>1. Init => Inv
    <2>1. Init => PlainInv /\ ConfirmedInv /\ SuccessWithoutTrialIsPermanent
        BY DEF Init, PlainInv, ConfirmedInv, SuccessWithoutTrialIsPermanent, SuccessIsPermanent
    <2>2. QED
        BY <2>1, TypeInitially, CommitInitially
<1>2. ASSUME Inv, [Next]_vars PROVE Inv'
    <2>1. TypeOK' /\ TrialInv' /\ CommitInv' /\ PlainInv' /\ ConfirmedInv'
        BY <1>2, TypeStep, CommitStep, PlainStep, ConfirmedStep
    <2>2. SUFFICES ASSUME stage' = "COMPLETE", ~commit_confirm \/ platform = "cisco_xr"
                   PROVE  Permanent'
        BY <1>2, <2>1, ReportStep
           DEF SuccessWithoutTrialIsPermanent, SuccessIsPermanent, platform, commit_confirm
    <2>3. UNCHANGED <<target, platform, commit_confirm, Saves>>
        BY <1>2, ReportStep DEF platform, commit_confirm, Saves
    <2>4. CASE stage = "COMPLETE"
        <3>1. Permanent
            BY <1>2, <2>2, <2>4 DEF SuccessWithoutTrialIsPermanent, SuccessIsPermanent
        <3>2. CASE ~commit_confirm
            BY <1>2, <2>1, <2>3, <3>1, <3>2, PlainStep DEF PlainInv, Permanent, Applied
        <3>3. CASE platform = "cisco_xr"
            BY <1>2, <2>3, <3>1, <3>3, ConfirmedStep DEF Permanent, Saves
        <3>4. QED
            BY <2>2, <3>2, <3>3
    <2>5. CASE pc[cur] = "ok" /\ UNCHANGED device
        <3>1. Permanent
            BY <1>2, <2>2, <2>5
               DEF TypeOK, PlainInv, ConfirmedInv, Permanent, Applied, Saves
        <3>2. QED
            BY <2>3, <2>5, <3>1 DEF Permanent, Applied, device
    <2>6. QED
        BY <1>2, <2>2, <2>4, <2>5, ReportStep
<1> HIDE DEF Inv
<1>3. Inv => SuccessWithoutTrialIsPermanent
    BY DEF Inv
<1>4. QED
    BY <1>1, <1>2, <1>3, PTL DEF Spec
=============================================================================
