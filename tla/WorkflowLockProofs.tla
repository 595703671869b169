------------------------- MODULE WorkflowLockProofs -------------------------
(***************************************************************************)
(* For every lease, interval and buffer that WorkflowLockSpec accepts, and *)
(* for every number of runs: a body without retryable stages runs only     *)
(* while its run holds the lock, whatever the staged ones do, as long as   *)
(* Redis has kept its key and a run is never as late as the buffer.        *)
(***************************************************************************)
EXTENDS WorkflowLock, TLAPS

(* What the theorem asks of the workers. *)
Punctual == MaxLag < Buffer

(* The loop sleeps or renews, within its interval or its deadline. *)
LoopInv ==
    /\ holder # NoOne => left > 0
    /\ \A r \in Runs : pc[r] = "run" =>
          \/ renew[r] = "sleep" /\ timer[r] <= Interval
          \/ renew[r] = "renew" /\ timer[r] <= Deadline

(* Only runs that have ended have a late release, so that no attempt takes *)
(* the lock from the run that made it.                                     *)
FlowInv ==
    \A r \in Runs : /\ body[r] = "activity" => pc[r] \in {"run", "cancel"}
                    /\ pc[r] = "cancel" => r \in Staged
                    /\ job[r] = "ok" => pc[r] \in {"acquire", "run"}
                    /\ pc[r] = "run" /\ renew[r] = "sleep" => job[r] = "none"
                    /\ <<r, "release">> \in late => pc[r] = "end"

(* The lease outlives whatever the run still waits for: the rest of it,    *)
(* the time since it was set and the delays so far make up the TTL.        *)
LeaseInv ==
    \A r \in Runs \ lost :
       /\ pc[r] = "run" => holder = r
       /\ pc[r] = "run" /\ renew[r] = "sleep" => left + lag[r] + timer[r] >= TTL
       /\ pc[r] = "run" /\ renew[r] = "renew" => left + lag[r] + Interval + timer[r] >= TTL
       /\ job[r] = "ok" => holder = r /\ left + since[r] >= TTL

IndInv == TypeOK /\ LoopInv /\ FlowInv /\ LeaseInv

-----------------------------------------------------------------------------
(* Every step keeps the types and the bounds of the loop's timers. *)
LEMMA TypeStep ==
    ASSUME TypeOK, LoopInv, [Next]_vars
    PROVE  TypeOK' /\ LoopInv'
<1> USE SpecAssumption, BoundsAssumption, RunsAssumption
    DEF Go, SetJob, key, Deadline, TypeOK, LoopInv
<1>1. ASSUME NEW r \in Runs, StartRun(r) PROVE TypeOK' /\ LoopInv'
    BY <1>1 DEF StartRun
<1>2. ASSUME NEW r \in Runs, Acquire(r) PROVE TypeOK' /\ LoopInv'
    BY <1>2 DEF Acquire, MayAcquire, SetLease
<1>3. ASSUME NEW r \in Runs, AcquireConflict(r) PROVE TypeOK' /\ LoopInv'
    BY <1>3 DEF AcquireConflict
<1>4. ASSUME NEW r \in Runs, AcquireTimeout(r) PROVE TypeOK' /\ LoopInv'
    BY <1>4 DEF AcquireTimeout, GiveUp, Kind
<1>5. ASSUME NEW r \in Runs, Acquired(r) PROVE TypeOK' /\ LoopInv'
    BY <1>5 DEF Acquired
<1>6. ASSUME NEW r \in Runs, StartRenew(r) PROVE TypeOK' /\ LoopInv'
    BY <1>6 DEF StartRenew
<1>7. ASSUME NEW r \in Runs, Renew(r) PROVE TypeOK' /\ LoopInv'
    BY <1>7 DEF Renew, RenewLease, SetLease
<1>8. ASSUME NEW r \in Runs, Renewed(r) PROVE TypeOK' /\ LoopInv'
    BY <1>8 DEF Renewed
<1>9. ASSUME NEW r \in Runs, RenewTimeout(r) PROVE TypeOK' /\ LoopInv'
    BY <1>9 DEF RenewTimeout, GiveUp, Kind
<1>10. ASSUME NEW r \in Runs, RenewFails(r) PROVE TypeOK' /\ LoopInv'
    BY <1>10 DEF RenewFails, StopLoop, GiveUp, Kind
<1>11. ASSUME NEW r \in Runs, BodyStep(r) PROVE TypeOK' /\ LoopInv'
    BY <1>11 DEF BodyStep
<1>12. ASSUME NEW r \in Runs, BodyEnds(r) PROVE TypeOK' /\ LoopInv'
    BY <1>12 DEF BodyEnds, StopLoop, GiveUp, Kind
<1>13. ASSUME NEW r \in Runs, Release(r) PROVE TypeOK' /\ LoopInv'
    BY <1>13 DEF Release, ReleaseLease
<1>14. ASSUME NEW r \in Runs, ReleaseFails(r) PROVE TypeOK' /\ LoopInv'
    BY <1>14 DEF ReleaseFails
<1>15. ASSUME NEW r \in Runs, Terminate(r) PROVE TypeOK' /\ LoopInv'
    BY <1>15 DEF Terminate, StopLoop, GiveUp, Kind
<1>16. ASSUME NEW r \in Runs, NEW kind \in {"acquire", "renew", "release"},
              LateAttempt(r, kind)
     PROVE  TypeOK' /\ LoopInv'
    BY <1>16 DEF LateAttempt, MayAcquire, SetLease, RenewLease, ReleaseLease
<1>17. CASE LoseKey
    BY <1>17 DEF LoseKey
<1>18. CASE Tick
    BY <1>18 DEF Tick, Due
<1>19. CASE UNCHANGED vars
    BY <1>19 DEF vars
<1>20. QED
    BY <1>1, <1>2, <1>3, <1>4, <1>5, <1>6, <1>7, <1>8, <1>9, <1>10, <1>11, <1>12,
       <1>13, <1>14, <1>15, <1>16, <1>17, <1>18, <1>19 DEF Next, LockStep

(* Every step keeps the control flow. *)
LEMMA FlowStep ==
    ASSUME TypeOK, LoopInv, FlowInv, [Next]_vars
    PROVE  FlowInv'
<1> USE SpecAssumption, BoundsAssumption, RunsAssumption
    DEF Go, SetJob, key, Deadline, TypeOK, LoopInv, FlowInv
<1>1. ASSUME NEW r \in Runs, StartRun(r) PROVE FlowInv'
    BY <1>1 DEF StartRun
<1>2. ASSUME NEW r \in Runs, Acquire(r) PROVE FlowInv'
    BY <1>2 DEF Acquire, MayAcquire, SetLease
<1>3. ASSUME NEW r \in Runs, AcquireConflict(r) PROVE FlowInv'
    BY <1>3 DEF AcquireConflict
<1>4. ASSUME NEW r \in Runs, AcquireTimeout(r) PROVE FlowInv'
  <2>1. \A q \in Runs : <<q, "release">> \in late' => <<q, "release">> \in late
      BY <1>4 DEF AcquireTimeout, GiveUp, Kind
  <2>2. CASE r \in FailFast
    <3>1. /\ pc[r] = "acquire" /\ pc' = [pc EXCEPT ![r] = "end"]
          /\ job' = [job EXCEPT ![r] = "none"]
          /\ body' = body /\ renew' = renew
        BY <1>4, <2>2 DEF AcquireTimeout
    <3>2. ASSUME NEW q \in Runs, q # r PROVE pc'[q] = pc[q] /\ job'[q] = job[q]
        BY <3>1, <3>2
    <3>3. pc'[r] = "end" /\ job'[r] = "none" /\ body'[r] # "activity"
        BY <3>1
    <3>4. QED
        BY <2>1, <3>1, <3>2, <3>3
  <2>3. CASE r \notin FailFast
      BY <1>4, <2>1, <2>3 DEF AcquireTimeout
  <2>4. QED
      BY <2>2, <2>3
<1>5. ASSUME NEW r \in Runs, Acquired(r) PROVE FlowInv'
    BY <1>5 DEF Acquired
<1>6. ASSUME NEW r \in Runs, StartRenew(r) PROVE FlowInv'
    BY <1>6 DEF StartRenew
<1>7. ASSUME NEW r \in Runs, Renew(r) PROVE FlowInv'
    BY <1>7 DEF Renew, RenewLease, SetLease
<1>8. ASSUME NEW r \in Runs, Renewed(r) PROVE FlowInv'
    BY <1>8 DEF Renewed
<1>9. ASSUME NEW r \in Runs, RenewTimeout(r) PROVE FlowInv'
    BY <1>9 DEF RenewTimeout, GiveUp, Kind
<1>10. ASSUME NEW r \in Runs, RenewFails(r) PROVE FlowInv'
  <2>1. \A q \in Runs : <<q, "release">> \in late' => <<q, "release">> \in late
      BY <1>10 DEF RenewFails, StopLoop, GiveUp, Kind
  <2>2. /\ pc[r] = "run"
        /\ job' = [job EXCEPT ![r] = "none"]
        /\ renew' = [renew EXCEPT ![r] = "none"]
        /\ \/ /\ pc' = [pc EXCEPT ![r] = "release"]
              /\ body' = [body EXCEPT ![r] = "none"]
           \/ /\ r \in Staged
              /\ pc' = [pc EXCEPT ![r] = "cancel"]
              /\ body' = [body EXCEPT ![r] = "signal"]
      BY <1>10 DEF RenewFails, StopLoop
  <2>3. ASSUME NEW q \in Runs, q # r
        PROVE  pc'[q] = pc[q] /\ body'[q] = body[q] /\ job'[q] = job[q] /\ renew'[q] = renew[q]
      BY <2>2, <2>3
  <2>4. /\ pc'[r] = "release" \/ (pc'[r] = "cancel" /\ r \in Staged)
        /\ body'[r] # "activity" /\ job'[r] = "none"
      BY <2>2
  <2>5. <<r, "release">> \notin late
      BY <2>2
  <2>6. QED
      BY <2>1, <2>3, <2>4, <2>5
<1>11. ASSUME NEW r \in Runs, BodyStep(r) PROVE FlowInv'
    BY <1>11 DEF BodyStep
<1>12. ASSUME NEW r \in Runs, BodyEnds(r) PROVE FlowInv'
    BY <1>12 DEF BodyEnds, StopLoop, GiveUp, Kind
<1>13. ASSUME NEW r \in Runs, Release(r) PROVE FlowInv'
    BY <1>13 DEF Release, ReleaseLease
<1>14. ASSUME NEW r \in Runs, ReleaseFails(r) PROVE FlowInv'
    BY <1>14 DEF ReleaseFails
<1>15. ASSUME NEW r \in Runs, Terminate(r) PROVE FlowInv'
    BY <1>15 DEF Terminate, StopLoop, GiveUp, Kind
<1>16. ASSUME NEW r \in Runs, NEW kind \in {"acquire", "renew", "release"},
              LateAttempt(r, kind)
     PROVE  FlowInv'
    BY <1>16 DEF LateAttempt, MayAcquire, SetLease, RenewLease, ReleaseLease
<1>17. CASE LoseKey
    BY <1>17 DEF LoseKey
<1>18. CASE Tick
    BY <1>18 DEF Tick, Due
<1>19. CASE UNCHANGED vars
    BY <1>19 DEF vars
<1>20. QED
    BY <1>1, <1>2, <1>3, <1>4, <1>5, <1>6, <1>7, <1>8, <1>9, <1>10, <1>11, <1>12,
       <1>13, <1>14, <1>15, <1>16, <1>17, <1>18, <1>19 DEF Next, LockStep

(* Every step of punctual runs leaves the lease long enough. *)
LEMMA LeaseStep ==
    ASSUME TypeOK, LoopInv, FlowInv, LeaseInv, Punctual, [Next]_vars
    PROVE  LeaseInv'
<1> USE SpecAssumption, BoundsAssumption, RunsAssumption
    DEF Go, SetJob, key, Deadline, TypeOK, LoopInv, FlowInv, LeaseInv, Punctual
<1>1. ASSUME NEW r \in Runs, StartRun(r) PROVE LeaseInv'
    BY <1>1 DEF StartRun
<1>2. ASSUME NEW r \in Runs, Acquire(r) PROVE LeaseInv'
    BY <1>2 DEF Acquire, MayAcquire, SetLease
<1>3. ASSUME NEW r \in Runs, AcquireConflict(r) PROVE LeaseInv'
    BY <1>3 DEF AcquireConflict
<1>4. ASSUME NEW r \in Runs, AcquireTimeout(r) PROVE LeaseInv'
    BY <1>4 DEF AcquireTimeout, GiveUp, Kind
<1>5. ASSUME NEW r \in Runs, Acquired(r) PROVE LeaseInv'
    BY <1>5 DEF Acquired
<1>6. ASSUME NEW r \in Runs, StartRenew(r) PROVE LeaseInv'
    BY <1>6 DEF StartRenew
<1>7. ASSUME NEW r \in Runs, Renew(r) PROVE LeaseInv'
    BY <1>7 DEF Renew, RenewLease, SetLease
<1>8. ASSUME NEW r \in Runs, Renewed(r) PROVE LeaseInv'
    BY <1>8 DEF Renewed
<1>9. ASSUME NEW r \in Runs, RenewTimeout(r) PROVE LeaseInv'
    BY <1>9 DEF RenewTimeout, GiveUp, Kind
<1>10. ASSUME NEW r \in Runs, RenewFails(r) PROVE LeaseInv'
    BY <1>10 DEF RenewFails, StopLoop, GiveUp, Kind
<1>11. ASSUME NEW r \in Runs, BodyStep(r) PROVE LeaseInv'
    BY <1>11 DEF BodyStep
<1>12. ASSUME NEW r \in Runs, BodyEnds(r) PROVE LeaseInv'
    BY <1>12 DEF BodyEnds, StopLoop, GiveUp, Kind
<1>13. ASSUME NEW r \in Runs, Release(r) PROVE LeaseInv'
    BY <1>13 DEF Release, ReleaseLease
<1>14. ASSUME NEW r \in Runs, ReleaseFails(r) PROVE LeaseInv'
    BY <1>14 DEF ReleaseFails
<1>15. ASSUME NEW r \in Runs, Terminate(r) PROVE LeaseInv'
    BY <1>15 DEF Terminate, StopLoop, GiveUp, Kind
<1>16. ASSUME NEW r \in Runs, NEW kind \in {"acquire", "renew", "release"},
              LateAttempt(r, kind)
     PROVE  LeaseInv'
    BY <1>16 DEF LateAttempt, MayAcquire, SetLease, RenewLease, ReleaseLease
<1>17. CASE LoseKey
    BY <1>17 DEF LoseKey
<1>18. CASE Tick
  <2> SUFFICES ASSUME NEW r \in Runs \ lost
              PROVE  /\ pc[r] = "run" => holder' = r
                     /\ pc[r] = "run" /\ renew[r] = "sleep" => left' + lag'[r] + timer'[r] >= TTL
                     /\ pc[r] = "run" /\ renew[r] = "renew"
                           => left' + lag'[r] + Interval + timer'[r] >= TTL
                     /\ job[r] = "ok" => holder' = r /\ left' + since'[r] >= TTL
      BY <1>18 DEF Tick
  <2>1. pc[r] = "run" /\ Due(r) => lag'[r] = lag[r] + 1 /\ timer'[r] = timer[r] /\ lag[r] < MaxLag
      BY <1>18 DEF Tick
  <2>2. pc[r] = "run" /\ ~Due(r) => lag'[r] = lag[r] /\ timer'[r] = timer[r] + 1
      BY <1>18 DEF Tick
  <2>3. job[r] = "ok" => since'[r] = since[r] + 1 /\ since[r] < MaxLag
      BY <1>18 DEF Tick
  <2>4. holder = r => left' = left - 1 /\ holder' = IF left' = 0 THEN NoOne ELSE holder
      BY <1>18 DEF Tick
  <2>5. pc[r] = "run" => left - 1 > 0
    <3>1. CASE renew[r] = "sleep"
        BY <3>1, <2>1, <2>2 DEF Due
    <3>2. CASE renew[r] = "renew"
        BY <3>2, <2>1, <2>2 DEF Due
    <3>3. QED
        BY <3>1, <3>2
  <2>6. job[r] = "ok" => left - 1 > 0
      BY <2>3
  <2>7. QED
      BY <2>1, <2>2, <2>3, <2>4, <2>5, <2>6
<1>19. CASE UNCHANGED vars
    BY <1>19 DEF vars
<1>20. QED
    BY <1>1, <1>2, <1>3, <1>4, <1>5, <1>6, <1>7, <1>8, <1>9, <1>10, <1>11, <1>12,
       <1>13, <1>14, <1>15, <1>16, <1>17, <1>18, <1>19 DEF Next, LockStep

(* Every variable keeps its type: holder and left stay a key of Redis, and *)
(* no timer of _renew_loop runs beyond its interval or deadline.           *)
THEOREM TypeCorrect == Spec => []TypeOK
<1>1. Init => TypeOK /\ LoopInv
    BY SpecAssumption, BoundsAssumption, RunsAssumption DEF Init, TypeOK, LoopInv
<1>2. TypeOK /\ LoopInv /\ [Next]_vars => TypeOK' /\ LoopInv'
    BY TypeStep
<1>3. QED
    BY <1>1, <1>2, PTL DEF Spec

(* The body of run_nv_config_manager_workflow runs only while its run      *)
(* holds the lock, if nothing in the body absorbs the cancellation, Redis  *)
(* keeps the key and results and timers are less late than the buffer.     *)
THEOREM BodyLocked == Punctual => (Spec => []UnstagedBodyHoldsLock)
<1> SUFFICES ASSUME Punctual PROVE Spec => []UnstagedBodyHoldsLock
    OBVIOUS
<1>1. Init => IndInv
    BY SpecAssumption, BoundsAssumption, RunsAssumption
    DEF Init, IndInv, TypeOK, LoopInv, FlowInv, LeaseInv
<1>2. IndInv /\ [Next]_vars => IndInv'
    BY TypeStep, FlowStep, LeaseStep DEF IndInv
<1>3. IndInv => UnstagedBodyHoldsLock
    BY DEF IndInv, FlowInv, LeaseInv, UnstagedBodyHoldsLock
<1>4. QED
    BY <1>1, <1>2, <1>3, PTL DEF Spec
=============================================================================
