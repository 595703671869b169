---------------------------- MODULE WorkflowLock ----------------------------
(***************************************************************************)
(* The lock that serializes workflow runs on one resource.                 *)
(*                                                                         *)
(* run_nv_config_manager_workflow acquires a Redis lock under the run's    *)
(* workflow id, runs the workflow's body next to a loop that renews the    *)
(* lock, and releases it at the end.  The three lock operations are        *)
(* Temporal activities: an attempt may time out and be repeated while the  *)
(* first one still reaches Redis later, or its result is lost after it     *)
(* did.  The module is about one key, and time passes in ticks: the lock   *)
(* has a lease, the loop an interval and each renewal a deadline.          *)
(***************************************************************************)
EXTENDS Integers

CONSTANTS Runs,      \* the runs that name the resource
          FailFast,  \* those with on_conflict = "fail"; the others wait
          Staged,    \* those whose body consists of retryable stages
          TTL, Interval, Buffer, \* ttl_seconds, renew_interval_seconds,
                                 \* LOCK_RENEW_BUFFER_SECONDS
          MaxTries,  \* attempts of a renewal
          MaxLag,    \* bound: the ticks by which results and timers reach a
                     \* run late, between two renewals
          NoOne

(* WorkflowLockSpec._validate_intervals *)
ASSUME SpecAssumption ==
    /\ TTL \in Nat \ {0} /\ Interval \in Nat \ {0} /\ Buffer \in Nat
    /\ Interval + Buffer < TTL
ASSUME BoundsAssumption == MaxTries \in Nat \ {0} /\ MaxLag \in Nat
ASSUME RunsAssumption ==
    FailFast \subseteq Runs /\ Staged \subseteq Runs /\ NoOne \notin Runs

VARIABLES holder, left,  \* the key in Redis: its token, and the ticks it lives
          pc,     \* where _run_with_lock is
          body,   \* what the body waits for: an activity, or a signal
          renew,  \* where _renew_loop is
          job,    \* the attempt of a lock activity the run waits for
          tries,  \* the number of that attempt
          timer,  \* ticks since the loop's sleep or its renewal began
          lag,    \* ticks by which the loop is late since the last renewal
          since,  \* ticks since the attempt set the lease
          late,   \* attempts that were given up and may still reach Redis
          lost    \* history: the runs whose key Redis has lost

key == <<holder, left, lost>>
vars == <<holder, left, pc, body, renew, job, tries, timer, lag, since, late, lost>>

DeadlineWithoutBuffer == TTL - Interval

(* _renew_loop: renew_deadline_seconds *)
Deadline == TTL - Interval - Buffer

TypeOK ==
    /\ holder \in Runs \cup {NoOne} /\ left \in 0..TTL
    /\ pc \in [Runs -> {"start", "acquire", "run", "cancel", "release", "end"}]
    /\ body \in [Runs -> {"none", "activity", "signal"}]
    /\ renew \in [Runs -> {"none", "sleep", "renew"}]
    /\ job \in [Runs -> {"none", "sent", "ok", "refused"}]
    /\ tries \in [Runs -> 0..MaxTries]
    /\ timer \in [Runs -> 0..TTL]
    /\ lag \in [Runs -> 0..MaxLag] /\ since \in [Runs -> 0..MaxLag]
    /\ late \subseteq Runs \X {"acquire", "renew", "release"}
    /\ lost \subseteq Runs

Init ==
    /\ holder = NoOne /\ left = 0
    /\ pc = [r \in Runs |-> "start"]
    /\ body = [r \in Runs |-> "none"]
    /\ renew = [r \in Runs |-> "none"]
    /\ job = [r \in Runs |-> "none"]
    /\ tries = [r \in Runs |-> 0]
    /\ timer = [r \in Runs |-> 0]
    /\ lag = [r \in Runs |-> 0] /\ since = [r \in Runs |-> 0]
    /\ late = {} /\ lost = {}

Go(r, step) == pc' = [pc EXCEPT ![r] = step]
SetJob(r, state) == job' = [job EXCEPT ![r] = state]

(* The lock activity a run waits for: acquire before, renew during the run. *)
Kind(r) == IF pc[r] = "acquire" THEN "acquire" ELSE "renew"

(* An attempt that is given up before it reached Redis may still do so. *)
GiveUp(r) == late' = IF job[r] = "sent" THEN late \cup {<<r, Kind(r)>>} ELSE late

(* The renewal loop ends: its task is cancelled, or the run is over. *)
StopLoop(r) ==
    /\ GiveUp(r) /\ SetJob(r, "none")
    /\ renew' = [renew EXCEPT ![r] = "none"]
    /\ tries' = [tries EXCEPT ![r] = 0]
    /\ timer' = [timer EXCEPT ![r] = 0]
    /\ lag' = [lag EXCEPT ![r] = 0] /\ since' = [since EXCEPT ![r] = 0]

-----------------------------------------------------------------------------
(* Redis. *)

(* acquire_lock: the lock is free, or this token has it already.  A token   *)
(* that waits goes on trying, in this attempt or the next.                  *)
MayAcquire(r) == holder \in {NoOne, r}

SetLease(r) == holder' = r /\ left' = TTL /\ UNCHANGED lost

(* renew_lock: reacquire fails for a token that does not hold the lock. *)
RenewLease(r) == holder = r /\ SetLease(r)

(* release_lock deletes the key only if it has this token. *)
ReleaseLease(r) ==
    /\ holder' = IF holder = r THEN NoOne ELSE holder
    /\ left' = IF holder = r THEN 0 ELSE left
    /\ UNCHANGED lost

(* An attempt that was given up reaches Redis after all. *)
LateAttempt(r, kind) ==
    /\ <<r, kind>> \in late
    /\ late' = late \ {<<r, kind>>}
    /\ \/ kind = "acquire" /\ MayAcquire(r) /\ SetLease(r)
       \/ kind = "acquire" /\ ~MayAcquire(r) /\ UNCHANGED key
       \/ kind = "renew" /\ RenewLease(r)
       \/ kind = "renew" /\ holder # r /\ UNCHANGED key
       \/ kind = "release" /\ ReleaseLease(r)
    /\ UNCHANGED <<pc, body, renew, job, tries, timer, lag, since>>

(* Redis is restarted without the key, or fails over to a replica that     *)
(* does not have it yet.                                                   *)
LoseKey ==
    /\ holder # NoOne
    /\ holder' = NoOne /\ left' = 0 /\ lost' = lost \cup {holder}
    /\ UNCHANGED <<pc, body, renew, job, tries, timer, lag, since, late>>

-----------------------------------------------------------------------------
(* _acquire_lock *)

StartRun(r) ==
    /\ pc[r] = "start"
    /\ Go(r, "acquire") /\ SetJob(r, "sent")
    /\ UNCHANGED <<key, body, renew, tries, timer, lag, since, late>>

Acquire(r) ==
    /\ pc[r] = "acquire" /\ job[r] = "sent" /\ MayAcquire(r)
    /\ SetLease(r) /\ SetJob(r, "ok")
    /\ since' = [since EXCEPT ![r] = 0]
    /\ UNCHANGED <<pc, body, renew, tries, timer, lag, late>>

(* A run that does not wait fails; it has nothing to release. *)
AcquireConflict(r) ==
    /\ pc[r] = "acquire" /\ job[r] = "sent" /\ ~MayAcquire(r)
    /\ r \in FailFast
    /\ Go(r, "end") /\ SetJob(r, "none")
    /\ UNCHANGED <<key, body, renew, tries, timer, lag, since, late>>

(* The attempt times out.  It is repeated for ever, or never. *)
AcquireTimeout(r) ==
    /\ pc[r] = "acquire"
    /\ GiveUp(r)
    /\ IF r \in FailFast THEN Go(r, "end") /\ SetJob(r, "none")
                         ELSE SetJob(r, "sent") /\ UNCHANGED pc
    /\ since' = [since EXCEPT ![r] = 0]
    /\ UNCHANGED <<key, body, renew, tries, timer, lag>>

(* The run has the lock: the body and the renewal loop start. *)
Acquired(r) ==
    /\ pc[r] = "acquire" /\ job[r] = "ok"
    /\ Go(r, "run") /\ SetJob(r, "none")
    /\ body' = [body EXCEPT ![r] = "activity"]
    /\ renew' = [renew EXCEPT ![r] = "sleep"]
    /\ timer' = [timer EXCEPT ![r] = 0]
    /\ lag' = [lag EXCEPT ![r] = since[r]] /\ since' = [since EXCEPT ![r] = 0]
    /\ UNCHANGED <<key, tries, late>>

-----------------------------------------------------------------------------
(* _renew_loop *)

StartRenew(r) ==
    /\ pc[r] = "run" /\ renew[r] = "sleep" /\ timer[r] = Interval
    /\ renew' = [renew EXCEPT ![r] = "renew"]
    /\ timer' = [timer EXCEPT ![r] = 0]
    /\ tries' = [tries EXCEPT ![r] = 1]
    /\ SetJob(r, "sent")
    /\ UNCHANGED <<key, pc, body, lag, since, late>>

Renew(r) ==
    /\ pc[r] = "run" /\ job[r] = "sent"
    /\ \/ RenewLease(r) /\ SetJob(r, "ok")
       \/ holder # r /\ SetJob(r, "refused") /\ UNCHANGED key
    /\ since' = [since EXCEPT ![r] = 0]
    /\ UNCHANGED <<pc, body, renew, tries, timer, lag, late>>

Renewed(r) ==
    /\ pc[r] = "run" /\ job[r] = "ok"
    /\ renew' = [renew EXCEPT ![r] = "sleep"]
    /\ timer' = [timer EXCEPT ![r] = 0]
    /\ lag' = [lag EXCEPT ![r] = since[r]] /\ since' = [since EXCEPT ![r] = 0]
    /\ tries' = [tries EXCEPT ![r] = 0]
    /\ SetJob(r, "none")
    /\ UNCHANGED <<key, pc, body, late>>

RenewRepeated(r) ==
    /\ pc[r] = "run" /\ job[r] \in {"sent", "ok"}
    /\ tries' = [tries EXCEPT ![r] = @ + 1]
    /\ SetJob(r, "sent") /\ GiveUp(r)
    /\ since' = [since EXCEPT ![r] = 0]
    /\ UNCHANGED <<key, pc, body, renew, timer, lag>>

RenewTimeout(r) ==
    /\ pc[r] = "run" /\ job[r] \in {"sent", "ok"} /\ tries[r] < MaxTries
    /\ tries' = [tries EXCEPT ![r] = @ + 1]
    /\ SetJob(r, "sent") /\ GiveUp(r)
    /\ since' = [since EXCEPT ![r] = 0]
    /\ UNCHANGED <<key, pc, body, renew, timer, lag>>

RenewFailsIgnored(r) ==
    /\ pc[r] = "run" /\ renew[r] = "renew"
    /\ \/ job[r] = "refused"
       \/ timer[r] = Deadline
       \/ tries[r] = MaxTries /\ job[r] \in {"sent", "ok"}
    /\ renew' = [renew EXCEPT ![r] = "sleep"]
    /\ timer' = [timer EXCEPT ![r] = 0]
    /\ tries' = [tries EXCEPT ![r] = 0]
    /\ SetJob(r, "none") /\ GiveUp(r)
    /\ since' = [since EXCEPT ![r] = 0]
    /\ UNCHANGED <<key, pc, body, lag>>

(* The renewal is refused, out of attempts or beyond its deadline: the run *)
(* cancels its body and waits for it.  A stage takes the cancellation of   *)
(* its activity for a failure, and waits for the retry signal; what waits  *)
(* for a signal is cancelled, and so is a body without stages.             *)
RenewFails(r) ==
    /\ pc[r] = "run" /\ renew[r] = "renew"
    /\ \/ job[r] = "refused"
       \/ timer[r] = Deadline
       \/ tries[r] = MaxTries /\ job[r] \in {"sent", "ok"}
    /\ StopLoop(r)
    /\ IF r \in Staged /\ body[r] = "activity"
       THEN Go(r, "cancel") /\ body' = [body EXCEPT ![r] = "signal"]
       ELSE Go(r, "release") /\ body' = [body EXCEPT ![r] = "none"]
    /\ UNCHANGED key

-----------------------------------------------------------------------------
(* The body, and the end of the run. *)

(* A stage fails or needs an approval; a signal retries or approves it. *)
BodyStep(r) ==
    /\ pc[r] \in {"run", "cancel"} /\ r \in Staged
    /\ body' = [body EXCEPT ![r] = IF @ = "activity" THEN "signal" ELSE "activity"]
    /\ UNCHANGED <<key, pc, renew, job, tries, timer, lag, since, late>>

(* The body returns or raises; the loop is cancelled if it still runs. *)
BodyEnds(r) ==
    /\ pc[r] \in {"run", "cancel"}
    /\ Go(r, "release") /\ StopLoop(r)
    /\ body' = [body EXCEPT ![r] = "none"]
    /\ UNCHANGED key

Release(r) ==
    /\ pc[r] = "release"
    /\ ReleaseLease(r)
    /\ Go(r, "end")
    /\ UNCHANGED <<body, renew, job, tries, timer, lag, since, late>>

(* Every attempt times out: "TTL will expire it". *)
ReleaseFails(r) ==
    /\ pc[r] = "release"
    /\ late' = late \cup {<<r, "release">>}
    /\ Go(r, "end")
    /\ UNCHANGED <<key, body, renew, job, tries, timer, lag, since>>

(* POST /{workflow_id}/terminate: nothing of the run is executed any more. *)
Terminate(r) ==
    /\ pc[r] \notin {"start", "end"}
    /\ Go(r, "end") /\ StopLoop(r)
    /\ body' = [body EXCEPT ![r] = "none"]
    /\ UNCHANGED key

-----------------------------------------------------------------------------
(* Time. *)

(* The loop is to act now: its timer has fired, or the deadline is over. *)
Due(r) == /\ pc[r] = "run"
          /\ \/ renew[r] = "sleep" /\ timer[r] = Interval
             \/ renew[r] = "renew" /\ timer[r] = Deadline

TickWithoutTTL ==
    /\ \A r \in Runs : /\ Due(r) => lag[r] < MaxLag
                       /\ job[r] = "ok" => since[r] < MaxLag
    /\ timer' = [r \in Runs |-> IF pc[r] = "run" /\ ~Due(r) THEN timer[r] + 1 ELSE timer[r]]
    /\ lag' = [r \in Runs |-> IF Due(r) THEN lag[r] + 1 ELSE lag[r]]
    /\ since' = [r \in Runs |-> IF job[r] = "ok" THEN since[r] + 1 ELSE since[r]]
    /\ UNCHANGED <<key, pc, body, renew, job, tries, late>>

(* A tick for everyone.  A run acts at most MaxLag ticks late. *)
Tick ==
    /\ \A r \in Runs : /\ Due(r) => lag[r] < MaxLag
                       /\ job[r] = "ok" => since[r] < MaxLag
    /\ timer' = [r \in Runs |-> IF pc[r] = "run" /\ ~Due(r) THEN timer[r] + 1 ELSE timer[r]]
    /\ lag' = [r \in Runs |-> IF Due(r) THEN lag[r] + 1 ELSE lag[r]]
    /\ since' = [r \in Runs |-> IF job[r] = "ok" THEN since[r] + 1 ELSE since[r]]
    /\ left' = IF holder = NoOne THEN left ELSE left - 1
    /\ holder' = IF left' = 0 THEN NoOne ELSE holder
    /\ UNCHANGED <<lost, pc, body, renew, job, tries, late>>

-----------------------------------------------------------------------------
LockStep(r) ==
    \/ Acquire(r) \/ AcquireConflict(r) \/ Acquired(r)
    \/ StartRenew(r) \/ Renew(r) \/ Renewed(r) \/ RenewFails(r)
    \/ Release(r)

Next ==
    \/ \E r \in Runs :
         \/ StartRun(r) \/ LockStep(r) \/ AcquireTimeout(r) \/ RenewTimeout(r)
         \/ BodyStep(r) \/ BodyEnds(r) \/ ReleaseFails(r) \/ Terminate(r)
         \/ \E kind \in {"acquire", "renew", "release"} : LateAttempt(r, kind)
    \/ LoseKey
    \/ Tick

Spec == Init /\ [][Next]_vars

(* Workers poll for activities and Redis answers, so that an attempt ends  *)
(* and a loop goes on; time passes.  Nothing makes a body end, a late      *)
(* attempt happen or a run be terminated.                                  *)
Fairness == WF_vars(Tick) /\ \A r \in Runs : WF_vars(LockStep(r))

FairSpec == Spec /\ Fairness

(* Stages finish and users answer, and of the attempts to acquire that     *)
(* Temporal repeats for ever, not all are lost.                            *)
BodiesEnd ==
    \A r \in Runs : WF_vars(BodyEnds(r)) /\ SF_vars(Acquire(r)) /\ SF_vars(Acquired(r))

-----------------------------------------------------------------------------
(* packages/workflows/tests/decorators/test_workflow.py: "The workflow     *)
(* body runs only while its deterministic lock is held."  Hence the bodies *)
(* of two runs exclude each other.  It takes every renewal to end before   *)
(* the lease does, which is what the deadline and its buffer are for, and  *)
(* a Redis that has kept the run's key.                                    *)
BodyHoldsLock == \A r \in Runs \ lost : body[r] = "activity" => holder = r

(* The same for the bodies that the cancellation ends: those without       *)
(* retryable stages.                                                       *)
UnstagedBodyHoldsLock ==
    \A r \in Runs \ (lost \cup Staged) : body[r] = "activity" => holder = r

(* A run that has lost its lock notices: renew_workflow_lock fails, and    *)
(* the run ends its body unless the lock is its own again.                 *)
LostLockNoticed ==
    \A r \in Runs : (pc[r] = "run" /\ holder # r) ~> (pc[r] # "run" \/ holder = r)

(* No run waits for ever, whatever became of the runs before it: a lock    *)
(* whose run was terminated or whose release was lost expires.             *)
WaitersServed == BodiesEnd => \A r \in Runs : pc[r] = "acquire" ~> pc[r] = "end"
=============================================================================
