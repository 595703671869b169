------------------------------ MODULE DhcpSync ------------------------------
(***************************************************************************)
(* How a DHCP configuration gets from the DCIM into one pod's Kea server:  *)
(* the refreshers generate it, let Kea test it and publish it in Redis     *)
(* (dhcp/cli.py, refresh_kea_configuration); the config-sync sidecar of    *)
(* the pod applies what is published, verifies it by hash, and repairs     *)
(* drift (sync_kea_configuration); the readiness probe compares the hash   *)
(* Kea reports with the one the sidecar verified last (dhcp/api.py,        *)
(* healthcheck).                                                           *)
(*                                                                         *)
(* A configuration is the version of the DCIM's data it was generated      *)
(* from; its SHA-256 digest is the configuration itself, or None from a    *)
(* Kea older than 2.4 (digests = FALSE).  Every await is a step boundary.  *)
(***************************************************************************)
EXTENDS Naturals

CONSTANTS
    Refreshers,              \* the refresh processes
    MaxVersion,              \* bound on the versions of the DCIM's data
    Invalid,                 \* versions that config-test refuses
    Rejected,                \* versions that pass config-test and fail config-set
    STARTUP_APPLY_ATTEMPTS,
    MaxFaults,               \* bound on failed calls, restarts and flushes
    None, Bootstrap          \* no value; the configuration Kea is delivered with

Versions == 1 .. MaxVersion
Configs == Versions \cup {Bootstrap}

ASSUME DhcpAssumption ==
    /\ MaxVersion \in Nat \ {0}
    /\ Invalid \subseteq Versions /\ Rejected \subseteq Versions \ Invalid
    /\ STARTUP_APPLY_ATTEMPTS \in Nat \ {0}
    /\ MaxFaults \in Nat
    /\ None \notin Configs /\ Bootstrap \notin Versions \cup {None}

VARIABLES
    dcim,       \* version of the data in the DCIM
    gen,        \* per refresher: the configuration generated, not yet published
    redis,      \* the published configuration, or None
    redisUp,    \* whether Redis answers
    running,    \* Kea's effective configuration
    disk,       \* the file that a restarted kea-dhcp4 reads
    digests,    \* whether this Kea reports digests
    pc,         \* the sidecar's next call: load, set, write, verify or hash
    phase,      \* what an apply is for: startup, publish or repair
    tries,      \* failed startup attempts
    payload,    \* config: the configuration being applied
    published,  \* published_config of this iteration
    previous,   \* previous_config
    expected,   \* expected_hash
    file,       \* the hash file the probe reads; outlives the sidecar
    confirmed,  \* history: what the last successful reconciliation saw
    saw,        \* the digest the running probe got from Kea
    ready,      \* the digest behind the last verdict of the probe; None: unready
    faults

source == <<dcim, gen>>
cache == <<redis, redisUp>>
kea == <<running, disk, digests>>
baseline == <<previous, expected, file, confirmed>>
attempt == <<phase, tries, payload, published>>
probe == <<saw, ready>>
vars == <<source, cache, kea, pc, attempt, baseline, probe, faults>>

Digest(c) == IF digests THEN c ELSE None

Fault == faults < MaxFaults /\ faults' = faults + 1

Init ==
    /\ dcim = 1
    /\ gen = [r \in Refreshers |-> None]
    /\ redis = None /\ redisUp \in BOOLEAN
    /\ running = Bootstrap /\ disk = Bootstrap /\ digests \in BOOLEAN
    /\ pc = "load" /\ phase = "startup" /\ tries = 0
    /\ payload = None /\ published = None
    /\ previous = None /\ expected = None /\ file = None /\ confirmed = None
    /\ saw = None /\ ready = None
    /\ faults = 0

-----------------------------------------------------------------------------
(* The surroundings.                                                       *)

dcim_changes ==
    /\ dcim < MaxVersion
    /\ dcim' = dcim + 1
    /\ UNCHANGED <<gen, cache, kea, pc, attempt, baseline, probe, faults>>

\* Redis stops answering or answers again, any number of times.
redis_flaps ==
    /\ redisUp' = ~redisUp
    /\ UNCHANGED <<source, redis, kea, pc, attempt, baseline, probe, faults>>

\* supervisord restarts kea-dhcp4 in place, or kubelet recycles the container,
\* which brings back the delivered file.
kea_restarts ==
    /\ Fault
    /\ \/ running' = disk /\ UNCHANGED disk
       \/ running' = Bootstrap /\ disk' = Bootstrap
    /\ UNCHANGED <<source, cache, digests, pc, attempt, baseline, probe>>

\* The sidecar is recycled: what it keeps in memory is gone, the file is not.
sidecar_restarts ==
    /\ Fault
    /\ pc' = "load" /\ phase' = "startup" /\ tries' = 0
    /\ payload' = None /\ published' = None
    /\ previous' = None /\ expected' = None /\ confirmed' = None
    /\ UNCHANGED <<source, cache, kea, file, probe>>

flush_cache ==
    /\ Fault
    /\ redisUp /\ redis # None
    /\ redis' = None
    /\ UNCHANGED <<source, redisUp, kea, pc, attempt, baseline, probe>>

-----------------------------------------------------------------------------
(* The refreshers.  A read that the DCIM cancels is tried once more and    *)
(* then the cycle is skipped: nothing is generated, gen[r] stays None.     *)

generate_config(r) ==
    /\ gen[r] = None
    /\ gen' = [gen EXCEPT ![r] = dcim]
    /\ UNCHANGED <<dcim, cache, kea, pc, attempt, baseline, probe, faults>>

\* config-test refuses it: the exception restarts the container.
test_config_refuses(r) ==
    /\ gen[r] \in Invalid
    /\ gen' = [gen EXCEPT ![r] = None]
    /\ UNCHANGED <<dcim, cache, kea, pc, attempt, baseline, probe, faults>>

\* Variant: what config-test says is not looked at.
PersistUntested(r) ==
    /\ gen[r] \in Versions
    /\ redis' = IF redisUp THEN gen[r] ELSE redis
    /\ gen' = [gen EXCEPT ![r] = None]
    /\ UNCHANGED <<dcim, redisUp, kea, pc, attempt, baseline, probe, faults>>

\* The tested configuration replaces whatever is published, unless Redis does
\* not answer, which restarts the container as well.
persist_kea_config(r) ==
    /\ gen[r] \in Versions \ Invalid
    /\ redis' = IF redisUp THEN gen[r] ELSE redis
    /\ gen' = [gen EXCEPT ![r] = None]
    /\ UNCHANGED <<dcim, redisUp, kea, pc, attempt, baseline, probe, faults>>

Refresh(r) == generate_config(r) \/ test_config_refuses(r) \/ persist_kea_config(r)

-----------------------------------------------------------------------------
(* The sidecar: applying a configuration and verifying it.                 *)

\* The hash file is replaced; a write that fails leaves the old one, and the
\* monitoring loop tries again.
mark_verified(h) ==
    \/ file' = h /\ UNCHANGED faults
    \/ Fault /\ UNCHANGED file

\* record_successful_reconciliation, with what was desired and what runs.
record_reconciliation(desired) ==
    confirmed' = [desired |-> desired, running |-> running]

\* Variant: startup tries its payload for ever.
RaisedForever ==
    /\ pc' = IF phase = "startup" THEN "set" ELSE "load"
    /\ payload' = IF phase = "startup" THEN payload ELSE None
    /\ UNCHANGED <<phase, tries, published, baseline>>

\* The apply raised.  At startup the same payload is tried again until the
\* attempts are spent, then the monitoring loop takes over with no baseline.
Raised ==
    /\ \/ /\ phase = "startup" /\ tries + 1 < STARTUP_APPLY_ATTEMPTS
          /\ tries' = tries + 1 /\ pc' = "set"
          /\ UNCHANGED <<phase, payload>>
       \/ /\ phase = "startup" => tries + 1 >= STARTUP_APPLY_ATTEMPTS
          /\ phase' = "publish" /\ pc' = "load" /\ tries' = 0 /\ payload' = None
    /\ UNCHANGED <<published, baseline>>

\* The apply returned the digest h: payload is the new baseline.
Applied(h, verified) ==
    /\ pc' = "load" /\ phase' = "publish" /\ tries' = 0 /\ payload' = None
    /\ previous' = payload /\ expected' = h
    /\ IF verified /\ (phase = "startup" \/ published # None)
       THEN record_reconciliation(IF phase = "startup" THEN payload ELSE published)
       ELSE UNCHANGED confirmed
    /\ UNCHANGED published

set_config ==
    /\ pc = "set" /\ payload \notin Rejected
    /\ running' = payload
    /\ pc' = "write"
    /\ UNCHANGED <<source, cache, disk, digests, attempt, baseline, probe, faults>>

\* Kea refuses the configuration, or the call fails, possibly after Kea has
\* taken the configuration over.
set_config_raises ==
    /\ pc = "set"
    /\ \/ payload \in Rejected /\ UNCHANGED <<running, faults>>
       \/ Fault /\ UNCHANGED running
       \/ Fault /\ payload \notin Rejected /\ running' = payload
    /\ Raised
    /\ UNCHANGED <<source, cache, disk, digests, probe>>

\* config-write saves what Kea runs by now.
config_write ==
    /\ pc = "write"
    /\ disk' = running
    /\ pc' = "verify"
    /\ UNCHANGED <<source, cache, running, digests, attempt, baseline, probe, faults>>

\* The call fails, possibly after the file has been written.
config_write_raises ==
    /\ pc = "write"
    /\ Fault
    /\ disk' \in {disk, running}
    /\ Raised
    /\ UNCHANGED <<source, cache, running, digests, probe>>

\* Variant: the digest read back is taken over without a comparison.
VerifyUncompared ==
    /\ pc = "verify"
    /\ Applied(Digest(running), TRUE)
    /\ IF digests THEN mark_verified(running) ELSE UNCHANGED <<file, faults>>
    /\ UNCHANGED <<source, cache, kea, probe>>

\* config-hash-get agrees with the digest config-set returned.
verify_agrees ==
    /\ pc = "verify"
    /\ Digest(running) = Digest(payload)
    /\ Applied(Digest(running), TRUE)
    /\ IF digests THEN mark_verified(running) ELSE UNCHANGED <<file, faults>>
    /\ UNCHANGED <<source, cache, kea, probe>>

verify_disagrees ==
    /\ pc = "verify"
    /\ Digest(running) # Digest(payload)
    /\ Raised
    /\ UNCHANGED <<source, cache, kea, probe, faults>>

\* Variant: an apply counts as verified although the read failed.
VerifyAssumed ==
    /\ pc = "verify"
    /\ Fault
    /\ Applied(None, TRUE)
    /\ UNCHANGED <<source, cache, kea, file, probe>>

\* The verification read fails: the apply stands, unverified.
verify_unanswered ==
    /\ pc = "verify"
    /\ Fault
    /\ Applied(None, FALSE)
    /\ UNCHANGED <<source, cache, kea, file, probe>>

-----------------------------------------------------------------------------
(* The sidecar: startup and the monitoring loop.                           *)

\* Startup polls Redis until it has a configuration.
startup_load ==
    /\ pc = "load" /\ phase = "startup"
    /\ redisUp /\ redis # None
    /\ payload' = redis
    /\ pc' = "set"
    /\ UNCHANGED <<source, cache, kea, phase, tries, published, baseline, probe, faults>>

\* Variant: the new baseline is noted before it is applied.
MonitorNotesFirst ==
    /\ pc = "load" /\ phase # "startup"
    /\ published' = IF redisUp THEN redis ELSE None
    /\ \/ /\ published' \notin {None, previous}
          /\ payload' = published' /\ phase' = "publish" /\ pc' = "set"
          /\ previous' = published'
       \/ /\ published' \in {None, previous} /\ previous # None
          /\ pc' = "hash"
          /\ UNCHANGED <<payload, phase, previous>>
    /\ UNCHANGED <<source, cache, kea, tries, expected, file, confirmed, probe, faults>>

\* Variant: without an answer from Redis the iteration ends.
MonitorNeedsRedis ==
    /\ pc = "load" /\ phase # "startup"
    /\ redisUp /\ redis # None
    /\ published' = redis
    /\ \/ /\ published' # previous
          /\ payload' = published' /\ phase' = "publish" /\ pc' = "set"
       \/ /\ published' = previous
          /\ pc' = "hash"
          /\ UNCHANGED <<payload, phase>>
    /\ UNCHANGED <<source, cache, kea, tries, baseline, probe, faults>>

\* One iteration reads Redis and decides: apply what is newly published, wait
\* while nothing was ever applied, or go on to compare the hashes.
monitor_load ==
    /\ pc = "load" /\ phase # "startup"
    /\ published' = IF redisUp THEN redis ELSE None
    /\ \/ /\ published' \notin {None, previous}
          /\ payload' = published' /\ phase' = "publish" /\ pc' = "set"
       \/ /\ published' \in {None, previous} /\ previous = None
          /\ UNCHANGED <<payload, phase, pc>>
       \/ /\ published' \in {None, previous} /\ previous # None
          /\ pc' = "hash"
          /\ UNCHANGED <<payload, phase>>
    /\ UNCHANGED <<source, cache, kea, tries, baseline, probe, faults>>

\* Kea runs what the sidecar expects.
hash_agrees ==
    /\ pc = "hash" /\ Digest(running) = expected
    /\ pc' = "load"
    /\ IF digests THEN mark_verified(running) ELSE UNCHANGED <<file, faults>>
    /\ IF published # None THEN record_reconciliation(published) ELSE UNCHANGED confirmed
    /\ UNCHANGED <<source, cache, kea, attempt, previous, expected, probe>>

\* Drift, or an apply never verified: the baseline is applied again.
hash_disagrees ==
    /\ pc = "hash" /\ Digest(running) # expected
    /\ payload' = previous /\ phase' = "repair" /\ pc' = "set"
    /\ UNCHANGED <<source, cache, kea, tries, published, baseline, probe, faults>>

hash_unanswered ==
    /\ pc = "hash"
    /\ Fault
    /\ pc' = "load"
    /\ UNCHANGED <<source, cache, kea, attempt, baseline, probe>>

-----------------------------------------------------------------------------
(* The readiness probe asks Kea first and reads the file afterwards.       *)

get_config_hash ==
    /\ saw = None
    /\ saw' = Digest(running)
    /\ UNCHANGED <<source, cache, kea, pc, attempt, baseline, ready, faults>>

assert_desired_config_applied ==
    /\ saw # None
    /\ ready' = IF file = saw THEN saw ELSE None
    /\ saw' = None
    /\ UNCHANGED <<source, cache, kea, pc, attempt, baseline, faults>>

\* Kea does not answer the probe.
healthcheck_fails ==
    /\ Fault
    /\ saw' = None /\ ready' = None
    /\ UNCHANGED <<source, cache, kea, pc, attempt, baseline>>

-----------------------------------------------------------------------------
Sidecar ==
    \/ startup_load \/ monitor_load
    \/ hash_agrees \/ hash_disagrees \/ hash_unanswered
    \/ set_config \/ set_config_raises
    \/ config_write \/ config_write_raises
    \/ verify_agrees \/ verify_disagrees \/ verify_unanswered

Probe == get_config_hash \/ assert_desired_config_applied \/ healthcheck_fails

Surroundings ==
    dcim_changes \/ redis_flaps \/ kea_restarts \/ sidecar_restarts \/ flush_cache

Next == Surroundings \/ (\E r \in Refreshers : Refresh(r)) \/ Sidecar \/ Probe

\* The refreshers and the sidecar loop for ever and every call of theirs is
\* bounded by a timeout; nothing makes Redis answer or the DCIM change.
Spec ==
    /\ Init /\ [][Next]_vars
    /\ \A r \in Refreshers : WF_vars(Refresh(r))
    /\ WF_vars(Sidecar)

-----------------------------------------------------------------------------
TypeOK ==
    /\ dcim \in Versions
    /\ gen \in [Refreshers -> Versions \cup {None}]
    /\ redis \in (Versions \ Invalid) \cup {None} /\ redisUp \in BOOLEAN
    /\ running \in Configs /\ disk \in Configs /\ digests \in BOOLEAN
    /\ pc \in {"load", "set", "write", "verify", "hash"}
    /\ phase \in {"startup", "publish", "repair"}
    /\ tries \in 0 .. STARTUP_APPLY_ATTEMPTS - 1
    /\ payload \in Versions \cup {None} /\ published \in Versions \cup {None}
    /\ pc \in {"set", "write", "verify"} <=> payload # None
    /\ previous \in Versions \cup {None} /\ expected \in Configs \cup {None}
    /\ file \in Configs \cup {None}
    /\ confirmed \in [desired : Versions, running : Configs] \cup {None}
    /\ saw \in Configs \cup {None} /\ ready \in Configs \cup {None}
    /\ faults \in 0 .. MaxFaults

(***************************************************************************)
(* "An unconfigured pod (bootstrap config only) is never ready"            *)
(* (dhcp/api.py, healthcheck): no verdict OK rests on the delivered        *)
(* configuration, whichever process restarts between the two reads of the  *)
(* probe and the calls of the sidecar.                                     *)
(***************************************************************************)
NeverReadyUnconfigured == ready # Bootstrap

(***************************************************************************)
(* The baseline of the drift check is one: the digest expected is that of  *)
(* the configuration that a repair would apply, also after applies that    *)
(* failed half way.  Were they to part, the monitoring loop would reapply  *)
(* and find drift for ever, or accept a configuration it never wanted.     *)
(***************************************************************************)
BaselineMatches == expected # None => expected = previous

(***************************************************************************)
(* A recorded reconciliation "means *verified* agreement with *published*  *)
(* desired state" (dhcp/cli.py, the monitoring loop): Kea ran what this    *)
(* iteration read from Redis.  A Kea without digests verifies trivially.   *)
(***************************************************************************)
ReconciledIsServed ==
    digests /\ confirmed # None => confirmed.running = confirmed.desired

(***************************************************************************)
(* "an unreachable Redis must not skip it" (dhcp/cli.py, the monitoring    *)
(* loop): a Kea that has lost its configuration gets it back although      *)
(* Redis may never answer again, unless Redis offers a configuration that  *)
(* Kea refuses: that one is tried in every iteration, before the drift     *)
(* check, and keeps the sidecar from repairing.                            *)
(***************************************************************************)
Drifted == digests /\ previous # None /\ running # previous
DriftRepaired == Drifted ~> (~Drifted \/ (redisUp /\ redis \in Rejected))

(***************************************************************************)
(* Once the DCIM stops changing at a version that Kea accepts and Redis    *)
(* answers, Kea runs that version for good and the probe would find it     *)
(* verified, whatever failed before and however the refreshers overtook    *)
(* one another.                                                            *)
(***************************************************************************)
Serving(v) == running = v /\ file = v
EventuallyServed ==
    \A v \in Versions \ (Invalid \cup Rejected) :
        <>[](redisUp /\ digests /\ dcim = v) => <>[]Serving(v)

=============================================================================
