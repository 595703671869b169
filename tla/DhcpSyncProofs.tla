--------------------------- MODULE DhcpSyncProofs ---------------------------
(***************************************************************************)
(* For any number of refreshers, versions, startup attempts and faults,    *)
(* whichever versions Kea refuses: the drift check has one baseline, a     *)
(* recorded reconciliation was one, and an unconfigured pod is never       *)
(* ready.                                                                  *)
(***************************************************************************)
EXTENDS DhcpSync, TLAPS

(* The sidecar applies what the current iteration is about: in a repair    *)
(* the baseline, which is then what Redis offers if it offers anything,    *)
(* and otherwise what was published.  It compares hashes only when it has  *)
(* a baseline.                                                             *)
IterationInv ==
    /\ phase = "startup" => /\ pc # "hash"
                            /\ published = None /\ previous = None
    /\ phase # "startup" /\ payload # None /\ published # None => payload = published
    /\ pc = "hash" => previous # None /\ published \in {None, previous}

(* Only what Kea was seen to run while it was wanted becomes a verified    *)
(* hash, and the configuration Kea is delivered with is never wanted.      *)
VerifiedInv == file # Bootstrap

IndInv ==
    TypeOK /\ IterationInv /\ VerifiedInv
      /\ BaselineMatches /\ ReconciledIsServed /\ NeverReadyUnconfigured

-----------------------------------------------------------------------------
LEMMA InitInv == Init => IndInv
BY DhcpAssumption
   DEF Init, IndInv, TypeOK, IterationInv, VerifiedInv, BaselineMatches, ReconciledIsServed,
       NeverReadyUnconfigured, Versions, Configs

(* An apply that raised changes neither the baseline nor the iteration. *)
LEMMA RaisedStep ==
    ASSUME IndInv, Raised, pc \in {"set", "write", "verify"}
    PROVE  /\ pc' \in {"load", "set"} /\ phase' \in {"startup", "publish", "repair"}
           /\ tries' \in 0 .. STARTUP_APPLY_ATTEMPTS - 1
           /\ payload' \in Versions \cup {None} /\ (pc' = "set" <=> payload' # None)
           /\ IterationInv'
BY DhcpAssumption DEF IndInv, TypeOK, IterationInv, Raised, baseline

(* Every step keeps the inductive invariant. *)
LEMMA NextInv ==
    ASSUME IndInv, [Next]_vars
    PROVE  IndInv'
<1> USE DhcpAssumption
    DEF IndInv, TypeOK, IterationInv, VerifiedInv, BaselineMatches, ReconciledIsServed,
        NeverReadyUnconfigured, Versions, Configs, Fault, Digest,
        source, cache, kea, attempt, baseline, probe
<1>1. CASE dcim_changes
    BY <1>1 DEF dcim_changes
<1>2. CASE redis_flaps
    BY <1>2 DEF redis_flaps
<1>3. CASE kea_restarts
    BY <1>3 DEF kea_restarts
<1>4. CASE sidecar_restarts
    BY <1>4 DEF sidecar_restarts
<1>5. CASE flush_cache
    BY <1>5 DEF flush_cache
<1>6. ASSUME NEW r \in Refreshers, Refresh(r) PROVE IndInv'
    BY <1>6 DEF Refresh, generate_config, test_config_refuses, persist_kea_config
<1>7. CASE startup_load
    BY <1>7 DEF startup_load
<1>8. CASE monitor_load
    BY <1>8 DEF monitor_load
<1>9. CASE hash_agrees
    BY <1>9 DEF hash_agrees, mark_verified, record_reconciliation
<1>10. CASE hash_disagrees
    BY <1>10 DEF hash_disagrees
<1>11. CASE hash_unanswered
    BY <1>11 DEF hash_unanswered
<1>12. CASE set_config
    BY <1>12 DEF set_config
<1>13. CASE set_config_raises
    BY <1>13, RaisedStep DEF set_config_raises, Raised
<1>14. CASE config_write
    BY <1>14 DEF config_write
<1>15. CASE config_write_raises
    BY <1>15, RaisedStep DEF config_write_raises, Raised
<1>16. CASE verify_agrees
    BY <1>16 DEF verify_agrees, Applied, mark_verified, record_reconciliation
<1>17. CASE verify_disagrees
    BY <1>17, RaisedStep DEF verify_disagrees, Raised
<1>18. CASE verify_unanswered
    BY <1>18 DEF verify_unanswered, Applied
<1>19. CASE get_config_hash
    BY <1>19 DEF get_config_hash
<1>20. CASE assert_desired_config_applied
    BY <1>20 DEF assert_desired_config_applied
<1>21. CASE healthcheck_fails
    BY <1>21 DEF healthcheck_fails
<1>22. CASE UNCHANGED vars
    BY <1>22 DEF vars
<1>23. QED
    BY <1>1, <1>2, <1>3, <1>4, <1>5, <1>6, <1>7, <1>8, <1>9, <1>10, <1>11, <1>12, <1>13,
       <1>14, <1>15, <1>16, <1>17, <1>18, <1>19, <1>20, <1>21, <1>22
       DEF Next, Surroundings, Sidecar, Probe

LEMMA Invariance == Spec => []IndInv
BY InitInv, NextInv, PTL DEF Spec

(* Every variable keeps its type; in particular no version that            *)
(* config-test refuses is ever published, and startup does not exceed its  *)
(* attempts (dhcp/cli.py).                                                 *)
THEOREM TypeCorrect == Spec => []TypeOK
<1>1. IndInv => TypeOK
    BY DEF IndInv
<1>2. QED
    BY <1>1, Invariance, PTL

(* An unconfigured pod (bootstrap config only) is never ready, whichever   *)
(* process restarts between two calls (dhcp/api.py, healthcheck).          *)
THEOREM NotReadyUnconfigured == Spec => []NeverReadyUnconfigured
<1>1. IndInv => NeverReadyUnconfigured
    BY DEF IndInv
<1>2. QED
    BY <1>1, Invariance, PTL

(* The digest the monitoring loop expects is that of the configuration a   *)
(* repair applies (dhcp/cli.py, sync_kea_configuration).                   *)
THEOREM OneBaseline == Spec => []BaselineMatches
<1>1. IndInv => BaselineMatches
    BY DEF IndInv
<1>2. QED
    BY <1>1, Invariance, PTL

(* A recorded reconciliation was verified agreement with what was          *)
(* published (dhcp/cli.py, record_successful_reconciliation).              *)
THEOREM Reconciled == Spec => []ReconciledIsServed
<1>1. IndInv => ReconciledIsServed
    BY DEF IndInv
<1>2. QED
    BY <1>1, Invariance, PTL
=============================================================================
