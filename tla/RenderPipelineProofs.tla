------------------------ MODULE RenderPipelineProofs ------------------------
(***************************************************************************)
(* For any number of replicas, requests, messages, changes and faults:     *)
(* renders of a device exclude each other and the store never goes back,   *)
(* as long as no render outlives its lock; the queued flag stands for a    *)
(* render to come, and no change is lost, however often processes stop.    *)
(***************************************************************************)
EXTENDS RenderPipeline, TLAPS

(* Renders are shorter than the lock's TTL of 180 s. *)
LeaseKept == "lease" \notin Faults

(* Deliveries end within ack_wait, and what sets the flag goes on to       *)
(* publish, unless it is the consumer of an event that stops.              *)
FlagKeptUp == Faults \cap {"slow", "publish", "api"} = {}

(* Processes stop and errors are negatively acknowledged, at any time and  *)
(* any number of times; nothing is swallowed and no timeout exceeded.      *)
OnlyCrashes == Faults = {}

-----------------------------------------------------------------------------
(* Who renders holds the lock; the files in the store are not newer than   *)
(* the data of the render that will replace them.                          *)
LockInv == \A w \in Workers : pcW[w] \in Rendering => lock = w
DataInv ==
    /\ stored <= dcim
    /\ \A w \in Workers : pcW[w] = "store" => stored <= data[w] /\ data[w] <= dcim

(* An event in an enqueuer's hands is in nobody else's and is not          *)
(* acknowledged; before that enqueuer marks the device, the flag is not    *)
(* the one of its event.                                                   *)
EventInv ==
    /\ \A k \in 1..MaxChanges : /\ k > dcim => evt[k] = "none"
                                /\ evt[k] \in {"none", "ready"} => flag # k
    /\ \A e \in Enqueuers :
          /\ evtE[e] # 0 => e \in EventConsumers /\ evt[evtE[e]] = "taken"
          /\ pcE[e] \in {"idle", "end"} => evtE[e] = 0
          /\ e \in EventConsumers /\ pcE[e] \notin {"idle", "end"} => evtE[e] # 0
          /\ pcE[e] \in {"check", "status", "mark"} /\ evtE[e] # 0 => flag # evtE[e]
          /\ \A f \in Enqueuers : e # f /\ evtE[e] # 0 => evtE[e] # evtE[f]

(* A message in a worker's hands is in nobody else's and is not            *)
(* acknowledged; a consumer has one until it has acknowledged it.          *)
MessageInv ==
    \A w \in Workers :
       /\ msgW[w] # NoOne => w \in DeviceConsumers /\ msg[msgW[w]] = "taken"
       /\ pcW[w] \in {"idle", "release", "end"} => msgW[w] = NoOne
       /\ w \in DeviceConsumers /\ pcW[w] \notin {"idle", "release", "end"} => msgW[w] # NoOne
       /\ \A v \in Workers : v # w /\ msgW[w] # NoOne => msgW[v] # msgW[w]

(* An event that will be delivered again: not acknowledged, nor about to be. *)
Live(k) ==
    /\ evt[k] \in {"ready", "taken"}
    /\ \A e \in Enqueuers : pcE[e] = "ack" => evtE[e] # k

(* A message that will be delivered. *)
Waiting(m) ==
    msg[m] = "ready" \/ (msg[m] = "taken" /\ \A w \in Workers : msgW[w] # m)

(* A request, which does not stop, is about to publish a message. *)
Requested == \E e \in ApiCallers : pcE[e] = "publish"

(* FlagMeansPending and NoChangeLost, resting on events that are not about *)
(* to be acknowledged, so that an acknowledgement does not disturb them.   *)
FlagInv ==
    flag # NoFlag =>
       \/ flag \in 1..MaxChanges /\ Live(flag)
       \/ Requested
       \/ \E m \in Messages : Waiting(m)
       \/ \E w \in Workers : msgW[w] # NoOne /\ pcW[w] \in {"lock", "clear", "nak"}

PendingInv ==
    enabled /\ stored # dcim =>
       \/ \E k \in 1..MaxChanges : Live(k)
       \/ Requested
       \/ \E m \in Messages : Waiting(m)
       \/ \E w \in Workers : WillRender(w)

-----------------------------------------------------------------------------
(* The record of faults. *)
FaultsOK == faults \in Seq({"crash"} \cup Faults) /\ Len(faults) <= MaxFaults

LEMMA HappensType ==
    ASSUME TypeOK, NEW kind, Happens(kind), kind \in Faults \/ kind = "crash"
    PROVE  FaultsOK'
<1> DEFINE Kinds == {"crash"} \cup Faults
<1>1. faults \in Seq(Kinds) /\ kind \in Kinds /\ Len(faults) \in Nat /\ Len(faults) < MaxFaults
    BY BoundsAssumption DEF TypeOK, Happens
<1>2. faults' = Append(faults, kind)
    BY DEF Happens
<1> HIDE DEF Kinds
<1>3. Append(faults, kind) \in Seq(Kinds) /\ Len(Append(faults, kind)) = Len(faults) + 1
    BY <1>1
<1>4. QED
    BY <1>1, <1>2, <1>3, BoundsAssumption DEF FaultsOK, Kinds

(* Every step keeps the types. *)
LEMMA TypeStep ==
    ASSUME TypeOK, [Next]_vars
    PROVE  TypeOK'
<1> USE BoundsAssumption, FaultsAssumption, ActorsAssumption, HappensType
    DEF TypeOK, FaultsOK, Changes, Delivery, Rendering, NoFlag, GoE, GoW, Fault, May,
        redis, enq, work
<1>1. ASSUME NEW b \in BOOLEAN, Change(b) PROVE TypeOK'
    BY <1>1 DEF Change
<1>2. ASSUME NEW k \in 1..MaxChanges, RedeliverEvent(k) PROVE TypeOK'
    BY <1>2 DEF RedeliverEvent
<1>3. ASSUME NEW m \in Messages, RedeliverMessage(m) PROVE TypeOK'
    BY <1>3 DEF RedeliverMessage
<1>4. CASE FlagExpires
    BY <1>4 DEF FlagExpires
<1>5. CASE LockExpires
    BY <1>5 DEF LockExpires
<1>6. ASSUME NEW e \in Enqueuers, NEW k \in 1..MaxChanges, FetchEvent(e, k) PROVE TypeOK'
    BY <1>6 DEF FetchEvent
<1>7. ASSUME NEW e \in Enqueuers, is_queued(e) PROVE TypeOK'
    BY <1>7 DEF is_queued
<1>8. ASSUME NEW e \in Enqueuers, should_run(e) PROVE TypeOK'
    BY <1>8 DEF should_run
<1>9. ASSUME NEW e \in Enqueuers, mark_queued(e) PROVE TypeOK'
    BY <1>9 DEF mark_queued
<1>10. ASSUME NEW e \in Enqueuers, publish(e) PROVE TypeOK'
    BY <1>10 DEF publish, NewMessage
<1>11. ASSUME NEW e \in Enqueuers, ClearAfterError(e) PROVE TypeOK'
    BY <1>11 DEF ClearAfterError
<1>12. ASSUME NEW e \in Enqueuers, AckEvent(e) PROVE TypeOK'
    BY <1>12 DEF AckEvent
<1>13. ASSUME NEW e \in Enqueuers, ApiRequest(e) PROVE TypeOK'
    BY <1>13 DEF ApiRequest
<1>14. ASSUME NEW e \in Enqueuers, DispatchDCIMError(e) PROVE TypeOK'
    BY <1>14 DEF DispatchDCIMError
<1>15. ASSUME NEW e \in Enqueuers, DispatchError(e) PROVE TypeOK'
  <2>1. evt' \in [1..MaxChanges -> Delivery]
      BY <1>15 DEF DispatchError
  <2>2. FaultsOK'
      BY <1>15 DEF DispatchError
  <2>3. evtE' \in [Enqueuers -> Changes]
      BY <1>15 DEF DispatchError
  <2>4. QED
      BY <1>15, <2>1, <2>2, <2>3 DEF DispatchError
<1>16. ASSUME NEW e \in Enqueuers, CrashEnqueuer(e) PROVE TypeOK'
    BY <1>16 DEF CrashEnqueuer
<1>17. ASSUME NEW w \in Workers, NEW m \in Messages, FetchMessage(w, m) PROVE TypeOK'
    BY <1>17 DEF FetchMessage
<1>18. ASSUME NEW w \in Workers, Acquire(w) PROVE TypeOK'
    BY <1>18 DEF Acquire
<1>19. ASSUME NEW w \in Workers, NotAcquired(w) PROVE TypeOK'
  <2>1. CASE w \in DeviceConsumers
    <3>1. msg' = [msg EXCEPT ![msgW[w]] = IF @ = "taken" THEN "ready" ELSE @]
        BY <1>19, <2>1 DEF NotAcquired
    <3>2. msg' \in [Messages -> {"none", "ready", "taken"}]
        BY <3>1
    <3>3. msgW' \in [Workers -> Messages \cup {NoOne}]
        BY <1>19, <2>1 DEF NotAcquired
    <3>4. pcW' = [pcW EXCEPT ![w] = "idle"]
        BY <1>19, <2>1 DEF NotAcquired
    <3>5. pcW' \in [Workers -> {"idle", "lock", "end"} \cup Rendering]
        BY <3>4
    <3>6. UNCHANGED <<dcim, enabled, evt, redis, enq, data, ptr, stored, synced, faults>>
        BY <1>19 DEF NotAcquired
    <3>7. QED
        BY <3>2, <3>3, <3>5, <3>6
  <2>2. CASE w \notin DeviceConsumers
      BY <1>19, <2>2 DEF NotAcquired
  <2>3. QED
      BY <2>1, <2>2
<1>20. ASSUME NEW w \in Workers, clear_queued(w) PROVE TypeOK'
    BY <1>20 DEF clear_queued
<1>21. ASSUME NEW w \in Workers, get_render_data(w) PROVE TypeOK'
    BY <1>21 DEF get_render_data
<1>22. ASSUME NEW w \in Workers, persist_files(w) PROVE TypeOK'
  <2>1. stored' \in Changes
    BY <1>22 DEF persist_files
  <2>2. ptr' \in [Workers -> Changes]
    BY <1>22 DEF persist_files
  <2>3. \E s \in Rendering : pcW' = [pcW EXCEPT ![w] = s]
    BY <1>22 DEF persist_files
  <2>4. pcW' \in [Workers -> {"idle", "lock", "end"} \cup Rendering]
    BY <2>3
  <2>5. UNCHANGED <<dcim, enabled, evt, redis, msg, enq, msgW, data, synced, faults>>
    BY <1>22 DEF persist_files
  <2>6. QED
    BY <2>1, <2>2, <2>4, <2>5
<1>23. ASSUME NEW w \in Workers, load_file(w) PROVE TypeOK'
    BY <1>23 DEF load_file
<1>24. ASSUME NEW w \in Workers, upsert_intended_configuration(w) PROVE TypeOK'
    BY <1>24 DEF upsert_intended_configuration
<1>25. ASSUME NEW w \in Workers, AckMessage(w) PROVE TypeOK'
    BY <1>25 DEF AckMessage
<1>26. ASSUME NEW w \in Workers, NakMessage(w) PROVE TypeOK'
    BY <1>26 DEF NakMessage
<1>27. ASSUME NEW w \in Workers, Release(w) PROVE TypeOK'
    BY <1>27 DEF Release
<1>28. ASSUME NEW w \in Workers, StartRender(w) PROVE TypeOK'
    BY <1>28 DEF StartRender
<1>29. ASSUME NEW w \in Workers, RenderErrorSwallowed(w) PROVE TypeOK'
    BY <1>29 DEF RenderErrorSwallowed
<1>30. ASSUME NEW w \in Workers, RenderError(w) PROVE TypeOK'
    BY <1>30 DEF RenderError
<1>31. ASSUME NEW w \in Workers, CrashWorker(w) PROVE TypeOK'
    BY <1>31 DEF CrashWorker
<1>32. CASE UNCHANGED vars
    BY <1>32 DEF vars
<1>33. QED
    BY <1>1, <1>2, <1>3, <1>4, <1>5, <1>6, <1>7, <1>8, <1>9, <1>10, <1>11, <1>12,
       <1>13, <1>14, <1>15, <1>16, <1>17, <1>18, <1>19, <1>20, <1>21, <1>22, <1>23,
       <1>24, <1>25, <1>26, <1>27, <1>28, <1>29, <1>30, <1>31, <1>32
       DEF Next, Timers, EnqueueStep, RenderStep

LEMMA TypeInitially == Init => TypeOK
BY BoundsAssumption, FaultsAssumption
   DEF Init, TypeOK, Changes, Delivery, Rendering, NoFlag

(* What the types promise of every state: the flag, the lock and the       *)
(* messages are in states the consumers, requests and jobs put them in.    *)
THEOREM TypeCorrect == Spec => []TypeOK
BY TypeInitially, TypeStep, PTL DEF Spec

-----------------------------------------------------------------------------
(* While no lease is outlived, every step keeps the lock with the render   *)
(* that holds it, and the store does not go back.                          *)
LEMMA LockStep ==
    ASSUME LeaseKept, TypeOK, LockInv, DataInv, [Next]_vars
    PROVE  LockInv' /\ DataInv' /\ stored' >= stored
<1> DEFINE Goal == LockInv' /\ DataInv' /\ stored' >= stored
<1> USE BoundsAssumption, ActorsAssumption
    DEF LeaseKept, LockInv, DataInv, TypeOK, Changes, Rendering, GoE, GoW, May,
        redis, enq, work
<1>1. ASSUME NEW b \in BOOLEAN, Change(b) PROVE Goal
    BY <1>1 DEF Change
<1>2. ASSUME NEW k \in 1..MaxChanges, RedeliverEvent(k) PROVE Goal
    BY <1>2 DEF RedeliverEvent
<1>3. ASSUME NEW m \in Messages, RedeliverMessage(m) PROVE Goal
    BY <1>3 DEF RedeliverMessage
<1>4. CASE FlagExpires
    BY <1>4 DEF FlagExpires
<1>5. CASE LockExpires
    BY <1>5 DEF LockExpires
<1>6. ASSUME NEW e \in Enqueuers, NEW k \in 1..MaxChanges, FetchEvent(e, k) PROVE Goal
    BY <1>6 DEF FetchEvent
<1>7. ASSUME NEW e \in Enqueuers, is_queued(e) PROVE Goal
    BY <1>7 DEF is_queued
<1>8. ASSUME NEW e \in Enqueuers, should_run(e) PROVE Goal
    BY <1>8 DEF should_run
<1>9. ASSUME NEW e \in Enqueuers, mark_queued(e) PROVE Goal
    BY <1>9 DEF mark_queued
<1>10. ASSUME NEW e \in Enqueuers, publish(e) PROVE Goal
    BY <1>10 DEF publish
<1>11. ASSUME NEW e \in Enqueuers, ClearAfterError(e) PROVE Goal
    BY <1>11 DEF ClearAfterError
<1>12. ASSUME NEW e \in Enqueuers, AckEvent(e) PROVE Goal
    BY <1>12 DEF AckEvent
<1>13. ASSUME NEW e \in Enqueuers, ApiRequest(e) PROVE Goal
    BY <1>13 DEF ApiRequest
<1>14. ASSUME NEW e \in Enqueuers, DispatchDCIMError(e) PROVE Goal
    BY <1>14 DEF DispatchDCIMError
<1>15. ASSUME NEW e \in Enqueuers, DispatchError(e) PROVE Goal
    BY <1>15 DEF DispatchError
<1>16. ASSUME NEW e \in Enqueuers, CrashEnqueuer(e) PROVE Goal
    BY <1>16 DEF CrashEnqueuer
<1>17. ASSUME NEW w \in Workers, NEW m \in Messages, FetchMessage(w, m) PROVE Goal
    BY <1>17 DEF FetchMessage
<1>18. ASSUME NEW w \in Workers, Acquire(w) PROVE Goal
  <2>1. \A v \in Workers : pcW[v] \notin Rendering
    BY <1>18 DEF Acquire, Workers
  <2>2. QED
    BY <1>18, <2>1 DEF Acquire
<1>19. ASSUME NEW w \in Workers, NotAcquired(w) PROVE Goal
    BY <1>19 DEF NotAcquired
<1>20. ASSUME NEW w \in Workers, clear_queued(w) PROVE Goal
    BY <1>20 DEF clear_queued
<1>21. ASSUME NEW w \in Workers, get_render_data(w) PROVE Goal
    BY <1>21 DEF get_render_data
<1>22. ASSUME NEW w \in Workers, persist_files(w) PROVE Goal
    BY <1>22 DEF persist_files
<1>23. ASSUME NEW w \in Workers, load_file(w) PROVE Goal
    BY <1>23 DEF load_file
<1>24. ASSUME NEW w \in Workers, upsert_intended_configuration(w) PROVE Goal
    BY <1>24 DEF upsert_intended_configuration
<1>25. ASSUME NEW w \in Workers, AckMessage(w) PROVE Goal
    BY <1>25 DEF AckMessage
<1>26. ASSUME NEW w \in Workers, NakMessage(w) PROVE Goal
    BY <1>26 DEF NakMessage
<1>27. ASSUME NEW w \in Workers, Release(w) PROVE Goal
    BY <1>27 DEF Release
<1>28. ASSUME NEW w \in Workers, StartRender(w) PROVE Goal
    BY <1>28 DEF StartRender
<1>29. ASSUME NEW w \in Workers, RenderErrorSwallowed(w) PROVE Goal
    BY <1>29 DEF RenderErrorSwallowed
<1>30. ASSUME NEW w \in Workers, RenderError(w) PROVE Goal
    BY <1>30 DEF RenderError
<1>31. ASSUME NEW w \in Workers, CrashWorker(w) PROVE Goal
    BY <1>31 DEF CrashWorker
<1>32. CASE UNCHANGED vars
    BY <1>32 DEF vars
<1>33. QED
    BY <1>1, <1>2, <1>3, <1>4, <1>5, <1>6, <1>7, <1>8, <1>9, <1>10, <1>11, <1>12,
       <1>13, <1>14, <1>15, <1>16, <1>17, <1>18, <1>19, <1>20, <1>21, <1>22, <1>23,
       <1>24, <1>25, <1>26, <1>27, <1>28, <1>29, <1>30, <1>31, <1>32
       DEF Next, Timers, EnqueueStep, RenderStep

LEMMA LockInitially == Init => LockInv /\ DataInv
BY ActorsAssumption DEF Init, LockInv, DataInv, Rendering

(* Renders of a device exclude each other while no render outlives its     *)
(* lock: the lock is taken before, and given back after, every render, and *)
(* its TTL only frees the lock of a process that has stopped.              *)
THEOREM ExclusiveRenders == LeaseKept => (Spec => []RendersExclusive)
<1> SUFFICES ASSUME LeaseKept PROVE Spec => []RendersExclusive
    OBVIOUS
<1>1. TypeOK /\ LockInv /\ DataInv /\ [Next]_vars => (TypeOK /\ LockInv /\ DataInv)'
    BY TypeStep, LockStep
<1>2. Init => TypeOK
    BY TypeInitially
<1>3. LockInv => RendersExclusive
    BY DEF LockInv, RendersExclusive
<1>4. QED
    BY <1>1, <1>2, <1>3, LockInitially, PTL DEF Spec

(* And the Config Store never goes back to an older render, whoever        *)
(* renders: persist_files stores what was read under the same lock.        *)
THEOREM NoRegress == LeaseKept => (Spec => StoreNeverRegresses)
<1> SUFFICES ASSUME LeaseKept PROVE Spec => StoreNeverRegresses
    OBVIOUS
<1>1. TypeOK /\ LockInv /\ DataInv /\ [Next]_vars => (TypeOK /\ LockInv /\ DataInv)'
    BY TypeStep, LockStep
<1>2. TypeOK /\ LockInv /\ DataInv /\ [Next]_vars => [stored' >= stored]_vars
    BY LockStep
<1>3. Init => TypeOK
    BY TypeInitially
<1>4. QED
    BY <1>1, <1>2, <1>3, LockInitially, PTL DEF Spec, StoreNeverRegresses

-----------------------------------------------------------------------------
(* While deliveries end within ack_wait, an event is in the hands of one   *)
(* enqueuer, which holds it until it is acknowledged or delivered again.   *)
LEMMA EventStep ==
    ASSUME "slow" \notin Faults, TypeOK, EventInv, [Next]_vars
    PROVE  EventInv'
<1> USE BoundsAssumption, ActorsAssumption
    DEF EventInv, TypeOK, Changes, Delivery, NoFlag, GoE, GoW, May, redis, enq, work
<1>1. ASSUME NEW b \in BOOLEAN, Change(b) PROVE EventInv'
    BY <1>1 DEF Change
<1>2. ASSUME NEW k \in 1..MaxChanges, RedeliverEvent(k) PROVE EventInv'
  <2>1. (\A f \in Enqueuers : evtE[f] # k) /\ flag # k /\ evt[k] = "taken"
    BY <1>2 DEF RedeliverEvent
  <2>2. evt' = [evt EXCEPT ![k] = "ready"] /\ UNCHANGED <<dcim, flag, pcE, evtE>>
    BY <1>2 DEF RedeliverEvent
  <2>3. \A j \in 1..MaxChanges : /\ (j > dcim => evt[j] = "none")'
                                 /\ (evt[j] \in {"none", "ready"} => flag # j)'
    <3>1. \A j \in 1..MaxChanges : j # k => evt'[j] = evt[j]
      BY <2>2
    <3>2. evt'[k] = "ready" /\ ~(k > dcim') /\ flag' # k
      BY <2>1, <2>2
    <3>3. QED
      BY <2>2, <3>1, <3>2
  <2>4. \A f \in Enqueuers : evtE[f] # 0 => evt'[evtE[f]] = evt[evtE[f]]
    BY <2>1, <2>2
  <2>5. QED
    BY <2>2, <2>3, <2>4
<1>3. ASSUME NEW m \in Messages, RedeliverMessage(m) PROVE EventInv'
    BY <1>3 DEF RedeliverMessage
<1>4. CASE FlagExpires
    BY <1>4 DEF FlagExpires
<1>5. CASE LockExpires
    BY <1>5 DEF LockExpires
<1>6. ASSUME NEW e \in Enqueuers, NEW k \in 1..MaxChanges, FetchEvent(e, k) PROVE EventInv'
  <2>1. evt[k] = "ready" /\ pcE[e] = "idle" /\ evtE[e] = 0 /\ e \in EventConsumers
    BY <1>6 DEF FetchEvent
  <2>2. /\ evt' = [evt EXCEPT ![k] = "taken"]
        /\ evtE' = [evtE EXCEPT ![e] = k]
        /\ pcE' = [pcE EXCEPT ![e] = "check"]
        /\ UNCHANGED <<dcim, flag>>
    BY <1>6 DEF FetchEvent
  <2>3. flag # k /\ k <= dcim /\ \A f \in Enqueuers : evtE[f] # k
    <3>1. flag # k /\ k <= dcim
      BY <2>1
    <3>2. ASSUME NEW f \in Enqueuers, evtE[f] = k PROVE FALSE
      <4>1. evtE[f] # 0
        BY <3>2
      <4>2. evt[evtE[f]] = "taken"
        BY <4>1
      <4>3. QED
        BY <4>2, <3>2, <2>1
    <3>3. QED
      BY <3>1, <3>2
  <2>4. \A j \in 1..MaxChanges : /\ (j > dcim => evt[j] = "none")'
                                 /\ (evt[j] \in {"none", "ready"} => flag # j)'
    <3>1. \A j \in 1..MaxChanges : j # k => evt'[j] = evt[j]
      BY <2>2
    <3>2. evt'[k] = "taken" /\ ~(k > dcim')
      BY <2>2, <2>3
    <3>3. QED
      BY <2>2, <3>1, <3>2
  <2>5. \A f \in Enqueuers : f # e /\ evtE[f] # 0 => evt'[evtE[f]] = evt[evtE[f]]
    BY <2>2, <2>3
  <2>6. evtE'[e] = k /\ evt'[k] = "taken" /\ pcE'[e] = "check"
    BY <2>2
  <2>7. \A f \in Enqueuers : f # e => evtE'[f] = evtE[f] /\ pcE'[f] = pcE[f]
    BY <2>2
  <2>8. QED
    BY <2>1, <2>2, <2>3, <2>4, <2>5, <2>6, <2>7
<1>7. ASSUME NEW e \in Enqueuers, is_queued(e) PROVE EventInv'
    BY <1>7 DEF is_queued
<1>8. ASSUME NEW e \in Enqueuers, should_run(e) PROVE EventInv'
  <2>1. /\ pcE[e] = "status" /\ UNCHANGED <<dcim, evt, flag, evtE>>
        /\ \E s \in {"mark", "ack", "clear"} : pcE' = [pcE EXCEPT ![e] = s]
    BY <1>8 DEF should_run
  <2>2. QED
    BY <2>1
<1>9. ASSUME NEW e \in Enqueuers, mark_queued(e) PROVE EventInv'
  <2>1. /\ pcE[e] = "mark" /\ flag' = evtE[e] /\ pcE' = [pcE EXCEPT ![e] = "publish"]
        /\ UNCHANGED <<dcim, evt, evtE>>
    BY <1>9 DEF mark_queued
  <2>2. evtE[e] # 0 => evt[evtE[e]] = "taken"
    OBVIOUS
  <2>3. \A k \in 1..MaxChanges : /\ (k > dcim => evt[k] = "none")'
                                 /\ (evt[k] \in {"none", "ready"} => flag # k)'
    BY <2>1, <2>2
  <2>4. ASSUME NEW f \in Enqueuers, pcE'[f] \in {"check", "status", "mark"}, evtE[f] # 0
        PROVE  flag' # evtE[f]
    <3>1. f # e
      BY <2>1, <2>4
    <3>2. QED
      BY <2>1, <2>4, <3>1
  <2>5. QED
    BY <2>1, <2>3, <2>4
<1>10. ASSUME NEW e \in Enqueuers, publish(e) PROVE EventInv'
    BY <1>10 DEF publish
<1>11. ASSUME NEW e \in Enqueuers, ClearAfterError(e) PROVE EventInv'
    BY <1>11 DEF ClearAfterError
<1>12. ASSUME NEW e \in Enqueuers, AckEvent(e) PROVE EventInv'
  <2>1. /\ pcE[e] = "ack" /\ UNCHANGED <<dcim, flag>>
        /\ evt' = [k \in 1..MaxChanges |-> IF k = evtE[e] THEN "acked" ELSE evt[k]]
        /\ evtE' = [evtE EXCEPT ![e] = 0]
        /\ pcE' = [pcE EXCEPT ![e] = IF e \in EventConsumers THEN "idle" ELSE "end"]
    BY <1>12 DEF AckEvent
  <2>2. \A k \in 1..MaxChanges : /\ (k > dcim => evt[k] = "none")'
                                 /\ (evt[k] \in {"none", "ready"} => flag # k)'
    <3>1. evtE[e] # 0 => evtE[e] \in 1..MaxChanges /\ ~(evtE[e] > dcim)
      BY <2>1
    <3>2. QED
      BY <2>1, <3>1
  <2>3. ASSUME NEW f \in Enqueuers, f # e, evtE[f] # 0 PROVE evt'[evtE[f]] = evt[evtE[f]]
    <3>1. evtE[f] # evtE[e] /\ evtE[f] \in 1..MaxChanges
      BY <2>3
    <3>2. QED
      BY <2>1, <3>1
  <2>4. evtE'[e] = 0 /\ pcE'[e] \in {"idle", "end"}
    BY <2>1
  <2>5. \A f \in Enqueuers : f # e => evtE'[f] = evtE[f] /\ pcE'[f] = pcE[f]
    BY <2>1
  <2>6. QED
    BY <2>1, <2>2, <2>3, <2>4, <2>5
<1>13. ASSUME NEW e \in Enqueuers, ApiRequest(e) PROVE EventInv'
    BY <1>13 DEF ApiRequest
<1>14. ASSUME NEW e \in Enqueuers, DispatchDCIMError(e) PROVE EventInv'
    BY <1>14 DEF DispatchDCIMError
<1>15. ASSUME NEW e \in Enqueuers, DispatchError(e) PROVE EventInv'
    BY <1>15 DEF DispatchError
<1>16. ASSUME NEW e \in Enqueuers, CrashEnqueuer(e) PROVE EventInv'
    BY <1>16 DEF CrashEnqueuer
<1>17. ASSUME NEW w \in Workers, NEW m \in Messages, FetchMessage(w, m) PROVE EventInv'
    BY <1>17 DEF FetchMessage
<1>18. ASSUME NEW w \in Workers, Acquire(w) PROVE EventInv'
    BY <1>18 DEF Acquire
<1>19. ASSUME NEW w \in Workers, NotAcquired(w) PROVE EventInv'
    BY <1>19 DEF NotAcquired
<1>20. ASSUME NEW w \in Workers, clear_queued(w) PROVE EventInv'
    BY <1>20 DEF clear_queued
<1>21. ASSUME NEW w \in Workers, get_render_data(w) PROVE EventInv'
    BY <1>21 DEF get_render_data
<1>22. ASSUME NEW w \in Workers, persist_files(w) PROVE EventInv'
    BY <1>22 DEF persist_files
<1>23. ASSUME NEW w \in Workers, load_file(w) PROVE EventInv'
    BY <1>23 DEF load_file
<1>24. ASSUME NEW w \in Workers, upsert_intended_configuration(w) PROVE EventInv'
    BY <1>24 DEF upsert_intended_configuration
<1>25. ASSUME NEW w \in Workers, AckMessage(w) PROVE EventInv'
    BY <1>25 DEF AckMessage
<1>26. ASSUME NEW w \in Workers, NakMessage(w) PROVE EventInv'
    BY <1>26 DEF NakMessage
<1>27. ASSUME NEW w \in Workers, Release(w) PROVE EventInv'
    BY <1>27 DEF Release
<1>28. ASSUME NEW w \in Workers, StartRender(w) PROVE EventInv'
    BY <1>28 DEF StartRender
<1>29. ASSUME NEW w \in Workers, RenderErrorSwallowed(w) PROVE EventInv'
    BY <1>29 DEF RenderErrorSwallowed
<1>30. ASSUME NEW w \in Workers, RenderError(w) PROVE EventInv'
    BY <1>30 DEF RenderError
<1>31. ASSUME NEW w \in Workers, CrashWorker(w) PROVE EventInv'
    BY <1>31 DEF CrashWorker
<1>32. CASE UNCHANGED vars
    BY <1>32 DEF vars
<1>33. QED
    BY <1>1, <1>2, <1>3, <1>4, <1>5, <1>6, <1>7, <1>8, <1>9, <1>10, <1>11, <1>12,
       <1>13, <1>14, <1>15, <1>16, <1>17, <1>18, <1>19, <1>20, <1>21, <1>22, <1>23,
       <1>24, <1>25, <1>26, <1>27, <1>28, <1>29, <1>30, <1>31, <1>32
       DEF Next, Timers, EnqueueStep, RenderStep

LEMMA EventInitially == Init => EventInv
BY BoundsAssumption DEF Init, EventInv, NoFlag

(* Likewise a message is in the hands of one render consumer. *)
LEMMA MessageStep ==
    ASSUME "slow" \notin Faults, TypeOK, MessageInv, [Next]_vars
    PROVE  MessageInv'
<1> USE BoundsAssumption, ActorsAssumption
    DEF MessageInv, TypeOK, Rendering, GoE, GoW, May, redis, enq, work
<1>1. ASSUME NEW b \in BOOLEAN, Change(b) PROVE MessageInv'
    BY <1>1 DEF Change
<1>2. ASSUME NEW k \in 1..MaxChanges, RedeliverEvent(k) PROVE MessageInv'
    BY <1>2 DEF RedeliverEvent
<1>3. ASSUME NEW m \in Messages, RedeliverMessage(m) PROVE MessageInv'
    BY <1>3 DEF RedeliverMessage
<1>4. CASE FlagExpires
    BY <1>4 DEF FlagExpires
<1>5. CASE LockExpires
    BY <1>5 DEF LockExpires
<1>6. ASSUME NEW e \in Enqueuers, NEW k \in 1..MaxChanges, FetchEvent(e, k) PROVE MessageInv'
    BY <1>6 DEF FetchEvent
<1>7. ASSUME NEW e \in Enqueuers, is_queued(e) PROVE MessageInv'
    BY <1>7 DEF is_queued
<1>8. ASSUME NEW e \in Enqueuers, should_run(e) PROVE MessageInv'
    BY <1>8 DEF should_run
<1>9. ASSUME NEW e \in Enqueuers, mark_queued(e) PROVE MessageInv'
    BY <1>9 DEF mark_queued
<1>10. ASSUME NEW e \in Enqueuers, publish(e) PROVE MessageInv'
  <2>1. UNCHANGED <<pcW, msgW>> /\ (UNCHANGED msg \/ NewMessage)
    BY <1>10 DEF publish
  <2>2. ASSUME NEW w \in Workers, msgW[w] # NoOne PROVE msg'[msgW[w]] = "taken"
    BY <2>1, <2>2 DEF NewMessage
  <2>3. QED
    BY <2>1, <2>2
<1>11. ASSUME NEW e \in Enqueuers, ClearAfterError(e) PROVE MessageInv'
    BY <1>11 DEF ClearAfterError
<1>12. ASSUME NEW e \in Enqueuers, AckEvent(e) PROVE MessageInv'
    BY <1>12 DEF AckEvent
<1>13. ASSUME NEW e \in Enqueuers, ApiRequest(e) PROVE MessageInv'
    BY <1>13 DEF ApiRequest
<1>14. ASSUME NEW e \in Enqueuers, DispatchDCIMError(e) PROVE MessageInv'
    BY <1>14 DEF DispatchDCIMError
<1>15. ASSUME NEW e \in Enqueuers, DispatchError(e) PROVE MessageInv'
    BY <1>15 DEF DispatchError
<1>16. ASSUME NEW e \in Enqueuers, CrashEnqueuer(e) PROVE MessageInv'
    BY <1>16 DEF CrashEnqueuer
<1>17. ASSUME NEW w \in Workers, NEW m \in Messages, FetchMessage(w, m) PROVE MessageInv'
    BY <1>17 DEF FetchMessage
<1>18. ASSUME NEW w \in Workers, Acquire(w) PROVE MessageInv'
    BY <1>18 DEF Acquire
<1>19. ASSUME NEW w \in Workers, NotAcquired(w) PROVE MessageInv'
    BY <1>19 DEF NotAcquired
<1>20. ASSUME NEW w \in Workers, clear_queued(w) PROVE MessageInv'
    BY <1>20 DEF clear_queued
<1>21. ASSUME NEW w \in Workers, get_render_data(w) PROVE MessageInv'
    BY <1>21 DEF get_render_data
<1>22. ASSUME NEW w \in Workers, persist_files(w) PROVE MessageInv'
    BY <1>22 DEF persist_files
<1>23. ASSUME NEW w \in Workers, load_file(w) PROVE MessageInv'
    BY <1>23 DEF load_file
<1>24. ASSUME NEW w \in Workers, upsert_intended_configuration(w) PROVE MessageInv'
    BY <1>24 DEF upsert_intended_configuration
<1>25. ASSUME NEW w \in Workers, AckMessage(w) PROVE MessageInv'
    BY <1>25 DEF AckMessage
<1>26. ASSUME NEW w \in Workers, NakMessage(w) PROVE MessageInv'
    BY <1>26 DEF NakMessage
<1>27. ASSUME NEW w \in Workers, Release(w) PROVE MessageInv'
    BY <1>27 DEF Release
<1>28. ASSUME NEW w \in Workers, StartRender(w) PROVE MessageInv'
    BY <1>28 DEF StartRender
<1>29. ASSUME NEW w \in Workers, RenderErrorSwallowed(w) PROVE MessageInv'
    BY <1>29 DEF RenderErrorSwallowed
<1>30. ASSUME NEW w \in Workers, RenderError(w) PROVE MessageInv'
    BY <1>30 DEF RenderError
<1>31. ASSUME NEW w \in Workers, CrashWorker(w) PROVE MessageInv'
    BY <1>31 DEF CrashWorker
<1>32. CASE UNCHANGED vars
    BY <1>32 DEF vars
<1>33. QED
    BY <1>1, <1>2, <1>3, <1>4, <1>5, <1>6, <1>7, <1>8, <1>9, <1>10, <1>11, <1>12,
       <1>13, <1>14, <1>15, <1>16, <1>17, <1>18, <1>19, <1>20, <1>21, <1>22, <1>23,
       <1>24, <1>25, <1>26, <1>27, <1>28, <1>29, <1>30, <1>31, <1>32
       DEF Next, Timers, EnqueueStep, RenderStep

LEMMA MessageInitially == Init => MessageInv
BY DEF Init, MessageInv

(* An enqueuer that has not marked the device has no part in the reason    *)
(* why the flag is set.                                                    *)
LEMMA SkippedKeepsFlag ==
    ASSUME TypeOK, EventInv, FlagInv, NEW e \in Enqueuers,
           pcE[e] \in {"check", "status", "mark"},
           \A f \in Enqueuers : f # e => pcE'[f] = pcE[f],
           UNCHANGED <<flag, evt, evtE, msg, msgW, pcW>>
    PROVE  FlagInv'
<1>1. Requested => Requested'
    BY ActorsAssumption DEF Requested, TypeOK, Enqueuers
<1>2. ASSUME flag \in 1..MaxChanges, Live(flag) PROVE Live(flag)'
    <2>1. evtE[e] # flag
      BY <1>2 DEF EventInv
    <2>2. QED
      BY <1>2, <2>1 DEF Live, TypeOK
<1>3. QED
    BY <1>1, <1>2 DEF FlagInv, Waiting

(* A message handed back, by a worker that had it or died with it, will be *)
(* delivered again.                                                        *)
LEMMA HandedBack ==
    ASSUME TypeOK, MessageInv, NEW w \in Workers, msgW[w] # NoOne,
           msgW' = [msgW EXCEPT ![w] = NoOne], msg'[msgW[w]] \in {"ready", msg[msgW[w]]}
    PROVE  \E m \in Messages : Waiting(m)'
<1>1. PICK m \in Messages : m = msgW[w]
    BY DEF TypeOK
<1>2. msg'[m] \in {"ready", "taken"} /\ \A v \in Workers : msgW'[v] # m
    BY <1>1, ActorsAssumption DEF TypeOK, MessageInv
<1>3. QED
    BY <1>2 DEF Waiting

(* Every step keeps the reason why the flag is set.                        *)
LEMMA FlagStep ==
    ASSUME FlagKeptUp, TypeOK, EventInv, MessageInv, FlagInv, [Next]_vars
    PROVE  FlagInv'
<1> USE BoundsAssumption, ActorsAssumption
    DEF FlagKeptUp, FlagInv, Live, Waiting, Requested, TypeOK, Changes, NoFlag, GoE, GoW,
        May, redis, enq, work
<1>1. ASSUME NEW b \in BOOLEAN, Change(b) PROVE FlagInv'
    BY <1>1 DEF Change
<1>2. ASSUME NEW k \in 1..MaxChanges, RedeliverEvent(k) PROVE FlagInv'
    BY <1>2 DEF RedeliverEvent
<1>3. ASSUME NEW m \in Messages, RedeliverMessage(m) PROVE FlagInv'
    BY <1>3 DEF RedeliverMessage
<1>4. CASE FlagExpires
    BY <1>4 DEF FlagExpires
<1>5. CASE LockExpires
    BY <1>5 DEF LockExpires
<1>6. ASSUME NEW e \in Enqueuers, NEW k \in 1..MaxChanges, FetchEvent(e, k) PROVE FlagInv'
    BY <1>6 DEF FetchEvent
<1>7. ASSUME NEW e \in Enqueuers, is_queued(e) PROVE FlagInv'
  <2>1. pcE[e] \in {"check", "status"} /\ UNCHANGED <<flag, evt, evtE, msg, msgW, pcW>>
    BY <1>7 DEF is_queued
  <2>2. \A f \in Enqueuers : f # e => pcE'[f] = pcE[f]
    BY <1>7 DEF is_queued
  <2> HIDE DEF FlagInv, Live, Waiting, Requested, TypeOK, GoE, GoW, May
  <2>3. QED
    BY <2>1, <2>2, SkippedKeepsFlag
<1>8. ASSUME NEW e \in Enqueuers, should_run(e) PROVE FlagInv'
  <2>1. pcE[e] \in {"check", "status"} /\ UNCHANGED <<flag, evt, evtE, msg, msgW, pcW>>
    BY <1>8 DEF should_run
  <2>2. \A f \in Enqueuers : f # e => pcE'[f] = pcE[f]
    BY <1>8 DEF should_run
  <2> HIDE DEF FlagInv, Live, Waiting, Requested, TypeOK, GoE, GoW, May
  <2>3. QED
    BY <2>1, <2>2, SkippedKeepsFlag
<1>9. ASSUME NEW e \in Enqueuers, mark_queued(e) PROVE FlagInv'
  <2>1. flag' = evtE[e] /\ pcE' = [pcE EXCEPT ![e] = "publish"] /\ UNCHANGED <<evt, evtE>>
    BY <1>9 DEF mark_queued
  <2>2. CASE e \in EventConsumers
    <3>1. evtE[e] # 0 /\ evt[evtE[e]] = "taken"
      BY <1>9, <2>2 DEF EventInv, mark_queued
    <3>2. ASSUME NEW f \in Enqueuers, pcE'[f] = "ack" PROVE evtE[f] # evtE[e]
      BY <2>1, <3>1, <3>2 DEF EventInv
    <3>3. QED
      BY <2>1, <3>1, <3>2
  <2>3. CASE e \in ApiCallers
    BY <2>1, <2>3
  <2>4. QED
    BY <2>2, <2>3 DEF Enqueuers
<1>10. ASSUME NEW e \in Enqueuers, publish(e) PROVE FlagInv'
  <2>1. NewMessage
    BY <1>10 DEF publish
  <2>2. \E m \in Messages : Waiting(m)'
    BY <2>1 DEF NewMessage
  <2>3. QED
    BY <2>2
<1>11. ASSUME NEW e \in Enqueuers, ClearAfterError(e) PROVE FlagInv'
    BY <1>11 DEF ClearAfterError
<1>12. ASSUME NEW e \in Enqueuers, AckEvent(e) PROVE FlagInv'
    BY <1>12 DEF AckEvent
<1>13. ASSUME NEW e \in Enqueuers, ApiRequest(e) PROVE FlagInv'
    BY <1>13 DEF ApiRequest
<1>14. ASSUME NEW e \in Enqueuers, DispatchDCIMError(e) PROVE FlagInv'
  <2>1. pcE[e] \in {"check", "status"} /\ UNCHANGED <<flag, evt, evtE, msg, msgW, pcW>>
    BY <1>14 DEF DispatchDCIMError
  <2>2. \A f \in Enqueuers : f # e => pcE'[f] = pcE[f]
    BY <1>14 DEF DispatchDCIMError
  <2> HIDE DEF FlagInv, Live, Waiting, Requested, TypeOK, GoE, GoW, May
  <2>3. QED
    BY <2>1, <2>2, SkippedKeepsFlag
<1>15. ASSUME NEW e \in Enqueuers, DispatchError(e) PROVE FlagInv'
    BY <1>15 DEF DispatchError
<1>16. ASSUME NEW e \in Enqueuers, CrashEnqueuer(e) PROVE FlagInv'
    BY <1>16 DEF CrashEnqueuer
<1>17. ASSUME NEW w \in Workers, NEW m \in Messages, FetchMessage(w, m) PROVE FlagInv'
    BY <1>17 DEF FetchMessage
<1>18. ASSUME NEW w \in Workers, Acquire(w) PROVE FlagInv'
  <2>1. pcW[w] = "lock" /\ UNCHANGED <<flag, evt, pcE, evtE, msg, msgW>>
    BY <1>18 DEF Acquire
  <2>2. pcW' = [pcW EXCEPT ![w] = IF w \in DeviceConsumers THEN "clear" ELSE "read"]
    BY <1>18 DEF Acquire
  <2>3. msgW[w] # NoOne => pcW'[w] = "clear"
    BY <2>2 DEF MessageInv
  <2>4. QED
    BY <2>1, <2>2, <2>3
<1>19. ASSUME NEW w \in Workers, NotAcquired(w) PROVE FlagInv'
  <2>1. CASE w \in DeviceConsumers
    <3>1. msgW[w] # NoOne /\ msg'[msgW[w]] = "ready" /\ msgW' = [msgW EXCEPT ![w] = NoOne]
      <4>1. pcW[w] = "lock"
        BY <1>19 DEF NotAcquired
      <4>2. msgW[w] # NoOne
        BY <2>1, <4>1 DEF MessageInv
      <4>3. msg[msgW[w]] = "taken" /\ msgW[w] \in Messages
        BY <4>2 DEF MessageInv
      <4>4. QED
        BY <1>19, <2>1, <4>2, <4>3 DEF NotAcquired
    <3>2. QED
      BY <3>1, HandedBack
  <2>2. CASE w \notin DeviceConsumers
    <3>1. /\ pcW' = [pcW EXCEPT ![w] = "end"] /\ msgW[w] = NoOne
          /\ UNCHANGED <<flag, evt, pcE, evtE, msg, msgW>>
      BY <1>19, <2>2 DEF NotAcquired, MessageInv
    <3>2. QED
      BY <3>1
  <2>3. QED
    BY <2>1, <2>2
<1>20. ASSUME NEW w \in Workers, clear_queued(w) PROVE FlagInv'
    BY <1>20 DEF clear_queued
<1>21. ASSUME NEW w \in Workers, get_render_data(w) PROVE FlagInv'
    BY <1>21 DEF get_render_data
<1>22. ASSUME NEW w \in Workers, persist_files(w) PROVE FlagInv'
    BY <1>22 DEF persist_files
<1>23. ASSUME NEW w \in Workers, load_file(w) PROVE FlagInv'
    BY <1>23 DEF load_file
<1>24. ASSUME NEW w \in Workers, upsert_intended_configuration(w) PROVE FlagInv'
    BY <1>24 DEF upsert_intended_configuration
<1>25. ASSUME NEW w \in Workers, AckMessage(w) PROVE FlagInv'
  <2>1. /\ pcW[w] = "ack" /\ pcW' = [pcW EXCEPT ![w] = "release"]
        /\ msgW' = [msgW EXCEPT ![w] = NoOne] /\ UNCHANGED <<flag, evt, pcE, evtE>>
        /\ msg' = [m \in Messages |-> IF m = msgW[w] THEN "none" ELSE msg[m]]
    BY <1>25 DEF AckMessage
  <2>2. ASSUME NEW m \in Messages, Waiting(m) PROVE Waiting(m)'
    BY <2>1, <2>2 DEF MessageInv
  <2>3. QED
    BY <2>1, <2>2
<1>26. ASSUME NEW w \in Workers, NakMessage(w) PROVE FlagInv'
  <2>1. CASE msgW[w] # NoOne
    <3>1. msgW' = [msgW EXCEPT ![w] = NoOne] /\ msg'[msgW[w]] \in {"ready", msg[msgW[w]]}
      BY <1>26, <2>1 DEF NakMessage
    <3>2. QED
      BY <2>1, <3>1, HandedBack
  <2>2. CASE msgW[w] = NoOne
    <3>1. msg' = msg /\ msgW' = msgW /\ UNCHANGED <<flag, evt, pcE, evtE>>
      BY <1>26, <2>2 DEF NakMessage
    <3>2. \A v \in Workers : msgW[v] # NoOne => pcW'[v] = pcW[v]
      BY <1>26, <2>2 DEF NakMessage
    <3>3. QED
      BY <3>1, <3>2
  <2>3. QED
    BY <2>1, <2>2
<1>27. ASSUME NEW w \in Workers, Release(w) PROVE FlagInv'
    BY <1>27 DEF Release
<1>28. ASSUME NEW w \in Workers, StartRender(w) PROVE FlagInv'
    BY <1>28 DEF StartRender
<1>29. ASSUME NEW w \in Workers, RenderErrorSwallowed(w) PROVE FlagInv'
    BY <1>29 DEF RenderErrorSwallowed
<1>30. ASSUME NEW w \in Workers, RenderError(w) PROVE FlagInv'
    BY <1>30 DEF RenderError
<1>31. ASSUME NEW w \in Workers, CrashWorker(w) PROVE FlagInv'
  <2>1. CASE msgW[w] # NoOne
    <3>1. msgW' = [msgW EXCEPT ![w] = NoOne] /\ msg'[msgW[w]] \in {"ready", msg[msgW[w]]}
      BY <1>31, <2>1 DEF CrashWorker
    <3>2. QED
      BY <2>1, <3>1, HandedBack
  <2>2. CASE msgW[w] = NoOne
    <3>1. msg' = msg /\ msgW' = msgW /\ UNCHANGED <<flag, evt, pcE, evtE>>
      BY <1>31, <2>2 DEF CrashWorker
    <3>2. \A v \in Workers : msgW[v] # NoOne => pcW'[v] = pcW[v]
      BY <1>31, <2>2 DEF CrashWorker
    <3>3. QED
      BY <3>1, <3>2
  <2>3. QED
    BY <2>1, <2>2
<1>32. CASE UNCHANGED vars
    BY <1>32 DEF vars
<1>33. QED
    BY <1>1, <1>2, <1>3, <1>4, <1>5, <1>6, <1>7, <1>8, <1>9, <1>10, <1>11, <1>12,
       <1>13, <1>14, <1>15, <1>16, <1>17, <1>18, <1>19, <1>20, <1>21, <1>22, <1>23,
       <1>24, <1>25, <1>26, <1>27, <1>28, <1>29, <1>30, <1>31, <1>32
       DEF Next, Timers, EnqueueStep, RenderStep

LEMMA FlagInitially == Init => FlagInv
BY DEF Init, FlagInv

(* The flag stands for a render to come, whatever render errors, errors of *)
(* the DCIM and stopped consumers there are: an event or a request that is *)
(* skipped because of it is not skipped in vain.                           *)
THEOREM FlagPending == FlagKeptUp => (Spec => []FlagMeansPending)
<1> SUFFICES ASSUME FlagKeptUp PROVE Spec => []FlagMeansPending
    OBVIOUS
<1> DEFINE Inv == TypeOK /\ EventInv /\ MessageInv /\ FlagInv
<1>1. Init => Inv
    BY TypeInitially, EventInitially, MessageInitially, FlagInitially
<1>2. Inv /\ [Next]_vars => Inv'
    BY TypeStep, EventStep, MessageStep, FlagStep DEF FlagKeptUp
<1>3. Inv => FlagMeansPending
    BY BoundsAssumption
       DEF FlagInv, FlagMeansPending, Live, Waiting, Requested, RenderQueued, Enqueuers
<1> HIDE DEF Inv
<1>4. QED
    BY <1>1, <1>2, <1>3, PTL DEF Spec

-----------------------------------------------------------------------------
(* No enqueuer clears the flag after an error: there are none. *)
NoErrorInv == \A e \in Enqueuers : pcE[e] # "clear"

LEMMA NoErrorStep ==
    ASSUME OnlyCrashes, TypeOK, NoErrorInv, [Next]_vars
    PROVE  NoErrorInv'
<1> USE DEF OnlyCrashes, TypeOK, NoErrorInv, GoE, May, enq
<1>1. ASSUME NEW b \in BOOLEAN, Change(b) PROVE NoErrorInv'
    BY <1>1 DEF Change
<1>2. ASSUME NEW k \in 1..MaxChanges, RedeliverEvent(k) PROVE NoErrorInv'
    BY <1>2 DEF RedeliverEvent
<1>3. ASSUME NEW m \in Messages, RedeliverMessage(m) PROVE NoErrorInv'
    BY <1>3 DEF RedeliverMessage
<1>4. CASE FlagExpires
    BY <1>4 DEF FlagExpires
<1>5. CASE LockExpires
    BY <1>5 DEF LockExpires
<1>6. ASSUME NEW e \in Enqueuers, NEW k \in 1..MaxChanges, FetchEvent(e, k) PROVE NoErrorInv'
    BY <1>6 DEF FetchEvent
<1>7. ASSUME NEW e \in Enqueuers, is_queued(e) PROVE NoErrorInv'
    BY <1>7 DEF is_queued
<1>8. ASSUME NEW e \in Enqueuers, should_run(e) PROVE NoErrorInv'
    BY <1>8 DEF should_run
<1>9. ASSUME NEW e \in Enqueuers, mark_queued(e) PROVE NoErrorInv'
    BY <1>9 DEF mark_queued
<1>10. ASSUME NEW e \in Enqueuers, publish(e) PROVE NoErrorInv'
    BY <1>10 DEF publish
<1>11. ASSUME NEW e \in Enqueuers, ClearAfterError(e) PROVE NoErrorInv'
    BY <1>11 DEF ClearAfterError
<1>12. ASSUME NEW e \in Enqueuers, AckEvent(e) PROVE NoErrorInv'
    BY <1>12 DEF AckEvent
<1>13. ASSUME NEW e \in Enqueuers, ApiRequest(e) PROVE NoErrorInv'
    BY <1>13 DEF ApiRequest
<1>14. ASSUME NEW e \in Enqueuers, DispatchDCIMError(e) PROVE NoErrorInv'
    BY <1>14 DEF DispatchDCIMError
<1>15. ASSUME NEW e \in Enqueuers, DispatchError(e) PROVE NoErrorInv'
    BY <1>15 DEF DispatchError
<1>16. ASSUME NEW e \in Enqueuers, CrashEnqueuer(e) PROVE NoErrorInv'
    BY <1>16 DEF CrashEnqueuer
<1>17. ASSUME NEW w \in Workers, NEW m \in Messages, FetchMessage(w, m) PROVE NoErrorInv'
    BY <1>17 DEF FetchMessage
<1>18. ASSUME NEW w \in Workers, Acquire(w) PROVE NoErrorInv'
    BY <1>18 DEF Acquire
<1>19. ASSUME NEW w \in Workers, NotAcquired(w) PROVE NoErrorInv'
    BY <1>19 DEF NotAcquired
<1>20. ASSUME NEW w \in Workers, clear_queued(w) PROVE NoErrorInv'
    BY <1>20 DEF clear_queued
<1>21. ASSUME NEW w \in Workers, get_render_data(w) PROVE NoErrorInv'
    BY <1>21 DEF get_render_data
<1>22. ASSUME NEW w \in Workers, persist_files(w) PROVE NoErrorInv'
    BY <1>22 DEF persist_files
<1>23. ASSUME NEW w \in Workers, load_file(w) PROVE NoErrorInv'
    BY <1>23 DEF load_file
<1>24. ASSUME NEW w \in Workers, upsert_intended_configuration(w) PROVE NoErrorInv'
    BY <1>24 DEF upsert_intended_configuration
<1>25. ASSUME NEW w \in Workers, AckMessage(w) PROVE NoErrorInv'
    BY <1>25 DEF AckMessage
<1>26. ASSUME NEW w \in Workers, NakMessage(w) PROVE NoErrorInv'
    BY <1>26 DEF NakMessage
<1>27. ASSUME NEW w \in Workers, Release(w) PROVE NoErrorInv'
    BY <1>27 DEF Release
<1>28. ASSUME NEW w \in Workers, StartRender(w) PROVE NoErrorInv'
    BY <1>28 DEF StartRender
<1>29. ASSUME NEW w \in Workers, RenderErrorSwallowed(w) PROVE NoErrorInv'
    BY <1>29 DEF RenderErrorSwallowed
<1>30. ASSUME NEW w \in Workers, RenderError(w) PROVE NoErrorInv'
    BY <1>30 DEF RenderError
<1>31. ASSUME NEW w \in Workers, CrashWorker(w) PROVE NoErrorInv'
    BY <1>31 DEF CrashWorker
<1>32. CASE UNCHANGED vars
    BY <1>32 DEF vars
<1>33. QED
    BY <1>1, <1>2, <1>3, <1>4, <1>5, <1>6, <1>7, <1>8, <1>9, <1>10, <1>11, <1>12,
       <1>13, <1>14, <1>15, <1>16, <1>17, <1>18, <1>19, <1>20, <1>21, <1>22, <1>23,
       <1>24, <1>25, <1>26, <1>27, <1>28, <1>29, <1>30, <1>31, <1>32
       DEF Next, Timers, EnqueueStep, RenderStep

(* A flag that is set stands for a render that reads the latest data. *)
LEMMA FlaggedIsPending ==
    ASSUME FlagInv', flag' # NoFlag
    PROVE  PendingInv'
BY DEF FlagInv, PendingInv, WillRender, NoFlag

(* Every step keeps a reason why the latest change will be rendered. *)
LEMMA PendingStep ==
    ASSUME OnlyCrashes, TypeOK, DataInv, EventInv, MessageInv, NoErrorInv, FlagInv', PendingInv,
           [Next]_vars
    PROVE  PendingInv'
<1> USE BoundsAssumption, ActorsAssumption
    DEF OnlyCrashes, PendingInv, Live, Waiting, Requested, WillRender, TypeOK, Changes,
        NoFlag, GoE, GoW, May, redis, enq, work
<1>1. ASSUME NEW b \in BOOLEAN, Change(b) PROVE PendingInv'
  <2>1. PICK k \in 1..MaxChanges : k = dcim + 1
    BY <1>1 DEF Change
  <2>2. evt' = [evt EXCEPT ![k] = "ready"] /\ UNCHANGED <<pcE, evtE>>
    BY <1>1, <2>1 DEF Change
  <2>3. evt[k] = "none"
    BY <2>1 DEF EventInv
  <2>4. ASSUME NEW e \in Enqueuers, evtE[e] = k PROVE FALSE
    <3>1. evtE[e] # 0
      BY <2>4
    <3>2. evt[evtE[e]] = "taken"
      BY <3>1 DEF EventInv
    <3>3. QED
      BY <2>3, <2>4, <3>2
  <2>5. Live(k)'
    BY <2>2, <2>4
  <2>6. QED
    BY <2>5
<1>2. ASSUME NEW k \in 1..MaxChanges, RedeliverEvent(k) PROVE PendingInv'
    BY <1>2 DEF RedeliverEvent
<1>3. ASSUME NEW m \in Messages, RedeliverMessage(m) PROVE PendingInv'
    BY <1>3 DEF RedeliverMessage
<1>4. CASE FlagExpires
    BY <1>4 DEF FlagExpires
<1>5. CASE LockExpires
    BY <1>5 DEF LockExpires
<1>6. ASSUME NEW e \in Enqueuers, NEW k \in 1..MaxChanges, FetchEvent(e, k) PROVE PendingInv'
    BY <1>6 DEF FetchEvent
<1>7. ASSUME NEW e \in Enqueuers, is_queued(e) PROVE PendingInv'
  <2>1. CASE flag # NoFlag
    <3>1. flag' # NoFlag
      BY <1>7, <2>1 DEF is_queued
    <3>2. QED
      BY <3>1, FlaggedIsPending
  <2>2. CASE flag = NoFlag
    BY <1>7, <2>2 DEF is_queued
  <2>3. QED
    BY <2>1, <2>2
<1>8. ASSUME NEW e \in Enqueuers, should_run(e) PROVE PendingInv'
  <2>1. pcE[e] = "status" /\ UNCHANGED <<enabled, dcim, stored, data, evt, evtE, msg, msgW, pcW>>
    BY <1>8 DEF should_run
  <2>2. pcE' = [pcE EXCEPT ![e] = IF enabled THEN "mark" ELSE "ack"]
    BY <1>8 DEF should_run
  <2>3. CASE enabled
    <3>1. \A k \in 1..MaxChanges : Live(k) => Live(k)'
      BY <2>1, <2>2, <2>3
    <3>2. Requested => Requested'
      BY <2>1, <2>2 DEF Enqueuers
    <3>3. QED
      BY <2>1, <3>1, <3>2
  <2>4. CASE ~enabled
    BY <2>1, <2>4
  <2>5. QED
    BY <2>3, <2>4
<1>9. ASSUME NEW e \in Enqueuers, mark_queued(e) PROVE PendingInv'
  <2>1. flag' # NoFlag
    BY <1>9 DEF mark_queued
  <2>2. QED
    BY <2>1, FlaggedIsPending
<1>10. ASSUME NEW e \in Enqueuers, publish(e) PROVE PendingInv'
  <2>1. NewMessage
    BY <1>10 DEF publish
  <2>2. \E m \in Messages : Waiting(m)'
    BY <2>1 DEF NewMessage
  <2>3. QED
    BY <2>2
<1>11. ASSUME NEW e \in Enqueuers, ClearAfterError(e) PROVE PendingInv'
    BY <1>11 DEF ClearAfterError, NoErrorInv
<1>12. ASSUME NEW e \in Enqueuers, AckEvent(e) PROVE PendingInv'
    BY <1>12 DEF AckEvent
<1>13. ASSUME NEW e \in Enqueuers, ApiRequest(e) PROVE PendingInv'
    BY <1>13 DEF ApiRequest
<1>14. ASSUME NEW e \in Enqueuers, DispatchDCIMError(e) PROVE PendingInv'
    BY <1>14 DEF DispatchDCIMError
<1>15. ASSUME NEW e \in Enqueuers, DispatchError(e) PROVE PendingInv'
  <2>1. /\ pcE[e] = "check" /\ pcE' = [pcE EXCEPT ![e] = "idle"]
        /\ evtE' = [evtE EXCEPT ![e] = 0]
        /\ evt' = [evt EXCEPT ![evtE[e]] = IF @ = "taken" THEN "ready" ELSE @]
        /\ UNCHANGED <<enabled, dcim, stored, data, msg, msgW, pcW>>
    BY <1>15 DEF DispatchError
  <2>2. \A k \in 1..MaxChanges : Live(k) => Live(k)'
    BY <2>1
  <2>3. Requested => Requested'
    BY <2>1 DEF Enqueuers
  <2>4. (\E m \in Messages : Waiting(m)) => \E m \in Messages : Waiting(m)'
    BY <2>1
  <2>5. \A w \in Workers : WillRender(w) => WillRender(w)'
    BY <2>1
  <2>6. enabled' /\ stored' # dcim' => enabled /\ stored # dcim
    BY <2>1
  <2> HIDE DEF Live, Waiting, Requested, WillRender
  <2>7. QED
    BY <2>2, <2>3, <2>4, <2>5, <2>6
<1>16. ASSUME NEW e \in Enqueuers, CrashEnqueuer(e) PROVE PendingInv'
    BY <1>16 DEF CrashEnqueuer
<1>17. ASSUME NEW w \in Workers, NEW m \in Messages, FetchMessage(w, m) PROVE PendingInv'
    BY <1>17 DEF FetchMessage
<1>18. ASSUME NEW w \in Workers, Acquire(w) PROVE PendingInv'
    BY <1>18 DEF Acquire
<1>19. ASSUME NEW w \in Workers, NotAcquired(w) PROVE PendingInv'
  <2>1. CASE w \in DeviceConsumers
    <3>1. msgW[w] # NoOne /\ msg'[msgW[w]] = "ready" /\ msgW' = [msgW EXCEPT ![w] = NoOne]
      <4>1. pcW[w] = "lock"
        BY <1>19 DEF NotAcquired
      <4>2. msgW[w] # NoOne
        BY <2>1, <4>1 DEF MessageInv
      <4>3. msg[msgW[w]] = "taken" /\ msgW[w] \in Messages
        BY <4>2 DEF MessageInv
      <4>4. QED
        BY <1>19, <2>1, <4>2, <4>3 DEF NotAcquired
    <3>2. QED
      BY <3>1, HandedBack
  <2>2. CASE w \notin DeviceConsumers
    <3>1. /\ pcW' = [pcW EXCEPT ![w] = "end"] /\ msgW[w] = NoOne
          /\ UNCHANGED <<enabled, dcim, stored, data, evt, pcE, evtE, msg, msgW>>
      BY <1>19, <2>2 DEF NotAcquired, MessageInv
    <3>2. QED
      BY <3>1
  <2>3. QED
    BY <2>1, <2>2
<1>20. ASSUME NEW w \in Workers, clear_queued(w) PROVE PendingInv'
    BY <1>20 DEF clear_queued
<1>21. ASSUME NEW w \in Workers, get_render_data(w) PROVE PendingInv'
    BY <1>21 DEF get_render_data
<1>22. ASSUME NEW w \in Workers, persist_files(w) PROVE PendingInv'
  <2>1. pcW[w] = "store" /\ stored' = data[w]
        /\ UNCHANGED <<dcim, enabled, evt, pcE, evtE, msg, msgW, data>>
    BY <1>22 DEF persist_files
  <2>2. \A v \in Workers : v # w => pcW'[v] = pcW[v]
    BY <1>22 DEF persist_files
  <2>3. CASE data[w] = dcim
    BY <2>1, <2>3
  <2>4. CASE data[w] # dcim
    <3>1. stored # dcim /\ ~WillRender(w)
      BY <2>1, <2>4 DEF DataInv
    <3>2. \A v \in Workers : WillRender(v) => WillRender(v)'
      BY <2>1, <2>2, <3>1
    <3>3. QED
      BY <2>1, <3>1, <3>2
  <2>5. QED
    BY <2>3, <2>4
<1>23. ASSUME NEW w \in Workers, load_file(w) PROVE PendingInv'
    BY <1>23 DEF load_file
<1>24. ASSUME NEW w \in Workers, upsert_intended_configuration(w) PROVE PendingInv'
    BY <1>24 DEF upsert_intended_configuration
<1>25. ASSUME NEW w \in Workers, AckMessage(w) PROVE PendingInv'
  <2>1. /\ pcW[w] = "ack" /\ pcW' = [pcW EXCEPT ![w] = "release"]
        /\ msgW' = [msgW EXCEPT ![w] = NoOne]
        /\ UNCHANGED <<enabled, dcim, stored, data, evt, pcE, evtE>>
        /\ msg' = [m \in Messages |-> IF m = msgW[w] THEN "none" ELSE msg[m]]
    BY <1>25 DEF AckMessage
  <2>2. ASSUME NEW m \in Messages, Waiting(m) PROVE Waiting(m)'
    BY <2>1, <2>2 DEF MessageInv
  <2>3. QED
    BY <2>1, <2>2
<1>26. ASSUME NEW w \in Workers, NakMessage(w) PROVE PendingInv'
  <2>1. CASE msgW[w] # NoOne
    <3>1. msgW' = [msgW EXCEPT ![w] = NoOne] /\ msg'[msgW[w]] \in {"ready", msg[msgW[w]]}
      BY <1>26, <2>1 DEF NakMessage
    <3>2. QED
      BY <2>1, <3>1, HandedBack
  <2>2. CASE msgW[w] = NoOne
    <3>1. msg' = msg /\ msgW' = msgW /\ UNCHANGED <<enabled, dcim, stored, data, evt, pcE, evtE>>
      BY <1>26, <2>2 DEF NakMessage
    <3>2. \A v \in Workers : msgW[v] # NoOne => pcW'[v] = pcW[v]
      BY <1>26, <2>2 DEF NakMessage
    <3>3. QED
      BY <3>1, <3>2
  <2>3. QED
    BY <2>1, <2>2
<1>27. ASSUME NEW w \in Workers, Release(w) PROVE PendingInv'
    BY <1>27 DEF Release
<1>28. ASSUME NEW w \in Workers, StartRender(w) PROVE PendingInv'
    BY <1>28 DEF StartRender
<1>29. ASSUME NEW w \in Workers, RenderErrorSwallowed(w) PROVE PendingInv'
    BY <1>29 DEF RenderErrorSwallowed
<1>30. ASSUME NEW w \in Workers, RenderError(w) PROVE PendingInv'
    BY <1>30 DEF RenderError
<1>31. ASSUME NEW w \in Workers, CrashWorker(w) PROVE PendingInv'
  <2>1. CASE msgW[w] # NoOne
    <3>1. msgW' = [msgW EXCEPT ![w] = NoOne] /\ msg'[msgW[w]] \in {"ready", msg[msgW[w]]}
      BY <1>31, <2>1 DEF CrashWorker
    <3>2. QED
      BY <2>1, <3>1, HandedBack
  <2>2. CASE msgW[w] = NoOne
    <3>1. msg' = msg /\ msgW' = msgW /\ UNCHANGED <<enabled, dcim, stored, data, evt, pcE, evtE>>
      BY <1>31, <2>2 DEF CrashWorker
    <3>2. \A v \in Workers : msgW[v] # NoOne => pcW'[v] = pcW[v]
      BY <1>31, <2>2 DEF CrashWorker
    <3>3. QED
      BY <3>1, <3>2
  <2>3. QED
    BY <2>1, <2>2
<1>32. CASE UNCHANGED vars
    BY <1>32 DEF vars
<1> HIDE DEF PendingInv, Live, Waiting, Requested, WillRender, TypeOK, GoE, GoW, May
<1>33. QED
    BY <1>1, <1>2, <1>3, <1>4, <1>5, <1>6, <1>7, <1>8, <1>9, <1>10, <1>11, <1>12,
       <1>13, <1>14, <1>15, <1>16, <1>17, <1>18, <1>19, <1>20, <1>21, <1>22, <1>23,
       <1>24, <1>25, <1>26, <1>27, <1>28, <1>29, <1>30, <1>31, <1>32
       DEF Next, Timers, EnqueueStep, RenderStep

(* No change is lost, however often consumers of events and of messages    *)
(* stop, and messages and events are handed back: as long as the store     *)
(* does not show the latest change of an enabled device, something is on   *)
(* its way that reads it.                                                  *)
THEOREM ChangeKept == OnlyCrashes => (Spec => []NoChangeLost)
<1> SUFFICES ASSUME OnlyCrashes PROVE Spec => []NoChangeLost
    OBVIOUS
<1> DEFINE Inv == /\ TypeOK /\ LockInv /\ DataInv /\ EventInv /\ MessageInv
                  /\ FlagInv /\ NoErrorInv /\ PendingInv
<1>1. LeaseKept /\ FlagKeptUp /\ "slow" \notin Faults
    BY DEF OnlyCrashes, LeaseKept, FlagKeptUp
<1>2. Init => NoErrorInv /\ PendingInv
    BY DEF Init, NoErrorInv, PendingInv
<1>3. Init => Inv
    BY <1>2, TypeInitially, LockInitially, EventInitially, MessageInitially, FlagInitially
<1>4. ASSUME Inv, [Next]_vars PROVE Inv'
    <2>1. TypeOK' /\ LockInv' /\ DataInv' /\ EventInv' /\ MessageInv' /\ FlagInv' /\ NoErrorInv'
        BY <1>1, <1>4, TypeStep, LockStep, EventStep, MessageStep, FlagStep, NoErrorStep
    <2>2. PendingInv'
        BY <1>4, <2>1, PendingStep
    <2>3. QED
        BY <2>1, <2>2
<1>5. ASSUME Inv PROVE NoChangeLost
    <2>1. \A k \in 1..MaxChanges : Live(k) => k \in 1..dcim /\ evt[k] \in {"ready", "taken"}
        BY <1>5, BoundsAssumption DEF EventInv, Live, TypeOK, Changes
    <2>2. Requested => RenderQueued
        BY DEF Requested, RenderQueued, Enqueuers
    <2>3. (\E m \in Messages : Waiting(m)) => RenderQueued
        BY DEF Waiting, RenderQueued
    <2>4. QED
        BY <1>5, <2>1, <2>2, <2>3 DEF PendingInv, NoChangeLost
<1> HIDE DEF Inv
<1>6. QED
    BY <1>3, <1>4, <1>5, PTL DEF Spec
=============================================================================
