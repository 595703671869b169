--------------------------- MODULE RenderPipeline ---------------------------
(***************************************************************************)
(* How a change of a device in the DCIM reaches the Config Store.          *)
(*                                                                         *)
(*   DCIM --event--> PullDCIMConsumer --queued flag, message--> JetStream  *)
(*        --message--> PullDeviceChangeConsumer --render lock--> render    *)
(*        --> Config Store --> intended configuration in the DCIM          *)
(*                                                                         *)
(* Several replicas of both consumers run next to REST requests and the    *)
(* template updater; every await is a point where the others run.          *)
(* Streams redeliver what is not acknowledged, processes stop anywhere,    *)
(* and flag and lock are Redis keys that expire.  The module is about one  *)
(* device: flag, lock and rendered files are kept per device.              *)
(***************************************************************************)
EXTENDS Naturals, Sequences

CONSTANTS EventConsumers,  \* replicas that consume DCIM change events
          ApiCallers,      \* POST /batch and /all requests, which queue too
          DeviceConsumers, \* replicas that consume the render messages
          Renderers,       \* POST /render requests and template updater jobs
          Messages,        \* bound: the render messages there are at a time
          MaxChanges,      \* bound: the changes made in the DCIM
          MaxFaults,       \* bound: the crashes, losses and errors
          Faults,          \* the errors that are swallowed, and the timeouts
                           \* that are exceeded, besides crashes and naks
          DeployableChanges, \* the changes that show in a deployable file
          NoOne

ASSUME BoundsAssumption == MaxChanges \in Nat /\ MaxFaults \in Nat
ASSUME FaultsAssumption == Faults \subseteq {"publish", "dcim", "render", "store", "slow", "lease", "api"}
ASSUME DeployableAssumption == DeployableChanges \subseteq 1..MaxChanges
ASSUME ActorsAssumption ==
    /\ EventConsumers \cap ApiCallers = {}
    /\ DeviceConsumers \cap Renderers = {}
    /\ NoOne \notin DeviceConsumers \cup Renderers \cup Messages

Enqueuers == EventConsumers \cup ApiCallers
Workers == DeviceConsumers \cup Renderers
Changes == 0..MaxChanges

VARIABLES dcim,     \* the number of changes made to the device's data
          enabled,  \* render_enabled of the device
          evt,      \* delivery state of the event of each change
          flag,     \* the key <device>_queued: NoFlag, or the event that set it
          msg,      \* delivery state of each render message
          lock,     \* the Redis lock of the device
          pcE, evtE,             \* an enqueuer's next step, and its event
          pcW, msgW, data, ptr,  \* a worker's next step, message, render
                                 \* data and commit to record
          stored,   \* the change the files in the Config Store show
          synced,   \* the deployable change the DCIM's record points to
          faults    \* the kinds of the faults so far, in order

redis == <<flag, lock>>
enq == <<pcE, evtE>>
work == <<pcW, msgW, data, ptr>>
vars == <<dcim, enabled, evt, flag, msg, lock, pcE, evtE, pcW, msgW, data, ptr,
          stored, synced, faults>>

NoFlag == MaxChanges + 1
Delivery == {"none", "ready", "taken", "acked"}

(* A render is in progress between acquire and release of the lock. *)
Rendering == {"clear", "read", "store", "reload", "sync", "ack", "nak", "release"}

TypeOK ==
    /\ dcim \in Changes /\ stored \in Changes /\ synced \in Changes
    /\ enabled \in BOOLEAN
    /\ evt \in [1..MaxChanges -> Delivery]
    /\ msg \in [Messages -> {"none", "ready", "taken"}]
    /\ flag \in Changes \cup {NoFlag}
    /\ lock \in Workers \cup {NoOne}
    /\ pcE \in [Enqueuers -> {"idle", "check", "status", "mark", "publish", "clear", "ack", "end"}]
    /\ evtE \in [Enqueuers -> Changes]
    /\ pcW \in [Workers -> {"idle", "lock", "end"} \cup Rendering]
    /\ msgW \in [Workers -> Messages \cup {NoOne}]
    /\ data \in [Workers -> Changes]
    /\ ptr \in [Workers -> Changes]
    /\ faults \in Seq({"crash"} \cup Faults) /\ Len(faults) <= MaxFaults

Init ==
    /\ dcim = 0 /\ stored = 0 /\ synced = 0
    /\ enabled = TRUE
    /\ evt = [k \in 1..MaxChanges |-> "none"]
    /\ msg = [m \in Messages |-> "none"]
    /\ flag = NoFlag
    /\ lock = NoOne
    /\ pcE = [e \in Enqueuers |-> "idle"]
    /\ evtE = [e \in Enqueuers |-> 0]
    /\ pcW = [w \in Workers |-> "idle"]
    /\ msgW = [w \in Workers |-> NoOne]
    /\ data = [w \in Workers |-> 0]
    /\ ptr = [w \in Workers |-> 0]
    /\ faults = <<>>

Happens(kind) == Len(faults) < MaxFaults /\ faults' = Append(faults, kind)
Fault == Happens("crash")
May(kind) == kind \in Faults /\ Happens(kind)

GoE(e, step) == pcE' = [pcE EXCEPT ![e] = step]
GoW(w, step) == pcW' = [pcW EXCEPT ![w] = step]

(* The deployable file after change v is the one of the last deployable    *)
(* change up to v.                                                         *)
Deployed(v, d) ==
    \/ /\ d \in DeployableChanges /\ d <= v
       /\ \A k \in DeployableChanges : k <= v => k <= d
    \/ d = 0 /\ \A k \in DeployableChanges : k > v

-----------------------------------------------------------------------------
(* The DCIM and its change stream. *)

(* A change of the data, or of render_enabled, and the event it publishes. *)
Change(b) ==
    /\ dcim < MaxChanges
    /\ dcim' = dcim + 1
    /\ enabled' = b
    /\ evt' = [evt EXCEPT ![dcim + 1] = "ready"]
    /\ UNCHANGED <<redis, msg, enq, work, stored, synced, faults>>

(* A delivery not acknowledged within ack_wait (360 s) is repeated, whether *)
(* or not its consumer still works on it.  By then a flag set during that   *)
(* delivery has expired (60 s).                                             *)
RedeliverEvent(k) ==
    /\ evt[k] = "taken"
    /\ flag # k
    /\ \/ /\ \A e \in Enqueuers : evtE[e] # k
          /\ UNCHANGED faults
       \/ /\ \E e \in Enqueuers : evtE[e] = k
          /\ May("slow")
    /\ evt' = [evt EXCEPT ![k] = "ready"]
    /\ UNCHANGED <<dcim, enabled, redis, msg, enq, work, stored, synced>>

RedeliverMessage(m) ==
    /\ msg[m] = "taken"
    /\ \/ /\ \A w \in Workers : msgW[w] # m
          /\ UNCHANGED faults
       \/ /\ \E w \in Workers : msgW[w] = m
          /\ May("slow")
    /\ msg' = [msg EXCEPT ![m] = "ready"]
    /\ UNCHANGED <<dcim, enabled, evt, redis, enq, work, stored, synced>>

-----------------------------------------------------------------------------
(* Queueing: _process_single_device_enqueue, for an event or a request. *)

FetchEvent(e, k) ==
    /\ e \in EventConsumers /\ pcE[e] = "idle"
    /\ evt[k] = "ready"
    /\ evt' = [evt EXCEPT ![k] = "taken"]
    /\ evtE' = [evtE EXCEPT ![e] = k]
    /\ GoE(e, "check")
    /\ UNCHANGED <<dcim, enabled, redis, msg, work, stored, synced, faults>>

ApiRequest(e) ==
    /\ e \in ApiCallers /\ pcE[e] = "idle"
    /\ GoE(e, "check")
    /\ UNCHANGED <<dcim, enabled, evt, redis, msg, evtE, work, stored, synced, faults>>

(* The event is dispatched: its handler fails with a DCIMError, which is   *)
(* logged, and the event is acknowledged.                                  *)
DispatchDCIMError(e) ==
    /\ e \in EventConsumers /\ pcE[e] = "check"
    /\ May("dcim")
    /\ GoE(e, "ack")
    /\ UNCHANGED <<dcim, enabled, evt, redis, msg, evtE, work, stored, synced>>

(* Any other error of the dispatch negatively acknowledges the event. *)
DispatchError(e) ==
    /\ e \in EventConsumers /\ pcE[e] = "check"
    /\ Fault
    /\ evt' = [evt EXCEPT ![evtE[e]] = IF @ = "taken" THEN "ready" ELSE @]
    /\ evtE' = [evtE EXCEPT ![e] = 0]
    /\ GoE(e, "idle")
    /\ UNCHANGED <<dcim, enabled, redis, msg, work, stored, synced>>

(* A device that is queued already is skipped. *)
is_queued(e) ==
    /\ pcE[e] = "check"
    /\ GoE(e, IF flag # NoFlag THEN "ack" ELSE "status")
    /\ UNCHANGED <<dcim, enabled, evt, redis, msg, evtE, work, stored, synced, faults>>

(* A device that is not enabled for renders is not queued; an error of the *)
(* DCIM clears the flag, whoever set it.                                   *)
should_run(e) ==
    /\ pcE[e] = "status"
    /\ \/ /\ GoE(e, IF enabled THEN "mark" ELSE "ack")
          /\ UNCHANGED faults
       \/ /\ May("dcim")
          /\ GoE(e, "clear")
    /\ UNCHANGED <<dcim, enabled, evt, redis, msg, evtE, work, stored, synced>>

mark_queued(e) ==
    /\ pcE[e] = "mark"
    /\ flag' = evtE[e]
    /\ GoE(e, "publish")
    /\ UNCHANGED <<dcim, enabled, evt, lock, msg, evtE, work, stored, synced, faults>>

(* The stream has a new message, in a place nobody refers to any more. *)
NewMessage == \E m \in Messages : /\ msg[m] = "none"
                                  /\ \A w \in Workers : msgW[w] # m
                                  /\ msg' = [msg EXCEPT ![m] = "ready"]

(* A failed publish may have reached the stream all the same. *)
publish(e) ==
    /\ pcE[e] = "publish"
    /\ \/ /\ GoE(e, "ack")
          /\ UNCHANGED faults
          /\ NewMessage
       \/ /\ May("publish")
          /\ GoE(e, "clear")
          /\ UNCHANGED msg \/ NewMessage
    /\ UNCHANGED <<dcim, enabled, evt, redis, evtE, work, stored, synced>>

ClearAfterError(e) ==
    /\ pcE[e] = "clear"
    /\ flag' = NoFlag
    /\ GoE(e, "ack")
    /\ UNCHANGED <<dcim, enabled, evt, lock, msg, evtE, work, stored, synced, faults>>

(* The failures of queue_render_batch are logged, so that the event is     *)
(* acknowledged whatever became of the device; a request is answered.      *)
AckEvent(e) ==
    /\ pcE[e] = "ack"
    /\ evt' = [k \in 1..MaxChanges |-> IF k = evtE[e] THEN "acked" ELSE evt[k]]
    /\ evtE' = [evtE EXCEPT ![e] = 0]
    /\ GoE(e, IF e \in EventConsumers THEN "idle" ELSE "end")
    /\ UNCHANGED <<dcim, enabled, redis, msg, work, stored, synced, faults>>

(* The process stops, or its acknowledgement is lost: the event stays      *)
(* unacknowledged.  Nothing repeats a request whose process has stopped.   *)
CrashEnqueuer(e) ==
    /\ pcE[e] \notin {"idle", "end"}
    /\ IF e \in EventConsumers THEN Fault ELSE May("api")
    /\ evtE' = [evtE EXCEPT ![e] = 0]
    /\ GoE(e, IF e \in EventConsumers THEN "idle" ELSE "end")
    /\ UNCHANGED <<dcim, enabled, evt, redis, msg, work, stored, synced>>

(* The TTL of the flag (60 s). *)
FlagExpires ==
    /\ flag # NoFlag
    /\ flag' = NoFlag
    /\ UNCHANGED <<dcim, enabled, evt, lock, msg, enq, work, stored, synced, faults>>

-----------------------------------------------------------------------------
(* Rendering: a message, or a request or job without one. *)

FetchMessage(w, m) ==
    /\ w \in DeviceConsumers /\ pcW[w] = "idle"
    /\ msg[m] = "ready"
    /\ msg' = [msg EXCEPT ![m] = "taken"]
    /\ msgW' = [msgW EXCEPT ![w] = m]
    /\ GoW(w, "lock")
    /\ UNCHANGED <<dcim, enabled, evt, redis, enq, data, ptr, stored, synced, faults>>

StartRender(w) ==
    /\ w \in Renderers /\ pcW[w] = "idle"
    /\ GoW(w, "lock")
    /\ UNCHANGED <<dcim, enabled, evt, redis, msg, enq, msgW, data, ptr, stored, synced, faults>>

AcquireTwice(w) ==
    /\ pcW[w] = "lock"
    /\ lock' = w
    /\ GoW(w, IF w \in DeviceConsumers THEN "clear" ELSE "read")
    /\ UNCHANGED <<dcim, enabled, evt, flag, msg, enq, msgW, data, ptr, stored, synced, faults>>

Acquire(w) ==
    /\ pcW[w] = "lock" /\ lock = NoOne
    /\ lock' = w
    /\ GoW(w, IF w \in DeviceConsumers THEN "clear" ELSE "read")
    /\ UNCHANGED <<dcim, enabled, evt, flag, msg, enq, msgW, data, ptr, stored, synced, faults>>

(* A consumer does not wait for the lock: the message is delivered again,  *)
(* 5 s later.  A request or job gives up after its blocking_timeout.       *)
NotAcquired(w) ==
    /\ pcW[w] = "lock" /\ lock # NoOne
    /\ IF w \in DeviceConsumers
       THEN /\ msg' = [msg EXCEPT ![msgW[w]] = IF @ = "taken" THEN "ready" ELSE @]
            /\ msgW' = [msgW EXCEPT ![w] = NoOne]
            /\ GoW(w, "idle")
       ELSE /\ GoW(w, "end")
            /\ UNCHANGED <<msg, msgW>>
    /\ UNCHANGED <<dcim, enabled, evt, redis, enq, data, ptr, stored, synced, faults>>

FlagKept(w) ==
    /\ pcW[w] = "clear"
    /\ GoW(w, "read")
    /\ UNCHANGED <<dcim, enabled, evt, redis, msg, enq, msgW, data, ptr, stored, synced, faults>>

(* The flag is cleared before the data is read: a change made later finds  *)
(* no flag, an earlier one is in the data.                                 *)
clear_queued(w) ==
    /\ pcW[w] = "clear"
    /\ flag' = NoFlag
    /\ GoW(w, "read")
    /\ UNCHANGED <<dcim, enabled, evt, lock, msg, enq, msgW, data, ptr, stored, synced, faults>>

get_render_data(w) ==
    /\ pcW[w] = "read"
    /\ data' = [data EXCEPT ![w] = dcim]
    /\ GoW(w, "store")
    /\ UNCHANGED <<dcim, enabled, evt, redis, msg, enq, msgW, ptr, stored, synced, faults>>

(* Files that differ are stored in one batch.  The DCIM then gets the      *)
(* commit of the deployable file if that is new, and the latest commit if  *)
(* no file is new; otherwise only the template version is recorded.        *)
persist_files(w) ==
    /\ pcW[w] = "store"
    /\ stored' = data[w]
    /\ IF data[w] = stored
       THEN GoW(w, "reload") /\ UNCHANGED ptr
       ELSE \E old, new \in Changes :
              /\ Deployed(stored, old) /\ Deployed(data[w], new)
              /\ ptr' = [ptr EXCEPT ![w] = new]
              /\ GoW(w, IF old # new THEN "sync" ELSE "ack")
    /\ UNCHANGED <<dcim, enabled, evt, redis, msg, enq, msgW, data, synced, faults>>

load_file(w) ==
    /\ pcW[w] = "reload"
    /\ \E d \in Changes : Deployed(stored, d) /\ ptr' = [ptr EXCEPT ![w] = d]
    /\ GoW(w, "sync")
    /\ UNCHANGED <<dcim, enabled, evt, redis, msg, enq, msgW, data, stored, synced, faults>>

upsert_intended_configuration(w) ==
    /\ pcW[w] = "sync"
    /\ synced' = ptr[w]
    /\ GoW(w, "ack")
    /\ UNCHANGED <<dcim, enabled, evt, redis, msg, enq, msgW, data, ptr, stored, faults>>

(* RenderException, ConfigStoreException and DCIMError end the render, are *)
(* logged, and the message is acknowledged.                                *)
RenderErrorSwallowed(w) ==
    /\ \/ pcW[w] = "read" /\ May("render")
       \/ pcW[w] \in {"store", "reload"} /\ May("store")
       \/ pcW[w] \in {"read", "sync"} /\ May("dcim")
    /\ GoW(w, "ack")
    /\ UNCHANGED <<dcim, enabled, evt, redis, msg, enq, msgW, data, ptr, stored, synced>>

(* Any other error negatively acknowledges it. *)
RenderError(w) ==
    /\ pcW[w] \in {"clear", "read", "store", "reload", "sync"}
    /\ Fault
    /\ GoW(w, "nak")
    /\ UNCHANGED <<dcim, enabled, evt, redis, msg, enq, msgW, data, ptr, stored, synced>>

AckedStays(w) ==
    /\ pcW[w] = "ack"
    /\ msg' = [m \in Messages |-> IF m = msgW[w] THEN "acked" ELSE msg[m]]
    /\ msgW' = [msgW EXCEPT ![w] = NoOne]
    /\ GoW(w, "release")
    /\ UNCHANGED <<dcim, enabled, evt, redis, enq, data, ptr, stored, synced, faults>>

AckMessage(w) ==
    /\ pcW[w] = "ack"
    /\ msg' = [m \in Messages |-> IF m = msgW[w] THEN "none" ELSE msg[m]]
    /\ msgW' = [msgW EXCEPT ![w] = NoOne]
    /\ GoW(w, "release")
    /\ UNCHANGED <<dcim, enabled, evt, redis, enq, data, ptr, stored, synced, faults>>

NakDrops(w) ==
    /\ pcW[w] = "nak"
    /\ msg' = [m \in Messages |-> IF m = msgW[w] THEN "none" ELSE msg[m]]
    /\ msgW' = [msgW EXCEPT ![w] = NoOne]
    /\ GoW(w, "release")
    /\ UNCHANGED <<dcim, enabled, evt, redis, enq, data, ptr, stored, synced, faults>>

NakMessage(w) ==
    /\ pcW[w] = "nak"
    /\ msg' = [m \in Messages |->
                 IF m = msgW[w] /\ msg[m] = "taken" THEN "ready" ELSE msg[m]]
    /\ msgW' = [msgW EXCEPT ![w] = NoOne]
    /\ GoW(w, "release")
    /\ UNCHANGED <<dcim, enabled, evt, redis, enq, data, ptr, stored, synced, faults>>

(* Redis deletes the lock only if it still has the token of this worker. *)
Release(w) ==
    /\ pcW[w] = "release"
    /\ lock' = IF lock = w THEN NoOne ELSE lock
    /\ GoW(w, IF w \in DeviceConsumers THEN "idle" ELSE "end")
    /\ UNCHANGED <<dcim, enabled, evt, flag, msg, enq, msgW, data, ptr, stored, synced, faults>>

CrashWorker(w) ==
    /\ pcW[w] \notin {"idle", "end"}
    /\ Fault
    /\ msgW' = [msgW EXCEPT ![w] = NoOne]
    /\ GoW(w, IF w \in DeviceConsumers THEN "idle" ELSE "end")
    /\ UNCHANGED <<dcim, enabled, evt, redis, msg, enq, data, ptr, stored, synced>>

LockKept ==
    /\ lock # NoOne /\ pcW[lock] \in Rendering
    /\ May("lease")
    /\ lock' = NoOne
    /\ UNCHANGED <<dcim, enabled, evt, flag, msg, enq, work, stored, synced>>

(* The TTL of the lock (180 s): it frees the lock of a process that has    *)
(* stopped, and of one whose render takes longer.                          *)
LockExpires ==
    /\ lock # NoOne
    /\ \/ /\ pcW[lock] \notin Rendering
          /\ UNCHANGED faults
       \/ /\ pcW[lock] \in Rendering
          /\ May("lease")
    /\ lock' = NoOne
    /\ UNCHANGED <<dcim, enabled, evt, flag, msg, enq, work, stored, synced>>

-----------------------------------------------------------------------------
EnqueueStep(e) ==
    \/ \E k \in 1..MaxChanges : FetchEvent(e, k)
    \/ is_queued(e) \/ should_run(e) \/ mark_queued(e) \/ publish(e)
    \/ ClearAfterError(e) \/ AckEvent(e)

RenderStep(w) ==
    \/ \E m \in Messages : FetchMessage(w, m)
    \/ Acquire(w) \/ NotAcquired(w) \/ clear_queued(w) \/ get_render_data(w)
    \/ persist_files(w) \/ load_file(w) \/ upsert_intended_configuration(w)
    \/ AckMessage(w) \/ NakMessage(w) \/ Release(w)

Timers == \/ \E k \in 1..MaxChanges : RedeliverEvent(k)
          \/ \E m \in Messages : RedeliverMessage(m)
          \/ FlagExpires \/ LockExpires

Next ==
    \/ \E b \in BOOLEAN : Change(b)
    \/ Timers
    \/ \E e \in Enqueuers : \/ EnqueueStep(e) \/ ApiRequest(e)
                            \/ DispatchDCIMError(e) \/ DispatchError(e) \/ CrashEnqueuer(e)
    \/ \E w \in Workers : \/ RenderStep(w) \/ StartRender(w)
                          \/ RenderErrorSwallowed(w) \/ RenderError(w) \/ CrashWorker(w)

Spec == Init /\ [][Next]_vars

(* Consumers poll for ever and finish what they do unless they fail; NATS  *)
(* redelivers, and Redis expires its keys.                                 *)
Fairness ==
    /\ \A e \in Enqueuers : WF_vars(EnqueueStep(e))
    /\ \A w \in Workers : WF_vars(RenderStep(w))
    /\ WF_vars(FlagExpires)
    /\ WF_vars(LockExpires)
    /\ \A k \in 1..MaxChanges : WF_vars(RedeliverEvent(k))
    /\ \A m \in Messages : WF_vars(RedeliverMessage(m))

FairSpec == Spec /\ Fairness

-----------------------------------------------------------------------------
(* docs/render/render-service.mdx: "Redis-backed locks prevent concurrent  *)
(* renders for the same device across multiple consumer instances."        *)
RendersExclusive ==
    \A v, w \in Workers : pcW[v] \in Rendering /\ pcW[w] \in Rendering => v = w

(* The render of a message that will read, or has read, the latest data;   *)
(* a request or a job without a message may fail and not be repeated.      *)
WillRender(w) ==
    /\ msgW[w] # NoOne
    /\ \/ pcW[w] \in {"lock", "clear", "read", "nak"}
       \/ pcW[w] = "store" /\ data[w] = dcim

(* A message that is or will be delivered, or is about to be published. *)
RenderQueued ==
    \/ \E m \in Messages : msg[m] = "ready"
    \/ \E m \in Messages : msg[m] = "taken" /\ \A w \in Workers : msgW[w] # m
    \/ \E e \in Enqueuers : pcE[e] = "publish"

(* No change is lost: as long as the Config Store does not show the latest *)
(* change of an enabled device, an event, a message or a render is on its  *)
(* way that will.  This is what clearing the flag before reading the data, *)
(* and acknowledging only at the end, is for.                              *)
NoChangeLost ==
    enabled /\ stored # dcim =>
       \/ \E k \in 1..dcim : evt[k] \in {"ready", "taken"}
       \/ RenderQueued
       \/ \E w \in Workers : WillRender(w)

(* A device whose flag is set "already has a pending render", as the log   *)
(* message says when _process_single_device_enqueue skips a request for    *)
(* it, or at least an event that will be delivered again and queue one.    *)
FlagMeansPending ==
    flag # NoFlag =>
       \/ flag > 0 /\ evt[flag] \in {"ready", "taken"}
       \/ RenderQueued
       \/ \E w \in Workers : msgW[w] # NoOne /\ pcW[w] \in {"lock", "clear", "nak"}

(* The Config Store never goes back to an older render. *)
StoreNeverRegresses == [][stored' >= stored]_vars

(* A fault the service does not recover from: an error was logged and the  *)
(* event or message acknowledged all the same, a render outlived the lease *)
(* of its lock, or a request that had set the flag stopped before its      *)
(* message was published, while an event was skipped because of the flag.  *)
Swallowed == \E i \in DOMAIN faults : faults[i] \notin {"crash", "slow"}

(* Once the changes and the faults are over, the Config Store shows the    *)
(* last change and the DCIM points to the deployable file of it, however   *)
(* processes stopped and deliveries were repeated.                         *)
EventuallyFresh ==
    <>[](Swallowed \/ (enabled => stored = dcim /\ Deployed(stored, synced)))

(* Everything is worked off, whatever fails: every event and message is    *)
(* acknowledged and the lock is free.                                      *)
WorkDrains ==
    <>[](/\ \A k \in 1..dcim : evt[k] = "acked"
         /\ \A m \in Messages : msg[m] = "none"
         /\ lock = NoOne)
=============================================================================
