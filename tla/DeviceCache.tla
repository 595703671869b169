----------------------------- MODULE DeviceCache ----------------------------
(***************************************************************************)
(* The Config Store's cache of device metadata in Redis                    *)
(* (config_store/core/device_cache_redis.py).  Three parties write it      *)
(* without a lock or a transaction: the refresh service, which lists the   *)
(* managed devices of the DCIM, caches them one by one and then replaces   *)
(* the set of active devices; API requests that miss an entry and fetch    *)
(* it; and the deletion of a device.  Between any two calls of one party   *)
(* the others, and the DCIM, go on.                                        *)
(*                                                                         *)
(* Of a device's metadata only its name counts: the index leads from names *)
(* to devices, and a search returns what is cached for them.               *)
(***************************************************************************)
EXTENDS Naturals, FiniteSets

CONSTANTS Devices, Names, Readers,
          MaxChanges,   \* bound: changes in the DCIM
          MaxDeletes,   \* bound: deletions of a device
          MaxFaults,    \* bound: calls that Redis fails
          None

ASSUME CacheAssumption ==
    /\ IsFiniteSet(Devices) /\ IsFiniteSet(Names) /\ Devices # {}
    /\ Cardinality(Names) >= Cardinality(Devices)
    /\ {MaxChanges, MaxDeletes, MaxFaults} \subseteq Nat
    /\ None \notin Devices \cup Names

VARIABLES
    name,      \* the DCIM: the devices' names, all different
    managed,   \* and the devices that are managed
    entry,     \* config_store_device:<id>, the name in it, or None
    index,     \* config_store_device_index, name to device
    active,    \* config_store_active_device_set
    refresh,   \* the refresh service: its step, device, list and what it cached
    reader,    \* per request: its step, the device and the name it fetched
    delete,    \* the deletion: its step, the device and the name it found
    changes, deletes, faults

dcim == <<name, managed, changes>>
cache == <<entry, index, active>>
vars == <<dcim, cache, refresh, reader, delete, deletes, faults>>

Idle == [pc |-> "idle", device |-> None, name |-> None]
NoRefresh == [pc |-> "idle", device |-> None, listed |-> {},
              names |-> [d \in Devices |-> None],
              active_uuids |-> {}]

TypeOK ==
    /\ name \in [Devices -> Names] /\ managed \subseteq Devices
    /\ entry \in [Devices -> Names \cup {None}]
    /\ index \in [Names -> Devices \cup {None}]
    /\ active \subseteq Devices
    /\ refresh.pc \in {"idle", "next", "index"}
    /\ refresh.device \in Devices \cup {None}
    /\ refresh.pc = "index" <=> refresh.device # None
    /\ refresh.names \in [Devices -> Names \cup {None}]
    /\ refresh.listed \subseteq Devices /\ refresh.active_uuids \subseteq Devices
    /\ refresh.listed \cap refresh.active_uuids = {}
    /\ \A r \in Readers :
          reader[r] \in [pc : {"store", "index"}, device : Devices, name : Names] \cup {Idle}
    /\ delete \in [pc : {"key", "index", "active"}, device : Devices, name : Names \cup {None}]
                    \cup {Idle}
    /\ changes \in 0..MaxChanges /\ deletes \in 0..MaxDeletes /\ faults \in 0..MaxFaults

Init ==
    /\ name = CHOOSE f \in [Devices -> Names] : \A d, e \in Devices : f[d] = f[e] => d = e
    /\ managed = Devices
    /\ entry = [d \in Devices |-> None]
    /\ index = [n \in Names |-> None]
    /\ active = {}
    /\ refresh = NoRefresh
    /\ reader = [r \in Readers |-> Idle]
    /\ delete = Idle
    /\ changes = 0 /\ deletes = 0 /\ faults = 0

Fault == faults < MaxFaults /\ faults' = faults + 1

-----------------------------------------------------------------------------
(* The DCIM: a device is renamed, or begins or ceases to be managed.       *)
Change(d) ==
    /\ changes < MaxChanges /\ changes' = changes + 1
    /\ \/ /\ \E n \in Names : /\ \A e \in Devices : name[e] # n
                              /\ name' = [name EXCEPT ![d] = n]
          /\ UNCHANGED managed
       \/ /\ managed' = IF d \in managed THEN managed \ {d} ELSE managed \cup {d}
          /\ UNCHANGED name
    /\ UNCHANGED <<cache, refresh, reader, delete, deletes, faults>>

\* An entry lives for 24 hours, a managed device's is renewed every hour.
Expire(d) ==
    /\ d \notin managed /\ entry[d] # None
    /\ entry' = [entry EXCEPT ![d] = None]
    /\ UNCHANGED <<dcim, index, active, refresh, reader, delete, deletes, faults>>

-----------------------------------------------------------------------------
(* _cache_metadata, in its two calls.                                      *)

SetEntry(d, n) == entry' = [entry EXCEPT ![d] = n]

\* Variant: a name that is taken stays with its device.
IndexUnlessTaken(d, n) == index' = [index EXCEPT ![n] = IF @ = None THEN d ELSE @]

SetIndex(d, n) == index' = [index EXCEPT ![n] = d]

-----------------------------------------------------------------------------
(* refresh_all_devices, which background_cache_refresh_loop repeats.       *)

\* An empty list ends the refresh: what is active stays.
get_managed_device_metadata ==
    /\ refresh.pc = "idle" /\ managed # {}
    /\ refresh' = [refresh EXCEPT !.pc = "next", !.listed = managed, !.names = name,
                                  !.active_uuids = {}]
    /\ UNCHANGED <<dcim, cache, reader, delete, deletes, faults>>

\* Variant: a device counts as active before it is indexed.
RefreshEntryEarly(d) ==
    /\ refresh.pc = "next" /\ d \in refresh.listed
    /\ SetEntry(d, refresh.names[d])
    /\ refresh' = [refresh EXCEPT !.pc = "index", !.device = d,
                                  !.active_uuids = @ \cup {d}]
    /\ UNCHANGED <<dcim, index, active, reader, delete, deletes, faults>>

refresh_entry(d) ==
    /\ refresh.pc = "next" /\ d \in refresh.listed
    /\ SetEntry(d, refresh.names[d])
    /\ refresh' = [refresh EXCEPT !.pc = "index", !.device = d, !.listed = @ \ {d}]
    /\ UNCHANGED <<dcim, index, active, reader, delete, deletes, faults>>

refresh_index ==
    /\ refresh.pc = "index"
    /\ SetIndex(refresh.device, refresh.names[refresh.device])
    /\ refresh' = [refresh EXCEPT !.pc = "next", !.device = None,
                                  !.active_uuids = @ \cup {refresh.device}]
    /\ UNCHANGED <<dcim, entry, active, reader, delete, deletes, faults>>

\* Caching one device fails: it is left out of the active ones.
refresh_device_fails ==
    /\ refresh.pc \in {"next", "index"} /\ Fault
    /\ \/ \E d \in refresh.listed :
            /\ refresh.pc = "next"
            /\ refresh' = [refresh EXCEPT !.listed = @ \ {d}]
       \/ /\ refresh.pc = "index"
          /\ refresh' = [refresh EXCEPT !.pc = "next", !.device = None]
    /\ UNCHANGED <<dcim, cache, reader, delete, deletes>>

\* Variant: the set is added to.
AddToActiveSet ==
    /\ refresh.pc = "next" /\ refresh.listed = {}
    /\ active' = active \cup refresh.active_uuids
    /\ refresh' = NoRefresh
    /\ UNCHANGED <<dcim, entry, index, reader, delete, deletes, faults>>

\* One pipeline deletes and fills the set; its failure is only logged.
replace_active_set ==
    /\ refresh.pc = "next" /\ refresh.listed = {}
    /\ \/ active' = refresh.active_uuids /\ UNCHANGED faults
       \/ Fault /\ UNCHANGED active
    /\ refresh' = NoRefresh
    /\ UNCHANGED <<dcim, entry, index, reader, delete, deletes>>

-----------------------------------------------------------------------------
(* get_device_metadata and refresh_device of an API request.               *)

\* A miss: the request asks the DCIM, which knows unmanaged devices as well.
get_device_metadata(r, d) ==
    /\ reader[r] = Idle /\ entry[d] = None
    /\ reader' = [reader EXCEPT ![r] = [pc |-> "store", device |-> d, name |-> name[d]]]
    /\ UNCHANGED <<dcim, cache, refresh, delete, deletes, faults>>

read_store(r) ==
    /\ reader[r].pc = "store"
    /\ SetEntry(reader[r].device, reader[r].name)
    /\ reader' = [reader EXCEPT ![r].pc = "index"]
    /\ UNCHANGED <<dcim, index, active, refresh, delete, deletes, faults>>

read_index(r) ==
    /\ reader[r].pc = "index"
    /\ SetIndex(reader[r].device, reader[r].name)
    /\ reader' = [reader EXCEPT ![r] = Idle]
    /\ UNCHANGED <<dcim, entry, active, refresh, delete, deletes, faults>>

\* Redis fails: the request is answered without the cache.
read_fails(r) ==
    /\ reader[r] # Idle /\ Fault
    /\ reader' = [reader EXCEPT ![r] = Idle]
    /\ UNCHANGED <<dcim, cache, refresh, delete, deletes>>

-----------------------------------------------------------------------------
(* delete_device, after the configurations have been deleted.              *)

\* A read that fails is taken for a miss: the name stays in the index.
delete_lookup(d) ==
    /\ delete = Idle /\ deletes < MaxDeletes
    /\ deletes' = deletes + 1
    /\ \E found \in {entry[d], None} :
          /\ delete' = [pc |-> "key", device |-> d, name |-> found]
          /\ IF found = entry[d] THEN UNCHANGED faults ELSE Fault
    /\ UNCHANGED <<dcim, cache, refresh, reader>>

delete_key ==
    /\ delete.pc = "key"
    /\ entry' = [entry EXCEPT ![delete.device] = None]
    /\ delete' = [delete EXCEPT !.pc = IF delete.name # None THEN "index" ELSE "active"]
    /\ UNCHANGED <<dcim, index, active, refresh, reader, deletes, faults>>

\* The name found before is removed, whichever device it leads to by now.
delete_index ==
    /\ delete.pc = "index"
    /\ index' = [index EXCEPT ![delete.name] = None]
    /\ delete' = [delete EXCEPT !.pc = "active"]
    /\ UNCHANGED <<dcim, entry, active, refresh, reader, deletes, faults>>

\* A failure here is logged, and the device stays active.
delete_active ==
    /\ delete.pc = "active"
    /\ \/ active' = active \ {delete.device} /\ UNCHANGED faults
       \/ Fault /\ UNCHANGED active
    /\ delete' = Idle
    /\ UNCHANGED <<dcim, entry, index, refresh, reader, deletes>>

\* A failure before that ends the request, half done.
delete_fails ==
    /\ delete.pc \in {"key", "index"} /\ Fault
    /\ delete' = Idle
    /\ UNCHANGED <<dcim, cache, refresh, reader, deletes>>

-----------------------------------------------------------------------------
RefreshStep ==
    \/ get_managed_device_metadata \/ (\E d \in Devices : refresh_entry(d))
    \/ refresh_index \/ refresh_device_fails \/ replace_active_set

ReadStep(r) ==
    (\E d \in Devices : get_device_metadata(r, d)) \/ read_store(r) \/ read_index(r) \/ read_fails(r)

DeleteStep ==
    \/ (\E d \in Devices : delete_lookup(d))
    \/ delete_key \/ delete_index \/ delete_active \/ delete_fails

Next ==
    \/ \E d \in Devices : Change(d) \/ Expire(d)
    \/ RefreshStep \/ (\E r \in Readers : ReadStep(r)) \/ DeleteStep

\* Only the refresh service is bound to go on; requests may hang.
Spec == Init /\ [][Next]_vars /\ WF_vars(RefreshStep)

-----------------------------------------------------------------------------
(* A search for the device's name finds it, under that name, and it is not *)
(* hidden as inactive (search_devices).                                    *)
Found(d) == d \in active /\ index[name[d]] = d /\ entry[d] = name[d]

(***************************************************************************)
(* Whatever the writers did to each other - an old name written over a new *)
(* one, a deletion that removed another device's name - and whichever      *)
(* calls failed, every managed device is found in the end, and stays so.   *)
(***************************************************************************)
ManagedFound == <>[](\A d \in managed : Found(d))

(***************************************************************************)
(* "Devices no longer returned by the selected DCIM provider are hidden"   *)
(* (admin_v1.py, search_devices) in the end, also those that a refresh     *)
(* marked active again behind their deletion; unless no device is left,    *)
(* for then refresh_all_devices returns before it replaces the set.        *)
(***************************************************************************)
UnmanagedHidden == <>[](managed = {} \/ active \subseteq managed)
=============================================================================
