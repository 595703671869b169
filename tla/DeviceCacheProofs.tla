-------------------------- MODULE DeviceCacheProofs --------------------------
(***************************************************************************)
(* For any devices, names, requests and faults: the refresh, the requests  *)
(* and the deletion keep the cache and their own state in order.  That the *)
(* managed devices are found in the end is liveness, which TLC checks.     *)
(***************************************************************************)
EXTENDS DeviceCache, FunctionTheorems, FiniteSetTheorems, TLAPS

(* The refresh, the requests and the deletion as values of their types; a  *)
(* device the refresh is caching is no longer one to be cached.            *)
Refreshes == [pc : {"idle", "next", "index"}, device : Devices \cup {None}, listed : SUBSET Devices,
              names : [Devices -> Names \cup {None}], active_uuids : SUBSET Devices]
Requests == [pc : {"store", "index"}, device : Devices, name : Names] \cup {Idle}
Deletions == [pc : {"key", "index", "active"}, device : Devices, name : Names \cup {None}]
               \cup {Idle}

StoreInv == /\ name \in [Devices -> Names] /\ managed \subseteq Devices
            /\ entry \in [Devices -> Names \cup {None}]
            /\ index \in [Names -> Devices \cup {None}]
            /\ active \subseteq Devices
            /\ changes \in 0..MaxChanges /\ deletes \in 0..MaxDeletes /\ faults \in 0..MaxFaults
RefreshInv == /\ refresh \in Refreshes
              /\ refresh.pc = "index" <=> refresh.device # None
              /\ refresh.listed \cap refresh.active_uuids = {}
              /\ refresh.device \notin refresh.listed
PartiesInv == reader \in [Readers -> Requests] /\ delete \in Deletions

Inv == StoreInv /\ RefreshInv /\ PartiesInv

LEMMA TypeOfInv == Inv => TypeOK
BY DEF Inv, StoreInv, RefreshInv, PartiesInv, Refreshes, Requests, Deletions, TypeOK

-----------------------------------------------------------------------------
(* There are names enough for the devices to have different ones.          *)
LEMMA NamesSuffice ==
    \E f \in [Devices -> Names] : \A d, e \in Devices : f[d] = f[e] => d = e
<1> DEFINE m == Cardinality(Devices)
           n == Cardinality(Names)
<1>1. /\ m \in Nat /\ n \in Nat /\ m <= n
      /\ ExistsBijection(Devices, 1..m) /\ ExistsBijection(1..n, Names)
    <2>1. IsFiniteSet(Devices) /\ IsFiniteSet(Names) /\ n >= m
        BY CacheAssumption
    <2>2. m \in Nat /\ n \in Nat /\ ExistsBijection(1..m, Devices) /\ ExistsBijection(1..n, Names)
        BY <2>1, FS_CardinalityType
    <2>3. ExistsBijection(Devices, 1..m)
        BY <2>2, Fun_ExistsBijSymmetric
    <2>4. QED
        BY <2>1, <2>2, <2>3
<1>2. PICK g \in Bijection(Devices, 1..m) : TRUE
    BY <1>1 DEF ExistsBijection
<1>3. PICK h \in Bijection(1..n, Names) : TRUE
    BY <1>1 DEF ExistsBijection
<1> DEFINE f == [d \in Devices |-> h[g[d]]]
<1>4. /\ g \in [Devices -> 1..m] /\ \A d, e \in Devices : g[d] = g[e] => d = e
      /\ h \in [1..n -> Names] /\ \A i, j \in 1..n : h[i] = h[j] => i = j
    BY <1>2, <1>3 DEF Bijection, Injection, IsInjective
<1>5. 1..m \subseteq 1..n
    BY <1>1
<1>6. f \in [Devices -> Names] /\ \A d, e \in Devices : f[d] = f[e] => d = e
    BY <1>4, <1>5
<1>7. QED
    BY <1>6

LEMMA Initially == Init => Inv
<1> SUFFICES ASSUME Init PROVE Inv
    OBVIOUS
<1>1. name \in [Devices -> Names]
    BY NamesSuffice DEF Init
<1>2. 0 \in 0..MaxChanges /\ 0 \in 0..MaxDeletes /\ 0 \in 0..MaxFaults
    BY CacheAssumption
<1>3. StoreInv
    BY <1>1, <1>2 DEF Init, StoreInv
<1>4. RefreshInv
    <2>1. NoRefresh \in Refreshes
        BY DEF NoRefresh, Refreshes
    <2>2. QED
        BY <2>1, CacheAssumption DEF Init, RefreshInv, NoRefresh
<1>5. PartiesInv
    BY DEF Init, PartiesInv, Requests, Deletions
<1>6. QED
    BY <1>3, <1>4, <1>5 DEF Inv

-----------------------------------------------------------------------------
(* Each bound is kept. *)
LEMMA Counted ==
    /\ \A f : f \in 0..MaxFaults /\ f < MaxFaults => f + 1 \in 0..MaxFaults
    /\ \A c : c \in 0..MaxChanges /\ c < MaxChanges => c + 1 \in 0..MaxChanges
    /\ \A d : d \in 0..MaxDeletes /\ d < MaxDeletes => d + 1 \in 0..MaxDeletes
<1>1. MaxFaults \in Nat /\ MaxChanges \in Nat /\ MaxDeletes \in Nat
    BY CacheAssumption
<1>2. QED
    BY <1>1

LEMMA StoreStep ==
    ASSUME Inv, [Next]_vars
    PROVE  StoreInv'
<1> USE DEF Inv, StoreInv, RefreshInv, PartiesInv, dcim, cache
<1>1. ASSUME NEW d \in Devices, Change(d) PROVE StoreInv'
    BY <1>1, Counted DEF Change
<1>2. ASSUME NEW d \in Devices, Expire(d) PROVE StoreInv'
    BY <1>2 DEF Expire
<1>3. CASE get_managed_device_metadata
    BY <1>3 DEF get_managed_device_metadata
<1>4. ASSUME NEW d \in Devices, refresh_entry(d) PROVE StoreInv'
    BY <1>4 DEF refresh_entry, SetEntry, Refreshes
<1>5. CASE refresh_index
    BY <1>5 DEF refresh_index, SetIndex, Refreshes
<1>6. CASE refresh_device_fails
    BY <1>6, Counted DEF refresh_device_fails, Fault
<1>7. CASE replace_active_set
    BY <1>7, Counted DEF replace_active_set, Fault, Refreshes
<1>8. ASSUME NEW r \in Readers, NEW d \in Devices, get_device_metadata(r, d) PROVE StoreInv'
    BY <1>8 DEF get_device_metadata
<1>9. ASSUME NEW r \in Readers, read_store(r) PROVE StoreInv'
    BY <1>9 DEF read_store, SetEntry, Requests, Idle
<1>10. ASSUME NEW r \in Readers, read_index(r) PROVE StoreInv'
    BY <1>10 DEF read_index, SetIndex, Requests, Idle
<1>11. ASSUME NEW r \in Readers, read_fails(r) PROVE StoreInv'
    BY <1>11, Counted DEF read_fails, Fault
<1>12. ASSUME NEW d \in Devices, delete_lookup(d) PROVE StoreInv'
    BY <1>12, Counted DEF delete_lookup, Fault
<1>13. CASE delete_key
    BY <1>13 DEF delete_key
<1>14. CASE delete_index
    BY <1>14 DEF delete_index
<1>15. CASE delete_active
    BY <1>15, Counted DEF delete_active, Fault
<1>16. CASE delete_fails
    BY <1>16, Counted DEF delete_fails, Fault
<1>17. CASE UNCHANGED vars
    BY <1>17 DEF vars
<1> HIDE DEF Inv, StoreInv, RefreshInv, PartiesInv, dcim, cache
<1>18. QED
    BY <1>1, <1>2, <1>3, <1>4, <1>5, <1>6, <1>7, <1>8, <1>9, <1>10, <1>11, <1>12, <1>13, <1>14, <1>15, <1>16, <1>17
       DEF Next, RefreshStep, ReadStep, DeleteStep

LEMMA RefreshStepKeeps ==
    ASSUME Inv, [Next]_vars
    PROVE  RefreshInv'
<1> USE DEF Inv, RefreshInv, dcim, cache
<1>1. ASSUME NEW d \in Devices, Change(d) PROVE RefreshInv'
    BY <1>1 DEF Change
<1>2. ASSUME NEW d \in Devices, Expire(d) PROVE RefreshInv'
    BY <1>2 DEF Expire
<1>3. CASE get_managed_device_metadata
    BY <1>3, CacheAssumption DEF get_managed_device_metadata, StoreInv, Refreshes
<1>4. ASSUME NEW d \in Devices, refresh_entry(d) PROVE RefreshInv'
    BY <1>4, CacheAssumption DEF refresh_entry, Refreshes
<1>5. CASE refresh_index
    <2>1. /\ refresh.pc = "index"
          /\ refresh' = [refresh EXCEPT !.pc = "next", !.device = None,
                                        !.active_uuids = @ \cup {refresh.device}]
        BY <1>5 DEF refresh_index
    <2>2. refresh.device \in Devices /\ refresh.device \notin refresh.listed
        BY <2>1 DEF Refreshes
    <2>3. None \notin refresh.listed
        BY CacheAssumption DEF Refreshes
    <2>4. QED
        BY <2>1, <2>2, <2>3 DEF Refreshes
<1>6. CASE refresh_device_fails
    <2>1. ASSUME NEW d \in refresh.listed, refresh' = [refresh EXCEPT !.listed = @ \ {d}]
          PROVE  RefreshInv'
        BY <2>1 DEF Refreshes
    <2>2. ASSUME refresh.pc = "index", refresh' = [refresh EXCEPT !.pc = "next", !.device = None]
          PROVE  RefreshInv'
        BY <2>2, CacheAssumption DEF Refreshes
    <2>3. QED
        BY <1>6, <2>1, <2>2 DEF refresh_device_fails
<1>7. CASE replace_active_set
    BY <1>7, CacheAssumption DEF replace_active_set, Refreshes, NoRefresh
<1>8. ASSUME NEW r \in Readers, NEW d \in Devices, get_device_metadata(r, d) PROVE RefreshInv'
    BY <1>8 DEF get_device_metadata
<1>9. ASSUME NEW r \in Readers, read_store(r) PROVE RefreshInv'
    BY <1>9 DEF read_store
<1>10. ASSUME NEW r \in Readers, read_index(r) PROVE RefreshInv'
    BY <1>10 DEF read_index
<1>11. ASSUME NEW r \in Readers, read_fails(r) PROVE RefreshInv'
    BY <1>11 DEF read_fails
<1>12. ASSUME NEW d \in Devices, delete_lookup(d) PROVE RefreshInv'
    BY <1>12 DEF delete_lookup
<1>13. CASE delete_key
    BY <1>13 DEF delete_key
<1>14. CASE delete_index
    BY <1>14 DEF delete_index
<1>15. CASE delete_active
    BY <1>15 DEF delete_active
<1>16. CASE delete_fails
    BY <1>16 DEF delete_fails
<1>17. CASE UNCHANGED vars
    BY <1>17 DEF vars
<1> HIDE DEF Inv, RefreshInv, dcim, cache
<1>18. QED
    BY <1>1, <1>2, <1>3, <1>4, <1>5, <1>6, <1>7, <1>8, <1>9, <1>10, <1>11, <1>12, <1>13, <1>14, <1>15, <1>16, <1>17
       DEF Next, RefreshStep, ReadStep, DeleteStep

LEMMA PartiesStep ==
    ASSUME Inv, [Next]_vars
    PROVE  PartiesInv'
<1> USE DEF Inv, StoreInv, PartiesInv, dcim, cache
<1>1. ASSUME NEW d \in Devices, Change(d) PROVE PartiesInv'
    BY <1>1 DEF Change
<1>2. ASSUME NEW d \in Devices, Expire(d) PROVE PartiesInv'
    BY <1>2 DEF Expire
<1>3. CASE get_managed_device_metadata
    BY <1>3 DEF get_managed_device_metadata
<1>4. ASSUME NEW d \in Devices, refresh_entry(d) PROVE PartiesInv'
    BY <1>4 DEF refresh_entry
<1>5. CASE refresh_index
    BY <1>5 DEF refresh_index
<1>6. CASE refresh_device_fails
    BY <1>6 DEF refresh_device_fails
<1>7. CASE replace_active_set
    BY <1>7 DEF replace_active_set
<1>8. ASSUME NEW r \in Readers, NEW d \in Devices, get_device_metadata(r, d) PROVE PartiesInv'
    BY <1>8 DEF get_device_metadata, Requests, Idle
<1>9. ASSUME NEW r \in Readers, read_store(r) PROVE PartiesInv'
    BY <1>9 DEF read_store, Requests, Idle
<1>10. ASSUME NEW r \in Readers, read_index(r) PROVE PartiesInv'
    BY <1>10 DEF read_index, Requests, Idle
<1>11. ASSUME NEW r \in Readers, read_fails(r) PROVE PartiesInv'
    BY <1>11 DEF read_fails, Requests, Idle
<1>12. ASSUME NEW d \in Devices, delete_lookup(d) PROVE PartiesInv'
    BY <1>12 DEF delete_lookup, Deletions, Idle
<1>13. CASE delete_key
    BY <1>13 DEF delete_key, Deletions, Idle
<1>14. CASE delete_index
    BY <1>14 DEF delete_index, Deletions, Idle
<1>15. CASE delete_active
    BY <1>15 DEF delete_active, Deletions, Idle
<1>16. CASE delete_fails
    BY <1>16 DEF delete_fails, Deletions, Idle
<1>17. CASE UNCHANGED vars
    BY <1>17 DEF vars
<1> HIDE DEF Inv, StoreInv, PartiesInv, dcim, cache
<1>18. QED
    BY <1>1, <1>2, <1>3, <1>4, <1>5, <1>6, <1>7, <1>8, <1>9, <1>10, <1>11, <1>12, <1>13, <1>14, <1>15, <1>16, <1>17
       DEF Next, RefreshStep, ReadStep, DeleteStep

(***************************************************************************)
(* The cache and what its three writers remember between two calls keep    *)
(* their types: a refresh that has indexed a device has it no longer on    *)
(* its list, and is indexing one only between the two calls for it.        *)
(***************************************************************************)
THEOREM TypeCorrect == Spec => []TypeOK
<1>1. Inv /\ [Next]_vars => Inv'
    BY StoreStep, RefreshStepKeeps, PartiesStep DEF Inv
<1>2. QED
    BY <1>1, Initially, TypeOfInv, PTL DEF Spec
=============================================================================
