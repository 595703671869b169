-------------------------- MODULE MultiDeployProofs --------------------------
(* For any number of devices, batches, runs and faults: the batches partition  *)
(* the devices that have a diff, nothing is applied that no review has         *)
(* approved, and what the parent returns accounts for every device.            *)
EXTENDS MultiDeploy, FiniteSetTheorems, FunctionTheorems, TLAPS

\* The children's variables are functions of the batches.
ChildrenInv ==
  /\ child \in [DOMAIN child -> {"review", "apply", "backup", "backup_failed", "archive", "done", "failed"}]
  /\ attempt \in [DOMAIN child -> 1 .. MaxAttempts]
  /\ approved \in [DOMAIN child -> BOOLEAN]

\* Until the children are started nothing has been done; then there is one for
\* each batch.
Early == {"discover_devices", "discover_devices_failed", "collect_diffs", "group_and_batch",
          "start_batches", "start_batches_failed"}
StartInv ==
  /\ stage \in {"discover_devices", "discover_devices_failed"} =>
       devices = {} /\ \A d \in Devices : diff[d] = ""
  /\ stage \in {"discover_devices", "discover_devices_failed", "collect_diffs", "group_and_batch"} =>
       batches = <<>>
  /\ stage \in Early => totals = NoTotals /\ child = <<>> /\ batch_results = <<>>
  /\ DOMAIN child = {} => \A d \in Devices : outcome[d] = "none"
  /\ DOMAIN child = {} \/ DOMAIN child = DOMAIN batches
  /\ stage \in {"execute_batches", "archive"} => DOMAIN child = DOMAIN batches

\* A run of a child starts without a review, and its approval is remembered.
ApprovedInv ==
  /\ AppliesReviewed
  /\ \A i \in DOMAIN child : /\ child[i] = "review" => ~approved[i]
                             /\ approved[i] => i \in granted

\* A run of a child that archives what it has done has the result of each backup it
\* awaits; a run that is not approved has done nothing.
RunOf(i) ==
  /\ child[i] \in {"archive", "done"} /\ approved[i] => \A d \in Awaited(i) : backup[d] # "none"
  /\ ~approved[i] => \A d \in batches[i] : outcome[d] = "none"
RunInv == \A i \in DOMAIN child : RunOf(i)

\* The devices of a batch as the parent counts them.
Succeeded(i) == IF batch_results[i].error THEN {} ELSE batch_results[i].successful_devices
Lost(i) == IF batch_results[i].error THEN batches[i] ELSE batch_results[i].failed_devices
Refused(i) == IF batch_results[i].error \/ batch_results[i].approved THEN {} ELSE batches[i]

AllSucceeded == UNION {Succeeded(i) : i \in DOMAIN batch_results}
AllLost == UNION {Lost(i) : i \in DOMAIN batch_results}
AllRefused == UNION {Refused(i) : i \in DOMAIN batch_results}

\* A device of a batch that has been read is counted once, and has one backup if it was
\* configured.
PartsOf(i) ==
  /\ i \in DOMAIN batches
  /\ Succeeded(i) \cup Lost(i) \cup Refused(i) = batches[i]
  /\ Succeeded(i) \cap Lost(i) = {} /\ (Succeeded(i) \cup Lost(i)) \cap Refused(i) = {}
  /\ ~batch_results[i].error =>
       LET backups == batch_results[i].backups
       IN  /\ UniqueNames => backups.total = Succeeded(i)
           /\ backups.total \subseteq Devices
           /\ backups.successful \cup backups.failed = backups.total
           /\ backups.successful \cap backups.failed = {}
PartsInv == \A i \in DOMAIN batch_results : PartsOf(i)

\* The totals are those of the results read so far; before it archives, the parent has
\* read them all.
TotalsInv ==
  /\ UniqueNames => totals = [ successful |-> Cardinality(AllSucceeded),
                               failed |-> Cardinality(AllLost), rejected |-> Cardinality(AllRefused) ]
  /\ stage = "archive" => DOMAIN batch_results = DOMAIN batches

\* The steps of the children and their devices.
Work == \/ \E i \in DOMAIN child : \/ ChildStep(i) \/ ChildStops(i) \/ retry_backups(i)
                                   \/ Decision(i) \/ AppliesLate(i)
        \/ \E d \in Devices : DeviceStep(d) \/ ApplyBreaksOff(d)

\* A stage of the parent fails, or is run again.
Waiting == discover_devices_fails \/ start_batches_fails \/ retry

\* The steps of the parent that leave the children and the batches alone.
ParentAlone == \/ discover_devices \/ collect_diffs \/ archive_results \/ Waiting
               \/ \E i \in DOMAIN batches : collect_result(i)

-----------------------------------------------------------------------------
LEMMA Bounds == MaxAttempts \in Nat /\ 1 \in 1 .. MaxAttempts /\ MaxFaults \in Nat /\ 0 \in 0 .. MaxFaults
<1>1. MaxAttempts \in Nat \ {0} /\ MaxFaults \in Nat
    BY ConstantsAssumption
<1>2. QED
    BY <1>1

LEMMA FaultCounted == ASSUME faults \in 0 .. MaxFaults, Fault PROVE faults' \in 0 .. MaxFaults
BY Bounds DEF Fault

LEMMA RunCounted ==
  ASSUME NEW n \in 1 .. MaxAttempts
  PROVE  n < MaxAttempts => n + 1 \in 1 .. MaxAttempts
BY Bounds

-----------------------------------------------------------------------------
(* Counting devices                                                            *)

LEMMA NumberOfDevices == N \in Nat
BY ConstantsAssumption

LEMMA FiniteDevices ==
  ASSUME NEW S \in SUBSET Devices
  PROVE  IsFiniteSet(S) /\ Cardinality(S) \in Nat
<1>1. IsFiniteSet(1 .. N)
    BY NumberOfDevices, FS_Interval
<1>2. IsFiniteSet(S)
    BY <1>1, FS_Subset DEF Devices
<1>3. QED
    BY <1>2, FS_CardinalityType

LEMMA DisjointSum ==
  ASSUME NEW S \in SUBSET Devices, NEW T \in SUBSET Devices, S \cap T = {}
  PROVE  Cardinality(S \cup T) = Cardinality(S) + Cardinality(T)
<1>1. /\ IsFiniteSet(S) /\ IsFiniteSet(T)
      /\ Cardinality(S) \in Nat /\ Cardinality(T) \in Nat
    BY FiniteDevices
<1>2. Cardinality(S \cup T) = Cardinality(S) + Cardinality(T) - Cardinality(S \cap T)
    BY <1>1, FS_Union
<1>3. Cardinality(S \cap T) = 0
    BY FS_EmptySet
<1>4. QED
    BY <1>1, <1>2, <1>3

\* A bijection counts.
LEMMA SameNumber ==
  ASSUME NEW S, NEW T, NEW f \in [S -> T], IsFiniteSet(T),
         \A x, y \in S : f[x] = f[y] => x = y,
         \A y \in T : \E x \in S : f[x] = y
  PROVE  IsFiniteSet(S) /\ Cardinality(S) = Cardinality(T)
<1>1. f \in Injection(S, T)
    BY DEF Injection, IsInjective
<1>2. f \in Surjection(S, T)
    BY DEF Surjection
<1>3. QED
    BY <1>1, <1>2, FS_Injection

\* A list of devices by rank: the ranks of n devices are 0 .. n - 1.
LEMMA Ranks ==
  ASSUME NEW S \in SUBSET Devices, NEW r, r = [d \in S |-> Cardinality({e \in S : e < d})]
  PROVE  /\ r \in [S -> 0 .. Cardinality(S) - 1]
         /\ \A d, e \in S : r[d] = r[e] => d = e
         /\ \A k \in 0 .. Cardinality(S) - 1 : \E d \in S : r[d] = k
<1>1. IsFiniteSet(S) /\ Cardinality(S) \in Nat /\ \A d \in S : d \in Nat
    BY FiniteDevices, NumberOfDevices DEF Devices
<1>2. ASSUME NEW d \in S PROVE r[d] \in 0 .. Cardinality(S) - 1
    <2> DEFINE before == {e \in S : e < d}
    <2>1. before \subseteq S \ {d}
        BY <1>1
    <2>2. IsFiniteSet(S \ {d}) /\ Cardinality(S \ {d}) = Cardinality(S) - 1
        BY <1>1, FS_RemoveElement
    <2>3. Cardinality(before) <= Cardinality(S \ {d})
        BY <2>1, <2>2, FS_Subset
    <2>4. Cardinality(before) \in Nat
        BY FiniteDevices
    <2>5. r[d] = Cardinality(before)
        OBVIOUS
    <2> HIDE DEF before
    <2>6. QED
        BY <1>1, <2>2, <2>3, <2>4, <2>5
<1>3. ASSUME NEW d \in S, NEW e \in S, d < e PROVE r[d] < r[e]
    <2> DEFINE before(x) == {y \in S : y < x}
    <2>1. before(d) \cup {d} \subseteq before(e) /\ d \notin before(d)
        BY <1>1, <1>3
    <2>2. /\ IsFiniteSet(before(d)) /\ IsFiniteSet(before(e))
          /\ Cardinality(before(d)) \in Nat /\ Cardinality(before(e)) \in Nat
        BY FiniteDevices
    <2>3. r[d] = Cardinality(before(d)) /\ r[e] = Cardinality(before(e))
        OBVIOUS
    <2> HIDE DEF before
    <2>4. Cardinality(before(d) \cup {d}) = Cardinality(before(d)) + 1
        BY <2>1, <2>2, FS_AddElement
    <2>5. Cardinality(before(d) \cup {d}) <= Cardinality(before(e))
        BY <2>1, <2>2, FS_Subset
    <2>6. QED
        BY <2>2, <2>3, <2>4, <2>5
<1>4. \A d, e \in S : r[d] = r[e] => d = e
    <2> SUFFICES ASSUME NEW d \in S, NEW e \in S, r[d] = r[e], d # e PROVE FALSE
        OBVIOUS
    <2>1. d < e \/ e < d
        BY <1>1
    <2>2. r[d] \in Nat /\ r[e] \in Nat
        BY <1>1, <1>2
    <2>3. QED
        BY <1>3, <2>1, <2>2
<1>5. r \in [S -> 0 .. Cardinality(S) - 1]
    BY <1>2
<1>6. r \in Surjection(S, 0 .. Cardinality(S) - 1)
    <2>1. r \in Injection(S, 0 .. Cardinality(S) - 1)
        BY <1>4, <1>5 DEF Injection, IsInjective
    <2>2. /\ IsFiniteSet(0 .. Cardinality(S) - 1)
          /\ Cardinality(0 .. Cardinality(S) - 1) =
               IF 0 > Cardinality(S) - 1 THEN 0 ELSE Cardinality(S) - 1 - 0 + 1
        BY <1>1, FS_Interval
    <2>3. Cardinality(0 .. Cardinality(S) - 1) = Cardinality(S)
        BY <1>1, <2>2
    <2>4. QED
        BY <2>1, <2>2, <2>3, FS_Injection
<1>7. QED
    BY <1>4, <1>5, <1>6 DEF Surjection

\* A slice of a group holds as many devices as there are ranks in it.
LEMMA SliceSize ==
  ASSUME NEW x, Group(x) \in SUBSET Devices, NEW offset \in 0 .. Cardinality(Group(x)) - 1,
         max_batch_size \in Nat \ {0}
  PROVE  Cardinality(Slice(x, offset)) =
           IF offset + max_batch_size <= Cardinality(Group(x)) THEN max_batch_size
           ELSE Cardinality(Group(x)) - offset
<1> DEFINE S == Group(x)
           n == Cardinality(S)
           r == [d \in S |-> Cardinality({e \in S : e < d})]
           end == IF offset + max_batch_size <= n THEN offset + max_batch_size - 1 ELSE n - 1
           slice == Slice(x, offset)
<1>1. n \in Nat
    BY FiniteDevices
<1>2. /\ r \in [S -> 0 .. n - 1] /\ \A d, e \in S : r[d] = r[e] => d = e
      /\ \A k \in 0 .. n - 1 : \E d \in S : r[d] = k
    <2> HIDE DEF S, n
    <2>1. S \in SUBSET Devices
        BY DEF S
    <2>2. r = [d \in S |-> Cardinality({e \in S : e < d})]
        OBVIOUS
    <2> HIDE DEF r
    <2>3. QED
        BY <2>1, <2>2, Ranks DEF n
<1>3. \A d \in S : Rank(d) = r[d]
    BY DEF Rank, Group
<1> HIDE DEF r
<1>4. slice = {d \in S : r[d] \in offset .. offset + max_batch_size - 1}
    BY <1>3 DEF Slice
<1> HIDE DEF S, n, slice
<1>5. end \in Int /\ offset \in Nat /\ offset <= end /\ end <= n - 1
    BY <1>1 DEF n, S
<1>6. slice = {d \in S : r[d] \in offset .. end}
    BY <1>1, <1>2, <1>4, <1>5
<1>7. end - offset + 1 = IF offset + max_batch_size <= n THEN max_batch_size ELSE n - offset
    BY <1>1, <1>5
<1> HIDE DEF end
<1>8. /\ IsFiniteSet(offset .. end)
      /\ Cardinality(offset .. end) = IF offset > end THEN 0 ELSE end - offset + 1
    BY <1>5, FS_Interval
<1>9. Cardinality(slice) = Cardinality(offset .. end)
    <2> DEFINE f == [d \in slice |-> r[d]]
    <2>1. f \in [slice -> offset .. end] /\ \A d, e \in slice : f[d] = f[e] => d = e
        BY <1>2, <1>6
    <2>2. \A k \in offset .. end : \E d \in slice : f[d] = k
        BY <1>1, <1>2, <1>5, <1>6
    <2> HIDE DEF f
    <2>3. QED
        BY <1>8, <2>1, <2>2, SameNumber
<1>10. QED
    BY <1>5, <1>7, <1>8, <1>9 DEF slice, n, S

\* Slices start at the multiples of max_batch_size.
LEMMA Multiples ==
  ASSUME NEW m \in Nat \ {0}, NEW a \in Nat, NEW b \in Nat, a % m = 0, b % m = 0, a < b
  PROVE  a + m <= b
<1>1. PICK j \in Nat, k \in Nat : a = j * m /\ b = k * m
    <2>1. a = (a \div m) * m /\ b = (b \div m) * m /\ a \div m \in Nat /\ b \div m \in Nat
        OBVIOUS
    <2>2. QED
        BY <2>1
<1>2. j < k
    <2>1. k <= j => k * m <= j * m
        OBVIOUS
    <2>2. QED
        BY <1>1, <2>1
<1>3. j * m + m <= k * m
    BY <1>2
<1>4. QED
    BY <1>1, <1>3

LEMMA LastMultiple ==
  ASSUME NEW m \in Nat \ {0}, NEW r \in Nat
  PROVE  /\ r - (r % m) \in 0 .. r /\ (r - (r % m)) % m = 0
         /\ r \in r - (r % m) .. (r - (r % m)) + m - 1
<1>1. r % m \in 0 .. m - 1 /\ r - (r % m) \in 0 .. r
    OBVIOUS
<1>2. (r - (r % m)) % m = 0
    <2>1. PICK q \in Int, k \in Int : q = r % m /\ k = r \div m
        OBVIOUS
    <2>2. r = k * m + q
        BY <2>1
    <2>3. r - q = k * m
        BY <2>2
    <2>4. (k * m) % m = 0
        OBVIOUS
    <2>5. QED
        BY <2>1, <2>3, <2>4, Zenon
<1>3. ASSUME NEW q \in 0 .. m - 1, r - q \in 0 .. r PROVE r \in r - q .. (r - q) + m - 1
    OBVIOUS
<1>4. r \in r - (r % m) .. (r - (r % m)) + m - 1
    BY <1>1, <1>3, Zenon
<1>5. QED
    BY <1>1, <1>2, <1>4, Zenon

\* group_and_batch cuts the devices into batches as the property says.
LEMMA Partition ==
  ASSUME TypeOK, group_and_batch
  PROVE  BatchesPartition'
<1> DEFINE m == max_batch_size
           Offsets(x) == {i \in 0 .. Cardinality(Group(x)) - 1 : i % m = 0}
           Keys == UNION {{x} \X Offsets(x) : x \in Diffs}
<1>1. /\ m \in Nat \ {0} /\ devices \subseteq Devices
      /\ \A x : Group(x) \in SUBSET Devices /\ Group(x) \subseteq devices
                /\ IsFiniteSet(Group(x)) /\ Cardinality(Group(x)) \in Nat
    <2>1. m \in Nat \ {0} /\ devices \subseteq Devices
        BY ConstantsAssumption DEF TypeOK
    <2>2. \A x : Group(x) \in SUBSET Devices /\ Group(x) \subseteq devices
        BY <2>1 DEF Group
    <2>3. QED
        BY <2>1, <2>2, FiniteDevices
<1>2. batches' = [b \in Keys |-> Slice(b[1], b[2])] /\ UNCHANGED <<devices, diff, max_batch_size>>
    BY DEF group_and_batch, input
<1>3. ASSUME NEW d \in devices, diff[d] \in Diffs
      PROVE  Rank(d) \in 0 .. Cardinality(Group(diff[d])) - 1
    <2> DEFINE S == Group(diff[d])
               r == [e \in S |-> Cardinality({f \in S : f < e})]
    <2>1. d \in S /\ Rank(d) = r[d]
        BY DEF Group, Rank
    <2>2. S \in SUBSET Devices /\ r = [e \in S |-> Cardinality({f \in S : f < e})]
        BY <1>1
    <2> HIDE DEF S, r
    <2>3. r \in [S -> 0 .. Cardinality(S) - 1]
        BY <2>2, Ranks
    <2>4. QED
        BY <2>1, <2>3 DEF S
<1>4. \A b \in Keys : /\ b[1] \in Diffs /\ b[2] \in Offsets(b[1]) /\ b = <<b[1], b[2]>>
                      /\ b[2] \in Nat /\ b[2] % m = 0
    <2>1. ASSUME NEW b \in Keys
          PROVE  /\ b[1] \in Diffs /\ b[2] \in Offsets(b[1]) /\ b = <<b[1], b[2]>>
                 /\ b[2] \in Nat /\ b[2] % m = 0
        <3>1. PICK x \in Diffs : b \in {x} \X Offsets(x)
            OBVIOUS
        <3>2. b[1] = x /\ b[2] \in Offsets(x) /\ b = <<b[1], b[2]>>
            BY <3>1
        <3>3. QED
            BY <1>1, <3>2
    <2>2. QED
        BY <2>1
<1>5. \A x \in Diffs : \A o \in Offsets(x) : <<x, o>> \in Keys
    OBVIOUS
<1>6. \A b \in Keys : \A d \in Slice(b[1], b[2]) :
        /\ d \in devices /\ diff[d] = b[1]
        /\ Rank(d) \in b[2] .. b[2] + m - 1 /\ Rank(d) \in Int
    BY <1>3, <1>4 DEF Slice, Group
<1>7. \A x \in Diffs : \A o, p \in Offsets(x) : o < p => o + m <= p
    <2> SUFFICES ASSUME NEW x \in Diffs, NEW o \in Offsets(x), NEW p \in Offsets(x), o < p
                 PROVE  o + m <= p
        OBVIOUS
    <2>1. o \in Nat /\ p \in Nat /\ o % m = 0 /\ p % m = 0
        BY <1>1
    <2> HIDE DEF m
    <2>2. QED
        BY <1>1, <2>1, Multiples
<1> HIDE DEF Keys, Offsets, m
<1>8. BatchesDisjoint'
    <2>1. ASSUME NEW b \in Keys, NEW c \in Keys, NEW d \in Slice(b[1], b[2]), d \in Slice(c[1], c[2])
          PROVE  b = c
        <3>1. b[1] = c[1] /\ Rank(d) \in b[2] .. b[2] + m - 1 /\ Rank(d) \in c[2] .. c[2] + m - 1
              /\ Rank(d) \in Int
            BY <1>6, <2>1
        <3>2. b[2] \in Nat /\ c[2] \in Nat /\ b[2] \in Offsets(b[1]) /\ c[2] \in Offsets(b[1]) /\ b[1] \in Diffs
            BY <1>4, <3>1
        <3>3. ~(b[2] < c[2]) /\ ~(c[2] < b[2])
            BY <1>1, <1>7, <3>1, <3>2
        <3>4. QED
            BY <1>4, <3>1, <3>2, <3>3
    <2>2. \A b \in Keys : Slice(b[1], b[2]) \subseteq devices
        BY <1>6
    <2>3. \A b, c \in Keys : b # c => Slice(b[1], b[2]) \cap Slice(c[1], c[2]) = {}
        BY <2>1
    <2>4. QED
        BY <1>2, <2>2, <2>3 DEF BatchesDisjoint
<1>9. \A d \in devices : diff[d] \in Diffs <=> \E b \in Keys : d \in Slice(b[1], b[2])
    <2>1. ASSUME NEW d \in devices, diff[d] \in Diffs PROVE \E b \in Keys : d \in Slice(b[1], b[2])
        <3> DEFINE x == diff[d]
                   o == Rank(d) - (Rank(d) % m)
        <3>1. Rank(d) \in Nat /\ Rank(d) <= Cardinality(Group(x)) - 1
            BY <1>1, <1>3, <2>1
        <3>2. o \in 0 .. Rank(d) /\ o % m = 0 /\ Rank(d) \in o .. o + m - 1
            BY <1>1, <3>1, LastMultiple
        <3>3. d \in Group(x)
            BY DEF Group
        <3> HIDE DEF x, o
        <3>4. o \in 0 .. Cardinality(Group(x)) - 1
            BY <1>1, <3>1, <3>2
        <3>5. o \in Offsets(x)
            BY <3>2, <3>4 DEF Offsets
        <3>6. <<x, o>> \in Keys
            BY <1>5, <2>1, <3>5 DEF x
        <3>7. d \in Slice(x, o)
            BY <3>2, <3>3 DEF Slice, m
        <3>8. QED
            BY <3>6, <3>7
    <2>2. QED
        BY <1>4, <1>6, <2>1
<1>10. \A b \in Keys : Cardinality(Slice(b[1], b[2])) =
          IF b[2] + m <= Cardinality(Group(b[1])) THEN m ELSE Cardinality(Group(b[1])) - b[2]
    <2> SUFFICES ASSUME NEW b \in Keys
                 PROVE  Cardinality(Slice(b[1], b[2])) =
                          IF b[2] + m <= Cardinality(Group(b[1])) THEN m
                          ELSE Cardinality(Group(b[1])) - b[2]
        OBVIOUS
    <2>1. b[2] \in 0 .. Cardinality(Group(b[1])) - 1 /\ Group(b[1]) \in SUBSET Devices
        BY <1>1, <1>4 DEF Offsets
    <2>2. QED
        BY <1>1, <2>1, SliceSize DEF m
<1>11. \A b \in Keys : /\ Cardinality(Slice(b[1], b[2])) \in 1 .. m
                       /\ \A d, e \in Slice(b[1], b[2]) : diff[d] = diff[e]
    <2> SUFFICES ASSUME NEW b \in Keys PROVE Cardinality(Slice(b[1], b[2])) \in 1 .. m
        BY <1>6
    <2>1. b[2] \in 0 .. Cardinality(Group(b[1])) - 1 /\ Cardinality(Group(b[1])) \in Nat
        BY <1>1, <1>4 DEF Offsets
    <2>2. QED
        BY <1>1, <1>10, <2>1
<1>12. ASSUME NEW x \in Diffs
       PROVE  Cardinality({b \in Keys : /\ Cardinality(Slice(b[1], b[2])) < m
                                        /\ \A d \in Slice(b[1], b[2]) : diff[d] = x}) <= 1
    <2> DEFINE T == {b \in Keys : /\ Cardinality(Slice(b[1], b[2])) < m
                                  /\ \A d \in Slice(b[1], b[2]) : diff[d] = x}
    <2>1. ASSUME NEW b \in T PROVE b[1] = x
        <3>1. Slice(b[1], b[2]) # {}
            BY <1>1, <1>11, FS_EmptySet
        <3>2. QED
            BY <1>6, <3>1
    <2>2. ASSUME NEW b \in T, NEW c \in T PROVE ~(b[2] < c[2])
        <3>1. /\ b[2] \in Offsets(x) /\ c[2] \in Offsets(x) /\ b[2] \in Nat /\ c[2] \in Nat
              /\ b[1] = x /\ Cardinality(Group(x)) \in Nat
            BY <1>1, <1>4, <2>1
        <3>2. c[2] <= Cardinality(Group(x)) - 1
            BY <3>1 DEF Offsets
        <3>3. b[2] + m <= Cardinality(Group(x)) => Cardinality(Slice(b[1], b[2])) = m
            BY <1>10, <3>1
        <3>4. ~(b[2] + m <= Cardinality(Group(x)))
            BY <1>1, <3>3
        <3>5. QED
            BY <1>1, <1>7, <3>1, <3>2, <3>4
    <2>3. \A b, c \in T : b = c
        <3>1. \A b, c \in T : b[2] \in Nat /\ c[2] \in Nat /\ b[2] = c[2]
            BY <1>4, <2>2
        <3>2. QED
            BY <1>4, <2>1, <3>1
    <2> HIDE DEF T
    <2>4. T = {} \/ \E b : T = {b}
        BY <2>3
    <2>5. Cardinality(T) = 0 \/ Cardinality(T) = 1
        BY <2>4, FS_EmptySet, FS_Singleton
    <2>6. QED
        BY <2>5 DEF T
<1>13. QED
    <2>1. DOMAIN batches' = Keys /\ \A b \in Keys : batches'[b] = Slice(b[1], b[2])
        BY <1>2
    <2>2. \A x : {b \in Keys : /\ Cardinality(batches'[b]) < m /\ \A d \in batches'[b] : diff[d] = x}
                 = {b \in Keys : /\ Cardinality(Slice(b[1], b[2])) < m
                                /\ \A d \in Slice(b[1], b[2]) : diff[d] = x}
        BY <2>1
    <2>3. \A x \in Diffs :
            Cardinality({b \in Keys : /\ Cardinality(batches'[b]) < m
                                     /\ \A d \in batches'[b] : diff[d] = x}) <= 1
        BY <1>12, <2>2
    <2>4. \A d \in devices : diff[d] \in Diffs <=> \E b \in Keys : d \in batches'[b]
        BY <1>9, <2>1
    <2>5. \A b \in Keys : /\ Cardinality(batches'[b]) \in 1 .. m
                          /\ \A d, e \in batches'[b] : diff[d] = diff[e]
        BY <1>11, <2>1
    <2>6. QED
        BY <1>2, <1>8, <2>1, <2>3, <2>4, <2>5 DEF BatchesPartition, m

-----------------------------------------------------------------------------
(* The invariant                                                               *)

LEMMA EmptyDomain == DOMAIN <<>> = {}
OBVIOUS

\* Where there are no batches, no device has a diff; and so after a step.
LEMMA NoBatches ==
  /\ batches = <<>> /\ (\A d \in devices : diff[d] \notin Diffs) => BatchesPartition
  /\ batches' = <<>> /\ (\A d \in devices' : diff'[d] \notin Diffs) => BatchesPartition'
<1>1. \A f, m, g, x : f = <<>> =>
        Cardinality({i \in DOMAIN f : /\ Cardinality(f[i]) < m
                                     /\ \A d \in f[i] : g[d] = x}) <= 1
    <2>1. \A f, m, g, x : f = <<>> =>
            {i \in DOMAIN f : /\ Cardinality(f[i]) < m
                             /\ \A d \in f[i] : g[d] = x} = {}
        BY EmptyDomain
    <2>2. QED
        BY <2>1, FS_EmptySet
<1>2. QED
    BY <1>1, EmptyDomain DEF BatchesPartition, BatchesDisjoint

\* Where no result has been read, nothing has been counted; and so after a step.
LEMMA NothingRead ==
  /\ batch_results = <<>> /\ totals = NoTotals /\ stage # "archive" => TotalsInv
  /\ batch_results' = <<>> /\ totals' = NoTotals /\ stage' # "archive" => TotalsInv'
<1>1. batch_results = <<>> => AllSucceeded = {} /\ AllLost = {} /\ AllRefused = {}
    BY EmptyDomain DEF AllSucceeded, AllLost, AllRefused
<1>2. batch_results' = <<>> => AllSucceeded' = {} /\ AllLost' = {} /\ AllRefused' = {}
    BY EmptyDomain DEF AllSucceeded, AllLost, AllRefused
<1>3. QED
    BY <1>1, <1>2, FS_EmptySet DEF TotalsInv, NoTotals

Inv == /\ TypeOK /\ ChildrenInv /\ StartInv /\ BatchesPartition /\ ApprovedInv
       /\ RunInv /\ PartsInv /\ TotalsInv /\ CountsAddUp

LEMMA Initially == Init => Inv
<1> SUFFICES ASSUME Init PROVE Inv
    OBVIOUS
<1>1. TypeOK
    <2>1. child = <<>> /\ faults \in 0 .. MaxFaults
        BY Bounds DEF Init
    <2>2. QED
        BY <2>1, EmptyDomain DEF Init, TypeOK
<1>2. ChildrenInv
    <2>1. child = <<>> /\ attempt = <<>> /\ approved = <<>>
        BY DEF Init
    <2>2. \A S : <<>> \in [DOMAIN <<>> -> S]
        OBVIOUS
    <2>3. QED
        BY <2>1, <2>2 DEF ChildrenInv
<1>3. StartInv
    BY EmptyDomain DEF Init, StartInv, Early
<1>4. ApprovedInv /\ RunInv /\ PartsInv
    <2>1. child = <<>> /\ batch_results = <<>> /\ changed \cup late \subseteq granted
        BY DEF Init
    <2>2. QED
        BY <2>1, EmptyDomain DEF ApprovedInv, AppliesReviewed, RunInv, PartsInv
<1>5. BatchesPartition
    BY NoBatches DEF Init
<1>6. TotalsInv
    BY NothingRead DEF Init
<1>7. CountsAddUp
    BY DEF Init, CountsAddUp
<1>8. QED
    BY <1>1, <1>2, <1>3, <1>4, <1>5, <1>6, <1>7 DEF Inv

\* A step is one of the parent or of the children: the cases of the proofs about what the
\* parent keeps, and of those about the children.
LEMMA StepsOfParent ==
  ASSUME [Next]_vars
  PROVE  \/ discover_devices \/ collect_diffs \/ group_and_batch \/ start_batches
         \/ \E i \in DOMAIN batches : collect_result(i)
         \/ archive_results \/ ParentEnds \/ Waiting \/ Work \/ UNCHANGED vars
BY DEF Next, ParentStep, ParentFails, EndedStutters, Waiting, Work

LEMMA StepsOfChildren ==
  ASSUME [Next]_vars
  PROVE  \/ ParentAlone \/ group_and_batch \/ start_batches \/ ParentEnds \/ UNCHANGED vars
         \/ \E i \in DOMAIN child :
              \/ apply_configurations(i) \/ perform_backups(i) \/ perform_backups_fails(i)
              \/ retry_backups(i) \/ child_archives(i) \/ child_archive_fails(i) \/ ChildFails(i)
              \/ \E decision \in BOOLEAN : Review(i, decision)
              \/ AppliesLate(i)
         \/ \E d \in Devices : ApplySucceeds(d) \/ ApplyFails(d) \/ ApplyBreaksOff(d)
<1>1. \A i : Decision(i) => \E decision \in BOOLEAN : Review(i, decision)
    BY DEF Decision, RejectedInTime, RejectedTooLate
<1>2. Work => \/ \E i \in DOMAIN child :
                   \/ apply_configurations(i) \/ perform_backups(i) \/ perform_backups_fails(i)
                   \/ retry_backups(i) \/ child_archives(i) \/ child_archive_fails(i) \/ ChildFails(i)
                   \/ \E decision \in BOOLEAN : Review(i, decision)
                   \/ AppliesLate(i)
              \/ \E d \in Devices : ApplySucceeds(d) \/ ApplyFails(d) \/ ApplyBreaksOff(d)
    BY <1>1 DEF Work, ChildStep, ChildStops, DeviceStep
<1>3. QED
    BY <1>2, StepsOfParent DEF ParentAlone

LEMMA ParentAloneKeeps ==
  ASSUME ParentAlone
  PROVE  UNCHANGED <<name, max_batch_size, batches, children, network, faults>>
BY DEF ParentAlone, Waiting, discover_devices, collect_diffs, collect_result, archive_results,
       discover_devices_fails, start_batches_fails, retry, input

LEMMA WaitingKeeps ==
  ASSUME Waiting
  PROVE  /\ UNCHANGED <<input, devices, diff, batches, batch_results, totals, result, children>>
         /\ UNCHANGED <<network, faults>>
         /\ \/ stage = "discover_devices" /\ stage' = "discover_devices_failed"
            \/ stage = "discover_devices_failed" /\ stage' = "discover_devices"
            \/ stage = "start_batches" /\ stage' = "start_batches_failed"
            \/ stage = "start_batches_failed" /\ stage' = "start_batches"
BY DEF Waiting, discover_devices_fails, start_batches_fails, retry

\* The children's steps leave the parent alone.
LEMMA WorkKeeps ==
  ASSUME Work
  PROVE  UNCHANGED <<name, max_batch_size, parent>> /\ DOMAIN child' = DOMAIN child
<1> USE DEF input
<1>1. ASSUME NEW i \in DOMAIN child, ChildStep(i) \/ ChildStops(i) \/ retry_backups(i)
      PROVE  UNCHANGED <<name, max_batch_size, parent>> /\ DOMAIN child' = DOMAIN child
    BY <1>1 DEF ChildStep, ChildStops, retry_backups, apply_configurations, perform_backups, child_archives,
                perform_backups_fails, child_archive_fails, ChildFails
<1>2. ASSUME NEW i \in DOMAIN child, Decision(i) \/ AppliesLate(i)
      PROVE  UNCHANGED <<name, max_batch_size, parent>> /\ DOMAIN child' = DOMAIN child
    BY <1>2 DEF Decision, RejectedInTime, RejectedTooLate, Review, AppliesLate, children
<1>3. ASSUME NEW d \in Devices, DeviceStep(d) \/ ApplyBreaksOff(d)
      PROVE  UNCHANGED <<name, max_batch_size, parent>> /\ DOMAIN child' = DOMAIN child
    BY <1>3 DEF DeviceStep, ApplySucceeds, ApplyFails, ApplyBreaksOff
<1>4. QED
    BY <1>1, <1>2, <1>3 DEF Work

\* Where there is a child, there is one for each batch; a device to which a configuration
\* is being applied is in a batch that has one.
LEMMA Started ==
  ASSUME StartInv, NEW i \in DOMAIN child
  PROVE  stage \notin Early /\ DOMAIN child = DOMAIN batches
BY EmptyDomain DEF StartInv

LEMMA UnderWay ==
  ASSUME StartInv, NEW d \in Devices, outcome[d] # "none"
  PROVE  DOMAIN child # {} /\ DOMAIN child = DOMAIN batches /\ BatchesOf(d) \subseteq DOMAIN child
BY DEF StartInv, BatchesOf

LEMMA StartStep ==
  ASSUME TypeOK, StartInv, [Next]_vars
  PROVE  StartInv'
<1> USE DEF input
<1>1. CASE discover_devices
    BY <1>1 DEF discover_devices, StartInv, Early, children
<1>2. CASE collect_diffs
    BY <1>2 DEF collect_diffs, StartInv, Early, children
<1>3. CASE group_and_batch
    BY <1>3 DEF group_and_batch, StartInv, Early, children
<1>4. CASE start_batches
    BY <1>4 DEF start_batches, StartInv, Early
<1>5. ASSUME NEW i \in DOMAIN batches, collect_result(i) PROVE StartInv'
    BY <1>5 DEF collect_result, StartInv, Early, children
<1>6. CASE archive_results
    BY <1>6 DEF archive_results, StartInv, Early, children
<1>7. CASE ParentEnds
    <2>1. DOMAIN child' = DOMAIN child /\ stage' = "failed" /\ UNCHANGED <<batches, outcome>>
        BY <1>7 DEF ParentEnds
    <2>2. QED
        BY <2>1 DEF StartInv, Early
<1>8. CASE Waiting
    BY <1>8, WaitingKeeps DEF StartInv, Early, children
<1>9. CASE Work
    <2>1. UNCHANGED parent /\ DOMAIN child' = DOMAIN child
        BY <1>9, WorkKeeps
    <2>2. DOMAIN child # {}
        BY <1>9, UnderWay DEF Work, DeviceStep, ApplySucceeds, ApplyFails, ApplyBreaksOff
    <2>3. stage \notin Early /\ DOMAIN child = DOMAIN batches
        BY <2>2, Started
    <2>4. QED
        BY <2>1, <2>2, <2>3 DEF StartInv, Early, parent
<1>10. CASE UNCHANGED vars
    BY <1>10 DEF vars, StartInv, Early, parent, children
<1>11. QED
    BY <1>1, <1>2, <1>3, <1>4, <1>5, <1>6, <1>7, <1>8, <1>9, <1>10,
       StepsOfParent

\* Every step keeps the types.
LEMMA TypeStep ==
  ASSUME TypeOK, ChildrenInv, StartInv, [Next]_vars
  PROVE  TypeOK' /\ ChildrenInv'
<1> DEFINE Goal == TypeOK' /\ ChildrenInv'
<1> USE DEF TypeOK, ChildrenInv, input, parent, children, network
<1>1. CASE ParentAlone
    <2>1. ChildrenInv' /\ UNCHANGED <<name, max_batch_size, child, attempt, approved>>
          /\ UNCHANGED <<outcome, backup, granted, changed, late, faults>>
        BY <1>1, ParentAloneKeeps
    <2>2. stage' \in {"discover_devices", "discover_devices_failed", "collect_diffs", "group_and_batch",
                      "start_batches", "start_batches_failed", "execute_batches", "archive", "returned"}
          /\ devices' \subseteq Devices
        BY <1>1 DEF ParentAlone, Waiting, discover_devices, collect_diffs, collect_result, archive_results,
                  discover_devices_fails, start_batches_fails, retry
    <2>3. diff' \in [Devices -> Diffs \cup {"", "error"}]
        <3>1. CASE collect_diffs
            <4>1. \E found \in [devices -> Diffs \cup {"", "error"}] :
                    diff' = [d \in Devices |-> IF d \in devices THEN found[d] ELSE ""]
                BY <3>1 DEF collect_diffs
            <4>2. QED
                BY <4>1
        <3>2. CASE ~collect_diffs
            BY <1>1, <3>2 DEF ParentAlone, Waiting, discover_devices, collect_result, archive_results,
                            discover_devices_fails, start_batches_fails, retry
        <3>3. QED
            BY <3>1, <3>2
    <2>4. QED
        BY <2>1, <2>2, <2>3
<1>2. CASE group_and_batch
    BY <1>2 DEF group_and_batch
<1>3. CASE start_batches
    <2>1. child' = [i \in DOMAIN batches |-> "review"] /\ attempt' = [i \in DOMAIN batches |-> 1]
          /\ approved' = [i \in DOMAIN batches |-> FALSE] /\ 1 \in 1 .. MaxAttempts
        BY <1>3, Bounds DEF start_batches
    <2>2. ChildrenInv'
        BY <2>1
    <2>3. granted = {} /\ changed = {} /\ late = {}
        BY <1>3, EmptyDomain DEF start_batches, StartInv, Early
    <2>4. QED
        BY <1>3, <2>2, <2>3 DEF start_batches
<1>4. CASE ParentEnds
    <2>1. ChildrenInv'
        BY <1>4 DEF ParentEnds
    <2>2. faults' \in 0 .. MaxFaults
        BY <1>4, FaultCounted DEF ParentEnds
    <2>3. QED
        BY <1>4, <2>1, <2>2 DEF ParentEnds
<1>5. ASSUME NEW i \in DOMAIN child, apply_configurations(i) PROVE Goal
    BY <1>5 DEF apply_configurations
<1>6. ASSUME NEW i \in DOMAIN child, perform_backups(i) PROVE Goal
    BY <1>6 DEF perform_backups
<1>7. ASSUME NEW i \in DOMAIN child, perform_backups_fails(i) PROVE Goal
    BY <1>7 DEF perform_backups_fails
<1>8. ASSUME NEW i \in DOMAIN child, retry_backups(i) PROVE Goal
    BY <1>8 DEF retry_backups
<1>9. ASSUME NEW i \in DOMAIN child, child_archives(i) PROVE Goal
    BY <1>9 DEF child_archives
<1>10. ASSUME NEW i \in DOMAIN child, child_archive_fails(i) PROVE Goal
    <2>1. ChildrenInv'
        <3>1. CASE attempt[i] < MaxAttempts
            <4>1. attempt[i] + 1 \in 1 .. MaxAttempts
                BY <3>1, RunCounted
            <4>2. QED
                BY <1>10, <3>1, <4>1 DEF child_archive_fails
        <3>2. CASE ~(attempt[i] < MaxAttempts)
            BY <1>10, <3>2 DEF child_archive_fails
        <3>3. QED
            BY <3>1, <3>2
    <2>2. faults' \in 0 .. MaxFaults
        BY <1>10, FaultCounted DEF child_archive_fails
    <2>3. /\ outcome' \in [Devices -> {"none", "running", "ok", "error"}]
          /\ backup' \in [Devices -> {"none", "ok", "failed"}]
        <3>1. CASE attempt[i] < MaxAttempts
            <4>1. /\ outcome' = [d \in Devices |-> IF d \in batches[i] THEN "none" ELSE outcome[d]]
                  /\ backup' = [d \in Devices |-> IF d \in batches[i] THEN "none" ELSE backup[d]]
                BY <1>10, <3>1 DEF child_archive_fails
            <4>2. QED
                BY <4>1
        <3>2. CASE ~(attempt[i] < MaxAttempts)
            BY <1>10, <3>2 DEF child_archive_fails
        <3>3. QED
            BY <3>1, <3>2
    <2>4. QED
        BY <1>10, <2>1, <2>2, <2>3 DEF child_archive_fails
<1>11. ASSUME NEW i \in DOMAIN child, ChildFails(i) PROVE Goal
    <2>1. ChildrenInv'
        BY <1>11 DEF ChildFails
    <2>2. faults' \in 0 .. MaxFaults
        BY <1>11, FaultCounted DEF ChildFails
    <2>3. QED
        BY <1>11, <2>1, <2>2 DEF ChildFails
<1>12. ASSUME NEW i \in DOMAIN child, NEW decision \in BOOLEAN, Review(i, decision) PROVE Goal
    BY <1>12 DEF Review
<1>13. ASSUME NEW i \in DOMAIN child, AppliesLate(i) PROVE Goal
    BY <1>13 DEF AppliesLate
<1>14. ASSUME NEW d \in Devices, ApplySucceeds(d) PROVE Goal
    <2>1. BatchesOf(d) \subseteq DOMAIN child
        BY <1>14, UnderWay DEF ApplySucceeds
    <2>2. QED
        BY <1>14, <2>1 DEF ApplySucceeds
<1>15. ASSUME NEW d \in Devices, ApplyFails(d) PROVE Goal
    BY <1>15 DEF ApplyFails
<1>16. ASSUME NEW d \in Devices, ApplyBreaksOff(d) PROVE Goal
    <2>1. BatchesOf(d) \subseteq DOMAIN child
        BY <1>16, UnderWay DEF ApplyBreaksOff
    <2>2. faults' \in 0 .. MaxFaults
        BY <1>16, FaultCounted DEF ApplyBreaksOff
    <2>3. QED
        BY <1>16, <2>1, <2>2 DEF ApplyBreaksOff
<1>17. CASE UNCHANGED vars
    BY <1>17 DEF vars
<1> HIDE DEF TypeOK, ChildrenInv, input, parent, children, network
<1>18. QED
    BY <1>1, <1>2, <1>3, <1>4, <1>5, <1>6, <1>7, <1>8, <1>9, <1>10, <1>11, <1>12, <1>13, <1>14, <1>15, <1>16, <1>17,
       StepsOfChildren

\* An apply is under way only in a run that was approved: a step of one child concerns the
\* devices of its own batch only.
LEMMA ApprovedStep ==
  ASSUME TypeOK, ChildrenInv, StartInv, ApprovedInv, RunInv, BatchesDisjoint, [Next]_vars
  PROVE  ApprovedInv'
<1> USE DEF ApprovedInv, AppliesReviewed, input, parent, children, network
<1>1. CASE ParentAlone
    BY <1>1, ParentAloneKeeps
<1>2. CASE group_and_batch
    <2>1. /\ UNCHANGED <<child, granted, changed, late>> /\ DOMAIN child = {}
        BY <1>2, EmptyDomain DEF group_and_batch, StartInv, Early
    <2>2. QED
        BY <2>1
<1>3. CASE start_batches
    <2>1. /\ UNCHANGED <<granted, changed, late, batches>> /\ \A d \in Devices : outcome'[d] = "none"
          /\ child' = [i \in DOMAIN batches |-> "review"] /\ approved' = [i \in DOMAIN batches |-> FALSE]
        BY <1>3, EmptyDomain DEF start_batches, StartInv, Early
    <2>2. \A i \in DOMAIN batches : batches[i] \subseteq Devices
        BY DEF BatchesDisjoint, TypeOK
    <2>3. QED
        BY <2>1, <2>2
<1>4. CASE ParentEnds
    BY <1>4 DEF ParentEnds, ChildrenInv
<1>5. ASSUME NEW i \in DOMAIN child, apply_configurations(i) PROVE ApprovedInv'
    BY <1>5 DEF apply_configurations, ChildrenInv
<1>6. ASSUME NEW i \in DOMAIN child, perform_backups(i) PROVE ApprovedInv'
    <2>1. /\ UNCHANGED <<batches, approved, outcome, granted, changed, late>> /\ child[i] = "backup"
          /\ child' = [child EXCEPT ![i] = "archive"]
        BY <1>6 DEF perform_backups
    <2>2. QED
        BY <2>1 DEF ChildrenInv
<1>7. ASSUME NEW i \in DOMAIN child, perform_backups_fails(i) PROVE ApprovedInv'
    BY <1>7 DEF perform_backups_fails, ChildrenInv
<1>8. ASSUME NEW i \in DOMAIN child, retry_backups(i) PROVE ApprovedInv'
    BY <1>8 DEF retry_backups, ChildrenInv
<1>9. ASSUME NEW i \in DOMAIN child, child_archives(i) PROVE ApprovedInv'
    BY <1>9 DEF child_archives, ChildrenInv
<1>10. ASSUME NEW i \in DOMAIN child, child_archive_fails(i) PROVE ApprovedInv'
    <2>1. UNCHANGED <<batches, granted, changed, late>> /\ child[i] = "archive"
        BY <1>10 DEF child_archive_fails
    <2>2. CASE attempt[i] < MaxAttempts
        <3>1. /\ approved' = [approved EXCEPT ![i] = FALSE] /\ child' = [child EXCEPT ![i] = "review"]
              /\ outcome' = [d \in Devices |-> IF d \in batches[i] THEN "none" ELSE outcome[d]]
            BY <1>10, <2>2 DEF child_archive_fails
        <3>2. \A j \in DOMAIN child : batches[j] \subseteq Devices
            BY Started DEF BatchesDisjoint, TypeOK
        <3>3. QED
            BY <2>1, <3>1, <3>2 DEF ChildrenInv
    <2>3. CASE ~(attempt[i] < MaxAttempts)
        BY <1>10, <2>1, <2>3 DEF child_archive_fails, ChildrenInv
    <2>4. QED
        BY <2>2, <2>3
<1>11. ASSUME NEW i \in DOMAIN child, ChildFails(i) PROVE ApprovedInv'
    BY <1>11 DEF ChildFails, ChildrenInv
<1>12. ASSUME NEW i \in DOMAIN child, NEW decision \in BOOLEAN, Review(i, decision) PROVE ApprovedInv'
    <2>1. /\ UNCHANGED <<batches, changed, late>> /\ child[i] = "review" /\ ~approved[i]
          /\ approved' = [approved EXCEPT ![i] = decision]
          /\ granted' = IF decision THEN granted \cup {i} ELSE granted
          /\ child' = [child EXCEPT ![i] = IF decision THEN "apply" ELSE "archive"]
          /\ outcome' = [d \in Devices |-> IF decision /\ d \in batches[i] THEN "running" ELSE outcome[d]]
        BY <1>12 DEF Review
    <2>2. DOMAIN child = DOMAIN batches /\ \A j \in DOMAIN child : batches[j] \subseteq Devices
        BY Started DEF BatchesDisjoint, TypeOK
    <2>3. changed' \cup late' \subseteq granted'
        BY <2>1
    <2>4. ASSUME NEW j \in DOMAIN child
          PROVE  /\ child'[j] = "review" => ~approved'[j]
                 /\ approved'[j] => j \in granted'
                 /\ \A d \in batches[j] :
                      outcome'[d] = "running" => approved'[j] /\ child'[j] \in {"apply", "failed"}
        <3>1. CASE j = i
            BY <2>1, <2>2, <3>1 DEF ChildrenInv
        <3>2. CASE j # i
            <4>1. batches[i] \cap batches[j] = {}
                BY <2>2, <3>2 DEF BatchesDisjoint
            <4>2. QED
                BY <2>1, <2>2, <3>2, <4>1 DEF ChildrenInv
        <3>3. QED
            BY <3>1, <3>2
    <2>5. QED
        BY <2>1, <2>3, <2>4 DEF ChildrenInv
<1>13. ASSUME NEW i \in DOMAIN child, AppliesLate(i) PROVE ApprovedInv'
    BY <1>13 DEF AppliesLate, ChildrenInv
<1>14. ASSUME NEW d \in Devices, ApplySucceeds(d) PROVE ApprovedInv'
    <2>1. /\ UNCHANGED <<batches, child, approved, granted, late>> /\ outcome[d] = "running"
          /\ outcome' = [outcome EXCEPT ![d] = "ok"] /\ changed' \subseteq changed \cup BatchesOf(d)
        BY <1>14 DEF ApplySucceeds
    <2>2. BatchesOf(d) \subseteq granted
        BY <2>1, UnderWay DEF BatchesOf
    <2>3. \A e \in Devices : outcome'[e] = "running" => outcome[e] = "running"
        BY <2>1 DEF TypeOK
    <2>4. \A j \in DOMAIN child : batches[j] \subseteq Devices
        BY Started DEF BatchesDisjoint, TypeOK
    <2>5. QED
        BY <2>1, <2>2, <2>3, <2>4
<1>15. ASSUME NEW d \in Devices, ApplyFails(d) PROVE ApprovedInv'
    <2>1. /\ UNCHANGED <<batches, child, approved, granted, changed, late>>
          /\ outcome' = [outcome EXCEPT ![d] = "error"]
        BY <1>15 DEF ApplyFails
    <2>2. \A e \in Devices : outcome'[e] = "running" => outcome[e] = "running"
        BY <2>1 DEF TypeOK
    <2>3. \A j \in DOMAIN child : batches[j] \subseteq Devices
        BY Started DEF BatchesDisjoint, TypeOK
    <2>4. QED
        BY <2>1, <2>2, <2>3
<1>16. ASSUME NEW d \in Devices, ApplyBreaksOff(d) PROVE ApprovedInv'
    <2>1. /\ UNCHANGED <<batches, child, approved, granted, changed>> /\ outcome[d] = "running"
          /\ outcome' = [outcome EXCEPT ![d] = "error"] /\ late' = late \cup BatchesOf(d)
        BY <1>16 DEF ApplyBreaksOff
    <2>2. BatchesOf(d) \subseteq granted
        BY <2>1, UnderWay DEF BatchesOf
    <2>3. \A e \in Devices : outcome'[e] = "running" => outcome[e] = "running"
        BY <2>1 DEF TypeOK
    <2>4. \A j \in DOMAIN child : batches[j] \subseteq Devices
        BY Started DEF BatchesDisjoint, TypeOK
    <2>5. QED
        BY <2>1, <2>2, <2>3, <2>4
<1>17. CASE UNCHANGED vars
    BY <1>17 DEF vars
<1> HIDE DEF ApprovedInv, AppliesReviewed, input, parent, children, network
<1>18. QED
    BY <1>1, <1>2, <1>3, <1>4, <1>5, <1>6, <1>7, <1>8, <1>9, <1>10, <1>11, <1>12, <1>13, <1>14, <1>15, <1>16, <1>17,
       StepsOfChildren

\* The batches are made once.
LEMMA BatchesKept ==
  ASSUME BatchesPartition, UNCHANGED <<max_batch_size, devices, diff, batches>>,
         stage' \in {stage, "failed"} \/ stage \notin {"group_and_batch", "failed"}
  PROVE  BatchesPartition'
BY DEF BatchesPartition, BatchesDisjoint

LEMMA BatchesStep ==
  ASSUME TypeOK, StartInv, BatchesPartition, [Next]_vars
  PROVE  BatchesPartition'
<1> USE DEF input, parent
<1>1. CASE discover_devices
    <2>1. batches' = <<>> /\ devices' \in SUBSET Devices /\ \A d \in Devices : diff'[d] = ""
        BY <1>1 DEF discover_devices, StartInv
    <2>2. \A d \in devices' : diff'[d] \notin Diffs
        BY <2>1, ConstantsAssumption
    <2>3. QED
        BY <2>1, <2>2, NoBatches
<1>2. CASE collect_diffs
    <2>1. batches' = <<>> /\ devices' = devices /\ devices \subseteq Devices
        BY <1>2 DEF collect_diffs, StartInv, TypeOK
    <2>2. PICK found \in [devices -> Diffs \cup {"", "error"}] :
            /\ diff' = [d \in Devices |-> IF d \in devices THEN found[d] ELSE ""]
            /\ stage' = IF \E d \in devices : found[d] \in Diffs THEN "group_and_batch" ELSE "returned"
        BY <1>2 DEF collect_diffs
    <2>3. CASE \E d \in devices : found[d] \in Diffs
        BY <2>1, <2>2, <2>3, EmptyDomain DEF BatchesPartition
    <2>4. CASE \A d \in devices : found[d] \notin Diffs
        <3>1. \A d \in devices' : diff'[d] \notin Diffs
            BY <2>1, <2>2, <2>4
        <3>2. QED
            BY <2>1, <3>1, NoBatches
    <2>5. QED
        BY <2>3, <2>4
<1>3. CASE group_and_batch
    BY <1>3, Partition
<1>4. CASE start_batches
    BY <1>4, BatchesKept DEF start_batches
<1>5. ASSUME NEW i \in DOMAIN batches, collect_result(i) PROVE BatchesPartition'
    BY <1>5, BatchesKept DEF collect_result
<1>6. CASE archive_results
    BY <1>6, BatchesKept DEF archive_results
<1>7. CASE ParentEnds
    BY <1>7, BatchesKept DEF ParentEnds
<1>8. CASE Waiting
    BY <1>8, WaitingKeeps, BatchesKept
<1>9. CASE Work
    BY <1>9, WorkKeeps, BatchesKept
<1>10. CASE UNCHANGED vars
    BY <1>10, BatchesKept DEF vars
<1>11. QED
    BY <1>1, <1>2, <1>3, <1>4, <1>5, <1>6, <1>7, <1>8, <1>9, <1>10,
       StepsOfParent

LEMMA Disjoint == ASSUME BatchesPartition PROVE BatchesDisjoint
<1>1. CASE DOMAIN batches = {}
    BY <1>1 DEF BatchesDisjoint
<1>2. CASE DOMAIN batches # {}
    BY <1>2 DEF BatchesPartition
<1>3. QED
    BY <1>1, <1>2

\* Whose backups a child awaits depends on its own devices only.
LEMMA AwaitedOwn ==
  ASSUME NEW i, UNCHANGED <<name, batches>>, \A d \in batches[i] : outcome'[d] = outcome[d]
  PROVE  Awaited(i)' = Awaited(i)
<1>1. Configured(i)' = Configured(i)
    BY DEF Configured
<1>2. BackedUp(i)' = BackedUp(i)
    BY <1>1 DEF BackedUp, Names
<1>3. QED
    BY <1>2 DEF Awaited

LEMMA AwaitedInBatch == \A i : Awaited(i) \subseteq batches[i] /\ Configured(i) \subseteq batches[i]
BY DEF Awaited, BackedUp, Configured

\* What is done for other batches does not matter to a run, nor does it matter to an
\* earlier stage of it.
LEMMA RunKept ==
  ASSUME NEW j, RunOf(j), UNCHANGED <<name, batches>>, approved'[j] = approved[j],
         child'[j] \in {"archive", "done"} => child[j] \in {"archive", "done"},
         \A d \in batches[j] : outcome'[d] = outcome[d] /\ backup'[d] = backup[d]
  PROVE  RunOf(j)'
<1>1. Awaited(j)' = Awaited(j)
    BY AwaitedOwn
<1>2. Awaited(j) \subseteq batches[j]
    BY AwaitedInBatch
<1>3. QED
    BY <1>1, <1>2 DEF RunOf

LEMMA RunStep ==
  ASSUME TypeOK, ChildrenInv, StartInv, ApprovedInv, BatchesDisjoint, RunInv, [Next]_vars
  PROVE  RunInv'
<1> USE DEF TypeOK, ChildrenInv, input, parent, children
<1>1. CASE ParentAlone
    <2>1. UNCHANGED <<name, batches, child, approved, outcome, backup>>
        BY <1>1, ParentAloneKeeps
    <2>2. QED
        BY <2>1, RunKept DEF RunInv
<1>2. CASE group_and_batch
    <2>1. child' = child /\ DOMAIN child = {}
        BY <1>2, EmptyDomain DEF group_and_batch, StartInv, Early
    <2>2. QED
        BY <2>1 DEF RunInv
<1>3. CASE start_batches
    <2>1. /\ batches' = batches /\ \A d \in Devices : outcome'[d] = "none"
          /\ child' = [i \in DOMAIN batches |-> "review"]
          /\ approved' = [i \in DOMAIN batches |-> FALSE]
        BY <1>3, EmptyDomain DEF start_batches, StartInv, Early
    <2>2. \A i \in DOMAIN batches : batches[i] \subseteq Devices
        BY DEF BatchesDisjoint, TypeOK
    <2>3. QED
        BY <2>1, <2>2 DEF RunInv, RunOf
<1>4. CASE ParentEnds
    <2>1. /\ UNCHANGED <<name, batches, approved, outcome, backup>> /\ DOMAIN child' = DOMAIN child
          /\ \A j \in DOMAIN child : child'[j] \in {"archive", "done"} => child[j] \in {"archive", "done"}
        BY <1>4 DEF ParentEnds
    <2>2. QED
        BY <2>1, RunKept DEF RunInv
<1>5. ASSUME NEW i \in DOMAIN child, apply_configurations(i) PROVE RunInv'
    <2>1. /\ UNCHANGED <<name, batches, approved, outcome, backup>> /\ DOMAIN child' = DOMAIN child
          /\ \A j \in DOMAIN child : child'[j] \in {"archive", "done"} => child[j] \in {"archive", "done"}
        BY <1>5 DEF apply_configurations
    <2>2. QED
        BY <2>1, RunKept DEF RunInv
<1>6. ASSUME NEW i \in DOMAIN child, perform_backups(i) PROVE RunInv'
    <2>1. DOMAIN child = DOMAIN batches
        BY Started
    <2>2. /\ UNCHANGED <<name, batches, approved, outcome>>
          /\ child' = [child EXCEPT ![i] = "archive"] /\ child[i] = "backup"
          /\ \A d \in Devices : IF d \in Awaited(i) THEN backup'[d] # "none" ELSE backup'[d] = backup[d]
        BY <1>6 DEF perform_backups
    <2>3. RunOf(i)'
        <3>1. Awaited(i)' = Awaited(i) /\ Awaited(i) \subseteq Devices
            BY <2>1, <2>2, AwaitedOwn, AwaitedInBatch DEF BatchesDisjoint, TypeOK
        <3>2. RunOf(i)
            BY DEF RunInv
        <3>3. QED
            BY <2>2, <3>1, <3>2 DEF RunOf
    <2>4. ASSUME NEW j \in DOMAIN child, j # i PROVE RunOf(j)'
        <3>1. batches[i] \cap batches[j] = {} /\ batches[j] \subseteq Devices
            BY <2>1, <2>4 DEF BatchesDisjoint, TypeOK
        <3>2. QED
            BY <2>2, <2>4, <3>1, AwaitedInBatch, RunKept DEF RunInv
    <2>5. QED
        BY <2>2, <2>3, <2>4 DEF RunInv
<1>7. ASSUME NEW i \in DOMAIN child, perform_backups_fails(i) PROVE RunInv'
    <2>1. /\ UNCHANGED <<name, batches, approved, outcome, backup>> /\ DOMAIN child' = DOMAIN child
          /\ \A j \in DOMAIN child : child'[j] \in {"archive", "done"} => child[j] \in {"archive", "done"}
        BY <1>7 DEF perform_backups_fails
    <2>2. QED
        BY <2>1, RunKept DEF RunInv
<1>8. ASSUME NEW i \in DOMAIN child, retry_backups(i) PROVE RunInv'
    <2>1. /\ UNCHANGED <<name, batches, approved, outcome, backup>> /\ DOMAIN child' = DOMAIN child
          /\ \A j \in DOMAIN child : child'[j] \in {"archive", "done"} => child[j] \in {"archive", "done"}
        BY <1>8 DEF retry_backups
    <2>2. QED
        BY <2>1, RunKept DEF RunInv
<1>9. ASSUME NEW i \in DOMAIN child, child_archives(i) PROVE RunInv'
    <2>1. /\ UNCHANGED <<name, batches, approved, outcome, backup>>
          /\ child' = [child EXCEPT ![i] = "done"] /\ child[i] = "archive"
        BY <1>9 DEF child_archives
    <2>2. RunOf(i)'
        <3>1. Awaited(i)' = Awaited(i)
            BY <2>1, AwaitedOwn
        <3>2. RunOf(i)
            BY DEF RunInv
        <3>3. QED
            BY <2>1, <3>1, <3>2 DEF RunOf
    <2>3. ASSUME NEW j \in DOMAIN child, j # i PROVE RunOf(j)'
        BY <2>1, <2>3, RunKept DEF RunInv
    <2>4. QED
        BY <2>1, <2>2, <2>3 DEF RunInv
<1>10. ASSUME NEW i \in DOMAIN child, child_archive_fails(i) PROVE RunInv'
    <2>1. CASE attempt[i] < MaxAttempts
        <3>1. DOMAIN child = DOMAIN batches
            BY Started
        <3>2. /\ UNCHANGED <<name, batches>> /\ child' = [child EXCEPT ![i] = "review"]
              /\ approved' = [approved EXCEPT ![i] = FALSE]
              /\ outcome' = [d \in Devices |-> IF d \in batches[i] THEN "none" ELSE outcome[d]]
              /\ backup' = [d \in Devices |-> IF d \in batches[i] THEN "none" ELSE backup[d]]
            BY <1>10, <2>1 DEF child_archive_fails
        <3>3. RunOf(i)'
            BY <3>1, <3>2 DEF RunOf, BatchesDisjoint
        <3>4. ASSUME NEW j \in DOMAIN child, j # i PROVE RunOf(j)'
            <4>1. batches[i] \cap batches[j] = {} /\ batches[j] \subseteq Devices
                BY <3>1, <3>4 DEF BatchesDisjoint, TypeOK
            <4>2. QED
                BY <3>2, <3>4, <4>1, RunKept DEF RunInv
        <3>5. QED
            BY <3>2, <3>3, <3>4 DEF RunInv
    <2>2. CASE ~(attempt[i] < MaxAttempts)
        <3>1. /\ UNCHANGED <<name, batches, approved, outcome, backup>>
              /\ child' = [child EXCEPT ![i] = "failed"]
            BY <1>10, <2>2 DEF child_archive_fails
        <3>2. QED
            BY <3>1, RunKept DEF RunInv
    <2>3. QED
        BY <2>1, <2>2
<1>11. ASSUME NEW i \in DOMAIN child, ChildFails(i) PROVE RunInv'
    <2>1. /\ UNCHANGED <<name, batches, approved, outcome, backup>> /\ DOMAIN child' = DOMAIN child
          /\ \A j \in DOMAIN child : child'[j] \in {"archive", "done"} => child[j] \in {"archive", "done"}
        BY <1>11 DEF ChildFails
    <2>2. QED
        BY <2>1, RunKept DEF RunInv
<1>12. ASSUME NEW i \in DOMAIN child, NEW decision \in BOOLEAN, Review(i, decision) PROVE RunInv'
    <2>1. DOMAIN child = DOMAIN batches
        BY Started
    <2>2. /\ UNCHANGED <<name, batches, backup>> /\ child[i] = "review" /\ ~approved[i]
          /\ approved' = [approved EXCEPT ![i] = decision]
          /\ child' = [child EXCEPT ![i] = IF decision THEN "apply" ELSE "archive"]
          /\ outcome' = [d \in Devices |-> IF decision /\ d \in batches[i] THEN "running" ELSE outcome[d]]
        BY <1>12 DEF Review, ApprovedInv
    <2>3. RunOf(i)'
        <3>1. RunOf(i) /\ batches[i] \subseteq Devices
            BY <2>1 DEF RunInv, BatchesDisjoint, TypeOK
        <3>2. QED
            BY <2>2, <3>1 DEF RunOf
    <2>4. ASSUME NEW j \in DOMAIN child, j # i PROVE RunOf(j)'
        <3>1. batches[i] \cap batches[j] = {} /\ batches[j] \subseteq Devices
            BY <2>1, <2>4 DEF BatchesDisjoint, TypeOK
        <3>2. QED
            BY <2>2, <2>4, <3>1, AwaitedInBatch, RunKept DEF RunInv
    <2>5. QED
        BY <2>2, <2>3, <2>4 DEF RunInv
<1>13. ASSUME NEW i \in DOMAIN child, AppliesLate(i) PROVE RunInv'
    <2>1. UNCHANGED <<name, batches, child, approved, outcome, backup>>
        BY <1>13 DEF AppliesLate
    <2>2. QED
        BY <2>1, RunKept DEF RunInv
<1>14. ASSUME NEW d \in Devices, ApplySucceeds(d) PROVE RunInv'
    <2>1. /\ UNCHANGED <<name, batches, child, approved, backup>> /\ outcome[d] = "running"
          /\ outcome' = [outcome EXCEPT ![d] = "ok"]
        BY <1>14 DEF ApplySucceeds
    <2>2. ASSUME NEW i \in DOMAIN child PROVE RunOf(i)'
        <3>1. RunOf(i)
            BY DEF RunInv
        <3>2. CASE d \notin batches[i]
            <4>1. batches[i] \subseteq Devices
                BY Started DEF BatchesDisjoint, TypeOK
            <4>2. \A e \in batches[i] : outcome'[e] = outcome[e]
                BY <2>1, <3>2, <4>1
            <4>3. QED
                BY <2>1, <3>1, <4>2, RunKept
        <3>3. CASE d \in batches[i]
            BY <2>1, <3>3 DEF RunOf, ApprovedInv, AppliesReviewed
        <3>4. QED
            BY <3>2, <3>3
    <2>3. QED
        BY <2>1, <2>2 DEF RunInv
<1>15. ASSUME NEW d \in Devices, ApplyFails(d) PROVE RunInv'
    <2>1. /\ UNCHANGED <<name, batches, child, approved, backup>> /\ outcome[d] = "running"
          /\ outcome' = [outcome EXCEPT ![d] = "error"]
        BY <1>15 DEF ApplyFails
    <2>2. ASSUME NEW i \in DOMAIN child PROVE RunOf(i)'
        <3>1. RunOf(i)
            BY DEF RunInv
        <3>2. CASE d \notin batches[i]
            <4>1. batches[i] \subseteq Devices
                BY Started DEF BatchesDisjoint, TypeOK
            <4>2. \A e \in batches[i] : outcome'[e] = outcome[e]
                BY <2>1, <3>2, <4>1
            <4>3. QED
                BY <2>1, <3>1, <4>2, RunKept
        <3>3. CASE d \in batches[i]
            BY <2>1, <3>3 DEF RunOf, ApprovedInv, AppliesReviewed
        <3>4. QED
            BY <3>2, <3>3
    <2>3. QED
        BY <2>1, <2>2 DEF RunInv
<1>16. ASSUME NEW d \in Devices, ApplyBreaksOff(d) PROVE RunInv'
    <2>1. /\ UNCHANGED <<name, batches, child, approved, backup>> /\ outcome[d] = "running"
          /\ outcome' = [outcome EXCEPT ![d] = "error"]
        BY <1>16 DEF ApplyBreaksOff
    <2>2. ASSUME NEW i \in DOMAIN child PROVE RunOf(i)'
        <3>1. RunOf(i)
            BY DEF RunInv
        <3>2. CASE d \notin batches[i]
            <4>1. batches[i] \subseteq Devices
                BY Started DEF BatchesDisjoint, TypeOK
            <4>2. \A e \in batches[i] : outcome'[e] = outcome[e]
                BY <2>1, <3>2, <4>1
            <4>3. QED
                BY <2>1, <3>1, <4>2, RunKept
        <3>3. CASE d \in batches[i]
            BY <2>1, <3>3 DEF RunOf, ApprovedInv, AppliesReviewed
        <3>4. QED
            BY <3>2, <3>3
    <2>3. QED
        BY <2>1, <2>2 DEF RunInv
<1>17. CASE UNCHANGED vars
    <2>1. UNCHANGED <<name, batches, child, approved, outcome, backup>>
        BY <1>17 DEF vars
    <2>2. QED
        BY <2>1, RunKept DEF RunInv
<1> HIDE DEF TypeOK, ChildrenInv, input, parent, children
<1>18. QED
    BY <1>1, <1>2, <1>3, <1>4, <1>5, <1>6, <1>7, <1>8, <1>9, <1>10, <1>11, <1>12, <1>13, <1>14, <1>15, <1>16, <1>17,
       StepsOfChildren

\* If names differ, the devices configured are those whose backups are awaited.
LEMMA AwaitedConfigured ==
  ASSUME NEW i, UniqueNames, batches[i] \subseteq devices, devices \subseteq Devices
  PROVE  Awaited(i) = Configured(i)
<1>1. Configured(i) \subseteq batches[i]
    BY DEF Configured
<1>2. BackedUp(i) = Configured(i)
    BY <1>1 DEF BackedUp, Names, UniqueNames
<1>3. \A d \in Devices : d <= d
    BY NumberOfDevices DEF Devices
<1>4. QED
    BY <1>1, <1>2, <1>3 DEF Awaited, UniqueNames

LEMMA ResultFields == \A i : ResultOf(i).error = (child[i] = "failed") /\ ResultOf(i).approved = approved[i]
BY Zenon DEF ResultOf

\* What is counted of a batch stays as it was read.
LEMMA CountedKept ==
  ASSUME NEW i, batches' = batches, batch_results'[i] = batch_results[i]
  PROVE  Succeeded(i)' = Succeeded(i) /\ Lost(i)' = Lost(i) /\ Refused(i)' = Refused(i)
BY DEF Succeeded, Lost, Refused

LEMMA PartsKept ==
  ASSUME NEW i, PartsOf(i), UNCHANGED <<name, devices, batches>>, batch_results'[i] = batch_results[i]
  PROVE  PartsOf(i)'
<1>1. UniqueNames' = UniqueNames
    BY DEF UniqueNames
<1>2. QED
    BY <1>1, CountedKept DEF PartsOf

LEMMA PartsStep ==
  ASSUME TypeOK, ChildrenInv, StartInv, BatchesDisjoint, RunInv, PartsInv, [Next]_vars
  PROVE  PartsInv'
<1> USE DEF input, parent
<1>1. CASE discover_devices
    <2>1. batch_results' = <<>>
        BY <1>1 DEF discover_devices, StartInv, Early
    <2>2. QED
        BY <2>1, EmptyDomain DEF PartsInv
<1>2. CASE collect_diffs
    <2>1. UNCHANGED <<name, batches, batch_results, devices>>
        BY <1>2 DEF collect_diffs
    <2>2. QED
        BY <2>1, PartsKept DEF PartsInv, PartsOf
<1>3. CASE group_and_batch
    <2>1. batch_results' = <<>>
        BY <1>3 DEF group_and_batch, StartInv, Early
    <2>2. QED
        BY <2>1, EmptyDomain DEF PartsInv
<1>4. CASE start_batches
    <2>1. UNCHANGED <<name, batches, batch_results, devices>>
        BY <1>4 DEF start_batches
    <2>2. QED
        BY <2>1, PartsKept DEF PartsInv, PartsOf
<1>5. ASSUME NEW i \in DOMAIN batches, collect_result(i) PROVE PartsInv'
    <2>1. /\ batch_results' = WithResult(i) /\ UNCHANGED <<name, devices, batches>>
          /\ i \in DOMAIN batches /\ i \in DOMAIN child /\ child[i] \in {"done", "failed"}
        BY <1>5 DEF collect_result, StartInv, Early
    <2>2. DOMAIN batch_results' = DOMAIN batch_results \cup {i} /\ batch_results'[i] = ResultOf(i)
        BY <2>1 DEF WithResult
    <2>3. PartsOf(i)'
        <3>1. /\ Configured(i) \subseteq batches[i] /\ Awaited(i) \subseteq batches[i]
              /\ batches[i] \subseteq devices /\ devices \subseteq Devices
            BY <2>1, AwaitedInBatch DEF BatchesDisjoint, TypeOK
        <3>2. UniqueNames => Awaited(i) = Configured(i)
            BY <3>1, AwaitedConfigured
        <3>3. CASE child[i] = "failed"
            <4>1. batch_results'[i].error
                BY <2>2, <3>3, ResultFields, Zenon
            <4>2. Succeeded(i)' = {} /\ Lost(i)' = batches[i] /\ Refused(i)' = {}
                BY <2>1, <4>1 DEF Succeeded, Lost, Refused
            <4>3. QED
                BY <2>1, <4>1, <4>2 DEF PartsOf
        <3>4. CASE child[i] = "done" /\ approved[i]
            <4>1. \A d \in Awaited(i) : backup[d] \in {"ok", "failed"}
                BY <2>1, <3>1, <3>4 DEF RunInv, RunOf, TypeOK
            <4>2. /\ ~batch_results'[i].error /\ batch_results'[i].approved
                  /\ batch_results'[i].successful_devices = Configured(i)
                  /\ batch_results'[i].failed_devices = batches[i] \ Configured(i)
                  /\ batch_results'[i].backups.total = Awaited(i)
                  /\ batch_results'[i].backups.successful = {d \in Awaited(i) : backup[d] = "ok"}
                  /\ batch_results'[i].backups.failed = {d \in Awaited(i) : backup[d] = "failed"}
                <5>1. /\ ~batch_results'[i].error /\ batch_results'[i].approved
                    BY <2>2, <3>4, ResultFields, Zenon
                <5>2. QED
                    BY <2>2, <3>4, <5>1 DEF ResultOf
            <4>3. UniqueNames' => UniqueNames
                BY <2>1 DEF UniqueNames
            <4>4. /\ Succeeded(i)' = Configured(i) /\ Lost(i)' = batches[i] \ Configured(i)
                  /\ Refused(i)' = {}
                BY <2>1, <4>2 DEF Succeeded, Lost, Refused
            <4>5. QED
                BY <2>1, <3>1, <3>2, <4>1, <4>2, <4>3, <4>4 DEF PartsOf
        <3>5. CASE child[i] = "done" /\ ~approved[i]
            <4>1. Configured(i) = {} /\ Awaited(i) = {}
                BY <2>1, <3>5 DEF RunInv, RunOf, Configured, Awaited, BackedUp, Names
            <4>2. /\ ~batch_results'[i].error /\ ~batch_results'[i].approved
                  /\ batch_results'[i].successful_devices = {}
                  /\ batch_results'[i].failed_devices = {}
                  /\ batch_results'[i].backups.total = {}
                  /\ batch_results'[i].backups.successful = {}
                  /\ batch_results'[i].backups.failed = {}
                BY <2>1, <2>2, <3>5, <4>1 DEF ResultOf, ChildrenInv
            <4>3. Succeeded(i)' = {} /\ Lost(i)' = {} /\ Refused(i)' = batches[i]
                BY <2>1, <4>2 DEF Succeeded, Lost, Refused
            <4>4. QED
                BY <2>1, <4>2, <4>3 DEF PartsOf
        <3>6. QED
            BY <2>1, <3>3, <3>4, <3>5
    <2>4. ASSUME NEW j \in DOMAIN batch_results, j # i PROVE PartsOf(j)'
        <3>1. batch_results'[j] = batch_results[j] /\ PartsOf(j)
            BY <2>1, <2>4 DEF WithResult, PartsInv
        <3>2. QED
            BY <2>1, <3>1, PartsKept
    <2>5. QED
        BY <2>2, <2>3, <2>4 DEF PartsInv
<1>6. CASE archive_results
    <2>1. UNCHANGED <<name, batches, batch_results, devices>>
        BY <1>6 DEF archive_results
    <2>2. QED
        BY <2>1, PartsKept DEF PartsInv, PartsOf
<1>7. CASE ParentEnds
    <2>1. UNCHANGED <<name, batches, batch_results, devices>>
        BY <1>7 DEF ParentEnds
    <2>2. QED
        BY <2>1, PartsKept DEF PartsInv, PartsOf
<1>8. CASE Waiting
    <2>1. UNCHANGED <<name, batches, batch_results, devices>>
        BY <1>8, WaitingKeeps
    <2>2. QED
        BY <2>1, PartsKept DEF PartsInv, PartsOf
<1>9. CASE Work
    <2>1. UNCHANGED <<name, batches, batch_results, devices>>
        BY <1>9, WorkKeeps
    <2>2. QED
        BY <2>1, PartsKept DEF PartsInv, PartsOf
<1>10. CASE UNCHANGED vars
    <2>1. UNCHANGED <<name, batches, batch_results, devices>>
        BY <1>10 DEF vars
    <2>2. QED
        BY <2>1, PartsKept DEF PartsInv, PartsOf
<1>11. QED
    BY <1>1, <1>2, <1>3, <1>4, <1>5, <1>6, <1>7, <1>8, <1>9, <1>10,
       StepsOfParent

LEMMA NamesCounted ==
  ASSUME UniqueNames, devices \subseteq Devices, NEW S \in SUBSET devices
  PROVE  Cardinality(Names(S)) = Cardinality(S)
<1> DEFINE f == [d \in S |-> name[d]]
<1>1. f \in Surjection(S, Names(S))
    BY DEF Surjection, Names
<1>2. f \in Injection(S, Names(S))
    BY DEF Injection, IsInjective, Names, UniqueNames
<1>3. IsFiniteSet(S)
    BY FiniteDevices
<1> HIDE DEF f
<1>4. QED
    BY <1>1, <1>2, <1>3, FS_Surjection

LEMMA TotalsKept ==
  ASSUME UNCHANGED <<name, devices, batches, batch_results, totals>>, TotalsInv, stage' = stage \/ stage' # "archive"
  PROVE  TotalsInv'
<1>1. AllSucceeded' = AllSucceeded /\ AllLost' = AllLost /\ AllRefused' = AllRefused
    BY CountedKept DEF AllSucceeded, AllLost, AllRefused
<1>2. UniqueNames' = UniqueNames
    BY DEF UniqueNames
<1>3. QED
    BY <1>1, <1>2 DEF TotalsInv

LEMMA TotalsStep ==
  ASSUME TypeOK, ChildrenInv, StartInv, BatchesDisjoint, PartsInv, PartsInv', TotalsInv, [Next]_vars
  PROVE  TotalsInv'
<1> USE DEF input, parent
<1>1. CASE discover_devices
    BY <1>1, NothingRead DEF discover_devices, StartInv, Early
<1>2. CASE collect_diffs
    BY <1>2, TotalsKept DEF collect_diffs
<1>3. CASE group_and_batch
    BY <1>3, NothingRead DEF group_and_batch, StartInv, Early
<1>4. CASE start_batches
    BY <1>4, NothingRead DEF start_batches, StartInv, Early
<1>5. ASSUME NEW i \in DOMAIN batches, collect_result(i) PROVE TotalsInv'
    <2>1. /\ stage = "execute_batches" /\ batch_results' = WithResult(i)
          /\ totals' = Added(ResultOf(i), Cardinality(batches[i]))
          /\ stage' = (IF Unfinished = {i} THEN "archive" ELSE stage)
          /\ UNCHANGED <<name, devices, batches>>
          /\ i \in DOMAIN batches /\ i \notin DOMAIN batch_results
        BY <1>5 DEF collect_result, Unfinished
    <2>2. /\ DOMAIN batch_results' = DOMAIN batch_results \cup {i} /\ batch_results'[i] = ResultOf(i)
          /\ \A j \in DOMAIN batch_results : batch_results'[j] = batch_results[j]
        BY <2>1 DEF WithResult
    <2>3. stage' = "archive" => DOMAIN batch_results' = DOMAIN batches'
        BY <2>1, <2>2 DEF Unfinished, PartsInv, PartsOf
    <2>4. /\ AllSucceeded' = AllSucceeded \cup Succeeded(i)'
          /\ AllLost' = AllLost \cup Lost(i)'
          /\ AllRefused' = AllRefused \cup Refused(i)'
        BY <2>1, <2>2, CountedKept DEF AllSucceeded, AllLost, AllRefused
    <2>5. /\ Succeeded(i)' \subseteq batches[i] /\ Lost(i)' \subseteq batches[i]
          /\ Refused(i)' \subseteq batches[i] /\ batches[i] \subseteq devices /\ devices \subseteq Devices
        <3>1. PartsOf(i)'
            BY <2>2 DEF PartsInv
        <3>2. Succeeded(i)' \cup Lost(i)' \cup Refused(i)' = batches[i]
            BY <2>1, <3>1 DEF PartsOf
        <3>3. QED
            BY <2>1, <3>2 DEF BatchesDisjoint, TypeOK
    <2>6. LET others == UNION {batches[j] : j \in DOMAIN batch_results}
          IN  /\ AllSucceeded \subseteq others /\ AllLost \subseteq others /\ AllRefused \subseteq others
              /\ others \subseteq Devices /\ others \cap batches[i] = {}
        BY <2>1, <2>5 DEF PartsInv, PartsOf, BatchesDisjoint, AllSucceeded, AllLost, AllRefused
    <2>7. /\ Cardinality(AllSucceeded') = Cardinality(AllSucceeded) + Cardinality(Succeeded(i)')
          /\ Cardinality(AllLost') = Cardinality(AllLost) + Cardinality(Lost(i)')
          /\ Cardinality(AllRefused') = Cardinality(AllRefused) + Cardinality(Refused(i)')
        <3>1. \A S, T \in SUBSET Devices :
                S \cap T = {} => Cardinality(S \cup T) = Cardinality(S) + Cardinality(T)
            BY DisjointSum
        <3>2. /\ AllSucceeded \in SUBSET Devices /\ AllSucceeded \cap Succeeded(i)' = {}
              /\ AllLost \in SUBSET Devices /\ AllLost \cap Lost(i)' = {}
              /\ AllRefused \in SUBSET Devices /\ AllRefused \cap Refused(i)' = {}
              /\ Succeeded(i)' \in SUBSET Devices /\ Lost(i)' \in SUBSET Devices
              /\ Refused(i)' \in SUBSET Devices
            BY <2>5, <2>6
        <3>3. QED
            BY <2>4, <3>1, <3>2
    <2>8. ASSUME UniqueNames
          PROVE  totals' = [ successful |-> Cardinality(AllSucceeded'),
                             failed |-> Cardinality(AllLost'), rejected |-> Cardinality(AllRefused') ]
        <3>1. /\ totals = [ successful |-> Cardinality(AllSucceeded),
                            failed |-> Cardinality(AllLost), rejected |-> Cardinality(AllRefused) ]
              /\ Cardinality(AllSucceeded) \in Nat /\ Cardinality(AllLost) \in Nat
              /\ Cardinality(AllRefused) \in Nat
            BY <2>6, <2>8, FiniteDevices DEF TotalsInv
        <3>2. CASE ResultOf(i).error
            <4>1. Succeeded(i)' = {} /\ Lost(i)' = batches[i] /\ Refused(i)' = {}
                BY <2>1, <2>2, <3>2 DEF Succeeded, Lost, Refused
            <4>2. totals' = [totals EXCEPT !.failed = @ + Cardinality(batches[i])]
                BY <2>1, <3>2 DEF Added
            <4>3. QED
                BY <2>7, <3>1, <4>1, <4>2, FS_EmptySet
        <3>3. CASE ~ResultOf(i).error /\ ResultOf(i).approved
            <4>1. /\ Succeeded(i)' = ResultOf(i).successful_devices
                  /\ Lost(i)' = ResultOf(i).failed_devices /\ Refused(i)' = {}
                BY <2>1, <2>2, <3>3 DEF Succeeded, Lost, Refused
            <4>2. totals' = [totals EXCEPT !.successful = @ + Cardinality(ResultOf(i).successful_devices),
                                           !.failed = @ + Cardinality(Names(ResultOf(i).failed_devices))]
                BY <2>1, <3>3 DEF Added
            <4>3. Cardinality(Names(Lost(i)')) = Cardinality(Lost(i)')
                BY <2>5, <2>8, NamesCounted
            <4>4. totals' = [totals EXCEPT !.successful = @ + Cardinality(Succeeded(i)'),
                                           !.failed = @ + Cardinality(Lost(i)')]
                BY <4>1, <4>2, <4>3
            <4>5. Cardinality(Refused(i)') = 0
                BY <4>1, FS_EmptySet
            <4>6. totals' = [ successful |-> Cardinality(AllSucceeded) + Cardinality(Succeeded(i)'),
                              failed |-> Cardinality(AllLost) + Cardinality(Lost(i)'),
                              rejected |-> Cardinality(AllRefused) ]
                BY <3>1, <4>4
            <4>7. Cardinality(AllRefused') = Cardinality(AllRefused)
                BY <2>7, <3>1, <4>5
            <4>8. QED
                BY <2>7, <4>6, <4>7
        <3>4. CASE ~ResultOf(i).error /\ ~ResultOf(i).approved
            <4>1. /\ Succeeded(i)' = ResultOf(i).successful_devices
                  /\ Lost(i)' = ResultOf(i).failed_devices /\ Refused(i)' = batches[i]
                BY <2>1, <2>2, <3>4 DEF Succeeded, Lost, Refused
            <4>2. Succeeded(i)' = {} /\ Lost(i)' = {}
                BY <2>2, <2>5, <4>1 DEF PartsInv, PartsOf
            <4>3. totals' = [totals EXCEPT !.rejected = @ + Cardinality(batches[i])]
                BY <2>1, <3>4 DEF Added
            <4>4. QED
                BY <2>7, <3>1, <4>1, <4>2, <4>3, FS_EmptySet
        <3>5. QED
            BY <3>2, <3>3, <3>4
    <2>9. UniqueNames' = UniqueNames
        BY <2>1 DEF UniqueNames
    <2>10. QED
        BY <2>3, <2>8, <2>9 DEF TotalsInv
<1>6. CASE archive_results
    BY <1>6, TotalsKept DEF archive_results
<1>7. CASE ParentEnds
    BY <1>7, TotalsKept DEF ParentEnds
<1>8. CASE Waiting
    BY <1>8, WaitingKeeps, TotalsKept
<1>9. CASE Work
    BY <1>9, WorkKeeps, TotalsKept
<1>10. CASE UNCHANGED vars
    BY <1>10, TotalsKept DEF vars
<1>11. QED
    BY <1>1, <1>2, <1>3, <1>4, <1>5, <1>6, <1>7, <1>8, <1>9, <1>10,
       StepsOfParent

\* The devices read are those that have a diff, each counted once.
LEMMA AllCounted ==
  ASSUME TypeOK, BatchesPartition, PartsInv, stage = "archive", DOMAIN batch_results = DOMAIN batches
  PROVE  /\ AllSucceeded \cup AllLost \cup AllRefused = {d \in devices : diff[d] \in Diffs}
         /\ AllSucceeded \cap AllLost = {} /\ (AllSucceeded \cup AllLost) \cap AllRefused = {}
<1>1. /\ BatchesDisjoint
      /\ \A d \in devices : diff[d] \in Diffs <=> \E i \in DOMAIN batches : d \in batches[i]
    BY DEF BatchesPartition
<1>2. \A i \in DOMAIN batches :
        /\ Succeeded(i) \cup Lost(i) \cup Refused(i) = batches[i]
        /\ Succeeded(i) \cap Lost(i) = {} /\ (Succeeded(i) \cup Lost(i)) \cap Refused(i) = {}
    BY DEF PartsInv, PartsOf
<1>3. AllSucceeded \cup AllLost \cup AllRefused = UNION {batches[i] : i \in DOMAIN batches}
    BY <1>2 DEF AllSucceeded, AllLost, AllRefused
<1>4. UNION {batches[i] : i \in DOMAIN batches} = {d \in devices : diff[d] \in Diffs}
    BY <1>1 DEF BatchesDisjoint
<1>5. \A i, j \in DOMAIN batches :
        Succeeded(i) \cap Lost(j) = {} /\ (Succeeded(i) \cup Lost(i)) \cap Refused(j) = {}
    <2> SUFFICES ASSUME NEW i \in DOMAIN batches, NEW j \in DOMAIN batches
                 PROVE  Succeeded(i) \cap Lost(j) = {} /\ (Succeeded(i) \cup Lost(i)) \cap Refused(j) = {}
        OBVIOUS
    <2>1. CASE i = j
        BY <1>2, <2>1
    <2>2. CASE i # j
        <3>1. batches[i] \cap batches[j] = {}
            BY <1>1, <2>2 DEF BatchesDisjoint
        <3>2. QED
            BY <1>2, <3>1
    <2>3. QED
        BY <2>1, <2>2
<1>6. AllSucceeded \cap AllLost = {} /\ (AllSucceeded \cup AllLost) \cap AllRefused = {}
    BY <1>5 DEF AllSucceeded, AllLost, AllRefused
<1>7. QED
    BY <1>3, <1>4, <1>6

\* The backups of the batches without an error, as archive_results adds them up.
BackupsOf(field) ==
  {b \in (DOMAIN batch_results) \X Devices : /\ ~batch_results[b[1]].error
                                             /\ b[2] \in batch_results[b[1]].backups[field]}

\* If names differ they are as many as the devices configured, and each has succeeded
\* or failed.
LEMMA AllBackups ==
  ASSUME TypeOK, BatchesDisjoint, PartsInv, UniqueNames
  PROVE  /\ Cardinality(BackupsOf("total")) = Cardinality(AllSucceeded)
         /\ Cardinality(BackupsOf("successful")) + Cardinality(BackupsOf("failed"))
              = Cardinality(BackupsOf("total"))
<1>1. \A i \in DOMAIN batch_results :
        /\ i \in DOMAIN batches /\ Succeeded(i) \subseteq batches[i] /\ batches[i] \subseteq Devices
        /\ batch_results[i].error => Succeeded(i) = {}
        /\ ~batch_results[i].error => batch_results[i].backups["total"] = Succeeded(i)
    BY DEF PartsInv, PartsOf, BatchesDisjoint, TypeOK, Succeeded
<1>2. BackupsOf("total") = {b \in (DOMAIN batch_results) \X Devices : b[2] \in Succeeded(b[1])}
    BY <1>1 DEF BackupsOf
<1>3. IsFiniteSet(BackupsOf("total")) /\ Cardinality(BackupsOf("total")) = Cardinality(AllSucceeded)
    <2> DEFINE T == BackupsOf("total")
               f == [b \in T |-> b[2]]
    <2>1. f \in [T -> AllSucceeded]
        BY <1>2 DEF AllSucceeded
    <2>2. ASSUME NEW b \in T, NEW c \in T, f[b] = f[c] PROVE b = c
        <3>1. /\ b[1] \in DOMAIN batch_results /\ c[1] \in DOMAIN batch_results
              /\ b = <<b[1], b[2]>> /\ c = <<c[1], c[2]>>
              /\ b[2] \in Succeeded(b[1]) /\ c[2] \in Succeeded(c[1]) /\ b[2] = c[2]
            BY <1>2, <2>2
        <3>2. b[1] = c[1]
            BY <1>1, <3>1 DEF BatchesDisjoint
        <3>3. QED
            BY <3>1, <3>2
    <2>3. ASSUME NEW d \in AllSucceeded PROVE \E b \in T : f[b] = d
        <3>1. PICK i \in DOMAIN batch_results : d \in Succeeded(i)
            BY DEF AllSucceeded
        <3>2. <<i, d>> \in T
            BY <1>1, <1>2, <3>1
        <3>3. f[<<i, d>>] = d
            BY <3>2
        <3>4. QED
            BY <3>2, <3>3
    <2>4. IsFiniteSet(AllSucceeded)
        <3>1. AllSucceeded \in SUBSET Devices
            BY <1>1 DEF AllSucceeded
        <3>2. QED
            BY <3>1, FiniteDevices
    <2> HIDE DEF T, f
    <2>5. IsFiniteSet(T) /\ Cardinality(T) = Cardinality(AllSucceeded)
        BY <2>1, <2>2, <2>3, <2>4, SameNumber
    <2>6. QED
        BY <2>5 DEF T
<1>4. \A i \in DOMAIN batch_results : ~batch_results[i].error =>
        /\ batch_results[i].backups["successful"] \cup batch_results[i].backups["failed"]
             = batch_results[i].backups["total"]
        /\ batch_results[i].backups["successful"] \cap batch_results[i].backups["failed"] = {}
    BY DEF PartsInv, PartsOf
<1>5. /\ BackupsOf("successful") \cup BackupsOf("failed") = BackupsOf("total")
      /\ BackupsOf("successful") \cap BackupsOf("failed") = {}
    BY <1>4 DEF BackupsOf
<1> DEFINE S == BackupsOf("successful")
           F == BackupsOf("failed")
<1> HIDE DEF S, F
<1>6. IsFiniteSet(S) /\ IsFiniteSet(F)
    BY <1>3, <1>5, FS_Subset DEF S, F
<1>7. Cardinality(S \cup F) = Cardinality(S) + Cardinality(F) - Cardinality(S \cap F)
    BY <1>6, FS_Union
<1>8. Cardinality(S \cap F) = 0 /\ Cardinality(S) \in Nat /\ Cardinality(F) \in Nat
    BY <1>5, <1>6, FS_EmptySet, FS_CardinalityType DEF S, F
<1>9. QED
    BY <1>3, <1>5, <1>7, <1>8 DEF S, F

LEMMA Returned ==
  ASSUME TypeOK, BatchesPartition, PartsInv, TotalsInv, archive_results
  PROVE  CountsAddUp'
<1> SUFFICES ASSUME UniqueNames' PROVE
      /\ result'.successful + result'.failed + result'.rejected
           + Cardinality({d \in devices' : diff'[d] = ""}) = result'.total
      /\ result'.total_backups = result'.successful
      /\ result'.successful_backups + result'.failed_backups = result'.total_backups
    BY DEF CountsAddUp
<1> DEFINE Of(x) == {d \in devices : diff[d] = x}
           withDiff == {d \in devices : diff[d] \in Diffs}
<1>1. UniqueNames /\ devices' = devices /\ diff' = diff /\ stage = "archive"
    BY DEF archive_results, UniqueNames, input
<1>2. result' = [ total |-> Cardinality(devices), successful |-> totals.successful,
                  failed |-> totals.failed + Cardinality(Unread(diff)),
                  rejected |-> totals.rejected, total_backups |-> Cardinality(BackupsOf("total")),
                  successful_backups |-> Cardinality(BackupsOf("successful")),
                  failed_backups |-> Cardinality(BackupsOf("failed")),
                  discovery_failures |-> Cardinality(Unread(diff)) ]
    BY DEF archive_results, BackupsOf
<1>3. /\ DOMAIN batch_results = DOMAIN batches
      /\ totals.successful = Cardinality(AllSucceeded) /\ totals.failed = Cardinality(AllLost)
      /\ totals.rejected = Cardinality(AllRefused)
    BY <1>1 DEF TotalsInv
<1>4. /\ AllSucceeded \cup AllLost \cup AllRefused = withDiff
      /\ AllSucceeded \cap AllLost = {} /\ (AllSucceeded \cup AllLost) \cap AllRefused = {}
    BY <1>1, <1>3, AllCounted
<1>5. /\ Cardinality(BackupsOf("total")) = Cardinality(AllSucceeded)
      /\ Cardinality(BackupsOf("successful")) + Cardinality(BackupsOf("failed"))
           = Cardinality(BackupsOf("total"))
    BY <1>1, AllBackups DEF BatchesPartition
<1>6. Cardinality(Unread(diff)) = Cardinality(Of("error"))
    BY <1>1, NamesCounted DEF Unread, TypeOK
<1>7. devices \subseteq Devices /\ \A d \in devices : diff[d] \in Diffs \cup {"", "error"}
    BY DEF TypeOK
<1>8. /\ devices = (withDiff \cup Of("error")) \cup Of("")
      /\ withDiff \cap Of("error") = {} /\ (withDiff \cup Of("error")) \cap Of("") = {}
    BY <1>7, ConstantsAssumption
<1>9. Cardinality(devices) = Cardinality(withDiff) + Cardinality(Of("error")) + Cardinality(Of(""))
    <2>1. /\ withDiff \in SUBSET Devices /\ Of("error") \in SUBSET Devices /\ Of("") \in SUBSET Devices
          /\ withDiff \cup Of("error") \in SUBSET Devices
        BY <1>7
    <2> HIDE DEF withDiff, Of
    <2>2. /\ Cardinality(withDiff \cup Of("error")) = Cardinality(withDiff) + Cardinality(Of("error"))
          /\ Cardinality((withDiff \cup Of("error")) \cup Of(""))
               = Cardinality(withDiff \cup Of("error")) + Cardinality(Of(""))
        BY <1>8, <2>1, DisjointSum
    <2>3. QED
        BY <1>8, <2>2
<1>10. Cardinality(withDiff) = Cardinality(AllSucceeded) + Cardinality(AllLost) + Cardinality(AllRefused)
    <2>1. /\ AllSucceeded \in SUBSET Devices /\ AllLost \in SUBSET Devices
          /\ AllRefused \in SUBSET Devices /\ AllSucceeded \cup AllLost \in SUBSET Devices
        BY <1>4, <1>7
    <2>2. /\ Cardinality(AllSucceeded \cup AllLost) = Cardinality(AllSucceeded) + Cardinality(AllLost)
          /\ Cardinality((AllSucceeded \cup AllLost) \cup AllRefused)
               = Cardinality(AllSucceeded \cup AllLost) + Cardinality(AllRefused)
        BY <1>4, <2>1, DisjointSum
    <2>3. QED
        BY <1>4, <2>2
<1>11. /\ Cardinality(AllSucceeded) \in Nat /\ Cardinality(AllLost) \in Nat
       /\ Cardinality(AllRefused) \in Nat /\ Cardinality(Of("error")) \in Nat
       /\ Cardinality(Of("")) \in Nat
    <2>1. /\ AllSucceeded \in SUBSET Devices /\ AllLost \in SUBSET Devices
          /\ AllRefused \in SUBSET Devices /\ Of("error") \in SUBSET Devices
          /\ Of("") \in SUBSET Devices
        BY <1>4, <1>7
    <2>2. QED
        BY <2>1, FiniteDevices
<1>12. {d \in devices' : diff'[d] = ""} = Of("")
    BY <1>1
<1> HIDE DEF withDiff, Of
<1>13. /\ result'.total = Cardinality(devices) /\ result'.successful = Cardinality(AllSucceeded)
       /\ result'.failed = Cardinality(AllLost) + Cardinality(Of("error"))
       /\ result'.rejected = Cardinality(AllRefused)
       /\ result'.total_backups = Cardinality(BackupsOf("total"))
       /\ result'.successful_backups = Cardinality(BackupsOf("successful"))
       /\ result'.failed_backups = Cardinality(BackupsOf("failed"))
    BY <1>2, <1>3, <1>6
<1>14. result'.successful + result'.failed + result'.rejected + Cardinality(Of("")) = result'.total
    <2> DEFINE s == Cardinality(AllSucceeded)
               l == Cardinality(AllLost)
               r == Cardinality(AllRefused)
               e == Cardinality(Of("error"))
               n == Cardinality(Of(""))
    <2>1. result'.total = ((s + l) + r) + e + n
        BY <1>9, <1>10, <1>13
    <2>2. result'.successful + result'.failed + result'.rejected + n = s + (l + e) + r + n
        BY <1>13
    <2>3. s \in Nat /\ l \in Nat /\ r \in Nat /\ e \in Nat /\ n \in Nat
        BY <1>11
    <2> HIDE DEF s, l, r, e, n
    <2>4. s + (l + e) + r + n = ((s + l) + r) + e + n
        BY <2>3
    <2>5. result'.successful + result'.failed + result'.rejected + n = result'.total
        BY <2>1, <2>2, <2>4
    <2>6. QED
        BY <2>5 DEF n
<1>15. QED
    BY <1>5, <1>12, <1>13, <1>14

LEMMA CountsStep ==
  ASSUME TypeOK, StartInv, BatchesPartition, PartsInv, TotalsInv, CountsAddUp, [Next]_vars
  PROVE  CountsAddUp'
<1> USE DEF input, parent
<1>1. CASE discover_devices
    <2>1. DOMAIN batches' = {}
        BY <1>1, EmptyDomain DEF discover_devices, StartInv
    <2>2. QED
        BY <2>1 DEF CountsAddUp
<1>2. CASE collect_diffs
    <2>1. DOMAIN batches' = {}
        BY <1>2, EmptyDomain DEF collect_diffs, StartInv
    <2>2. QED
        BY <2>1 DEF CountsAddUp
<1>3. CASE group_and_batch
    <2>1. stage' = "start_batches"
        BY <1>3 DEF group_and_batch
    <2>2. QED
        BY <2>1 DEF CountsAddUp
<1>4. CASE start_batches
    <2>1. stage' = "execute_batches"
        BY <1>4 DEF start_batches
    <2>2. QED
        BY <2>1 DEF CountsAddUp
<1>5. ASSUME NEW i \in DOMAIN batches, collect_result(i) PROVE CountsAddUp'
    <2>1. stage' # "returned"
        BY <1>5 DEF collect_result
    <2>2. QED
        BY <2>1 DEF CountsAddUp
<1>6. CASE archive_results
    BY <1>6, Returned
<1>7. CASE ParentEnds
    <2>1. stage' = "failed"
        BY <1>7 DEF ParentEnds
    <2>2. QED
        BY <2>1 DEF CountsAddUp
<1>8. CASE Waiting
    BY <1>8, WaitingKeeps DEF CountsAddUp
<1>9. CASE Work
    BY <1>9, WorkKeeps DEF CountsAddUp, UniqueNames
<1>10. CASE UNCHANGED vars
    BY <1>10 DEF vars, CountsAddUp, UniqueNames
<1>11. QED
    BY <1>1, <1>2, <1>3, <1>4, <1>5, <1>6, <1>7, <1>8, <1>9, <1>10,
       StepsOfParent

LEMMA Invariance == Spec => []Inv
<1>1. Init => Inv
    BY Initially
<1>2. Inv /\ [Next]_vars => Inv'
    <2> SUFFICES ASSUME Inv, [Next]_vars PROVE Inv'
        OBVIOUS
    <2>1. BatchesDisjoint
        BY Disjoint DEF Inv
    <2>2. TypeOK' /\ ChildrenInv' /\ StartInv' /\ BatchesPartition'
        BY TypeStep, StartStep, BatchesStep DEF Inv
    <2>3. ApprovedInv' /\ RunInv'
        BY <2>1, ApprovedStep, RunStep DEF Inv
    <2>4. PartsInv'
        BY <2>1, PartsStep DEF Inv
    <2>5. TotalsInv' /\ CountsAddUp'
        BY <2>1, <2>4, TotalsStep, CountsStep DEF Inv
    <2>6. QED
        BY <2>2, <2>3, <2>4, <2>5 DEF Inv
<1>3. QED
    BY <1>1, <1>2, PTL DEF Spec

\* The state of a deployment is of its type: the children's stages and runs, the
\* applies and backups of the devices.
THEOREM TypeCorrect == Spec => []TypeOK
<1>1. Inv => TypeOK
    BY DEF Inv
<1>2. QED
    BY <1>1, Invariance, PTL

\* However the devices are listed and their diffs shared, group_and_batch puts every
\* device with a diff into one batch of its diff, no batch exceeds the maximum, and
\* each group has at most one smaller batch.
THEOREM Partitioned == Spec => []BatchesPartition
<1>1. Inv => BatchesPartition
    BY DEF Inv
<1>2. QED
    BY <1>1, Invariance, PTL

\* However reviews, applies, failed and repeated runs and terminations interleave, a
\* batch is changed only if one of its reviews has approved it, and an apply is under way
\* only in a run whose own review has: never while the child waits for its review, nor
\* once it backs up, archives and reports, whatever its other applies have come to.
THEOREM Reviewed == Spec => []AppliesReviewed
<1>1. Inv => AppliesReviewed
    BY DEF Inv, ApprovedInv
<1>2. QED
    BY <1>1, Invariance, PTL

\* What the parent returns accounts for every device and for one backup of each
\* configured device, in whatever order the children end, fail or run again.
THEOREM Accounted == Spec => []CountsAddUp
<1>1. Inv => CountsAddUp
    BY DEF Inv
<1>2. QED
    BY <1>1, Invariance, PTL
=============================================================================
