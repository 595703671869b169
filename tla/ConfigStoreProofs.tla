------------------------- MODULE ConfigStoreProofs -------------------------
(***************************************************************************)
(* ConfigStore keeps versions unique and implements VersionLog, for every  *)
(* set of files, contents, requests and batches.                           *)
(***************************************************************************)
EXTENDS ConfigStore, FiniteSetTheorems, TLAPS

ItemSteps == {"check", "lock", "max", "latest", "insert"}
DeleteSteps == {"count", "snapshot", "delete"}

(* Only finitely many rows are ever counted. *)
FiniteInv == /\ IsFiniteSet(rows)
             /\ \A t \in Requests : IsFiniteSet(added[t])

(* A transaction that stores deletes nothing, one that deletes stores      *)
(* nothing, and one that has ended has nothing pending.                    *)
FlowInv ==
    \A t \in Requests :
       /\ pc[t] \in ItemSteps => items[t] # <<>> /\ gone[t] = {}
       /\ pc[t] \in DeleteSteps => added[t] = {}
       /\ pc[t] = "commit" => added[t] = {} \/ gone[t] = {}
       /\ pc[t] \in Finished \cup {"idle"} => held[t] = {} /\ added[t] = {} /\ gone[t] = {}
       /\ gone[t] # {} => pc[t] \in {"delete", "commit"}

(* Locks exclude each other; a transaction holds the lock of every file it *)
(* has inserted a row of, and of the one it reads max(version) of.         *)
LockInv ==
    /\ \A t, u \in Requests : t # u => held[t] \cap held[u] = {}
    /\ \A t \in Requests : \A r \in added[t] : r.file \in held[t]
    /\ \A t \in Requests :
          pc[t] \in {"max", "latest", "insert"} => Head(items[t]).file \in held[t]

(* A DELETE sees, with a row, all the older rows of its file. *)
GoneInv ==
    \A t \in Requests :
       /\ gone[t] \subseteq rows
       /\ \A r \in gone[t], q \in rows :
             q.file = r.file /\ q.version < r.version => q \in gone[t]

UniqueIn(S) == \A r, q \in S : r.file = q.file /\ r.version = q.version => r = q

(* What a transaction has inserted continues what is committed. *)
LogInv ==
    /\ UniqueIn(rows)
    /\ \A t \in Requests :
          /\ UniqueIn(added[t])
          /\ \A r \in added[t] : r.version > 0
          /\ \A r \in added[t], q \in rows : r.file = q.file => q.version < r.version
          /\ \A r \in added[t], q \in Visible(t) :
                r.file = q.file /\ q.version < r.version =>
                   \E p \in Visible(t) : /\ p.file = r.file
                                         /\ p.version + 1 = r.version
                                         /\ p.content # r.content

(* What a transaction has read under its lock stays true: no row is newer  *)
(* than maxv, and when a row is left, so is the one of version maxv.       *)
ReadInv ==
    \A t \in Requests :
       pc[t] \in {"latest", "insert"} =>
          \A q \in Visible(t) :
             q.file = Head(items[t]).file =>
                /\ q.version <= maxv[t]
                /\ \E p \in Visible(t) :
                      /\ p.file = q.file
                      /\ p.version = maxv[t]
                      /\ pc[t] = "insert" => p.content # Head(items[t]).content

IndInv == TypeOK /\ FiniteInv /\ FlowInv /\ LockInv /\ GoneInv /\ LogInv /\ ReadInv

-----------------------------------------------------------------------------
(* A victim of a circular wait waits for a lock. *)
LEMMA VictimWaits ==
  ASSUME NEW t \in Requests, DeadlockVictim(t)
  PROVE  pc[t] = "lock" /\ Abort(t)
BY Zenon DEF DeadlockVictim

(* The next item is one of the items that are left. *)
LEMMA NextItemType ==
  ASSUME TypeOK, NEW t \in Requests, items[t] # <<>>, NextItem(t)
  PROVE  /\ items' \in [Requests -> Seq(Item)]
         /\ pc' \in [Requests -> Steps]
         /\ items'[t] = Tail(items[t])
         /\ pc'[t] = IF items'[t] = <<>> THEN "commit" ELSE "check"
         /\ \A u \in Requests \ {t} : items'[u] = items[u] /\ pc'[u] = pc[u]
BY DEF TypeOK, NextItem, Steps

(* The item at hand is an item. *)
LEMMA HeadType ==
  ASSUME TypeOK, FlowInv, NEW t \in Requests, pc[t] \in ItemSteps
  PROVE  /\ items[t] # <<>>
         /\ Head(items[t]) \in Item
         /\ Head(items[t]).file \in Files
         /\ Head(items[t]).content \in Contents
<1>1. items[t] # <<>> /\ items[t] \in Seq(Item)
  BY DEF TypeOK, FlowInv
<1>2. Head(items[t]) \in Item
  BY <1>1
<1>3. QED
  BY <1>1, <1>2 DEF Item

(* Every statement keeps every variable in its type. *)
LEMMA TypeStep ==
  ASSUME TypeOK, FiniteInv, FlowInv, [Next]_vars
  PROVE  TypeOK'
<1> USE DEF Finished
<1>0. CASE UNCHANGED vars
  BY <1>0 DEF vars, TypeOK
<1>1. ASSUME NEW t \in Requests, StartCreate(t) PROVE TypeOK'
  BY <1>1 DEF TypeOK, StartCreate, Steps
<1>2. ASSUME NEW t \in Requests, StartBatch(t) PROVE TypeOK'
  BY <1>2, BatchesAssumption DEF TypeOK, StartBatch, Steps
<1>3. ASSUME NEW t \in Requests, StartDelete(t) PROVE TypeOK'
  BY <1>3 DEF TypeOK, StartDelete, Steps
<1>4. ASSUME NEW t \in Requests, Check(t) PROVE TypeOK'
  <2>1. pc[t] \in ItemSteps
    BY <1>4 DEF Check, ItemSteps
  <2>2. QED
    BY <1>4, <2>1, HeadType, NextItemType DEF TypeOK, Check, Steps
<1>5. ASSUME NEW t \in Requests, acquire_file_lock(t) PROVE TypeOK'
  <2>1. pc[t] \in ItemSteps
    BY <1>5 DEF acquire_file_lock, ItemSteps
  <2>2. QED
    BY <1>5, <2>1, HeadType, NextItemType DEF TypeOK, acquire_file_lock, Steps
<1>6. ASSUME NEW t \in Requests, ReadMax(t) PROVE TypeOK'
  <2>1. maxv' \in [Requests -> Nat] /\ pc' \in [Requests -> Steps]
    <3>1. CASE RowsOf(Visible(t), Head(items[t]).file) = {} /\ maxv' = [maxv EXCEPT ![t] = 0] /\ pc' = [pc EXCEPT ![t] = "insert"]
      BY <3>1 DEF TypeOK, Steps
    <3>2. ASSUME NEW r \in Visible(t), maxv' = [maxv EXCEPT ![t] = r.version],
                 pc' = [pc EXCEPT ![t] = "latest"]
          PROVE  maxv' \in [Requests -> Nat] /\ pc' \in [Requests -> Steps]
      BY <3>2 DEF TypeOK, Steps, Visible, Row
    <3>3. QED
      BY <1>6, <3>1, <3>2 DEF ReadMax
  <2>2. QED
    BY <1>6, <2>1 DEF ReadMax, TypeOK
<1>7. ASSUME NEW t \in Requests, ReadLatest(t) PROVE TypeOK'
  <2>1. pc[t] \in ItemSteps
    BY <1>7 DEF ReadLatest, ItemSteps
  <2>2. QED
    BY <1>7, <2>1, HeadType, NextItemType DEF TypeOK, ReadLatest, Steps
<1>8. ASSUME NEW t \in Requests, Insert(t) PROVE TypeOK'
  <2>1. pc[t] \in ItemSteps
    BY <1>8 DEF Insert, ItemSteps
  <2>2. [file |-> Head(items[t]).file, version |-> maxv[t] + 1,
         content |-> Head(items[t]).content] \in Row
    BY <2>1, HeadType DEF TypeOK, Row
  <2>3. QED
    BY <1>8, <2>1, <2>2, HeadType, NextItemType DEF TypeOK, Insert
<1>9. ASSUME NEW t \in Requests, Count(t) PROVE TypeOK'
  BY <1>9, FS_CardinalityType DEF TypeOK, Count, Steps, FiniteInv
<1>10. ASSUME NEW t \in Requests, Snapshot(t) PROVE TypeOK'
  BY <1>10 DEF TypeOK, Snapshot, Steps
<1>11. ASSUME NEW t \in Requests, Delete(t) PROVE TypeOK'
  BY <1>11 DEF TypeOK, Delete, Steps
<1>12. ASSUME NEW t \in Requests, Commit(t) PROVE TypeOK'
  BY <1>12 DEF TypeOK, Commit, Steps
<1>13. ASSUME NEW t \in Requests, DeadlockVictim(t) PROVE TypeOK'
  BY <1>13, VictimWaits DEF TypeOK, Abort, Steps
<1>14. ASSUME NEW t \in Requests, Rollback(t) PROVE TypeOK'
  BY <1>14 DEF TypeOK, Rollback, Abort, Steps
<1>15. QED
  BY <1>0, <1>1, <1>2, <1>3, <1>4, <1>5, <1>6, <1>7, <1>8, <1>9, <1>10, <1>11, <1>12,
     <1>13, <1>14 DEF Next, Statement

(* At most one row is added at a time. *)
LEMMA FiniteStep ==
  ASSUME TypeOK, FiniteInv, [Next]_vars
  PROVE  FiniteInv'
<1> USE DEF Finished
<1>0. CASE UNCHANGED vars
  BY <1>0 DEF vars, FiniteInv
<1>1. ASSUME NEW t \in Requests, StartCreate(t) PROVE FiniteInv'
  BY <1>1 DEF FiniteInv, StartCreate
<1>2. ASSUME NEW t \in Requests, StartBatch(t) PROVE FiniteInv'
  BY <1>2 DEF FiniteInv, StartBatch
<1>3. ASSUME NEW t \in Requests, StartDelete(t) PROVE FiniteInv'
  BY <1>3 DEF FiniteInv, StartDelete
<1>4. ASSUME NEW t \in Requests, Check(t) PROVE FiniteInv'
  BY <1>4 DEF FiniteInv, Check
<1>5. ASSUME NEW t \in Requests, acquire_file_lock(t) PROVE FiniteInv'
  BY <1>5 DEF FiniteInv, acquire_file_lock
<1>6. ASSUME NEW t \in Requests, ReadMax(t) PROVE FiniteInv'
  BY <1>6 DEF FiniteInv, ReadMax
<1>7. ASSUME NEW t \in Requests, ReadLatest(t) PROVE FiniteInv'
  BY <1>7 DEF FiniteInv, ReadLatest
<1>8. ASSUME NEW t \in Requests, Insert(t) PROVE FiniteInv'
  <2>1. rows' = rows /\ IsFiniteSet(added'[t])
    BY <1>8, FS_AddElement DEF TypeOK, FiniteInv, Insert
  <2>2. \A u \in Requests \ {t} : added'[u] = added[u]
    BY <1>8 DEF TypeOK, Insert
  <2>3. QED
    BY <2>1, <2>2 DEF FiniteInv
<1>9. ASSUME NEW t \in Requests, Count(t) PROVE FiniteInv'
  BY <1>9 DEF FiniteInv, Count
<1>10. ASSUME NEW t \in Requests, Snapshot(t) PROVE FiniteInv'
  BY <1>10 DEF FiniteInv, Snapshot
<1>11. ASSUME NEW t \in Requests, Delete(t) PROVE FiniteInv'
  BY <1>11 DEF FiniteInv, Delete
<1>12. ASSUME NEW t \in Requests, Commit(t) PROVE FiniteInv'
  BY <1>12, FS_Union, FS_Subset, FS_EmptySet DEF TypeOK, FiniteInv, Commit
<1>13. ASSUME NEW t \in Requests, DeadlockVictim(t) PROVE FiniteInv'
  BY <1>13, VictimWaits, FS_EmptySet DEF TypeOK, FiniteInv, Abort
<1>14. ASSUME NEW t \in Requests, Rollback(t) PROVE FiniteInv'
  BY <1>14, FS_EmptySet DEF TypeOK, FiniteInv, Rollback, Abort
<1>15. QED
  BY <1>0, <1>1, <1>2, <1>3, <1>4, <1>5, <1>6, <1>7, <1>8, <1>9, <1>10, <1>11, <1>12,
     <1>13, <1>14 DEF Next, Statement

(* A transaction that is rolled back has nothing pending. *)
LEMMA AbortFlow ==
  ASSUME TypeOK, FlowInv, NEW t \in Requests, Abort(t)
  PROVE  FlowInv'
<1>1. pc'[t] = "failed" /\ held'[t] = {} /\ added'[t] = {} /\ gone'[t] = {}
  BY DEF TypeOK, Abort
<1>2. ASSUME NEW u \in Requests, u # t
      PROVE  /\ pc'[u] = pc[u] /\ held'[u] = held[u] /\ added'[u] = added[u]
             /\ gone'[u] = gone[u] /\ items'[u] = items[u]
  BY <1>2 DEF TypeOK, Abort
<1>3. QED
  BY <1>1, <1>2 DEF FlowInv, ItemSteps, DeleteSteps, Finished

(* The program order of the handlers. *)
LEMMA FlowStep ==
  ASSUME TypeOK, FlowInv, [Next]_vars
  PROVE  FlowInv'
<1> USE DEF Finished
<1>0. CASE UNCHANGED vars
  BY <1>0 DEF vars, FlowInv
<1>1. ASSUME NEW t \in Requests, StartCreate(t) PROVE FlowInv'
  <2>1. PICK i \in Item : items' = [items EXCEPT ![t] = <<i>>]
    BY <1>1 DEF StartCreate
  <2>2. items'[t] # <<>> /\ \A u \in Requests \ {t} : items'[u] = items[u]
    BY <2>1 DEF TypeOK
  <2>3. QED
    BY <1>1, <2>2 DEF TypeOK, StartCreate, FlowInv, ItemSteps, DeleteSteps, Finished
<1>2. ASSUME NEW t \in Requests, StartBatch(t) PROVE FlowInv'
  BY <1>2
    DEF TypeOK, Steps, FlowInv, ItemSteps, DeleteSteps, Finished, StartBatch
<1>3. ASSUME NEW t \in Requests, StartDelete(t) PROVE FlowInv'
  BY <1>3
    DEF TypeOK, Steps, FlowInv, ItemSteps, DeleteSteps, Finished, StartDelete
<1>4. ASSUME NEW t \in Requests, Check(t) PROVE FlowInv'
  BY <1>4
    DEF TypeOK, Steps, FlowInv, ItemSteps, DeleteSteps, Finished, NextItem,
        Check
<1>5. ASSUME NEW t \in Requests, acquire_file_lock(t) PROVE FlowInv'
  BY <1>5
    DEF TypeOK, Steps, FlowInv, ItemSteps, DeleteSteps, Finished, acquire_file_lock
<1>6. ASSUME NEW t \in Requests, ReadMax(t) PROVE FlowInv'
  BY <1>6
    DEF TypeOK, Steps, FlowInv, ItemSteps, DeleteSteps, Finished, ReadMax
<1>7. ASSUME NEW t \in Requests, ReadLatest(t) PROVE FlowInv'
  BY <1>7
    DEF TypeOK, Steps, FlowInv, ItemSteps, DeleteSteps, Finished, NextItem,
        ReadLatest
<1>8. ASSUME NEW t \in Requests, Insert(t) PROVE FlowInv'
  BY <1>8
    DEF TypeOK, Steps, FlowInv, ItemSteps, DeleteSteps, Finished, NextItem,
        Insert
<1>9. ASSUME NEW t \in Requests, Count(t) PROVE FlowInv'
  BY <1>9
    DEF TypeOK, Steps, FlowInv, ItemSteps, DeleteSteps, Finished, Count
<1>10. ASSUME NEW t \in Requests, Snapshot(t) PROVE FlowInv'
  BY <1>10
    DEF TypeOK, Steps, FlowInv, ItemSteps, DeleteSteps, Finished, Snapshot
<1>11. ASSUME NEW t \in Requests, Delete(t) PROVE FlowInv'
  BY <1>11
    DEF TypeOK, Steps, FlowInv, ItemSteps, DeleteSteps, Finished, Delete
<1>12. ASSUME NEW t \in Requests, Commit(t) PROVE FlowInv'
  BY <1>12
    DEF TypeOK, Steps, FlowInv, ItemSteps, DeleteSteps, Finished, Commit
<1>13. ASSUME NEW t \in Requests, DeadlockVictim(t) PROVE FlowInv'
  BY <1>13, VictimWaits, AbortFlow
<1>14. ASSUME NEW t \in Requests, Rollback(t) PROVE FlowInv'
  BY <1>14, AbortFlow DEF Rollback
<1>15. QED
  BY <1>0, <1>1, <1>2, <1>3, <1>4, <1>5, <1>6, <1>7, <1>8, <1>9, <1>10, <1>11, <1>12,
     <1>13, <1>14 DEF Next, Statement

(* A lock is taken only when it is free and kept to the end. *)
LEMMA LockStep ==
  ASSUME TypeOK, FlowInv, LockInv, [Next]_vars
  PROVE  LockInv'
<1> USE DEF Finished
<1>0. CASE UNCHANGED vars
  BY <1>0 DEF vars, LockInv
<1>1. ASSUME NEW t \in Requests, StartCreate(t) PROVE LockInv'
  BY <1>1 DEF TypeOK, LockInv, StartCreate
<1>2. ASSUME NEW t \in Requests, StartBatch(t) PROVE LockInv'
  BY <1>2 DEF TypeOK, LockInv, StartBatch
<1>3. ASSUME NEW t \in Requests, StartDelete(t) PROVE LockInv'
  BY <1>3 DEF TypeOK, LockInv, StartDelete
<1>4. ASSUME NEW t \in Requests, Check(t) PROVE LockInv'
  <2>1. items[t] # <<>>
    BY <1>4 DEF FlowInv, ItemSteps, Check
  <2>2. CASE Unchanged(t)
    <3>1. NextItem(t)
      BY <1>4, <2>2 DEF Check
    <3>2. QED
      BY <1>4, <2>1, <3>1, NextItemType DEF LockInv, Check
  <2>3. CASE ~Unchanged(t)
    BY <1>4, <2>3 DEF TypeOK, LockInv, Check
  <2>4. QED
    BY <2>2, <2>3
<1>5. ASSUME NEW t \in Requests, acquire_file_lock(t) PROVE LockInv'
  BY <1>5 DEF TypeOK, LockInv, acquire_file_lock
<1>6. ASSUME NEW t \in Requests, ReadMax(t) PROVE LockInv'
  BY <1>6 DEF TypeOK, LockInv, ReadMax
<1>7. ASSUME NEW t \in Requests, ReadLatest(t) PROVE LockInv'
  <2>1. items[t] # <<>>
    BY <1>7 DEF FlowInv, ItemSteps, ReadLatest
  <2>2. CASE Unchanged(t)
    <3>1. NextItem(t)
      BY <1>7, <2>2 DEF ReadLatest
    <3>2. QED
      BY <1>7, <2>1, <3>1, NextItemType DEF LockInv, ReadLatest
  <2>3. CASE ~Unchanged(t)
    BY <1>7, <2>3 DEF TypeOK, LockInv, ReadLatest
  <2>4. QED
    BY <2>2, <2>3
<1>8. ASSUME NEW t \in Requests, Insert(t) PROVE LockInv'
  BY <1>8 DEF TypeOK, FlowInv, LockInv, ItemSteps, NextItem, Insert
<1>9. ASSUME NEW t \in Requests, Count(t) PROVE LockInv'
  BY <1>9 DEF TypeOK, LockInv, Count
<1>10. ASSUME NEW t \in Requests, Snapshot(t) PROVE LockInv'
  BY <1>10 DEF TypeOK, LockInv, Snapshot
<1>11. ASSUME NEW t \in Requests, Delete(t) PROVE LockInv'
  BY <1>11 DEF TypeOK, LockInv, Delete
<1>12. ASSUME NEW t \in Requests, Commit(t) PROVE LockInv'
  BY <1>12 DEF TypeOK, LockInv, Commit
<1>13. ASSUME NEW t \in Requests, DeadlockVictim(t) PROVE LockInv'
  <2>1. Abort(t)
    BY <1>13, VictimWaits
  <2>2. QED
    BY <2>1 DEF TypeOK, LockInv, Abort
<1>14. ASSUME NEW t \in Requests, Rollback(t) PROVE LockInv'
  BY <1>14 DEF TypeOK, LockInv, Abort, Rollback
<1>15. QED
  BY <1>0, <1>1, <1>2, <1>3, <1>4, <1>5, <1>6, <1>7, <1>8, <1>9, <1>10, <1>11, <1>12,
     <1>13, <1>14 DEF Next, Statement

(* What is committed is newer than what a DELETE has seen. *)
LEMMA GoneStep ==
  ASSUME TypeOK, FlowInv, LockInv, LogInv, GoneInv, [Next]_vars
  PROVE  GoneInv'
<1> USE DEF Finished
<1>0. CASE UNCHANGED vars
  BY <1>0 DEF vars, GoneInv
<1>1. ASSUME NEW t \in Requests, StartCreate(t) PROVE GoneInv'
  BY <1>1 DEF TypeOK, GoneInv, Abort, StartCreate
<1>2. ASSUME NEW t \in Requests, StartBatch(t) PROVE GoneInv'
  BY <1>2 DEF TypeOK, GoneInv, Abort, StartBatch
<1>3. ASSUME NEW t \in Requests, StartDelete(t) PROVE GoneInv'
  BY <1>3 DEF TypeOK, GoneInv, Abort, StartDelete
<1>4. ASSUME NEW t \in Requests, Check(t) PROVE GoneInv'
  BY <1>4 DEF TypeOK, GoneInv, Abort, Check
<1>5. ASSUME NEW t \in Requests, acquire_file_lock(t) PROVE GoneInv'
  BY <1>5 DEF TypeOK, GoneInv, Abort, acquire_file_lock
<1>6. ASSUME NEW t \in Requests, ReadMax(t) PROVE GoneInv'
  BY <1>6 DEF TypeOK, GoneInv, Abort, ReadMax
<1>7. ASSUME NEW t \in Requests, ReadLatest(t) PROVE GoneInv'
  BY <1>7 DEF TypeOK, GoneInv, Abort, ReadLatest
<1>8. ASSUME NEW t \in Requests, Insert(t) PROVE GoneInv'
  BY <1>8 DEF TypeOK, GoneInv, Abort, Insert
<1>9. ASSUME NEW t \in Requests, Count(t) PROVE GoneInv'
  BY <1>9 DEF TypeOK, GoneInv, Abort, Count
<1>10. ASSUME NEW t \in Requests, Snapshot(t) PROVE GoneInv'
  BY <1>10 DEF TypeOK, GoneInv, Abort, Snapshot
<1>11. ASSUME NEW t \in Requests, Delete(t) PROVE GoneInv'
  BY <1>11 DEF TypeOK, GoneInv, Abort, Delete
<1>12. ASSUME NEW t \in Requests, Commit(t) PROVE GoneInv'
  BY <1>12 DEF TypeOK, FlowInv, LogInv, Row, GoneInv, Commit
<1>13. ASSUME NEW t \in Requests, DeadlockVictim(t) PROVE GoneInv'
  BY <1>13, VictimWaits DEF TypeOK, GoneInv, Abort
<1>14. ASSUME NEW t \in Requests, Rollback(t) PROVE GoneInv'
  BY <1>14 DEF TypeOK, GoneInv, Abort, Rollback
<1>15. QED
  BY <1>0, <1>1, <1>2, <1>3, <1>4, <1>5, <1>6, <1>7, <1>8, <1>9, <1>10, <1>11, <1>12,
     <1>13, <1>14 DEF Next, Statement

(* An INSERT continues what its transaction sees, a COMMIT what is         *)
(* committed, and a purge takes a predecessor only with all it precedes.   *)
LEMMA LogStep ==
  ASSUME TypeOK, FlowInv, LockInv, GoneInv, LogInv, ReadInv, [Next]_vars
  PROVE  LogInv'
<1> USE DEF Finished
<1>0. CASE UNCHANGED vars
  BY <1>0 DEF vars, LogInv, Visible
<1>1. ASSUME NEW t \in Requests, StartCreate(t) PROVE LogInv'
  BY <1>1 DEF LogInv, Visible, StartCreate
<1>2. ASSUME NEW t \in Requests, StartBatch(t) PROVE LogInv'
  BY <1>2 DEF LogInv, Visible, StartBatch
<1>3. ASSUME NEW t \in Requests, StartDelete(t) PROVE LogInv'
  BY <1>3 DEF LogInv, Visible, StartDelete
<1>4. ASSUME NEW t \in Requests, Check(t) PROVE LogInv'
  BY <1>4 DEF LogInv, Visible, Check
<1>5. ASSUME NEW t \in Requests, acquire_file_lock(t) PROVE LogInv'
  BY <1>5 DEF LogInv, Visible, acquire_file_lock
<1>6. ASSUME NEW t \in Requests, ReadMax(t) PROVE LogInv'
  BY <1>6 DEF LogInv, Visible, ReadMax
<1>7. ASSUME NEW t \in Requests, ReadLatest(t) PROVE LogInv'
  BY <1>7 DEF LogInv, Visible, ReadLatest
<1>8. ASSUME NEW t \in Requests, Insert(t) PROVE LogInv'
  <2> DEFINE i == Head(items[t])
             new == [file |-> i.file, version |-> maxv[t] + 1, content |-> i.content]
  <2>1. rows' = rows /\ added'[t] = added[t] \cup {new}
        /\ \A u \in Requests \ {t} : added'[u] = added[u]
    BY <1>8 DEF TypeOK, Insert
  <2>2. maxv[t] \in Nat /\ rows \subseteq Row /\ added[t] \subseteq Row
    BY DEF TypeOK
  <2>3. \A q \in Visible(t) : q.version \in Nat
    BY <2>2 DEF Visible, Row
  <2>4. \A q \in Visible(t) : q.file = new.file =>
           /\ q.version < new.version
           /\ \E p \in Visible(t) : /\ p.file = new.file
                                    /\ p.version + 1 = new.version
                                    /\ p.content # new.content
    BY <1>8, <2>2, <2>3 DEF Insert, ReadInv
  <2>5. new.version > 0
    BY <2>2
  <2> HIDE DEF new
  <2>6. UniqueIn(added'[t])
    BY <2>1, <2>3, <2>4 DEF LogInv, UniqueIn, Visible
  <2>7. \A r \in added'[t], q \in rows' : r.file = q.file => q.version < r.version
    BY <2>1, <2>4 DEF LogInv, Visible
  <2>8. ASSUME NEW r \in added'[t], NEW q \in Visible(t)', r.file = q.file,
               q.version < r.version
        PROVE  \E p \in Visible(t)' : /\ p.file = r.file
                                      /\ p.version + 1 = r.version
                                      /\ p.content # r.content
    <3>1. Visible(t)' = Visible(t) \cup {new}
      BY <2>1 DEF Visible
    <3>2. CASE r = new
      <4>1. q \in Visible(t)
        BY <2>5, <2>8, <3>1, <3>2, <2>2 DEF new
      <4>2. QED
        BY <2>4, <2>8, <3>1, <3>2, <4>1
    <3>3. CASE r # new
      <4>1. r \in added[t]
        BY <2>1, <3>3
      <4>2. q # new
        <5>1. SUFFICES ASSUME q = new PROVE FALSE
          OBVIOUS
        <5>2. r \in Visible(t) /\ r.file = new.file
          BY <4>1, <5>1, <2>8 DEF Visible
        <5>3. r.version < new.version /\ r.version \in Nat /\ new.version \in Nat
          BY <2>2, <2>3, <2>4, <5>2 DEF new
        <5>4. QED
          BY <2>8, <5>1, <5>3
      <4>3. q \in Visible(t)
        BY <3>1, <4>2
      <4>4. QED
        BY <2>8, <3>1, <4>1, <4>3 DEF LogInv
    <3>4. QED
      BY <3>2, <3>3
  <2>9. \A r \in added'[t] : r.version > 0
    BY <2>1, <2>5 DEF LogInv
  <2>10. UniqueIn(rows')
    BY <2>1 DEF LogInv
  <2>11. ASSUME NEW u \in Requests \ {t}
         PROVE  added'[u] = added[u] /\ Visible(u)' = Visible(u) /\ rows' = rows
    BY <2>1 DEF Visible
  <2>12. QED
    BY <2>6, <2>7, <2>8, <2>9, <2>10, <2>11 DEF LogInv
<1>9. ASSUME NEW t \in Requests, Count(t) PROVE LogInv'
  BY <1>9 DEF LogInv, Visible, Count
<1>10. ASSUME NEW t \in Requests, Snapshot(t) PROVE LogInv'
  BY <1>10 DEF LogInv, Visible, Snapshot
<1>11. ASSUME NEW t \in Requests, Delete(t) PROVE LogInv'
  BY <1>11 DEF LogInv, Visible, Delete
<1>12. ASSUME NEW t \in Requests, Commit(t) PROVE LogInv'
  <2>1. /\ rows' = (rows \ gone[t]) \cup added[t]
        /\ added'[t] = {}
        /\ \A u \in Requests \ {t} : added'[u] = added[u]
    BY <1>12 DEF TypeOK, Commit
  <2>2. \A u \in Requests \ {t} : \A r \in added[u], q \in added[t] : r.file # q.file
    BY DEF LockInv
  <2>3. /\ \A q \in rows : q.version \in Nat
        /\ \A u \in Requests : \A q \in added[u] : q.version \in Nat
    BY DEF TypeOK, Row
  <2>4. UniqueIn(rows')
    <3>1. SUFFICES ASSUME NEW r \in rows', NEW q \in rows', r.file = q.file, r.version = q.version
                   PROVE  r = q
      BY DEF UniqueIn
    <3>2. CASE r \in rows /\ q \in rows
      BY <3>1, <3>2 DEF LogInv, UniqueIn
    <3>3. CASE r \in added[t] /\ q \in added[t]
      BY <3>1, <3>3 DEF LogInv, UniqueIn
    <3>4. CASE r \in rows /\ q \in added[t]
      BY <3>1, <3>4, <2>3 DEF LogInv
    <3>5. CASE q \in rows /\ r \in added[t]
      BY <3>1, <3>5, <2>3 DEF LogInv
    <3>6. QED
      BY <2>1, <3>2, <3>3, <3>4, <3>5
  <2>5. ASSUME NEW u \in Requests \ {t}, NEW r \in added[u], NEW q \in Visible(u)',
               r.file = q.file, q.version < r.version
        PROVE  \E p \in Visible(u)' : /\ p.file = r.file
                                      /\ p.version + 1 = r.version
                                      /\ p.content # r.content
    <3>1. (q \in Visible(u) /\ q \notin gone[t]) \/ q \in added[u]
      BY <2>1, <2>2, <2>5 DEF Visible
    <3>2. PICK p \in Visible(u) : /\ p.file = r.file
                                  /\ p.version + 1 = r.version
                                  /\ p.content # r.content
      BY <2>5, <3>1 DEF LogInv, Visible
    <3>3. p.version \in Nat /\ q.version \in Nat /\ r.version \in Nat /\ q.version <= p.version
      BY <2>1, <2>3, <2>5, <3>1, <3>2 DEF Visible
    <3>4. CASE q \in added[u]
      <4>1. p \in added[u]
        BY <2>5, <3>2, <3>3, <3>4 DEF LogInv, Visible
      <4>2. QED
        BY <2>1, <2>5, <3>2, <4>1 DEF Visible
    <3>5. CASE q \in rows /\ q \notin gone[t] /\ p \in rows
      <4>1. CASE q = p
        BY <2>1, <3>2, <3>5, <4>1 DEF Visible
      <4>2. CASE q # p
        <5>1. q.version < p.version
          BY <2>5, <3>2, <3>3, <3>5, <4>2 DEF LogInv, UniqueIn
        <5>2. p \notin gone[t]
          BY <2>5, <3>2, <3>5, <5>1 DEF GoneInv
        <5>3. QED
          BY <2>1, <3>2, <3>5, <5>2 DEF Visible
      <4>3. QED
        BY <4>1, <4>2
    <3>6. CASE p \in added[u]
      BY <2>1, <2>5, <3>2, <3>6 DEF Visible
    <3>7. QED
      BY <3>1, <3>2, <3>4, <3>5, <3>6 DEF Visible
  <2>6. ASSUME NEW u \in Requests \ {t}, NEW r \in added[u], NEW q \in rows',
               r.file = q.file
        PROVE  q.version < r.version
    BY <2>1, <2>2, <2>6 DEF LogInv
  <2>7. QED
    BY <2>1, <2>4, <2>5, <2>6 DEF LogInv, UniqueIn
<1>13. ASSUME NEW t \in Requests, DeadlockVictim(t) PROVE LogInv'
  <2>1. Abort(t)
    BY <1>13, VictimWaits
  <2>2. rows' = rows /\ added'[t] = {} /\ \A u \in Requests \ {t} : added'[u] = added[u]
    BY <2>1 DEF TypeOK, Abort
  <2>3. QED
    BY <2>2 DEF LogInv, UniqueIn, Visible
<1>14. ASSUME NEW t \in Requests, Rollback(t) PROVE LogInv'
  <2>1. Abort(t)
    BY <1>14 DEF Rollback
  <2>2. rows' = rows /\ added'[t] = {} /\ \A u \in Requests \ {t} : added'[u] = added[u]
    BY <2>1 DEF TypeOK, Abort
  <2>3. QED
    BY <2>2 DEF LogInv, UniqueIn, Visible
<1>15. QED
  BY <1>0, <1>1, <1>2, <1>3, <1>4, <1>5, <1>6, <1>7, <1>8, <1>9, <1>10, <1>11, <1>12,
     <1>13, <1>14 DEF Next, Statement

(* Nobody else commits a row of a file whose lock is held. *)
LEMMA ReadStep ==
  ASSUME TypeOK, FlowInv, LockInv, GoneInv, LogInv, ReadInv, [Next]_vars
  PROVE  ReadInv'
<1> USE DEF Finished
<1>0. CASE UNCHANGED vars
  BY <1>0 DEF vars, ReadInv, Visible
<1>1. ASSUME NEW t \in Requests, StartCreate(t) PROVE ReadInv'
  <2>1. pc'[t] \notin {"latest", "insert"}
    BY <1>1 DEF TypeOK, StartCreate
  <2>2. \A u \in Requests \ {t} : pc'[u] = pc[u] /\ items'[u] = items[u] /\ Visible(u)' = Visible(u)
    BY <1>1 DEF TypeOK, Visible, StartCreate
  <2>3. QED
    BY <1>1, <2>1, <2>2 DEF ReadInv, StartCreate
<1>2. ASSUME NEW t \in Requests, StartBatch(t) PROVE ReadInv'
  <2>1. pc'[t] \notin {"latest", "insert"}
    BY <1>2 DEF TypeOK, StartBatch
  <2>2. \A u \in Requests \ {t} : pc'[u] = pc[u] /\ items'[u] = items[u] /\ Visible(u)' = Visible(u)
    BY <1>2 DEF TypeOK, Visible, StartBatch
  <2>3. QED
    BY <1>2, <2>1, <2>2 DEF ReadInv, StartBatch
<1>3. ASSUME NEW t \in Requests, StartDelete(t) PROVE ReadInv'
  <2>1. pc'[t] \notin {"latest", "insert"}
    BY <1>3 DEF TypeOK, StartDelete
  <2>2. \A u \in Requests \ {t} : pc'[u] = pc[u] /\ items'[u] = items[u] /\ Visible(u)' = Visible(u)
    BY <1>3 DEF TypeOK, Visible, StartDelete
  <2>3. QED
    BY <1>3, <2>1, <2>2 DEF ReadInv, StartDelete
<1>4. ASSUME NEW t \in Requests, Check(t) PROVE ReadInv'
  <2>1. items[t] # <<>>
    BY <1>4 DEF FlowInv, ItemSteps, Check
  <2>2. pc'[t] \notin {"latest", "insert"}
    BY <1>4, <2>1, NextItemType DEF TypeOK, Check
  <2>3. \A u \in Requests \ {t} : pc'[u] = pc[u] /\ items'[u] = items[u] /\ Visible(u)' = Visible(u)
    BY <1>4, <2>1, NextItemType DEF TypeOK, Visible, Check
  <2>4. QED
    BY <1>4, <2>2, <2>3 DEF ReadInv, Check
<1>5. ASSUME NEW t \in Requests, acquire_file_lock(t) PROVE ReadInv'
  <2>1. pc'[t] \notin {"latest", "insert"}
    BY <1>5 DEF TypeOK, acquire_file_lock
  <2>2. \A u \in Requests \ {t} : pc'[u] = pc[u] /\ items'[u] = items[u] /\ Visible(u)' = Visible(u)
    BY <1>5 DEF TypeOK, Visible, acquire_file_lock
  <2>3. QED
    BY <1>5, <2>1, <2>2 DEF ReadInv, acquire_file_lock
<1>6. ASSUME NEW t \in Requests, ReadMax(t) PROVE ReadInv'
  <2>1. /\ items' = items
        /\ \A u \in Requests : Visible(u)' = Visible(u)
        /\ \A u \in Requests \ {t} : pc'[u] = pc[u] /\ maxv'[u] = maxv[u]
    BY <1>6 DEF TypeOK, Visible, ReadMax
  <2>2. CASE RowsOf(Visible(t), Head(items[t]).file) = {}
    <3>1. \A q \in Visible(t)' : q.file # Head(items'[t]).file
      BY <2>1, <2>2 DEF RowsOf
    <3>2. QED
      BY <2>1, <3>1 DEF ReadInv
  <2>3. ASSUME NEW r \in Visible(t), r.file = Head(items[t]).file,
               get_latest_version(Visible(t), r),
               maxv' = [maxv EXCEPT ![t] = r.version], pc' = [pc EXCEPT ![t] = "latest"]
        PROVE  ReadInv'
    <3>1. maxv'[t] = r.version /\ pc'[t] = "latest"
      BY <2>3 DEF TypeOK
    <3>2. \A q \in Visible(t) : q.file = Head(items[t]).file => q.version <= r.version
      BY <2>3 DEF get_latest_version, RowsOf
    <3>3. QED
      BY <2>1, <2>3, <3>1, <3>2 DEF ReadInv
  <2>4. QED
    BY <1>6, <2>2, <2>3 DEF ReadMax
<1>7. ASSUME NEW t \in Requests, ReadLatest(t) PROVE ReadInv'
  <2>1. items[t] # <<>>
    BY <1>7 DEF FlowInv, ItemSteps, ReadLatest
  <2>2. rows' = rows /\ added' = added /\ maxv' = maxv /\ \A u \in Requests : Visible(u)' = Visible(u)
    BY <1>7 DEF Visible, ReadLatest
  <2>3. CASE Unchanged(t)
    <3>1. pc'[t] \notin {"latest", "insert"}
          /\ \A u \in Requests \ {t} : pc'[u] = pc[u] /\ items'[u] = items[u]
      BY <1>7, <2>1, <2>3, NextItemType DEF ReadLatest
    <3>2. QED
      BY <2>2, <3>1 DEF ReadInv
  <2>4. CASE ~Unchanged(t)
    <3>1. items' = items /\ pc[t] = "latest" /\ pc'[t] = "insert"
          /\ \A u \in Requests \ {t} : pc'[u] = pc[u]
      BY <1>7, <2>4 DEF TypeOK, ReadLatest
    <3>2. ASSUME NEW p \in Visible(t), p.file = Head(items[t]).file,
                 p.version = maxv[t]
          PROVE  p.content # Head(items[t]).content
      <4>1. get_latest_version(Visible(t), p)
        BY <3>1, <3>2 DEF ReadInv, get_latest_version, RowsOf
      <4>2. QED
        BY <2>4, <3>2, <4>1 DEF Unchanged
    <3>3. QED
      BY <2>2, <3>1, <3>2 DEF ReadInv
  <2>5. QED
    BY <2>3, <2>4
<1>8. ASSUME NEW t \in Requests, Insert(t) PROVE ReadInv'
  <2>1. items[t] # <<>>
    BY <1>8 DEF FlowInv, ItemSteps, Insert
  <2>2. pc'[t] \notin {"latest", "insert"}
    BY <1>8, <2>1, NextItemType DEF TypeOK, Insert
  <2>3. \A u \in Requests \ {t} : pc'[u] = pc[u] /\ items'[u] = items[u] /\ Visible(u)' = Visible(u)
    BY <1>8, <2>1, NextItemType DEF TypeOK, Visible, Insert
  <2>4. QED
    BY <1>8, <2>2, <2>3 DEF ReadInv, Insert
<1>9. ASSUME NEW t \in Requests, Count(t) PROVE ReadInv'
  <2>1. pc'[t] \notin {"latest", "insert"}
    BY <1>9 DEF TypeOK, Count
  <2>2. \A u \in Requests \ {t} : pc'[u] = pc[u] /\ items'[u] = items[u] /\ Visible(u)' = Visible(u)
    BY <1>9 DEF TypeOK, Visible, Count
  <2>3. QED
    BY <1>9, <2>1, <2>2 DEF ReadInv, Count
<1>10. ASSUME NEW t \in Requests, Snapshot(t) PROVE ReadInv'
  <2>1. pc'[t] \notin {"latest", "insert"}
    BY <1>10 DEF TypeOK, Snapshot
  <2>2. \A u \in Requests \ {t} : pc'[u] = pc[u] /\ items'[u] = items[u] /\ Visible(u)' = Visible(u)
    BY <1>10 DEF TypeOK, Visible, Snapshot
  <2>3. QED
    BY <1>10, <2>1, <2>2 DEF ReadInv, Snapshot
<1>11. ASSUME NEW t \in Requests, Delete(t) PROVE ReadInv'
  <2>1. pc'[t] \notin {"latest", "insert"}
    BY <1>11 DEF TypeOK, Delete
  <2>2. \A u \in Requests \ {t} : pc'[u] = pc[u] /\ items'[u] = items[u] /\ Visible(u)' = Visible(u)
    BY <1>11 DEF TypeOK, Visible, Delete
  <2>3. QED
    BY <1>11, <2>1, <2>2 DEF ReadInv, Delete
<1>12. ASSUME NEW t \in Requests, Commit(t) PROVE ReadInv'
  <2>1. /\ rows' = (rows \ gone[t]) \cup added[t]
        /\ pc'[t] = "done" /\ items' = items /\ maxv' = maxv
        /\ \A u \in Requests \ {t} : added'[u] = added[u] /\ pc'[u] = pc[u]
    BY <1>12 DEF TypeOK, Commit
  <2>2. ASSUME NEW u \in Requests \ {t}, pc[u] \in {"latest", "insert"},
               NEW q \in Visible(u)', q.file = Head(items[u]).file
        PROVE  /\ q.version <= maxv[u]
               /\ \E p \in Visible(u)' :
                     /\ p.file = q.file
                     /\ p.version = maxv[u]
                     /\ pc[u] = "insert" => p.content # Head(items[u]).content
    <3>1. q \notin added[t]
      BY <2>2 DEF LockInv
    <3>2. q \in Visible(u) /\ (q \notin added[u] => q \notin gone[t])
      BY <2>1, <2>2, <3>1 DEF Visible
    <3>3. PICK p \in Visible(u) : /\ p.file = q.file
                                  /\ p.version = maxv[u]
                                  /\ pc[u] = "insert" => p.content # Head(items[u]).content
      BY <2>2, <3>2 DEF ReadInv
    <3>4. q.version <= p.version
      BY <2>2, <3>2, <3>3 DEF ReadInv
    <3>5. p.version \in Nat /\ q.version \in Nat
      BY <3>2 DEF TypeOK, Visible, Row
    <3>6. CASE p \in added[u]
      BY <2>1, <2>2, <3>3, <3>4, <3>6 DEF Visible
    <3>7. CASE p \in rows
      <4>1. q \in rows /\ q \notin gone[t]
        BY <2>2, <3>2, <3>3, <3>4, <3>5, <3>7 DEF LogInv, Visible
      <4>2. p \notin gone[t]
        BY <3>3, <3>4, <3>5, <3>7, <4>1 DEF GoneInv, LogInv, UniqueIn
      <4>3. QED
        BY <2>1, <3>3, <3>4, <3>7, <4>2 DEF Visible
    <3>8. QED
      BY <3>6, <3>7 DEF Visible
  <2>3. QED
    BY <2>1, <2>2 DEF ReadInv
<1>13. ASSUME NEW t \in Requests, DeadlockVictim(t) PROVE ReadInv'
  <2>1. Abort(t)
    BY <1>13, VictimWaits
  <2>2. pc'[t] = "failed" /\ items' = items /\ maxv' = maxv
        /\ \A u \in Requests \ {t} : pc'[u] = pc[u] /\ Visible(u)' = Visible(u)
    BY <2>1 DEF TypeOK, Abort, Visible
  <2>3. QED
    BY <2>2 DEF ReadInv
<1>14. ASSUME NEW t \in Requests, Rollback(t) PROVE ReadInv'
  <2>1. Abort(t)
    BY <1>14 DEF Rollback
  <2>2. pc'[t] = "failed" /\ items' = items /\ maxv' = maxv
        /\ \A u \in Requests \ {t} : pc'[u] = pc[u] /\ Visible(u)' = Visible(u)
    BY <2>1 DEF TypeOK, Abort, Visible
  <2>3. QED
    BY <2>2 DEF ReadInv
<1>15. QED
  BY <1>0, <1>1, <1>2, <1>3, <1>4, <1>5, <1>6, <1>7, <1>8, <1>9, <1>10, <1>11, <1>12,
     <1>13, <1>14 DEF Next, Statement

-----------------------------------------------------------------------------
(* The statements of the handlers keep the inductive invariant: TypeOK,    *)
(* and what locks, snapshots and reads under a lock guarantee.             *)
THEOREM Invariance == Spec => []IndInv
<1>1. Init => IndInv
  BY FS_EmptySet
    DEF Init, IndInv, TypeOK, Steps, FiniteInv, FlowInv, LockInv, GoneInv,
     LogInv, ReadInv, UniqueIn, Visible, ItemSteps, DeleteSteps, Finished
<1>2. IndInv /\ [Next]_vars => IndInv'
  BY TypeStep, FiniteStep, FlowStep, LockStep, GoneStep, LogStep, ReadStep DEF IndInv
<1>3. QED
  BY <1>1, <1>2, PTL DEF Spec

(* Every variable of the store keeps its type. *)
THEOREM TypeCorrect == Spec => []TypeOK
BY Invariance, PTL DEF IndInv

(* Whatever the requests, files and batches, no two rows have the same     *)
(* file and version: create_or_update_config never meets the unique        *)
(* constraint of config_files.                                             *)
THEOREM UniqueVersions == Spec => []VersionsUnique
<1>1. IndInv => VersionsUnique
  <2>1. SUFFICES ASSUME IndInv, NEW t \in Requests, NEW u \in Requests,
                        NEW r \in Visible(t), NEW q \in Visible(u),
                        r.file = q.file, r.version = q.version
                 PROVE  r = q
    BY DEF VersionsUnique
  <2>2. r.version \in Nat /\ q.version \in Nat
    BY <2>1 DEF IndInv, TypeOK, Visible, Row
  <2>3. CASE r \in rows /\ q \in rows
    BY <2>1, <2>3 DEF IndInv, LogInv, UniqueIn
  <2>4. CASE r \in added[t] /\ q \in rows
    BY <2>1, <2>2, <2>4 DEF IndInv, LogInv
  <2>5. CASE r \in rows /\ q \in added[u]
    BY <2>1, <2>2, <2>5 DEF IndInv, LogInv
  <2>6. CASE r \in added[t] /\ q \in added[u]
    <3>1. CASE t = u
      BY <2>1, <2>6, <3>1 DEF IndInv, LogInv, UniqueIn
    <3>2. CASE t # u
      BY <2>1, <2>6, <3>2 DEF IndInv, LockInv
    <3>3. QED
      BY <3>1, <3>2
  <2>7. QED
    BY <2>3, <2>4, <2>5, <2>6 DEF Visible
<1>2. QED
  BY <1>1, Invariance, PTL

(* A commit of creates appends to the log of every file, and a commit of a *)
(* delete purges its oldest versions; no other statement changes it.       *)
LEMMA CommitStep ==
  ASSUME IndInv, NEW t \in Requests, Commit(t)
  PROVE  Log!Next
<1>1. rows' = (rows \ gone[t]) \cup added[t] /\ pc[t] = "commit"
  BY DEF Commit
<1>2. /\ \A q \in rows : q.version \in Nat
      /\ \A q \in added[t] : q.version \in Nat
  BY DEF IndInv, TypeOK, Row
<1>3. CASE added[t] = {}
  <2>1. rows' = rows \ gone[t] /\ gone[t] \subseteq rows
    BY <1>1, <1>3 DEF IndInv, GoneInv
  <2>2. ASSUME NEW r \in rows \ rows', NEW q \in rows', q.file = r.file
        PROVE  r.version < q.version
    BY <1>2, <2>1, <2>2 DEF IndInv, GoneInv, LogInv, UniqueIn
  <2>3. QED
    BY <2>1, <2>2 DEF Log!Next, Log!Purge
<1>4. CASE gone[t] = {}
  <2>1. rows' = rows \cup added[t] /\ rows' \ rows = added[t]
    BY <1>1, <1>2, <1>4 DEF IndInv, LogInv
  <2>2. rows' \subseteq Log!Row
    BY <2>1 DEF IndInv, TypeOK, Row, Log!Row
  <2>3. UniqueIn(added[t] \cup rows)
    BY <1>2 DEF IndInv, LogInv, UniqueIn
  <2>4. Log!Extends(rows, added[t])
    BY <2>3 DEF Log!Extends, IndInv, LogInv, UniqueIn, Visible
  <2>5. QED
    BY <2>1, <2>2, <2>4 DEF Log!Next, Log!Append
<1>5. QED
  BY <1>1, <1>3, <1>4 DEF IndInv, FlowInv

(* The Config Store implements the log of VersionLog. *)
THEOREM LogRefinement == Spec => ImplementsVersionLog
<1>1. Init => Log!Init
  BY DEF Init, Log!Init
<1>2. IndInv /\ [Next]_vars => [Log!Next]_rows
  <2>1. SUFFICES ASSUME IndInv, [Next]_vars PROVE [Log!Next]_rows
    OBVIOUS
  <2>2. CASE UNCHANGED vars
    BY <2>2 DEF vars
  <2>3. ASSUME NEW t \in Requests, Commit(t) PROVE Log!Next
    BY <2>1, <2>3, CommitStep
  <2>4. ASSUME NEW t \in Requests,
               \/ StartCreate(t) \/ StartBatch(t) \/ StartDelete(t) \/ Rollback(t)
               \/ Check(t) \/ acquire_file_lock(t) \/ ReadMax(t) \/ ReadLatest(t) \/ Insert(t)
               \/ Count(t) \/ Snapshot(t) \/ Delete(t) \/ Abort(t)
        PROVE  rows' = rows
    BY <2>4
    DEF StartCreate, StartBatch, StartDelete, Rollback, Check, acquire_file_lock,
       ReadMax, ReadLatest, Insert, Count, Snapshot, Delete, Abort
  <2>5. QED
    BY <2>1, <2>2, <2>3, <2>4, VictimWaits DEF Next, Statement
<1>3. QED
  BY <1>1, <1>2, Invariance, PTL DEF Spec, ImplementsVersionLog, Log!Spec
=============================================================================
