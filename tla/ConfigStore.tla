---------------------------- MODULE ConfigStore ----------------------------
(***************************************************************************)
(* The write side of the Config Store: create_config, batch_create_configs *)
(* and delete_device, each one request served in one PostgreSQL            *)
(* transaction at READ COMMITTED, by any number of API replicas at once.   *)
(* Every SQL statement is one step: between two statements of a request    *)
(* any other request may run, commit or roll back.  The module is about    *)
(* the rows of one device: requests for different devices share neither    *)
(* rows nor locks.                                                         *)
(***************************************************************************)
EXTENDS Naturals, Sequences, FiniteSets

CONSTANTS Files,      \* filename + file_type, the unit of locking
          Contents,   \* uncompressed file contents
          Requests,   \* HTTP requests, each served once
          Batches     \* bodies of the batch requests: sequences of items

Item == [file : Files, content : Contents]

ASSUME BatchesAssumption == Batches \subseteq Seq(Item)

VARIABLES rows,    \* committed rows of config_files
          pc,      \* the next statement of a request
          kind,    \* the handler that serves it
          items,   \* the items the handler still has to store
          held,    \* the advisory locks its transaction holds
          added,   \* the rows its transaction has inserted
          gone,    \* the rows its DELETE statement sees, then deletes
          maxv,    \* current_version, as read by create_or_update_config
          count    \* count, as read by delete_device_configs

vars == <<rows, pc, kind, items, held, added, gone, maxv, count>>

Row == [file : Files, version : Nat, content : Contents]

Steps == {"idle", "check", "lock", "max", "latest", "insert",
          "count", "snapshot", "delete", "commit", "done", "failed"}

Finished == {"done", "failed"}

TypeOK ==
    /\ rows \subseteq Row
    /\ pc \in [Requests -> Steps]
    /\ kind \in [Requests -> {"none", "create", "batch", "delete"}]
    /\ items \in [Requests -> Seq(Item)]
    /\ held \in [Requests -> SUBSET Files]
    /\ added \in [Requests -> SUBSET Row]
    /\ gone \in [Requests -> SUBSET Row]
    /\ maxv \in [Requests -> Nat]
    /\ count \in [Requests -> Nat]

Init ==
    /\ rows = {}
    /\ pc = [t \in Requests |-> "idle"]
    /\ kind = [t \in Requests |-> "none"]
    /\ items = [t \in Requests |-> <<>>]
    /\ held = [t \in Requests |-> {}]
    /\ added = [t \in Requests |-> {}]
    /\ gone = [t \in Requests |-> {}]
    /\ maxv = [t \in Requests |-> 0]
    /\ count = [t \in Requests |-> 0]

-----------------------------------------------------------------------------
(* What a statement of t sees: what is committed, and its own inserts. *)
Visible(t) == rows \cup added[t]

RowsOf(S, f) == {r \in S : r.file = f}

(* r is what ORDER BY version DESC LIMIT 1 finds for its file among S. *)
get_latest_version(S, r) == \A q \in RowsOf(S, r.file) : q.version <= r.version

Unchanged(t) == \E r \in Visible(t) : /\ r.file = Head(items[t]).file
                                      /\ get_latest_version(Visible(t), r)
                                      /\ r.content = Head(items[t]).content

(* The handler is through with its item: the next one, or the commit. *)
NextItem(t) ==
    /\ items' = [items EXCEPT ![t] = Tail(@)]
    /\ pc' = [pc EXCEPT ![t] = IF Tail(items[t]) = <<>> THEN "commit" ELSE "check"]

-----------------------------------------------------------------------------
StartCreate(t) ==
    /\ pc[t] = "idle"
    /\ \E i \in Item : items' = [items EXCEPT ![t] = <<i>>]
    /\ kind' = [kind EXCEPT ![t] = "create"]
    /\ pc' = [pc EXCEPT ![t] = "lock"]
    /\ UNCHANGED <<rows, held, added, gone, maxv, count>>

StartBatch(t) ==
    /\ pc[t] = "idle"
    /\ \E b \in Batches :
          /\ items' = [items EXCEPT ![t] = b]
          /\ pc' = [pc EXCEPT ![t] = IF b = <<>> THEN "commit" ELSE "check"]
    /\ kind' = [kind EXCEPT ![t] = "batch"]
    /\ UNCHANGED <<rows, held, added, gone, maxv, count>>

(* The batch handler looks at the latest version before it takes the lock  *)
(* and skips the item when the content is the same.                        *)
Check(t) ==
    /\ pc[t] = "check"
    /\ IF Unchanged(t)
       THEN NextItem(t)
       ELSE /\ pc' = [pc EXCEPT ![t] = "lock"]
            /\ UNCHANGED items
    /\ UNCHANGED <<rows, kind, held, added, gone, maxv, count>>

AcquireUnguarded(t) ==
    /\ pc[t] = "lock"
    /\ held' = [held EXCEPT ![t] = @ \cup {Head(items[t]).file}]
    /\ pc' = [pc EXCEPT ![t] = "max"]
    /\ UNCHANGED <<rows, kind, items, added, gone, maxv, count>>

(* pg_advisory_xact_lock blocks while another transaction holds the lock;  *)
(* a transaction may take a lock it holds again.                           *)
acquire_file_lock(t) ==
    /\ pc[t] = "lock"
    /\ \A u \in Requests \ {t} : Head(items[t]).file \notin held[u]
    /\ held' = [held EXCEPT ![t] = @ \cup {Head(items[t]).file}]
    /\ pc' = [pc EXCEPT ![t] = "max"]
    /\ UNCHANGED <<rows, kind, items, added, gone, maxv, count>>

(* The first version would be 0. *)
ReadMaxFromMinusOne(t) ==
    /\ pc[t] = "max"
    /\ maxv' = [maxv EXCEPT ![t] = 0 - 1]
    /\ pc' = [pc EXCEPT ![t] = "insert"]
    /\ UNCHANGED <<rows, kind, items, held, added, gone, count>>

(* SELECT max(version); without a version the content is not compared. *)
ReadMax(t) ==
    /\ pc[t] = "max"
    /\ \/ /\ RowsOf(Visible(t), Head(items[t]).file) = {}
          /\ maxv' = [maxv EXCEPT ![t] = 0]
          /\ pc' = [pc EXCEPT ![t] = "insert"]
       \/ \E r \in Visible(t) :
             /\ r.file = Head(items[t]).file
             /\ get_latest_version(Visible(t), r)
             /\ maxv' = [maxv EXCEPT ![t] = r.version]
             /\ pc' = [pc EXCEPT ![t] = "latest"]
    /\ UNCHANGED <<rows, kind, items, held, added, gone, count>>

CompareNothing(t) ==
    /\ pc[t] = "latest"
    /\ pc' = [pc EXCEPT ![t] = "insert"]
    /\ UNCHANGED <<rows, kind, items, held, added, gone, maxv, count>>

(* The latest version is read by a statement of its own: a delete may have *)
(* committed since ReadMax.  Equal content returns the version there is.   *)
ReadLatest(t) ==
    /\ pc[t] = "latest"
    /\ IF Unchanged(t)
       THEN NextItem(t)
       ELSE /\ pc' = [pc EXCEPT ![t] = "insert"]
            /\ UNCHANGED items
    /\ UNCHANGED <<rows, kind, held, added, gone, maxv, count>>

Insert(t) ==
    /\ pc[t] = "insert"
    /\ added' = [added EXCEPT ![t] = @ \cup
                   {[file |-> Head(items[t]).file, version |-> maxv[t] + 1,
                     content |-> Head(items[t]).content]}]
    /\ NextItem(t)
    /\ UNCHANGED <<rows, kind, held, gone, maxv, count>>

-----------------------------------------------------------------------------
(* delete_device takes no advisory lock. *)
StartDelete(t) ==
    /\ pc[t] = "idle"
    /\ pc' = [pc EXCEPT ![t] = "count"]
    /\ kind' = [kind EXCEPT ![t] = "delete"]
    /\ UNCHANGED <<rows, items, held, added, gone, maxv, count>>

(* SELECT count(id); no DELETE is sent when there is nothing to delete. *)
Count(t) ==
    /\ pc[t] = "count"
    /\ count' = [count EXCEPT ![t] = Cardinality(rows)]
    /\ pc' = [pc EXCEPT ![t] = IF rows = {} THEN "commit" ELSE "snapshot"]
    /\ UNCHANGED <<rows, kind, items, held, added, gone, maxv>>

(* The DELETE statement sees the rows that are committed when it starts. *)
Snapshot(t) ==
    /\ pc[t] = "snapshot"
    /\ gone' = [gone EXCEPT ![t] = rows]
    /\ pc' = [pc EXCEPT ![t] = "delete"]
    /\ UNCHANGED <<rows, kind, items, held, added, maxv, count>>

(* It locks them, and so waits for any other DELETE of one of them to end. *)
Delete(t) ==
    /\ pc[t] = "delete"
    /\ \A u \in Requests \ {t} : pc[u] = "commit" => gone[u] \cap gone[t] = {}
    /\ pc' = [pc EXCEPT ![t] = "commit"]
    /\ UNCHANGED <<rows, kind, items, held, added, gone, maxv, count>>

-----------------------------------------------------------------------------
(* Rows that are gone are gone for the other DELETEs too. *)
Commit(t) ==
    /\ pc[t] = "commit"
    /\ rows' = (rows \ gone[t]) \cup added[t]
    /\ gone' = [u \in Requests |-> gone[u] \ gone[t]]
    /\ added' = [added EXCEPT ![t] = {}]
    /\ held' = [held EXCEPT ![t] = {}]
    /\ pc' = [pc EXCEPT ![t] = "done"]
    /\ UNCHANGED <<kind, items, maxv, count>>

Abort(t) ==
    /\ pc' = [pc EXCEPT ![t] = "failed"]
    /\ held' = [held EXCEPT ![t] = {}]
    /\ added' = [added EXCEPT ![t] = {}]
    /\ gone' = [gone EXCEPT ![t] = {}]
    /\ UNCHANGED <<rows, kind, items, maxv, count>>

(* A statement fails, the connection is lost or the replica stops: the     *)
(* transaction is rolled back and the client gets an error.                *)
Rollback(t) ==
    /\ pc[t] \notin Finished \cup {"idle"}
    /\ Abort(t)

(* t waits for an advisory lock that u holds. *)
WaitsFor(t, u) == /\ t # u
                  /\ pc[t] = "lock"
                  /\ Head(items[t]).file \in held[u]

(* Nobody looks for a circular wait. *)
NoVictim(t) == FALSE /\ Abort(t)

(* PostgreSQL aborts one of the transactions that wait in a circle: those  *)
(* of a set in which everyone waits for a member and is waited for by one. *)
DeadlockVictim(t) ==
    /\ pc[t] = "lock"
    /\ \E S \in SUBSET Requests :
          /\ t \in S
          /\ \A u \in S : /\ \E v \in S : WaitsFor(u, v)
                          /\ \E v \in S : WaitsFor(v, u)
    /\ Abort(t)

-----------------------------------------------------------------------------
Statement(t) ==
    \/ Check(t) \/ acquire_file_lock(t) \/ ReadMax(t) \/ ReadLatest(t) \/ Insert(t)
    \/ Count(t) \/ Snapshot(t) \/ Delete(t) \/ Commit(t) \/ DeadlockVictim(t)

Next == \E t \in Requests :
           StartCreate(t) \/ StartBatch(t) \/ StartDelete(t) \/ Statement(t) \/ Rollback(t)

Spec == Init /\ [][Next]_vars

(* A request that is being served is given its next statement when it can  *)
(* run: lock queues are first come first served, and a circular wait is    *)
(* looked for after deadlock_timeout.                                      *)
FairSpec == Spec /\ \A t \in Requests : WF_vars(Statement(t))

-----------------------------------------------------------------------------
(* No two rows, committed or not, have the same file and version: the      *)
(* advisory lock is kept until the transaction ends, so that an INSERT of  *)
(* create_or_update_config never runs into the unique constraint           *)
(* uq_device_filename_filetype_version.                                    *)
VersionsUnique ==
    \A t, u \in Requests : \A r \in Visible(t), q \in Visible(u) :
       r.file = q.file /\ r.version = q.version => r = q

(* Whatever creates, batches, deletes and rollbacks interleave, the        *)
(* committed versions of a file form a log: create_or_update_config adds   *)
(* versions only behind the newest one, without a hole and with another    *)
(* content, and delete_device_configs removes only the oldest.             *)
Log == INSTANCE VersionLog WITH Files <- Files, Contents <- Contents, rows <- rows
ImplementsVersionLog == Log!Spec

(* Every request that has been started is answered: transactions that take *)
(* the locks of two batches in opposite orders do not wait for ever.       *)
RequestsAnswered == \A t \in Requests : pc[t] # "idle" ~> pc[t] \in Finished
=============================================================================
