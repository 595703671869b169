----------------------------- MODULE VersionLog -----------------------------
(***************************************************************************)
(* What the Config Store promises of the config_files table, whatever the  *)
(* number of API replicas and however their transactions interleave: the   *)
(* committed versions of a file are a log.  New versions are appended in a *)
(* row behind the newest one, never with the content that the version      *)
(* before already has, and the only way a version disappears is a purge of *)
(* the oldest ones.  ConfigStore is shown to implement this module.        *)
(***************************************************************************)
EXTENDS Naturals

CONSTANTS Files,      \* device_uuid + filename + file_type
          Contents    \* uncompressed file contents

VARIABLE rows         \* committed rows of config_files

Row == [file : Files, version : Nat, content : Contents]

(***************************************************************************)
(* new continues old: it starts right behind old's newest version when old *)
(* has one, has no hole, and changes the content at every version.         *)
(***************************************************************************)
Extends(old, new) ==
    /\ \A r \in new : r.version > 0
    /\ \A r \in new, q \in old : r.file = q.file => q.version < r.version
    /\ \A r, q \in new \cup old :
          r.file = q.file /\ r.version = q.version => r = q
    /\ \A r \in new, q \in old \cup new :
          r.file = q.file /\ q.version < r.version =>
             \E p \in old \cup new : /\ p.file = r.file
                                     /\ p.version + 1 = r.version
                                     /\ p.content # r.content

Init == rows = {}

Append == /\ rows' \subseteq Row
          /\ rows \subseteq rows'
          /\ Extends(rows, rows' \ rows)

(* A purge takes, of every file, the versions up to some version. *)
Purge == /\ rows' \subseteq rows
         /\ \A r \in rows \ rows', q \in rows' :
               q.file = r.file => r.version < q.version

Next == Append \/ Purge

Spec == Init /\ [][Next]_rows
=============================================================================
