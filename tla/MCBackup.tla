------------------------------ MODULE MCBackup ------------------------------
(***************************************************************************)
(* A node with an identity, a registry and one xite of two files, begun on *)
(* this build or on an older one; archives of older nodes can be uploaded. *)
(***************************************************************************)
EXTENDS Backup, TLC

CONSTANTS users, xites, sites, index, page

Covers == [f \in Files |-> IF f = users THEN "keys" ELSE "zites"]
Begun == {{users, xites, index}, {users, sites, index}}
Older == {{users, sites, page}}

\* Threads and slots are interchangeable.
Alike == Permutations(Tasks) \cup Permutations(Slots)
=============================================================================
