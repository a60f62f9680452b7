---------------------------- MODULE UserDirectory ----------------------------
(***************************************************************************)
(* What the nodes have of one user's directory on their disks, and what    *)
(* must hold of it at all times.  UserContent says how it changes.         *)
(***************************************************************************)
EXTENDS Replicas, Naturals

CONSTANTS
    Strays,       \* the records whose signature no signer of the directory made
    Writer,       \* Writer[r]: the device that writes record r
    Modified,     \* Modified[v]: the timestamp of user version v
    Archived      \* Archived[p]: the cutoff users version p archives, 0 none

VARIABLES
    ver,      \* ver[n][path]: the version of the content.json on n's disk
    posts,    \* posts[n]: the records of n's posts.json
    adds,     \* adds[n][t]: the add_content call that task t of n is in
    crossed   \* history: crossed[n], a call that stores or removes by a "users"
              \* content of n has overlapped another call

\* What a "users" content archives is gone: on a node whose add_content calls
\* came one at a time, no content.json of the user stays that is older than the
\* cutoff of the parent next to it once that parent's scan is over, whichever
\* of the push, the pass, the retries and the signing stored either of them
\* last (apply_archived removes, is_archived refuses).
ArchivedGone ==
    \A n \in Nodes :
        /\ ~crossed[n]
        /\ \A t \in DOMAIN adds[n] : adds[n][t].at \notin {"scan", "remove"}
        /\ ver[n]["user"] # 0
        => Modified[ver[n]["user"]] >= Archived[ver[n]["users"]]

\* A record that no signer of the directory signed never leaves the node whose
\* own user wrote it: every record is verified again in each merge, the ones
\* read from the local file too (merge_orset).
StraysStay ==
    \A n \in Nodes : \A r \in posts[n] \cap Strays : Writer[r] = n
=============================================================================
