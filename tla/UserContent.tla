----------------------------- MODULE UserContent -----------------------------
(***************************************************************************)
(* One user's directory of a xite on the nodes that serve it: the user's   *)
(* signed content.json ("user"), the content.json of the directory above   *)
(* it that says who may write there ("users"), the hashed data file the    *)
(* first declares, and the merge file posts.json, a grow-only set of       *)
(* records that are signed one by one.                                     *)
(*                                                                         *)
(* Sources: crates/epix-ui/src/state.rs (pushes, merges, signing),         *)
(* crates/epix-node/src/lib.rs (sync_included_content, the periodic pass), *)
(* crates/epix-xite/src/xite.rs (add_content and archiving),               *)
(* crates/epix-content/src/{verify,record,merge}.rs and the signer cache   *)
(* of crates/epix-chain/src/lib.rs.                                        *)
(*                                                                         *)
(* The directory is named by an xID, so the keys that may sign in it are   *)
(* looked up on the chain.  A push handler, the pass and the merge sweep   *)
(* of a node are separate tasks on one set of files and no lock is held    *)
(* across a network wait, nor by add_content, so that what one call has    *)
(* verified against may be replaced before it writes.  The owner signs the *)
(* "users" content; what is on the disks, the add_content calls and two of *)
(* the properties are in UserDirectory.                                    *)
(***************************************************************************)
EXTENDS UserDirectory, Naturals, FiniteSets

CONSTANTS
    Devices,      \* the nodes whose user owns the directory
    Records,      \* the records the devices may write
    MaxUser,      \* bound: versions of the user's content.json
    MaxUsers,     \* bound: versions of the content.json above it
    Banned,       \* the users versions whose permissions ban the user
    SweepUnion,   \* MERGE_SWEEP_UNION: copies a sweep unions
    RetryRounds,  \* rounds the pass retries a manifest that did not verify
    MaxUpsets,    \* bound: chain outages, fetches that fail, edits of
                  \* the users content, stray records
    MaxTasks,     \* bound: tasks that overlap
    MaxPushes,    \* bound: pushes on their way at a time
    Pushed        \* the contents that are pushed, not only listed

Paths == {"users", "user"}
UserV == 1 .. MaxUser
UsersV == 1 .. MaxUsers
VersionsOf(path) == IF path = "users" THEN UsersV ELSE UserV

ASSUME UserContentAssumption ==
    /\ Owner \in Nodes
    /\ Devices \subseteq Nodes
    /\ Strays \subseteq Records
    /\ Writer \in [Records -> Devices]
    /\ MaxUser \in Nat \ {0} /\ MaxUsers \in Nat \ {0}
    /\ Modified \in [UserV -> Nat \ {0}]
    /\ \A v, w \in UserV : v < w => Modified[v] < Modified[w]
    /\ Archived \in [UsersV -> Nat]
    /\ Archived[1] <= Modified[1]      \* Init is what apply_archived leaves
    /\ Banned \subseteq UsersV
    /\ SweepUnion \in Nat \ {0} /\ RetryRounds \in Nat /\ MaxUpsets \in Nat
    /\ MaxTasks \in Nat \ {0} /\ MaxPushes \in Nat \ {0}
    /\ Pushed \subseteq Paths

VARIABLES
    written,  \* the records that were written by their device
    clock,    \* the newest user version ever signed
    task,     \* task[n][t]
    pushes,   \* update requests on their way
    chain,    \* the chain can be reached
    upsets,   \* how many of those there were
    batch     \* tasks started since all were idle, see Room

vars == <<ver, posts, adds, crossed, written, clock, task, pushes, chain,
          upsets, batch>>
disks == <<ver, posts, adds, crossed>>
calls == <<adds, crossed>>
net == <<chain, upsets, batch>>
link == <<chain, upsets>>

\* A push of a version is a task of its own (updates_in_flight, one per
\* version); a node runs one pass and one sweep at a time, and its user signs
\* one content.json at a time.
Pushes == {<<path, v>> : path \in Paths, v \in UserV \cup UsersV}
Pass == <<"pass", 0>>
Sweep == <<"sweep", 0>>
Sign == <<"sign", 0>>
Tasks == Pushes \cup {Pass, Sweep, Sign}

Idle == [at |-> "idle", path |-> "users", v |-> 0, from |-> Owner,
         list |-> [p \in Paths |-> 0], fetched |-> FALSE, arrived |-> FALSE,
         round |-> 0, keys |-> FALSE, base |-> {}, got |-> {}, asked |-> {}]

\* No call of add_content.
NoAdd == [at |-> "none", path |-> "users", v |-> 0, old |-> 0]

\* The bound on concurrency: of the tasks of all nodes, MaxTasks start before
\* all that were started have ended.
Quiet == \A n \in Nodes : \A t \in Tasks : task[n][t].at = "idle"
Room == Quiet \/ batch < MaxTasks
Start == batch' = IF Quiet THEN 1 ELSE batch + 1

Upset == upsets < MaxUpsets /\ upsets' = upsets + 1

Init ==
    /\ ver = [n \in Nodes |-> [p \in Paths |-> 1]]
    /\ posts = [n \in Nodes |-> {}]
    /\ adds = [n \in Nodes |-> [t \in Tasks |-> NoAdd]]
    /\ crossed = [n \in Nodes |-> FALSE]
    /\ written = {}
    /\ clock = 1
    /\ task = [n \in Nodes |-> [t \in Tasks |-> Idle]]
    /\ pushes = {}
    /\ chain = TRUE
    /\ upsets = 0
    /\ batch = 0

Places == {"idle", "add", "level", "padd", "retry", "open", "copy", "files"}

TaskRecord ==
    [at : Places, path : Paths, v : 0 .. MaxUser + MaxUsers, from : Nodes,
     list : [Paths -> 0 .. MaxUser + MaxUsers], fetched : BOOLEAN,
     arrived : BOOLEAN, round : 0 .. RetryRounds, keys : BOOLEAN,
     base : SUBSET Records, got : SUBSET Records, asked : SUBSET Nodes]

AddRecord ==
    [at : {"none", "write", "scan", "remove"}, path : Paths,
     v : 0 .. MaxUser + MaxUsers, old : 0 .. MaxUser + MaxUsers]

PushRecord == [to : Nodes, from : Nodes, path : Paths, v : UserV \cup UsersV]

TypeOK ==
    /\ \A n \in Nodes : \A p \in Paths : ver[n][p] \in {0} \cup VersionsOf(p)
    /\ posts \in [Nodes -> SUBSET Records]
    /\ adds \in [Nodes -> [Tasks -> AddRecord]]
    /\ crossed \in [Nodes -> BOOLEAN]
    /\ written \subseteq Records
    /\ clock \in UserV
    /\ task \in [Nodes -> [Tasks -> TaskRecord]]
    /\ pushes \subseteq PushRecord
    /\ chain \in BOOLEAN
    /\ upsets \in 0 .. MaxUpsets
    /\ batch \in 0 .. MaxTasks

-----------------------------------------------------------------------------
(***************************************************************************)
(* Who may sign, and what is archived.                                     *)
(***************************************************************************)

\* xid_signers::resolve: whether it finds the directory's keys.  With the chain
\* out of reach that depends on an answer cached less than TTL ago; without
\* one the result is NO signer at all.
Resolves == IF chain THEN {TRUE} ELSE BOOLEAN

\* The signers the rules of the directory give (user_content_rules): the
\* directory's name unless the user is banned, and the keys it resolves to.
SignersKnown(n, keys) == keys /\ ver[n]["users"] \notin Banned

\* is_archived: a cutoff of the parent on disk at or after the timestamp.
IsArchived(n, v) == Modified[v] <= Archived[ver[n]["users"]]

\* Mutant: the parent's cutoff is not looked at.
VerifiesUnarchived(n, path, v, keys) ==
    path = "user" => SignersKnown(n, keys)

\* verify_content_file for a content.json signed by the user, or by the owner.
Verifies(n, path, v, keys) ==
    path = "user" => SignersKnown(n, keys) /\ ~IsArchived(n, v)

-----------------------------------------------------------------------------
(***************************************************************************)
(* add_content, step by step.  The task goes on when the call has returned. *)
(***************************************************************************)

\* The bytes are verified; the copy they replace is read, for its cutoff.
AddContent(n, t, path, v) ==
    /\ adds[n][t].at = "none"
    /\ adds' = [adds EXCEPT ![n][t] =
                   [at |-> "write", path |-> path, v |-> v,
                    old |-> IF path = "users" THEN ver[n]["users"] ELSE 0]]
    /\ crossed' = [crossed EXCEPT ![n] =
                      @ \/ \E u \in Tasks \ {t} :
                              /\ adds[n][u].at # "none"
                              /\ "users" \in {path, adds[n][u].path}]

\* apply_archived acts on a cutoff that differs from the one before.
NewCutoff(c) == c.path = "users" /\ Archived[c.v] # Archived[c.old]

\* They replace the file, whatever version is there by now.
WriteContent(n, t) ==
    LET c == adds[n][t] IN
    /\ c.at = "write"
    /\ ver' = [ver EXCEPT ![n][c.path] = c.v]
    /\ adds' = [adds EXCEPT ![n][t] =
                   IF NewCutoff(c) THEN [c EXCEPT !.at = "scan"] ELSE NoAdd]
    /\ UNCHANGED <<posts, crossed, written, clock, task, pushes, chain, upsets,
                   batch>>

\* remove_child_if_older: strictly older than the cutoff.
ArchivesUser(n, p) ==
    ver[n]["user"] # 0 /\ Modified[ver[n]["user"]] < Archived[p]

\* The user's content.json is read and found too old, or not.
ScanArchived(n, t) ==
    LET c == adds[n][t] IN
    /\ c.at = "scan"
    /\ adds' = [adds EXCEPT ![n][t] =
                   IF ArchivesUser(n, c.v) THEN [c EXCEPT !.at = "remove"]
                   ELSE NoAdd]
    /\ UNCHANGED <<ver, posts, crossed, written, clock, task, pushes, chain,
                   upsets, batch>>

\* It is deleted with the files it declares, which posts.json is not one of.
RemoveChild(n, t) ==
    /\ adds[n][t].at = "remove"
    /\ ver' = [ver EXCEPT ![n]["user"] = 0]
    /\ adds' = [adds EXCEPT ![n][t] = NoAdd]
    /\ UNCHANGED <<posts, crossed, written, clock, task, pushes, chain, upsets,
                   batch>>

-----------------------------------------------------------------------------
\* verify_record for a record of this directory.
RecordOk(keys, r) == keys /\ r \notin Strays

\* Mutant: inbound records are taken as they are.
MergeTrusting(keys, local, inbound) == local \cup inbound

\* merge_orset: the records of both sides that verify.
MergeOrset(keys, local, inbound) ==
    {r \in local \cup inbound : RecordOk(keys, r)}

-----------------------------------------------------------------------------
(***************************************************************************)
(* The user's own device, and the owner.                                   *)
(***************************************************************************)

Publish(n, path, v) ==
    \E S \in SUBSET (Nodes \ {n}) :
        /\ pushes' = pushes \cup
               {[to |-> m, from |-> n, path |-> path, v |-> v] : m \in S}
        /\ S # {} => path \in Pushed
        /\ S = {} \/ Cardinality(pushes') <= MaxPushes

\* write_file of a declared merge file: merge_local unions without verifying.
WriteRecord(r) ==
    LET n == Writer[r] IN
    /\ r \notin written
    /\ IF r \in Strays THEN Upset ELSE UNCHANGED upsets
    /\ ver[n]["user"] # 0
    /\ posts' = [posts EXCEPT ![n] = @ \cup {r}]
    /\ written' = written \cup {r}
    /\ UNCHANGED <<ver, calls, clock, task, pushes, chain, batch>>

\* What is signed is stored as other contents are, then published.
Signing(n, path, v) ==
    /\ task[n][Sign].at = "idle" /\ Room
    /\ Start
    /\ AddContent(n, Sign, path, v)
    /\ task' = [task EXCEPT ![n][Sign] =
                   [Idle EXCEPT !.at = "files", !.path = path]]

\* sign_user_content: the edited data file is hashed into a newer version,
\* which must verify before it is stored.
SignUser(n) ==
    /\ n \in Devices
    /\ clock < MaxUser
    /\ \E keys \in Resolves : Verifies(n, "user", clock + 1, keys)
    /\ clock' = clock + 1
    /\ Signing(n, "user", clock + 1)
    /\ UNCHANGED <<ver, posts, written, pushes, link>>

\* The owner signs the next "users" version: a ban, an archive date.
SignUsers ==
    LET v == ver[Owner]["users"] + 1 IN
    /\ v \in UsersV
    /\ Upset
    /\ Signing(Owner, "users", v)
    /\ UNCHANGED <<ver, posts, written, clock, pushes, chain>>

LosePush(p) ==
    /\ pushes' = pushes \ {p}
    /\ UNCHANGED <<disks, written, clock, task, net>>

-----------------------------------------------------------------------------
(***************************************************************************)
(* A pushed child content.json (apply_inbound_update).                     *)
(***************************************************************************)

\* The version is compared with the disk, once, before any wait.
Deliver(p) ==
    LET n == p.to
        t == <<p.path, p.v>>
    IN
    /\ Room
    /\ Start
    /\ pushes' = pushes \ {p}
    /\ IF p.v > ver[n][p.path] /\ task[n][t].at = "idle"
       THEN task' = [task EXCEPT ![n][t] =
                [Idle EXCEPT !.at = "add", !.path = p.path, !.v = p.v,
                             !.from = p.from]]
       ELSE UNCHANGED task
    /\ UNCHANGED <<disks, written, clock, link>>

\* The signers are looked up and the bytes are verified, to be stored; a bad
\* one ends the task.  A user version goes on to its merge file.
AddPushed(n, t) ==
    /\ task[n][t].at = "add"
    /\ LET k == task[n][t] IN
       \E keys \in Resolves :
          IF Verifies(n, k.path, k.v, keys)
          THEN /\ AddContent(n, t, k.path, k.v)
               /\ task' = [task EXCEPT ![n][t] =
                      [k EXCEPT !.at = IF k.path = "user" THEN "open" ELSE "files",
                                !.keys = keys]]
          ELSE /\ task' = [task EXCEPT ![n][t] = Idle]
               /\ UNCHANGED calls
    /\ UNCHANGED <<ver, posts, written, clock, pushes, net>>

-----------------------------------------------------------------------------
(***************************************************************************)
(* The pass (sync_included_content).                                       *)
(***************************************************************************)

\* Mutant: the peer's list is dropped, only the paths on disk are looked at.
StartPassUnlisted(n, m) ==
    /\ m # n
    /\ task[n][Pass].at = "idle" /\ Room
    /\ Start
    /\ task' = [task EXCEPT ![n][Pass] =
                   [Idle EXCEPT !.at = "level", !.from = m]]
    /\ UNCHANGED <<disks, written, clock, pushes, link>>

\* The listModified race: the first peer with a non-empty list decides.
StartPass(n, m) ==
    /\ m # n
    /\ task[n][Pass].at = "idle" /\ Room
    /\ Start
    /\ task' = [task EXCEPT ![n][Pass] =
                   [Idle EXCEPT !.at = "level", !.from = m, !.list = ver[m]]]
    /\ UNCHANGED <<disks, written, clock, pushes, link>>

\* After a level: the next one, then the retries, the merge file of a user
\* version that arrived, and the files.
NextAt(k) ==
    LET done == [Idle EXCEPT !.path = "user"] IN
    CASE k.path = "users" -> [Idle EXCEPT !.at = "level", !.path = "user",
                                          !.from = k.from,
                                          !.list["user"] = k.list["user"]]
      [] k.path = "user" /\ k.arrived -> [done EXCEPT !.at = "open"]
      [] k.path = "user" /\ ~k.arrived -> [done EXCEPT !.at = "files"]

\* A level whose listed version is newer than the disk is fetched from the
\* peer; otherwise, and when the peer does not serve it, the bytes on disk NOW
\* are carried on to be verified and stored again.
Serve(n) ==
    LET k == task[n][Pass]
        s == ver[k.from][k.path]
    IN
    /\ k.at = "level"
    /\ k.list[k.path] > ver[n][k.path]
    /\ s # 0
    /\ task' = [task EXCEPT ![n][Pass] =
                   [k EXCEPT !.at = "padd", !.v = s, !.fetched = TRUE,
                             !.list[k.path] = 0]]
    /\ UNCHANGED <<disks, written, clock, pushes, net>>

KeepDisk(n) ==
    LET k == task[n][Pass]
        d == ver[n][k.path]
    IN
    /\ k.at = "level"
    /\ IF k.list[k.path] > d /\ ver[k.from][k.path] # 0
       THEN Upset ELSE UNCHANGED upsets
    /\ task' = [task EXCEPT ![n][Pass] =
                   IF d = 0 THEN NextAt(k)
                   ELSE [k EXCEPT !.at = "padd", !.v = d, !.list[k.path] = 0]]
    /\ UNCHANGED <<disks, written, clock, pushes, chain, batch>>

\* add_content on the carried bytes.  One that does not verify is skipped; if
\* it came from a peer it is kept for the retries.
AddListed(n) ==
    LET k == task[n][Pass] IN
    /\ k.at = "padd"
    /\ \E keys \in Resolves :
          IF Verifies(n, k.path, k.v, keys)
          THEN /\ AddContent(n, Pass, k.path, k.v)
               /\ task' = [task EXCEPT ![n][Pass] =
                              NextAt([k EXCEPT !.arrived = k.fetched])]
          ELSE /\ task' = [task EXCEPT ![n][Pass] =
                              IF k.fetched THEN [k EXCEPT !.at = "retry"]
                                           ELSE NextAt(k)]
               /\ UNCHANGED calls
    /\ UNCHANGED <<ver, posts, written, clock, pushes, net>>

\* A retry round, ten seconds later, on the bytes fetched before.
Retry(n) ==
    LET k == task[n][Pass] IN
    /\ k.at = "retry"
    /\ \E keys \in Resolves :
          IF Verifies(n, k.path, k.v, keys) /\ k.round < RetryRounds
          THEN /\ AddContent(n, Pass, k.path, k.v)
               /\ task' = [task EXCEPT ![n][Pass] =
                              NextAt([k EXCEPT !.arrived = TRUE])]
          ELSE /\ task' = [task EXCEPT ![n][Pass] =
                              IF k.round < RetryRounds
                              THEN [k EXCEPT !.round = @ + 1]
                              ELSE NextAt(k)]
               /\ UNCHANGED calls
    /\ UNCHANGED <<ver, posts, written, clock, pushes, net>>

-----------------------------------------------------------------------------
(***************************************************************************)
(* Merging posts.json (fetch_and_merge_records).                           *)
(***************************************************************************)

\* How many copies the task unions: a bump takes its sender's, a sweep and the
\* pass (both through resync_merge_dir) more.
UnionFrom(t) == IF t \in Pushes THEN 1 ELSE SweepUnion

\* The merge starts: the file is read.  The signers of a sweep are looked up
\* here (resync_merge_dir), those of a push were before it was stored.
OpenMerge(n, t) ==
    LET k == task[n][t] IN
    /\ \/ k.at = "open" /\ UNCHANGED batch
       \/ t = Sweep /\ k.at = "idle" /\ ver[n]["user"] # 0 /\ Room /\ Start
    /\ \E keys \in Resolves :
          task' = [task EXCEPT ![n][t] =
                      [k EXCEPT !.at = "copy", !.base = posts[n],
                                !.got = posts[n],
                                !.keys = SignersKnown(n,
                                    IF t \in Pushes THEN @ ELSE keys)]]
    /\ UNCHANGED <<disks, written, clock, pushes, link>>

\* The peers still to be asked for a copy: a push asks its sender.
Askable(n, t) ==
    LET k == task[n][t] IN
    IF Cardinality(k.asked) = UnionFrom(t) THEN {}
    ELSE (IF t \in Pushes THEN {k.from} ELSE Nodes \ {n}) \ k.asked

\* One more peer serves its copy.
Copy(n, t, m) ==
    LET k == task[n][t] IN
    /\ k.at = "copy"
    /\ m \in Askable(n, t)
    /\ task' = [task EXCEPT ![n][t] =
                   [k EXCEPT !.got = MergeOrset(k.keys, k.got, posts[m]),
                             !.asked = @ \cup {m}]]
    /\ UNCHANGED <<disks, written, clock, pushes, net>>

\* The copies are in, or no peer is left: the merged set replaces the file if
\* its size is another one.
WriteMerge(n, t) ==
    LET k == task[n][t] IN
    /\ k.at = "copy"
    /\ IF Askable(n, t) # {} THEN Upset ELSE UNCHANGED upsets
    /\ posts' = [posts EXCEPT ![n] =
                    IF k.asked # {} /\ Cardinality(k.got) # Cardinality(k.base)
                    THEN k.got ELSE @]
    /\ task' = [task EXCEPT ![n][t] =
                   IF t = Sweep THEN Idle
                   ELSE [k EXCEPT !.at = "files", !.base = {}, !.got = {},
                                  !.asked = {}, !.keys = FALSE]]
    /\ UNCHANGED <<ver, calls, written, clock, pushes, chain, batch>>

-----------------------------------------------------------------------------
(***************************************************************************)
(* Files, and the end of a task.                                           *)
(***************************************************************************)

\* The declared files are fetched or missed, which changes no manifest and no
\* record.  A push handler hands the update on (finish_inbound_update), and what
\* was signed here is published.
FetchFiles(n, t) ==
    LET k == task[n][t] IN
    /\ k.at = "files"
    /\ task' = [task EXCEPT ![n][t] = Idle]
    /\ IF t = Pass \/ ver[n][k.path] = 0 THEN UNCHANGED pushes
       ELSE Publish(n, k.path, ver[n][k.path])
    /\ UNCHANGED <<disks, written, clock, net>>

-----------------------------------------------------------------------------
(***************************************************************************)
(* The chain.                                                              *)
(***************************************************************************)

ChainDown ==
    /\ chain
    /\ Upset
    /\ chain' = FALSE
    /\ UNCHANGED <<disks, written, clock, task, pushes, batch>>

ChainUp ==
    /\ ~chain
    /\ chain' = TRUE
    /\ UNCHANGED <<disks, written, clock, task, pushes, upsets, batch>>

-----------------------------------------------------------------------------
\* A task that has been started takes its next step.
Advance(n, t) ==
    \/ WriteContent(n, t) \/ ScanArchived(n, t) \/ RemoveChild(n, t)
    \/ /\ adds[n][t].at = "none"
       /\ \/ t \in Pushes /\ AddPushed(n, t)
          \/ t = Pass /\ (KeepDisk(n) \/ Serve(n) \/ AddListed(n) \/ Retry(n))
          \/ t # Sweep /\ OpenMerge(n, t)
          \/ \E m \in Nodes : Copy(n, t, m)
          \/ WriteMerge(n, t)
          \/ FetchFiles(n, t)

Next ==
    \/ \E r \in Records : WriteRecord(r)
    \/ \E n \in Nodes : SignUser(n)
    \/ SignUsers
    \/ \E p \in pushes : LosePush(p) \/ Deliver(p)
    \/ \E n, m \in Nodes : StartPass(n, m)
    \/ \E n \in Nodes : OpenMerge(n, Sweep)
    \/ \E n \in Nodes, t \in Tasks : Advance(n, t)
    \/ ChainDown
    \/ ChainUp

Spec == Init /\ [][Next]_vars

\* Tasks that were started go on, the two loops of every node come round again
\* and again, and the chain comes back.
FairSpec ==
    /\ Spec
    /\ WF_vars(ChainUp)
    /\ WF_vars(\E n \in Nodes, t \in Tasks : Advance(n, t))
    /\ \A n \in Nodes :
          /\ SF_vars(\E m \in Nodes : StartPass(n, m))
          /\ SF_vars(OpenMerge(n, Sweep))

-----------------------------------------------------------------------------
(***************************************************************************)
(* Properties.                                                             *)
(***************************************************************************)

Agree ==
    \A n, m \in Nodes :
        /\ ver[n] = ver[m]
        /\ ver[n]["user"] # 0 => posts[n] = posts[m]

\* A content.json of the user that the parent next to it archives.
Leftover(n) == ArchivesUser(n, ver[n]["users"])

\* "a user directory named in `user_contents.archived` ... has its stored
\* content removed - the moderation/revocation path" (apply_archived): on a node
\* with no add_content call under way there is no archived content.json.  It
\* fails where two calls overlap (UserRevocation.cfg).
RevocationHolds ==
    \A n \in Nodes :
        (\A t \in Tasks : adds[n][t].at = "none") => ~Leftover(n)

\* Anti-entropy: once nobody writes or signs any more the nodes end up with
\* the same two content.json versions and the same records, whatever pushes
\* were lost, whichever task stored an older version over a newer one, and
\* whatever an unreachable chain made a merge drop.  Excepted is a node that
\* keeps an archived content.json for good (RevocationHolds), and one that keeps
\* a stray record: its merge drops the stray and takes a new record in, finds
\* the same number of records as before and does not write.
Converged ==
    <>[](pushes = {}) =>
        <>[](\/ Agree
             \/ \E n \in Nodes : Leftover(n) \/ posts[n] \cap Strays # {})

\* A record that the directory's signers signed stays in every file it is in,
\* unless the user is banned: the merge unions and "NEVER removes a version"
\* (crates/epix-content/src/merge.rs).
RecordsKept ==
    [][\A n \in Nodes : ver[n]["users"] \notin Banned =>
          posts[n] \ Strays \subseteq posts'[n]]_vars
=============================================================================
