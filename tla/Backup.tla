------------------------------- MODULE Backup -------------------------------
(***************************************************************************)
(* Backups of a node's data and their restore (crates/epix-ui/src/         *)
(* backup.rs): archives made file by file while the node runs, a restore   *)
(* staged in restore-pending/, and the boot that applies it.               *)
(*                                                                         *)
(* Requests run on blocking threads, several at once, and share one        *)
(* staging directory; nothing locks it.  The node writes its files all the *)
(* while.  It may die at any step, the steps of the boot included.         *)
(*                                                                         *)
(* A content is the file and the moment it was written for (moment 0: on   *)
(* another node).                                                          *)
(* Passwords and formats only decide whether a step fails; the checks on   *)
(* entry names are left out, an archive holds only names of Files.         *)
(***************************************************************************)
EXTENDS Naturals, Functions

CONSTANTS
    Files,       \* the files backups cover
    Component,   \* Component[f]: the component that covers f
    Tree,        \* the files under data/<address> of the one xite
    Keys,        \* private/users.json
    Registry,    \* private/xites.json
    Legacy,      \* private/sites.json, the registry of older builds
    Starts,      \* the sets of files a node may begin with
    Foreign,     \* the sets of files in archives of other nodes
    Tasks,       \* threads that serve requests
    Slots,       \* the numbers and seconds that make names differ
    MaxRequests, \* bound: requests
    MaxEdits,    \* bound: files the node writes or deletes
    MaxFaults    \* bound: crashes, restarts and failed steps

ASSUME BackupAssumption ==
    /\ Component \in [Files -> STRING]
    /\ {Keys, Registry, Legacy} \subseteq Files
    /\ Tree \subseteq Files \ {Keys, Registry, Legacy}
    /\ \A f \in Tree \cup {Registry, Legacy} : Component[f] = "zites"
    /\ Starts \subseteq SUBSET Files /\ Foreign \subseteq SUBSET Files
    /\ {MaxRequests, MaxEdits, MaxFaults} \subseteq Nat

Components == Range(Component)
Names == {"epix-backup", "pre-restore", "uploaded"} \X Slots

VARIABLES
    data,      \* the node's files: a function on those that exist
    archive,   \* backups/*.zip, by name
    part,      \* backups/.*.part
    pending,   \* restore-pending/
    task,      \* what each thread is doing
    boot,      \* apply_pending_restore, and whether the node is up
    clock,     \* the contents written so far
    spent,     \* requests, edits and faults so far
    gone,      \* history: contents a restore destroyed that it had to save first
    discarded, \* history: contents in archives the user deleted
    spoilt     \* history: two requests have written one .part

vars == <<data, archive, part, pending, task, boot, clock, spent,
          gone, discarded, spoilt>>
history == <<gone, discarded, spoilt>>

Empty == [f \in {} |-> <<>>]
NoPlan == [files |-> {}, dirs |-> {}, stamp |-> 0, want |-> Empty, alone |-> FALSE]
NoPending == [there |-> FALSE, files |-> Empty, plan |-> NoPlan]
Idle == [at |-> "idle", comps |-> {}, left |-> {}, src |-> Empty, name |-> <<>>,
         stamp |-> 0, alone |-> FALSE]
Up == [at |-> "up", left |-> {}, clean |-> TRUE]

IsDisk(fs) == fs \in [DOMAIN fs -> Files \X Nat] /\ DOMAIN fs \subseteq Files
IsArchive(a) ==
    /\ a = [files |-> a.files, comps |-> a.comps, whole |-> a.whole]
    /\ IsDisk(a.files) /\ a.comps \subseteq Components /\ a.whole \in BOOLEAN
IsPlan(p) ==
    /\ p \in [files : SUBSET Files, dirs : {{}, Tree}, stamp : Nat, want : {p.want},
              alone : BOOLEAN]
    /\ IsDisk(p.want)
IsTask(r) ==
    /\ r \in [at : {"idle", "create", "stage", "save", "commit"},
              comps : SUBSET Components, left : SUBSET Files, src : {r.src},
              name : Names \cup {<<>>}, stamp : Nat, alone : BOOLEAN]
    /\ IsDisk(r.src)

TypeOK ==
    /\ IsDisk(data)
    /\ \A n \in DOMAIN archive : n \in Names /\ IsArchive(archive[n])
    /\ \A n \in DOMAIN part : n \in Names /\ IsArchive(part[n])
    /\ pending = [there |-> pending.there, files |-> pending.files,
                  plan |-> pending.plan]
    /\ pending.there \in BOOLEAN /\ IsDisk(pending.files) /\ IsPlan(pending.plan)
    /\ task = [t \in Tasks |-> task[t]] /\ \A t \in Tasks : IsTask(task[t])
    /\ boot \in [at : {"up", "check", "place", "sweep", "load"}, left : SUBSET Files,
                 clean : BOOLEAN]
    /\ clock \in Nat
    /\ spent \in [requests : 0 .. MaxRequests, edits : 0 .. MaxEdits,
                  faults : 0 .. MaxFaults]
    /\ gone \subseteq Files \X Nat /\ discarded \subseteq Files \X Nat
    /\ spoilt \in BOOLEAN

\* Put content v at f, and take the files of S away; both for archives too.
Put(fs, f, v) == [g \in DOMAIN fs \cup {f} |-> IF g = f THEN v ELSE fs[g]]
Without(fs, S) == Restrict(fs, DOMAIN fs \ S)
First(S) == CHOOSE x \in S : TRUE

\* An archive made on another node.
Foreigner(S) == [files |-> [f \in S |-> <<f, 0>>], whole |-> TRUE,
                 comps |-> {Component[f] : f \in S}]

\* A node that has run before and holds an archive of another node.
Init ==
    /\ \E S \in Starts : data = [f \in S |-> <<f, 1>>]
    /\ \E S \in Foreign, k \in Slots :
          archive = Put(Empty, <<"uploaded", k>>, Foreigner(S))
    /\ part = Empty
    /\ pending = NoPending
    /\ task = [t \in Tasks |-> Idle]
    /\ boot = Up
    /\ clock = 1
    /\ spent = [requests |-> 0, edits |-> 0, faults |-> 0]
    /\ gone = {} /\ discarded = {} /\ spoilt = FALSE

Spend(k, bound) == /\ spent[k] < bound
                   /\ spent' = [spent EXCEPT ![k] = @ + 1]
Request == boot.at = "up" /\ Spend("requests", MaxRequests)
Fault == Spend("faults", MaxFaults)

\* What remove_dir_all of the staging directory may leave when it fails; nobody
\* looks whether it did.
Scraps ==
    {[there |-> pending.there, files |-> Restrict(pending.files, S), plan |-> p] :
        S \in SUBSET DOMAIN pending.files, p \in {pending.plan, NoPlan}}
Discard ==
    \/ pending' = NoPending /\ UNCHANGED spent
    \/ pending.there /\ Fault /\ pending' \in Scraps

-----------------------------------------------------------------------------
(***************************************************************************)
(* create_backup: a name, a .part, the files one after the other.          *)
(***************************************************************************)

\* component_files
Covered(cs) == {f \in DOMAIN data : Component[f] \in cs}

\* The file is created under the first free name; a name is taken only when its
\* archive is finished, so requests of one second open the same .part.
Open(t, at, cs, prefix) ==
    \E k \in Slots :
        LET n == <<prefix, k>>
            shared == \E u \in Tasks \ {t} : task[u].name = n
        IN  /\ n \notin DOMAIN archive
            /\ part' = Put(part, n, [files |-> Empty, comps |-> cs, whole |-> ~shared])
            /\ spoilt' = (spoilt \/ shared)
            /\ task' = [task EXCEPT ![t].at = at, ![t].comps = cs, ![t].name = n,
                                    ![t].left = Covered(cs), ![t].stamp = clock]

StartCreate(t, cs) ==
    /\ Request /\ task[t].at = "idle"
    /\ Covered(cs) # {}
    /\ Open(t, "create", cs, "epix-backup")
    /\ UNCHANGED <<data, archive, pending, boot, clock, gone, discarded>>

\* What an error does to the request: a restore throws its staging away, or as
\* much of it as the trouble that made it fail allows.
Fail(t, trouble) ==
    /\ task' = [task EXCEPT ![t] = Idle]
    /\ IF task[t].at = "create" THEN UNCHANGED pending
       ELSE pending' = NoPending \/ (trouble /\ pending' \in Scraps)

\* One turn of write_archive.
Pack(t) ==
    LET f == First(task[t].left)
        n == task[t].name
    IN  /\ task[t].at \in {"create", "save"} /\ task[t].left # {}
        /\ f \in DOMAIN data
        /\ part' = IF n \in DOMAIN part
                   THEN [part EXCEPT ![n].files = Put(@, f, data[f])] ELSE part
        /\ task' = [task EXCEPT ![t].left = @ \ {f}]
        /\ UNCHANGED <<data, archive, pending, boot, clock, spent, history>>

\* The file has been deleted since it was listed, or the disk is full.
PackFail(t) ==
    /\ task[t].at \in {"create", "save"} /\ task[t].left # {}
    /\ LET missing == First(task[t].left) \notin DOMAIN data
       IN  /\ \/ Fault /\ Fail(t, TRUE)
              \/ missing /\ UNCHANGED spent /\ Fail(t, FALSE)
    /\ part' = Without(part, {task[t].name})
    /\ UNCHANGED <<data, archive, boot, clock, history>>

\* The rename; it fails when another request has moved or removed the .part.
Seal(t) ==
    LET n == task[t].name
    IN  /\ task[t].at \in {"create", "save"} /\ task[t].left = {}
        /\ IF n \in DOMAIN part
           THEN /\ archive' = Put(archive, n, part[n])
                /\ part' = Without(part, {n})
                /\ UNCHANGED spent
                /\ task' = [task EXCEPT ![t] =
                       IF @.at = "create" THEN Idle
                       ELSE [@ EXCEPT !.at = "commit", !.name = <<>>]]
                /\ UNCHANGED pending
           ELSE /\ \/ UNCHANGED spent /\ Fail(t, FALSE)
                   \/ Fault /\ Fail(t, TRUE)
                /\ UNCHANGED <<archive, part>>
        /\ UNCHANGED <<data, boot, clock, history>>

-----------------------------------------------------------------------------
(***************************************************************************)
(* stage_restore.                                                          *)
(***************************************************************************)

Staging(t) == task[t].at \in {"stage", "save", "commit"}

\* Everyone else who stages loses the directory under their feet.
Disturb(others) == [t \in Tasks |-> IF t \in others THEN [task[t] EXCEPT !.alone = FALSE]
                                    ELSE task[t]]

\* Manifest and selection are checked before an earlier staging is discarded; what
\* of it does not go is there for the new one, its plan included.
StartRestore(t, n, cs) ==
    LET a == archive[n]
        selected == cs \cap a.comps
        src == Restrict(a.files, {f \in DOMAIN a.files : Component[f] \in selected})
    IN  /\ boot.at = "up" /\ task[t].at = "idle"
        /\ spent.requests < MaxRequests
        /\ a.whole /\ selected # {}
        /\ \/ /\ pending' = [NoPending EXCEPT !.there = TRUE]
              /\ spent' = [spent EXCEPT !.requests = @ + 1]
           \/ /\ pending.there /\ spent.faults < MaxFaults
              /\ \E p \in Scraps : pending' = [p EXCEPT !.there = TRUE, !.plan.alone = FALSE]
              /\ spent' = [spent EXCEPT !.requests = @ + 1, !.faults = @ + 1]
        /\ task' = [Disturb(Tasks \ {t}) EXCEPT ![t] =
               [Idle EXCEPT !.at = "stage", !.comps = selected, !.src = src,
                            !.left = DOMAIN src,
                            !.alone = /\ pending'.files = Empty
                                      /\ \A u \in Tasks \ {t} : ~Staging(u)]]
        /\ UNCHANGED <<data, archive, part, boot, clock, history>>

\* stage_entry: it makes the directories it needs, the staging one included.
Stage(t) ==
    LET f == First(task[t].left)
    IN  /\ task[t].at = "stage" /\ task[t].left # {}
        /\ pending' = [pending EXCEPT !.there = TRUE,
                                      !.files = Put(@, f, task[t].src[f])]
        /\ task' = [task EXCEPT ![t].left = @ \ {f}]
        /\ UNCHANGED <<data, archive, part, boot, clock, spent, history>>

\* A wrong password, a bad entry, a full disk, or nothing to stage.
StageFail(t) ==
    /\ task[t].at = "stage"
    /\ \/ Fault /\ Fail(t, TRUE)
       \/ task[t].src = Empty /\ UNCHANGED spent /\ Fail(t, FALSE)
    /\ UNCHANGED <<data, archive, part, boot, clock, history>>

\* Mutant: the plan is written without a safety backup.
SaveUnsafe(t) ==
    /\ task[t].at = "stage" /\ task[t].left = {} /\ task[t].src # Empty
    /\ task' = [task EXCEPT ![t].at = "commit", ![t].stamp = clock]
    /\ UNCHANGED <<data, archive, part, pending, boot, clock, spent, history>>

\* finalize_staging: a safety backup of what the node holds of the selection.
Save(t) ==
    /\ task[t].at = "stage" /\ task[t].left = {} /\ task[t].src # Empty
    /\ IF Covered(task[t].comps) # {}
       THEN Open(t, "save", task[t].comps, "pre-restore")
       ELSE /\ task' = [task EXCEPT ![t].at = "commit", ![t].stamp = clock]
            /\ UNCHANGED <<part, spoilt>>
    /\ UNCHANGED <<data, archive, pending, boot, clock, spent, gone, discarded>>

\* The plan stage_archive makes of what it staged.
Plan(t) ==
    LET staged == DOMAIN task[t].src
    IN  [files |-> staged, dirs |-> IF staged \cap Tree = {} THEN {} ELSE Tree,
         stamp |-> task[t].stamp, want |-> task[t].src, alone |-> task[t].alone]

\* apply.json, last; unlike an entry it does not make the directory.
Commit(t) ==
    /\ task[t].at = "commit"
    /\ pending' = IF pending.there THEN [pending EXCEPT !.plan = Plan(t)] ELSE NoPending
    /\ task' = [task EXCEPT ![t] = Idle]
    /\ UNCHANGED <<data, archive, part, boot, clock, spent, history>>

-----------------------------------------------------------------------------
(***************************************************************************)
(* The other requests, and the node itself.                                *)
(***************************************************************************)

\* cancel_pending_restore
Cancel ==
    /\ boot.at = "up"
    /\ Discard
    /\ task' = Disturb(Tasks)
    /\ UNCHANGED <<data, archive, part, boot, clock, history>>

\* action_delete
Delete(n) ==
    /\ Request
    /\ archive' = Without(archive, {n})
    /\ discarded' = discarded \cup Range(archive[n].files)
    /\ UNCHANGED <<data, part, pending, task, boot, clock, gone, spoilt>>

\* backup_upload: received in a .part of its own and kept if it has a manifest.
Upload(S) ==
    /\ Request
    /\ \E k \in Slots :
          /\ <<"uploaded", k>> \notin DOMAIN archive
          /\ archive' = Put(archive, <<"uploaded", k>>, Foreigner(S))
    /\ UNCHANGED <<data, part, pending, task, boot, clock, history>>

\* The running node writes a file, or deletes one of a xite.
Write(f) ==
    /\ boot.at = "up" /\ Spend("edits", MaxEdits)
    /\ clock' = clock + 1
    /\ data' = Put(data, f, <<f, clock'>>)
    /\ UNCHANGED <<archive, part, pending, task, boot, history>>

Unlink(f) ==
    /\ f \in Tree
    /\ boot.at = "up" /\ Spend("edits", MaxEdits)
    /\ data' = Without(data, {f})
    /\ UNCHANGED <<archive, part, pending, task, boot, clock, history>>

\* A crash or a restart: requests are cut off where they are, and nobody reads a
\* .part left behind. During a boot, what was done of the plan stays done.
Restart ==
    /\ Fault
    /\ task' = [t \in Tasks |-> Idle]
    /\ boot' = [at |-> "check", left |-> {},
                clean |-> boot.at = "up" \/ (boot.at = "check" /\ boot.clean)]
    /\ part' = Empty
    /\ UNCHANGED <<data, archive, pending, clock, history>>

-----------------------------------------------------------------------------
(***************************************************************************)
(* apply_pending_restore and the loading of what it leaves.                *)
(***************************************************************************)

\* The contents of S that a plan destroys and its safety backup must hold.
Destroyed(S) == {c \in {data[f] : f \in S \cap DOMAIN data} : c[2] <= pending.plan.stamp}

\* Mutant: restored xites are merged into what is there.
ApplyMerging ==
    /\ boot.at = "check" /\ pending.plan # NoPlan
    /\ boot' = [boot EXCEPT !.at = "place", !.left = pending.plan.files]
    /\ UNCHANGED <<data, archive, part, pending, task, clock, spent, history>>

\* Without a plan a staging is discarded.
ApplyNothing ==
    /\ boot.at = "check" /\ pending.plan = NoPlan
    /\ Discard
    /\ boot' = [boot EXCEPT !.at = "load"]
    /\ UNCHANGED <<data, archive, part, task, clock, history>>

\* With one, replaced trees go first; some of a tree may stay, and it is not
\* counted as an error.
Apply ==
    LET plan == pending.plan
    IN  /\ boot.at = "check" /\ plan # NoPlan
        /\ \E stuck \in SUBSET (plan.dirs \cap DOMAIN data) :
              /\ IF stuck = {} THEN UNCHANGED spent ELSE Fault
              /\ data' = Without(data, plan.dirs \ stuck)
              /\ gone' = gone \cup Destroyed(plan.dirs \ stuck)
              /\ boot' = [boot EXCEPT !.at = "place", !.left = plan.files,
                                      !.clean = @ /\ stuck = {}]
        /\ UNCHANGED <<archive, part, pending, task, clock, discarded, spoilt>>

\* place_restored_file: the old file goes first, then the staged one is renamed
\* (the copy across devices, which leaves the staged file, is not modelled). One
\* that is not staged any more is an error, after the old file has gone.
Place ==
    LET f == First(boot.left)
        staged == f \in DOMAIN pending.files
    IN  /\ boot.at = "place" /\ boot.left # {}
        /\ gone' = gone \cup Destroyed({f})
        /\ data' = IF staged THEN Put(data, f, pending.files[f]) ELSE Without(data, {f})
        /\ pending' = [pending EXCEPT !.files = Without(@, {f})]
        /\ boot' = [boot EXCEPT !.left = @ \ {f}, !.clean = @ /\ staged]
        /\ UNCHANGED <<archive, part, task, clock, spent, discarded, spoilt>>

PlaceFail ==
    LET f == First(boot.left)
    IN  /\ boot.at = "place" /\ boot.left # {} /\ f \in DOMAIN pending.files
        /\ Fault
        /\ gone' = gone \cup Destroyed({f})
        /\ data' = Without(data, {f})
        /\ boot' = [boot EXCEPT !.left = @ \ {f}, !.clean = FALSE]
        /\ UNCHANGED <<archive, part, pending, task, clock, discarded, spoilt>>

\* normalize_legacy_registry
Normalize ==
    LET copy == /\ Legacy \in pending.plan.files /\ Registry \notin pending.plan.files
                /\ Legacy \in DOMAIN data
    IN  /\ boot.at = "place" /\ boot.left = {}
        /\ data' = IF copy THEN Put(data, Registry, data[Legacy]) ELSE data
        /\ gone' = IF copy THEN gone \cup Destroyed({Registry}) ELSE gone
        /\ boot' = [boot EXCEPT !.at = "sweep"]
        /\ UNCHANGED <<archive, part, pending, task, clock, spent, discarded, spoilt>>

\* The staging directory is removed; nobody looks whether it went.
Sweep ==
    /\ boot.at = "sweep"
    /\ Discard
    /\ boot' = [boot EXCEPT !.at = "load"]
    /\ UNCHANGED <<data, archive, part, task, clock, history>>

\* The node loads its data: a missing identity is made anew, a missing registry
\* is copied from the legacy one.
Load ==
    LET loaded == IF Keys \in DOMAIN data THEN data ELSE Put(data, Keys, <<Keys, clock + 1>>)
    IN  /\ boot.at = "load"
        /\ clock' = IF Keys \in DOMAIN data THEN clock ELSE clock + 1
        /\ data' = IF Registry \notin DOMAIN data /\ Legacy \in DOMAIN data
                   THEN Put(loaded, Registry, data[Legacy]) ELSE loaded
        /\ boot' = Up
        /\ UNCHANGED <<archive, part, pending, task, spent, history>>

Next ==
    \/ \E t \in Tasks :
          \/ \E cs \in SUBSET Components :
                \/ StartCreate(t, cs)
                \/ \E n \in DOMAIN archive : StartRestore(t, n, cs)
          \/ Pack(t) \/ PackFail(t) \/ Seal(t)
          \/ Stage(t) \/ StageFail(t) \/ Save(t) \/ Commit(t)
    \/ Cancel
    \/ \E n \in DOMAIN archive : Delete(n)
    \/ \E S \in Foreign : Upload(S)
    \/ \E f \in Files : Write(f) \/ Unlink(f)
    \/ Restart
    \/ ApplyNothing \/ Apply \/ Place \/ PlaceFail \/ Normalize \/ Sweep \/ Load

Spec == Init /\ [][Next]_vars

-----------------------------------------------------------------------------
(***************************************************************************)
(* What the user may rely on.                                              *)
(***************************************************************************)

\* The safety net of finalize_staging: whatever a restore destroys of what the
\* node held when it was staged is in some archive, whichever requests ran
\* together, wherever the node died and however often the plan was applied.
\* Left out: archives the user deleted, and two requests of one second that
\* write the same .part.
SafetyNet ==
    spoilt \/ \A c \in gone \ discarded :
                 \E a \in Range(archive) : a.whole /\ c \in Range(a.files)

\* A restore that had the staging directory to itself and an apply that was
\* neither cut short nor failed give back exactly the archive: each file as it
\* was, no other file in the xite's tree, and a legacy registry under its new
\* name too.
RestoreExact ==
    LET plan == pending.plan
    IN  boot.at = "sweep" /\ boot.clean /\ plan.alone =>
            /\ \A f \in plan.files : f \in DOMAIN data /\ data[f] = plan.want[f]
            /\ plan.dirs # {} => Tree \cap DOMAIN data = Tree \cap plan.files
            /\ Legacy \in plan.files /\ Registry \notin plan.files
                  => data[Registry] = plan.want[Legacy]
=============================================================================
