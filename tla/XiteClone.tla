----------------------------- MODULE XiteClone ------------------------------
(***************************************************************************)
(* How a node comes to hold a xite and how it loses it again: the          *)
(* on-demand clone (crates/epix-node/src/lib.rs, OnDemand and              *)
(* clone_xite_with_progress), the loop that resumes interrupted clones,    *)
(* the deletion and the restart (crates/epix-ui/src/state.rs).             *)
(*                                                                         *)
(* One xite at one node.  Every visit is a task that may register the xite *)
(* and download it; a second visit joins the first through `in_flight'.    *)
(* Nothing joins a clone with the other writers of the directory: an       *)
(* update pass lands files in place, and a deletion removes the tree while *)
(* a clone still works in it.                                              *)
(*                                                                         *)
(* A version number stands for the signed "modified" timestamp, a file's   *)
(* content for its hash, 0 for a file or a content.json that is not there. *)
(***************************************************************************)
EXTENDS Naturals, FiniteSets

CONSTANTS
    Seeders,      \* the peers that can serve the xite
    Files,        \* its core files
    MaxVersion,   \* bound: how many versions its owner signs
    Manifest,     \* Manifest[v][f]: the content version v declares for f
    Visitors,     \* the tasks that open the xite
    Retry,        \* the task that the retry loop starts
    RaceSlots,    \* RACE_SLOTS_PER_CLASS
    DryPasses,    \* passes without progress before a clone gives up
    Attempts,     \* CLONE_ATTEMPTS
    MaxFaults     \* bound: restarts, deletions, seeders that come or go, stalled
                  \* transfers and refusals for want of Tor

Versions == 1 .. MaxVersion
Callers == Visitors \cup {Retry}

ASSUME CloneAssumption ==
    /\ MaxVersion \in Nat \ {0}
    /\ IsFiniteSet(Files)
    /\ DOMAIN Manifest = Versions
    /\ \A v \in Versions : /\ DOMAIN Manifest[v] = Files
                           /\ \A f \in Files : Manifest[v][f] \in Nat \ {0}
    /\ Retry \notin Visitors
    /\ {RaceSlots, DryPasses, Attempts} \subseteq Nat \ {0}
    /\ MaxFaults \in Nat

VARIABLES
    reg,       \* the node's map of xites has an entry for the address
    mem,       \* the version the entry serves (x.content), 0: none
    peers,     \* the entry's peer registry
    saved,     \* xites.json lists the xite
    disk,      \* the version of content.json in the directory
    file,      \* file[f]: the content in the directory
    inflight,  \* OnDemand.in_flight holds the address
    cloning,   \* clones_in_flight holds the address
    caller,    \* caller[c]: a task in ensure_xite
    update,    \* an update pass over the same directory (XiteUpdate)
    remover,   \* how far a remove_xite has come
    seed,      \* seed[s]: the version s seeds
    up,        \* the seeders that answer
    faults,    \* how many of them there were
    mixed      \* history: another writer used the directory during a clone

entry == <<reg, mem, peers, saved>>
tree == <<disk, file>>
flags == <<inflight, cloning>>
world == <<seed, up>>
vars == <<entry, tree, flags, caller, update, remover, world, faults, mixed>>

Idle == [at |-> "idle", v |-> 0, staged |-> FALSE, found |-> {},
         racing |-> {}, lost |-> {}, need |-> {}, before |-> 0, dry |-> 0,
         tries |-> 0]

NoUpdate == [at |-> "idle", v |-> 0, need |-> {}]

Phases == {"idle", "ensure", "admit", "wait", "tor", "open", "race",
           "core", "pass", "commit", "fail", "settle", "release"}

CallerRecord ==
    [at : Phases, v : 0 .. MaxVersion, staged : BOOLEAN,
     found : SUBSET Seeders, racing : SUBSET Seeders, lost : SUBSET Seeders,
     need : SUBSET Files, before : Nat, dry : Nat, tries : Nat]

TypeOK ==
    /\ reg \in BOOLEAN /\ saved \in BOOLEAN /\ mixed \in BOOLEAN
    /\ inflight \in BOOLEAN /\ cloning \in BOOLEAN
    /\ mem \in 0 .. MaxVersion /\ disk \in 0 .. MaxVersion
    /\ file \in [Files -> Nat]
    /\ \A f \in Files : file[f] \in {0} \cup {Manifest[v][f] : v \in Versions}
    /\ peers \in SUBSET Seeders /\ up \in SUBSET Seeders
    /\ seed \in [Seeders -> Versions]
    /\ caller \in [Callers -> CallerRecord]
    /\ update \in [at : {"idle", "fetch", "adopt"}, v : 0 .. MaxVersion,
                   need : SUBSET Files]
    /\ remover \in {"idle", "tree", "persist"}
    /\ faults \in 0 .. MaxFaults

Init ==
    /\ reg = FALSE /\ mem = 0 /\ peers = {} /\ saved = FALSE
    /\ disk = 0 /\ file = [f \in Files |-> 0]
    /\ inflight = FALSE /\ cloning = FALSE
    /\ caller = [c \in Callers |-> Idle]
    /\ update = NoUpdate /\ remover = "idle"
    /\ seed = [s \in Seeders |-> 1] /\ up = Seeders
    /\ faults = 0
    /\ mixed = FALSE

-----------------------------------------------------------------------------
(***************************************************************************)
(* What the node sees.                                                     *)
(***************************************************************************)

\* Xite::files_needed: declared files whose content is not the declared one.
FilesNeeded(v) == {f \in Files : file[f] # Manifest[v][f]}

\* xite_core_complete: a content.json and every file it declares present.
CoreComplete == disk # 0 /\ \A f \in Files : file[f] # 0

\* The seeders that can serve what version v declares for f.
Sources(v, f) == {s \in peers \cap up : Manifest[seed[s]][f] = Manifest[v][f]}

\* A clone works in the directory.
Landing == \E c \in Callers :
    caller[c].at \in {"race", "core", "pass", "commit"}

Goto(c, p) == caller' = [caller EXCEPT ![c].at = p]

-----------------------------------------------------------------------------
(***************************************************************************)
(* Opening a xite: ensure_xite, OnDemand::ensure.                          *)
(***************************************************************************)

\* A page, a command or a link asks for the xite.
Visit(c) ==
    /\ caller[c].at = "idle"
    /\ Goto(c, "ensure")
    /\ UNCHANGED <<entry, tree, flags, update, remover, world, faults, mixed>>

\* Mutant: the loop takes an entry with content for a finished one.
RetryTickContent ==
    /\ reg /\ mem = 0 /\ ~CoreComplete
    /\ caller[Retry].at = "idle"
    /\ Goto(Retry, "ensure")
    /\ UNCHANGED <<entry, tree, flags, update, remover, world, faults, mixed>>

\* retry_clone_candidate: the loop finds a registered xite without its core.
RetryTick ==
    /\ reg /\ ~CoreComplete
    /\ caller[Retry].at = "idle"
    /\ Goto(Retry, "ensure")
    /\ UNCHANGED <<entry, tree, flags, update, remover, world, faults, mixed>>

\* ensure_xite_inner: a complete xite needs at most its content loaded.
Ensure(c) ==
    /\ caller[c].at = "ensure"
    /\ \/ /\ reg /\ CoreComplete
          /\ mem' = IF mem = 0 THEN disk ELSE mem
          /\ Goto(c, "idle")
       \/ /\ ~(reg /\ CoreComplete)
          /\ Goto(c, "admit")
          /\ UNCHANGED mem
    /\ UNCHANGED <<reg, peers, saved, tree, flags, update, remover, world,
                   faults, mixed>>

\* The first caller does the work, the others wait for it.  do_ensure and the
\* head of clone_or_resume: the entry comes before the download, so that the
\* xite survives a restart in the middle of it.
Admit(c) ==
    /\ caller[c].at = "admit"
    /\ \/ inflight /\ Goto(c, "wait") /\ UNCHANGED <<entry, inflight>>
       \/ /\ ~inflight /\ inflight' = TRUE
          /\ \/ reg /\ CoreComplete /\ Goto(c, "release") /\ UNCHANGED entry
             \/ reg /\ ~CoreComplete /\ Goto(c, "tor") /\ UNCHANGED entry
             \/ /\ ~reg /\ Goto(c, "tor")
                /\ reg' = TRUE /\ mem' = 0 /\ peers' = {} /\ saved' = TRUE
    /\ UNCHANGED <<tree, cloning, update, remover, world, faults, mixed>>

\* wait_for_inflight: until the entry is there or the work is over.
Wait(c) ==
    /\ caller[c].at = "wait"
    /\ reg \/ ~inflight
    /\ Goto(c, "idle")
    /\ UNCHANGED <<entry, tree, flags, update, remover, world, faults, mixed>>

\* It gives up after five minutes, whatever the clone still does.
WaitGivesUp(c) ==
    /\ caller[c].at = "wait"
    /\ Goto(c, "idle")
    /\ UNCHANGED <<entry, tree, flags, update, remover, world, faults, mixed>>

\* await_tor_ready: the transport is there, and the clone begins...
TorReady(c) ==
    /\ caller[c].at = "tor"
    /\ Goto(c, "open")
    /\ cloning' = TRUE
    /\ UNCHANGED <<entry, tree, inflight, update, remover, world, faults, mixed>>

\* ...or Tor is not, and Always mode forbids the clearnet.
TorRefused(c) ==
    /\ caller[c].at = "tor" /\ faults < MaxFaults
    /\ Goto(c, "release")
    /\ faults' = faults + 1
    /\ UNCHANGED <<entry, tree, flags, update, remover, world, mixed>>

-----------------------------------------------------------------------------
(***************************************************************************)
(* clone_xite_with_progress.                                               *)
(***************************************************************************)

\* What is on disk decides: complete, resumed, or raced for from the network.
Open(c) ==
    /\ caller[c].at = "open"
    /\ \/ /\ disk # 0 /\ FilesNeeded(disk) = {}
          /\ caller' = [caller EXCEPT ![c].at = "settle", ![c].v = disk]
       \/ /\ disk # 0 /\ FilesNeeded(disk) # {}
          /\ caller' = [caller EXCEPT ![c].at = "core", ![c].v = disk]
       \/ /\ disk = 0
          /\ caller' = [caller EXCEPT ![c].at = "race", ![c].found = peers]
    /\ UNCHANGED <<entry, tree, flags, update, remover, world, faults, mixed>>

\* A tracker, the DHT or a peer exchange names a peer; it joins the registry,
\* and the race while there is one.
Discover(c, s) ==
    /\ caller[c].at \in {"race", "core", "pass"}
    /\ s \notin caller[c].found
    /\ caller' = [caller EXCEPT
           ![c].found = IF caller[c].at = "race" THEN @ \cup {s} ELSE @]
    /\ peers' = IF reg THEN peers \cup {s} ELSE peers
    /\ UNCHANGED <<reg, mem, saved, tree, flags, update, remover, world, faults,
                   mixed>>

\* A peer that was found gets one of the slots.
Ask(c, s) ==
    /\ caller[c].at = "race"
    /\ s \in caller[c].found \ (caller[c].racing \cup caller[c].lost)
    /\ Cardinality(caller[c].racing) < RaceSlots
    /\ caller' = [caller EXCEPT ![c].racing = @ \cup {s}]
    /\ UNCHANGED <<entry, tree, flags, update, remover, world, faults, mixed>>

\* The first verified content.json ends the race: it is staged, and the entry
\* shows it at once.
Win(c, s) ==
    /\ caller[c].at = "race" /\ s \in caller[c].racing \cap up
    /\ caller' = [caller EXCEPT ![c].at = "core", ![c].v = seed[s],
                      ![c].staged = TRUE, ![c].found = {}, ![c].racing = {},
                      ![c].lost = {}]
    /\ mem' = IF reg THEN seed[s] ELSE mem
    /\ UNCHANGED <<reg, peers, saved, tree, flags, update, remover, world,
                   faults, mixed>>

\* A peer that does not answer frees its slot.
Lose(c, s) ==
    /\ caller[c].at = "race" /\ s \in caller[c].racing \ up
    /\ caller' = [caller EXCEPT ![c].racing = @ \ {s}, ![c].lost = @ \cup {s}]
    /\ UNCHANGED <<entry, tree, flags, update, remover, world, faults, mixed>>

\* Discovery is over, or 60 s passed without a new peer, and all were asked.
RaceFails(c) ==
    /\ caller[c].at = "race"
    /\ caller[c].found = caller[c].lost
    /\ caller' = [caller EXCEPT ![c].at = "fail", ![c].found = {}, ![c].lost = {}]
    /\ UNCHANGED <<entry, tree, flags, update, remover, world, faults, mixed>>

\* A pass over the core set, unless nothing is missing or nobody is known.
StartPass(c) ==
    /\ caller[c].at = "core"
    /\ LET need == FilesNeeded(caller[c].v) IN
       \/ /\ need = {} \/ peers = {}
          /\ Goto(c, "commit")
       \/ /\ need # {} /\ peers # {}
          /\ caller' = [caller EXCEPT ![c].at = "pass", ![c].need = need,
                                      ![c].before = Cardinality(need)]
    /\ UNCHANGED <<entry, tree, flags, update, remover, world, faults, mixed>>

\* edx_first: a needed file arrives.  It is moved into the directory of the
\* ENTRY, so nothing lands once the xite is deleted.
FetchCore(c, f) ==
    LET v == caller[c].v IN
    /\ caller[c].at = "pass" /\ f \in caller[c].need
    /\ reg /\ Sources(v, f) # {}
    /\ file' = [file EXCEPT ![f] = Manifest[v][f]]
    /\ caller' = [caller EXCEPT ![c].need = @ \ {f}]
    /\ mixed' = (mixed \/ update.at # "idle")
    /\ UNCHANGED <<entry, disk, flags, update, remover, world, faults>>

\* The pass is over when nobody serves what is left, or its budget is spent
\* on a stalled transfer.
EndPass(c) ==
    LET v == caller[c].v
        after == FilesNeeded(v)
        dry == IF Cardinality(after) < caller[c].before THEN 0
               ELSE caller[c].dry + 1
        stalled == reg /\ \E f \in caller[c].need : Sources(v, f) # {}
    IN
    /\ caller[c].at = "pass"
    /\ stalled => faults < MaxFaults
    /\ faults' = IF stalled THEN faults + 1 ELSE faults
    /\ caller' = [caller EXCEPT
           ![c].at = IF after = {} \/ dry >= DryPasses THEN "commit" ELSE "core",
           ![c].need = {}, ![c].before = 0,
           ![c].dry = IF after = {} \/ dry >= DryPasses THEN 0 ELSE dry]
    /\ UNCHANGED <<entry, tree, flags, update, remover, world, mixed>>

\* Mutant: commits what it has.
CommitPartial(c) ==
    /\ caller[c].at = "commit"
    /\ disk' = caller[c].v
    /\ Goto(c, "settle")
    /\ UNCHANGED <<entry, file, flags, update, remover, world, faults, mixed>>

\* A staged content.json is written (an atomic rename, into a directory it
\* creates if need be) only over a whole core set; a resumed one is on disk
\* already, whole or not.
Commit(c) ==
    /\ caller[c].at = "commit"
    /\ \/ /\ caller[c].staged /\ FilesNeeded(caller[c].v) # {}
          /\ Goto(c, "fail")
          /\ UNCHANGED disk
       \/ /\ caller[c].staged /\ FilesNeeded(caller[c].v) = {}
          /\ disk' = caller[c].v
          /\ Goto(c, "settle")
       \/ /\ ~caller[c].staged
          /\ Goto(c, "settle")
          /\ UNCHANGED disk
    /\ UNCHANGED <<entry, file, flags, update, remover, world, faults, mixed>>

\* clone_with_retries: the next attempt starts over from what is on disk.
Fail(c) ==
    /\ caller[c].at = "fail"
    /\ \/ /\ caller[c].tries + 1 < Attempts
          /\ caller' = [caller EXCEPT ![c] =
                           [Idle EXCEPT !.at = "open", !.tries = caller[c].tries + 1]]
          /\ UNCHANGED cloning
       \/ /\ caller[c].tries + 1 >= Attempts
          /\ Goto(c, "release")
          /\ cloning' = FALSE
    /\ UNCHANGED <<entry, tree, inflight, update, remover, world, faults, mixed>>

\* The user content has been joined: end_clone, update_content.
Settle(c) ==
    /\ caller[c].at = "settle"
    /\ cloning' = FALSE
    /\ mem' = IF reg THEN caller[c].v ELSE mem
    /\ Goto(c, "release")
    /\ UNCHANGED <<reg, peers, saved, tree, inflight, update, remover, world,
                   faults, mixed>>

\* Mutant: a clone that failed leaves by an early return.
ReleaseOnSuccess(c) ==
    /\ caller[c].at = "release"
    /\ inflight' = (caller[c].v = 0)
    /\ caller' = [caller EXCEPT ![c] = Idle]
    /\ UNCHANGED <<entry, tree, cloning, update, remover, world, faults, mixed>>

Release(c) ==
    /\ caller[c].at = "release"
    /\ inflight' = FALSE
    /\ caller' = [caller EXCEPT ![c] = Idle]
    /\ UNCHANGED <<entry, tree, cloning, update, remover, world, faults, mixed>>

-----------------------------------------------------------------------------
(***************************************************************************)
(* An update pass over the same directory (XiteUpdate has its details).    *)
(***************************************************************************)

\* resync_xite: a peer has a version newer than the one in memory.
Probe(s) ==
    /\ update.at = "idle" /\ reg
    /\ s \in peers \cap up /\ seed[s] > mem
    /\ update' = [at |-> "fetch", v |-> seed[s], need |-> FilesNeeded(seed[s])]
    /\ UNCHANGED <<entry, tree, flags, caller, remover, world, faults, mixed>>

FetchUpdate(f) ==
    /\ update.at = "fetch" /\ f \in update.need
    /\ reg /\ Sources(update.v, f) # {}
    /\ file' = [file EXCEPT ![f] = Manifest[update.v][f]]
    /\ update' = [update EXCEPT !.need = @ \ {f}]
    /\ mixed' = (mixed \/ Landing)
    /\ UNCHANGED <<entry, disk, flags, caller, remover, world, faults>>

\* finalize_root_update: commit over a whole set, defer otherwise.
EndUpdate ==
    /\ update.at = "fetch"
    /\ \A f \in update.need : ~reg \/ Sources(update.v, f) = {}
    /\ \/ /\ FilesNeeded(update.v) = {}
          /\ disk' = update.v
          /\ update' = [update EXCEPT !.at = "adopt", !.need = {}]
          /\ mixed' = (mixed \/ Landing)
       \/ /\ FilesNeeded(update.v) # {}
          /\ update' = NoUpdate
          /\ mixed' = (mixed \/ disk # 0)
          /\ UNCHANGED disk
    /\ UNCHANGED <<entry, file, flags, caller, remover, world, faults>>

AdoptUpdate ==
    /\ update.at = "adopt"
    /\ mem' = IF reg THEN update.v ELSE mem
    /\ update' = NoUpdate
    /\ UNCHANGED <<reg, peers, saved, tree, flags, caller, remover, world,
                   faults, mixed>>

-----------------------------------------------------------------------------
(***************************************************************************)
(* Deleting and restarting.                                                *)
(***************************************************************************)

\* remove_xite: the entry goes under the lock...
Delete ==
    /\ remover = "idle" /\ reg /\ faults < MaxFaults
    /\ reg' = FALSE /\ mem' = 0 /\ peers' = {}
    /\ remover' = "tree"
    /\ faults' = faults + 1
    /\ UNCHANGED <<saved, tree, flags, caller, update, world, mixed>>

\* ...then the directory, whoever is writing in it...
RemoveTree ==
    /\ remover = "tree"
    /\ disk' = 0 /\ file' = [f \in Files |-> 0]
    /\ remover' = "persist"
    /\ mixed' = (Landing \/ update.at # "idle")
    /\ UNCHANGED <<entry, flags, caller, update, world, faults>>

\* ...and last the registry on disk.
PersistRemoval ==
    /\ remover = "persist"
    /\ saved' = reg
    /\ remover' = "idle"
    /\ UNCHANGED <<reg, mem, peers, tree, flags, caller, update, world, faults,
                   mixed>>

\* The process dies; restore_xites registers what xites.json lists, empty when
\* there is no content.json yet.
Crash ==
    /\ faults < MaxFaults
    /\ faults' = faults + 1
    /\ reg' = saved
    /\ mem' = IF saved THEN disk ELSE 0
    /\ peers' = IF saved THEN peers ELSE {}
    /\ inflight' = FALSE /\ cloning' = FALSE
    /\ caller' = [c \in Callers |-> Idle]
    /\ update' = NoUpdate /\ remover' = "idle"
    /\ mixed' = (mixed \/ (update.at = "fetch" /\ disk # 0))
    /\ UNCHANGED <<saved, tree, world>>

-----------------------------------------------------------------------------
(***************************************************************************)
(* The network.                                                            *)
(***************************************************************************)

SeedNewer(s) ==
    /\ seed[s] < MaxVersion
    /\ seed' = [seed EXCEPT ![s] = @ + 1]
    /\ UNCHANGED <<entry, tree, flags, caller, update, remover, up,
                   faults, mixed>>

Flip(s) ==
    /\ faults < MaxFaults
    /\ faults' = faults + 1
    /\ up' = IF s \in up THEN up \ {s} ELSE up \cup {s}
    /\ UNCHANGED <<entry, tree, flags, caller, update, remover, seed, mixed>>

-----------------------------------------------------------------------------
CloneStep(c) ==
    \/ Open(c) \/ RaceFails(c) \/ StartPass(c) \/ EndPass(c)
    \/ Commit(c) \/ Fail(c) \/ Settle(c) \/ Release(c)
    \/ \E s \in Seeders : Ask(c, s) \/ Win(c, s) \/ Lose(c, s)
    \/ \E f \in Files : FetchCore(c, f)

Work(c) ==
    \/ Ensure(c) \/ Admit(c) \/ Wait(c) \/ TorReady(c)
    \/ CloneStep(c)

UpdateStep ==
    \/ EndUpdate \/ AdoptUpdate
    \/ \E s \in Seeders : Probe(s)
    \/ \E f \in Files : FetchUpdate(f)

RemoveStep == RemoveTree \/ PersistRemoval

Next ==
    \/ \E c \in Visitors : Visit(c)
    \/ \E c \in Callers : Work(c) \/ WaitGivesUp(c) \/ TorRefused(c)
    \/ RetryTick
    \/ UpdateStep \/ RemoveStep \/ Delete \/ Crash
    \/ \E s \in Seeders : SeedNewer(s) \/ Flip(s)
    \/ \E c \in Callers, s \in Seeders : Discover(c, s)

Spec == Init /\ [][Next]_vars

\* The tasks of the runtime run; the retry loop ticks every few seconds and the
\* update loop every few minutes.  Nobody need visit, delete or restart.
FairSpec ==
    /\ Spec
    /\ \A c \in Callers : WF_vars(Work(c))
    /\ WF_vars(RetryTick)
    /\ WF_vars(UpdateStep)
    /\ WF_vars(RemoveStep)

-----------------------------------------------------------------------------
(***************************************************************************)
(* Properties.                                                             *)
(***************************************************************************)

\* "neither a crash nor an unseeded file can leave a stored content.json ahead
\* of its files" (clone_xite_with_progress, staged adopt): unless another
\* writer used the directory during the clone, the content.json on disk
\* describes exactly the files on disk, through failed attempts, restarts and
\* new versions signed between two attempts.
StoredWhole ==
    disk # 0 /\ ~mixed /\ update.at # "fetch" =>
        FilesNeeded(disk) = {}

\* Whatever becomes of the clone (no peers, a missing file, no Tor, the xite
\* deleted under it), the address leaves in_flight and clones_in_flight, so
\* that a later visit is not turned away (OnDemand::ensure).
Released == (inflight \/ cloning) ~> (~inflight /\ ~cloning)

\* The retry loop's promise (retry_clone_candidate, restore_one_xite): a xite
\* that stays registered, with a reachable seeder of its newest version in its
\* registry, ends up complete on disk and loaded, after any failure, restart
\* or race with a deletion: no page waits behind html_doc_gated for ever.
GateOpens ==
    <>[](reg /\ (peers \cap up # {}) /\ \A s \in up : seed[s] = MaxVersion)
        => <>[](CoreComplete /\ mem # 0)
=============================================================================
