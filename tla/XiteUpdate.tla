----------------------------- MODULE XiteUpdate -----------------------------
(***************************************************************************)
(* How one root content.json travels between the nodes that serve a xite   *)
(* (crates/epix-ui/src/state.rs).  The owner signs versions; a version     *)
(* reaches a node by a push (apply_inbound_update), by the periodic or the *)
(* hinted pass over its peers (resync_xite) or by the retry of an update   *)
(* that was deferred (retry_pending_updates).  Each is a task of its own   *)
(* and nothing serialises them: every task stages its version in memory,   *)
(* lands the changed files IN PLACE in the xite's directory, and then      *)
(* either commits content.json or defers.                                  *)
(*                                                                         *)
(* A version number stands for the signed "modified" timestamp, a file's   *)
(* content for its hash.  One key per xite: aliases share the storage.     *)
(***************************************************************************)
EXTENDS Replicas, Naturals, FiniteSets

CONSTANTS
    Files,        \* the required files it declares
    MaxVersion,   \* bound: how many versions the owner signs
    Manifest,     \* Manifest[v][f]: the content version v declares for f
    Inline,       \* the versions whose signed body fits one push frame
    Limits,       \* the sets of versions a user's size limit may let a node stage
    Passes,       \* the tasks that can run resync_xite on a node at a time
    Loop,         \* the one of them that also retries deferred updates
    MaxUpsets     \* bound: restarts of a node, pauses of the xite on it and
                  \* writes of content.json that fail

Versions == 1 .. MaxVersion

ASSUME XiteAssumption ==
    /\ MaxVersion \in Nat \ {0}
    /\ Owner \in Nodes
    /\ Loop \in Passes
    /\ Passes \cap Versions = {}
    /\ DOMAIN Manifest = Versions
    /\ \A v \in Versions : Manifest[v] = [f \in Files |-> Manifest[v][f]]
    /\ Inline \subseteq Versions
    /\ Limits \subseteq SUBSET Versions
    /\ MaxUpsets \in Nat

VARIABLES
    disk,      \* disk[n]: the version of content.json in n's storage
    mem,       \* mem[n]: the version n has adopted for serving (x.content)
    file,      \* file[n][f]: the content in n's directory
    pending,   \* pending[n]: the deferred version (pending_updates), 0 none
    bad,       \* bad[n]: the paths in settings.cache.bad_files
    task,      \* task[n][t]: an update task
    pushes,    \* update requests on their way
    pulls,     \* push handlers waiting for a body they asked back for
    limit,     \* limit[n]: the versions n's size limit admits, set by its user
    serving,   \* serving[n]: the xite is not paused
    upsets,    \* how many restarts, pauses and failed writes there were
    unwritten, \* history: unwritten[n], the version whose commit could not be
               \* written and of which none was written since, 0 none
    tangled    \* history: tangled[n], see Tangling

code == <<disk, unwritten, mem, file, pending, bad, task, pushes, pulls,
          serving, upsets>>

vars == <<code, limit, tangled>>

\* A push of version v runs as task v: updates_in_flight admits one task per
\* pushed version, so the set of versions with a task IS updates_in_flight.
Tasks == Passes \cup Versions

Idle == [at |-> "idle", v |-> 0, local |-> 0, need |-> {}, inline |-> FALSE]

\* The declared files the directory does not hold (Xite::files_needed).
FilesNeeded(n, v) == {f \in Files : file[n][f] # Manifest[v][f]}

InFlight(n) == {v \in Versions : task[n][v].at # "idle"}

\* "stage": marked in flight, not verified yet; "sync": about to look which
\* files finish_inbound_update has to fetch.
Places == {"idle", "probe", "stage", "sync", "fetch", "land", "adopt",
           "announce"}

TaskRecord ==
    [at : Places, v : 0 .. MaxVersion, local : 0 .. MaxVersion,
     need : SUBSET Files, inline : BOOLEAN]

Contents == {Manifest[v][f] : v \in Versions, f \in Files}

TypeOK ==
    /\ disk \in [Nodes -> Versions]
    /\ mem \in [Nodes -> Versions]
    /\ file \in [Nodes -> [Files -> Contents]]
    /\ \A n \in Nodes : \A f \in Files :
          file[n][f] \in {Manifest[v][f] : v \in Versions}
    /\ pending \in [Nodes -> 0 .. MaxVersion]
    /\ unwritten \in [Nodes -> 0 .. MaxVersion]
    /\ bad \in [Nodes -> SUBSET Files]
    /\ task \in [Nodes -> [Tasks -> TaskRecord]]
    /\ pushes \subseteq [to : Nodes, from : Nodes, v : Versions]
    /\ pulls \subseteq [at : Nodes, from : Nodes, local : Versions]
    /\ limit \in [Nodes \ {Owner} -> Limits]
    /\ serving \in [Nodes -> BOOLEAN]
    /\ upsets \in 0 .. MaxUpsets
    /\ tangled \in [Nodes -> BOOLEAN]

Init ==
    /\ disk = [n \in Nodes |-> 1]
    /\ mem = [n \in Nodes |-> 1]
    /\ file = [n \in Nodes |-> Manifest[1]]
    /\ pending = [n \in Nodes |-> 0]
    /\ unwritten = [n \in Nodes |-> 0]
    /\ bad = [n \in Nodes |-> {}]
    /\ task = [n \in Nodes |-> [t \in Tasks |-> Idle]]
    /\ pushes = {}
    /\ pulls = {}
    /\ limit \in [Nodes \ {Owner} -> Limits]
    /\ serving = [n \in Nodes |-> TRUE]
    /\ upsets = 0
    /\ tangled = [n \in Nodes |-> FALSE]

-----------------------------------------------------------------------------
(***************************************************************************)
(* Publishing.                                                             *)
(***************************************************************************)

\* publish_to: the body read from disk goes to some of the peers.  A peer that
\* cannot be dialled, or answers too late, is a push that is lost.
PublishTo(n) ==
    \E S \in SUBSET (Nodes \ {n}) :
        pushes' = pushes \cup {[to |-> m, from |-> n, v |-> disk[n]] : m \in S}

\* The owner edits files, signs the next version (sign_xite_with writes it and
\* adopts it) and publishes it.
SignAndPublish ==
    LET v == disk[Owner] + 1 IN
    /\ v \in Versions
    /\ disk' = [disk EXCEPT ![Owner] = v]
    /\ mem' = [mem EXCEPT ![Owner] = v]
    /\ file' = [file EXCEPT ![Owner] = Manifest[v]]
    /\ \E S \in SUBSET (Nodes \ {Owner}) :
          pushes' = pushes \cup {[to |-> m, from |-> Owner, v |-> v] : m \in S}
    /\ UNCHANGED <<unwritten, pending, bad, task, pulls, serving, upsets>>

LosePush(p) ==
    /\ pushes' = pushes \ {p}
    /\ UNCHANGED <<disk, unwritten, mem, file, pending, bad, task, pulls,
                   serving, upsets>>

-----------------------------------------------------------------------------
(***************************************************************************)
(* Landing a version: finalize_root_update and its two halves.             *)
(***************************************************************************)

\* Mutant: trusts the fetch and does not look at the directory again.
CheckTrusted(n, t) ==
    LET r == task[n][t] IN
    /\ r.at = "fetch"
    /\ r.need = {}
    /\ task' = [task EXCEPT ![n][t].at =
                   IF r.inline THEN "announce" ELSE "land"]
    /\ UNCHANGED <<disk, unwritten, mem, file, pending, bad, pushes, pulls,
                   serving, upsets>>

\* The files were tried: files_needed hashes the directory once more.  What it
\* finds is acted on later (Land), with other tasks free to write in between.
\* An update that was committed inline has nothing left to land.
Check(n, t) ==
    LET r == task[n][t] IN
    /\ r.at = "fetch"
    /\ r.need = {}
    /\ task' = [task EXCEPT ![n][t] =
                   IF r.inline
                   THEN [r EXCEPT !.at = "announce"]
                   ELSE [r EXCEPT !.at = "land", !.need = FilesNeeded(n, r.v)]]
    /\ UNCHANGED <<disk, unwritten, mem, file, pending, bad, pushes, pulls,
                   serving, upsets>>

\* commit_root_update up to its first await: content.json is renamed over the
\* old one and the pending update, whatever its version, is dropped.
CommitToDisk(n, t) ==
    /\ disk' = [disk EXCEPT ![n] = task[n][t].v]
    /\ unwritten' = [unwritten EXCEPT ![n] = 0]
    /\ pending' = [pending EXCEPT ![n] = 0]
    /\ task' = [task EXCEPT ![n][t].at = "adopt"]
    /\ UNCHANGED <<bad, upsets>>

\* write_atomic fails: the files stay, the old content.json stays, and nothing
\* is deferred.  A push that was to be committed before it is answered is
\* tried once more by finish_inbound_update, which takes it for uncommitted.
CommitFails(n, t) ==
    LET r == task[n][t] IN
    /\ upsets < MaxUpsets
    /\ upsets' = upsets + 1
    /\ unwritten' = [unwritten EXCEPT ![n] = r.v]
    /\ task' = [task EXCEPT ![n][t] =
                   IF r.inline THEN [r EXCEPT !.at = "sync", !.inline = FALSE]
                               ELSE Idle]
    /\ UNCHANGED <<disk, pending, bad>>

\* defer_root_update: note the missing paths and keep the newest version.
Defer(n, t) ==
    /\ bad' = [bad EXCEPT ![n] = @ \cup task[n][t].need]
    /\ pending' = [pending EXCEPT ![n] = IF @ <= task[n][t].v THEN task[n][t].v
                                                             ELSE @]
    /\ task' = [task EXCEPT ![n][t] = Idle]
    /\ UNCHANGED <<disk, unwritten, upsets>>

\* finalize_root_update.
Land(n, t) ==
    /\ task[n][t].at = "land"
    /\ IF task[n][t].need = {} THEN CommitToDisk(n, t) \/ CommitFails(n, t)
                               ELSE Defer(n, t)
    /\ UNCHANGED <<mem, file, pushes, pulls, serving>>

\* The rest of commit_root_update: clear the bad files, then update_content.
\* A push goes on: one committed inline to sync its files, the others to
\* republish.
Adopt(n, t) ==
    LET r == task[n][t] IN
    /\ r.at = "adopt"
    /\ mem' = [mem EXCEPT ![n] = r.v]
    /\ bad' = [bad EXCEPT ![n] = {}]
    /\ task' = [task EXCEPT ![n][t] =
                   IF t \in Passes THEN Idle
                   ELSE IF r.inline THEN [r EXCEPT !.at = "sync"]
                   ELSE [r EXCEPT !.at = "announce"]]
    /\ UNCHANGED <<disk, unwritten, file, pending, pushes, pulls, serving,
                   upsets>>

\* The tail of finish_inbound_update: republish, then release the uri.
Announce(n, v) ==
    /\ task[n][v].at = "announce"
    /\ PublishTo(n)
    /\ task' = [task EXCEPT ![n][v] = Idle]
    /\ UNCHANGED <<disk, unwritten, mem, file, pending, bad, pulls, serving,
                   upsets>>

\* edx_first, one wanted file at a time.  A peer that holds the declared
\* content hands it over and it replaces the file in the directory (a diff in
\* the push does the same to our own copy); otherwise the file is missed.
FetchFile(n, t, f) ==
    LET want == Manifest[task[n][t].v][f] IN
    /\ task[n][t].at = "fetch"
    /\ f \in task[n][t].need
    /\ \E m \in Nodes \ {n} : file[m][f] = want
    /\ file' = [file EXCEPT ![n][f] = want]
    /\ task' = [task EXCEPT ![n][t].need = @ \ {f}]
    /\ UNCHANGED <<disk, unwritten, mem, pending, bad, pushes, pulls, serving,
                   upsets>>

MissFile(n, t, f) ==
    /\ task[n][t].at = "fetch"
    /\ f \in task[n][t].need
    /\ task' = [task EXCEPT ![n][t].need = @ \ {f}]
    /\ UNCHANGED <<disk, unwritten, mem, file, pending, bad, pushes, pulls,
                   serving, upsets>>

-----------------------------------------------------------------------------
(***************************************************************************)
(* Receiving a push: apply_inbound_update.                                 *)
(***************************************************************************)

\* The version w has arrived at n, which had read `have` as its own version:
\* drop it when it is not newer or in flight already, else mark it in flight.
ApplyInbound(n, w, have) ==
    IF w > have /\ w \notin InFlight(n)
    THEN task' = [task EXCEPT ![n][w] = [Idle EXCEPT !.at = "stage", !.v = w]]
    ELSE UNCHANGED task

\* A push whose body travels with it, or one that needs no body to be refused.
Deliver(p) ==
    /\ pushes' = pushes \ {p}
    /\ IF ~serving[p.to] \/ p.v <= mem[p.to]
       THEN UNCHANGED <<task, pulls>>
       ELSE IF p.v \in Inline
       THEN ApplyInbound(p.to, p.v, mem[p.to]) /\ UNCHANGED pulls
       ELSE /\ pulls' = pulls \cup
                  {[at |-> p.to, from |-> p.from, local |-> mem[p.to]]}
            /\ UNCHANGED task
    /\ UNCHANGED <<disk, unwritten, mem, file, pending, bad, serving, upsets>>

\* The body asked back from the sender arrives (fetch_signed_from): whatever
\* the sender has on disk by now, judged against the version read before.
PullBody(q) ==
    /\ pulls' = pulls \ {q}
    /\ ApplyInbound(q.at, disk[q.from], q.local)
    /\ UNCHANGED <<disk, unwritten, mem, file, pending, bad, pushes, serving,
                   upsets>>

\* Nobody could serve the body: the push is refused.
PullFails(q) ==
    /\ pulls' = pulls \ {q}
    /\ UNCHANGED <<disk, unwritten, mem, file, pending, bad, task, pushes,
                   serving, upsets>>

\* stage_content_limited takes the marked version, and finish_inbound_update
\* takes over; it is committed first when no file is missing.
Stage(n, v) ==
    LET r == task[n][v] IN
    /\ r.at = "stage"
    /\ v \in limit[n]
    /\ task' = [task EXCEPT ![n][v] =
                   IF FilesNeeded(n, r.v) = {}
                   THEN [r EXCEPT !.at = "land", !.inline = TRUE]
                   ELSE [r EXCEPT !.at = "sync"]]
    /\ UNCHANGED <<disk, unwritten, mem, file, pending, bad, pushes, pulls,
                   serving, upsets>>

\* Mutant: an error return that leaves its version marked (no step takes a
\* push on from "probe", where only passes are at work).
StageLeaks(n, v) ==
    /\ task[n][v].at = "stage"
    /\ v \notin limit[n]
    /\ task' = [task EXCEPT ![n][v].at = "probe"]
    /\ UNCHANGED <<disk, unwritten, mem, file, pending, bad, pushes, pulls,
                   serving, upsets>>

\* It is not taken: the error path unmarks the version and the push is refused.
StageFails(n, v) ==
    /\ task[n][v].at = "stage"
    /\ v \notin limit[n]
    /\ task' = [task EXCEPT ![n][v] = Idle]
    /\ UNCHANGED <<disk, unwritten, mem, file, pending, bad, pushes, pulls,
                   serving, upsets>>

\* finish_inbound_update lists the files to fetch, of an update that was
\* committed inline too.
Sync(n, v) ==
    /\ task[n][v].at = "sync"
    /\ task' = [task EXCEPT ![n][v].at = "fetch",
                            ![n][v].need = FilesNeeded(n, task[n][v].v)]
    /\ UNCHANGED <<disk, unwritten, mem, file, pending, bad, pushes, pulls,
                   serving, upsets>>

-----------------------------------------------------------------------------
(***************************************************************************)
(* Asking the peers: resync_xite, and the retry of a deferred update.      *)
(***************************************************************************)

\* Mutant: a version that is already deferred counts as the node's own.
StartPassDeferred(n, p) ==
    /\ task[n][p].at = "idle"
    /\ serving[n]
    /\ task' = [task EXCEPT ![n][p] =
                   [Idle EXCEPT !.at = "probe",
                                !.local = IF pending[n] > mem[n] THEN pending[n]
                                                                 ELSE mem[n]]]
    /\ UNCHANGED <<disk, unwritten, mem, file, pending, bad, pushes, pulls,
                   serving, upsets>>

\* A pass begins on a serving xite and reads its own version once.
StartPass(n, p) ==
    /\ task[n][p].at = "idle"
    /\ serving[n]
    /\ task' = [task EXCEPT ![n][p] =
                   [Idle EXCEPT !.at = "probe", !.local = mem[n]]]
    /\ UNCHANGED <<disk, unwritten, mem, file, pending, bad, pushes, pulls,
                   serving, upsets>>

\* A peer answers with a newer version (resync_probe_peer): the pass stages
\* it and stops asking (resync_apply_newer), or fails when it cannot stage it.
ProbeNewer(n, p, m) ==
    LET v == disk[m] IN
    /\ task[n][p].at = "probe"
    /\ v > task[n][p].local
    /\ task' = [task EXCEPT ![n][p] =
                   IF v \in limit[n]
                   THEN [Idle EXCEPT !.at = "fetch", !.v = v,
                                     !.need = FilesNeeded(n, v)]
                   ELSE Idle]
    /\ UNCHANGED <<disk, unwritten, mem, file, pending, bad, pushes, pulls,
                   serving, upsets>>

\* Every candidate was asked; none that answered had a newer version.
EndPass(n, p) ==
    /\ task[n][p].at = "probe"
    /\ task' = [task EXCEPT ![n][p] = Idle]
    /\ UNCHANGED <<disk, unwritten, mem, file, pending, bad, pushes, pulls,
                   serving, upsets>>

\* retry_pending_update, from the resync loop: the dice let it (a decaying
\* probability that never reaches zero), so it fetches what is still missing.
RetryPending(n) ==
    LET v == pending[n] IN
    /\ task[n][Loop].at = "idle"
    /\ v # 0
    /\ serving[n]
    /\ task' = [task EXCEPT ![n][Loop] =
                   [Idle EXCEPT !.at = "fetch", !.v = v,
                                !.need = FilesNeeded(n, v)]]
    /\ UNCHANGED <<disk, unwritten, mem, file, pending, bad, pushes, pulls,
                   serving, upsets>>

-----------------------------------------------------------------------------
\* sitePause and siteResume.
Pause(n) ==
    /\ upsets < MaxUpsets
    /\ serving[n]
    /\ upsets' = upsets + 1
    /\ serving' = [serving EXCEPT ![n] = FALSE]
    /\ UNCHANGED <<disk, unwritten, mem, file, pending, bad, task, pushes,
                   pulls>>

Resume(n) ==
    /\ ~serving[n]
    /\ serving' = [serving EXCEPT ![n] = TRUE]
    /\ UNCHANGED <<disk, unwritten, mem, file, pending, bad, task, pushes,
                   pulls, upsets>>

\* A restart keeps the directory: content.json is loaded again, and the
\* deferred update, the tasks and the handlers are gone.
Crash(n) ==
    /\ upsets < MaxUpsets
    /\ upsets' = upsets + 1
    /\ mem' = [mem EXCEPT ![n] = disk[n]]
    /\ pending' = [pending EXCEPT ![n] = 0]
    /\ task' = [task EXCEPT ![n] = [t \in Tasks |-> Idle]]
    /\ pulls' = {q \in pulls : q.at # n}
    /\ UNCHANGED <<disk, unwritten, file, bad, pushes, serving>>

TaskStep(n, t) ==
    \/ Check(n, t)
    \/ Land(n, t)
    \/ Adopt(n, t)
    \/ \E f \in Files : FetchFile(n, t, f) \/ MissFile(n, t, f)

PassStep(n, p) ==
    \/ StartPass(n, p)
    \/ \E m \in Nodes \ {n} : ProbeNewer(n, p, m)
    \/ EndPass(n, p)

PushStep(n, v) ==
    \/ Stage(n, v)
    \/ StageFails(n, v)
    \/ Sync(n, v)
    \/ Announce(n, v)

Step ==
    \/ SignAndPublish
    \/ \E p \in pushes : Deliver(p) \/ LosePush(p)
    \/ \E q \in pulls : PullBody(q) \/ PullFails(q)
    \/ \E n \in Nodes \ {Owner} :
          \/ \E t \in Tasks : TaskStep(n, t)
          \/ \E v \in Versions : PushStep(n, v)
          \/ \E p \in Passes : PassStep(n, p)
          \/ RetryPending(n)
          \/ Pause(n) \/ Resume(n)
          \/ Crash(n)

\* The tasks of n that have staged a version and not finished with it.
Working(n) ==
    {t \in Tasks : task[n][t].at \in {"sync", "fetch", "land", "adopt"}}

\* What takes a node out of the one-update-at-a-time case the code is written
\* for: two tasks at work on different versions, or a restart that forgets an
\* update that was under way.  tangled remembers that it has happened.
Tangling(n) ==
    \/ \E t, u \in Working(n)' : task'[n][t].v # task'[n][u].v
    \/ Crash(n) /\ (Working(n) # {} \/ pending[n] # 0)

Next ==
    /\ Step
    /\ UNCHANGED limit
    /\ tangled' = [n \in Nodes |-> tangled[n] \/ Tangling(n)]

Spec == Init /\ [][Next]_vars

(***************************************************************************)
(* Fairness.  Every tick of the loop begins with a pass (strong fairness,   *)
(* retries come between); the next step of a task is                       *)
(* always taken (weak fairness); a peer that has a newer version is asked  *)
(* in the end, and a file that a peer holds whenever it is wanted is       *)
(* fetched in the end (strong fairness: the network does not fail for      *)
(* ever).  Nothing is assumed of pushes, retries and hints.                *)
(***************************************************************************)
Fairness ==
    \A n \in Nodes \ {Owner} :
        /\ WF_code(Resume(n))
        /\ SF_code(StartPass(n, Loop))
        /\ SF_code(\E m \in Nodes \ {n} : ProbeNewer(n, Loop, m))
        /\ WF_code(TaskStep(n, Loop) \/ EndPass(n, Loop))
        /\ WF_code(\E v \in Versions : TaskStep(n, v) \/ PushStep(n, v))
        /\ \A x \in Files : SF_code(FetchFile(n, Loop, x))

FairSpec == Spec /\ Fairness

-----------------------------------------------------------------------------
AtRest(n) == Working(n) = {}

Consistent(n) == FilesNeeded(n, disk[n]) = {}

\* The version the files of a node at rest are of: the one on its disk, unless
\* the content.json of the last update could not be written.
Placed(n) == IF unwritten[n] = 0 THEN disk[n] ELSE unwritten[n]

\* A node at rest with nothing deferred, on which no two updates were ever at
\* work at once, has adopted the content.json on its disk, and its directory
\* holds exactly what that content.json declares or, after a commit whose
\* write failed, exactly what the version declares that was not written.
UntangledConsistent ==
    \A n \in Nodes :
        AtRest(n) /\ pending[n] = 0 /\ ~tangled[n] =>
            FilesNeeded(n, Placed(n)) = {} /\ mem[n] = disk[n]

\* What resync_apply_newer says of its two endings, "either way the node
\* serves a consistent version": a node at rest holds the files that its
\* content.json declares.  It fails (XiteDeferral.cfg).
ServesConsistent == \A n \in Nodes : AtRest(n) => Consistent(n)

\* What it says of content.json, "the completeness marker ... is untouched
\* until every declared file lands": on a node at rest with nothing deferred,
\* where updates may have overlapped, the marker is true, and it is the
\* content.json the node has adopted.  It fails (XiteOverlap.cfg).
MarkerTrue ==
    \A n \in Nodes :
        AtRest(n) /\ pending[n] = 0 => Consistent(n) /\ mem[n] = disk[n]

\* Every node adopts the newest version the owner signed, whatever was lost.
Adopted ==
    \A n \in Nodes \ {Owner} :
        <>[](mem[Owner] \in limit[n] => mem[n] = mem[Owner])

\* Pushed versions do not stay in flight: their uris are all released.
UriReleased ==
    \A n \in Nodes \ {Owner} : InFlight(n) # {} ~> InFlight(n) = {}
=============================================================================
