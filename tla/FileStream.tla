----------------------------- MODULE FileStream -----------------------------
(***************************************************************************)
(* One large file on its way from the swarm to the user: the tasks of      *)
(* crates/epix-runtime/src/edx.rs that fill its object (the player's Range *)
(* reads, the read-ahead behind them, the moov warm-up, the completion of  *)
(* the rest, a batch and a single-file download) and the sparse half of    *)
(* crates/epix-blob/src/store.rs they fill it through.                     *)
(*                                                                         *)
(* The tasks overlap by design and share one record, one pair of files     *)
(* (the sparse data and its outboard tree) and the claim count.  A fetch   *)
(* over the swarm (SwarmFetch) is a task that lands its groups in any      *)
(* number of decodes and may give up between them.                         *)
(***************************************************************************)
EXTENDS Naturals, FiniteSets

CONSTANTS
    GroupCount,   \* the object's chunk groups are 1 .. GroupCount
    Paths,        \* the declared paths with this content
    BatchMax,     \* COMPLETION_BATCH_GROUPS
    HeadTries,    \* PREFIX_HEAD_ATTEMPTS
    LetIn,        \* bound: LetIn[m][t]: the tasks at work when a request t
                  \* comes, for media files and for others
    Asks,         \* bound: Asks[t]: the paths a request t names
    Windows,      \* bound: the byte ranges a player asks for, in groups
    MaxFaults     \* bound: failures, evictions, deletions and restarts

Requests == {"read", "batch", "file"}

ASSUME StreamAssumption ==
    /\ GroupCount \in Nat \ {0}
    /\ BatchMax \in Nat \ {0}
    /\ HeadTries \in Nat \ {0}
    /\ LetIn \in [BOOLEAN -> [Requests -> Nat]]
    /\ Asks \in [Requests -> SUBSET Paths]
    /\ \A w \in Windows : \E a, b \in 1 .. GroupCount : a <= b /\ w = a .. b
    /\ MaxFaults \in Nat
    /\ Paths # {}

Groups == 1 .. GroupCount

Fetchers == {"read", "ahead", "warm", "complete", "batch", "file"}

Tasks == Fetchers \cup {"move", "check"}

\* Where a task can be.
Places ==
    {"idle", "plan", "peers", "claim", "ensure", "insert", "fetch", "write", "drop",
     "landed", "after", "back", "mat", "guard", "rename", "commit", "unlink", "moved",
     "unmoved", "check", "shrink"}

\* A file that is not there, as opposed to one with no verified group.
Gone == {0}

NoRec == [kind |-> "none", bits |-> {}, path |-> ""]

Idle == [at |-> "idle", win |-> {}, want |-> {}, path |-> "", left |-> 0,
         err |-> FALSE]

VARIABLES
    \* --- on disk ---
    rec,        \* the object's record: none, sparse with its bits, or extern
    sparse,     \* the verified groups in the sparse file, or Gone
    obao,       \* whether the outboard file exists
    xfile,      \* xfile[p]: what is at p in the xite's tree
    \* --- in memory ---
    unlinking,  \* an eviction holds sparse_writers, its record is deleted
    writers,    \* sparse_writers: decodes and moves in flight
    landing,    \* what a decode that outlived its fetch is landing
    stale,      \* decodes whose open file is no longer the sparse file
    claims,     \* the tasks holding an ObjClaim
    fresh,      \* the claim slot's flag: some claim found no record
    held,       \* evict_holds
    task,       \* task[t]: how far task t is
    gates,      \* completing, materializing and inflight, by task
    queued,     \* the newest read-ahead window, {} none
    anchor,     \* where the last window started, 0 none
    warmed,     \* the file's moov has been warmed
    media,      \* the file is large enough to be warmed and completed
    \* --- history and bounds ---
    answer,     \* how the last Range read ended
    torn,       \* an extern record was retired with a decode in flight
    faults

disk   == <<rec, sparse, obao, xfile>>
store  == <<unlinking, writers, landing, stale, held>>
hints  == <<gates, queued, anchor, warmed>>
vars   == <<disk, store, claims, fresh, task, hints, answer, torn, faults, media>>

-----------------------------------------------------------------------------
(***************************************************************************)
(* Windows.                                                                *)
(***************************************************************************)

First(w) == CHOOSE g \in w : \A h \in w : g <= h
Last(w)  == CHOOSE g \in w : \A h \in w : g >= h

Has == IF rec.kind = "extern" THEN Groups ELSE rec.bits

Complete == rec.kind # "none" /\ Has = Groups

MissingGroups(w) == w \ Has

\* The contiguous groups present from the start of w (present_prefix_len).
PresentPrefix(w) == {g \in w : \A h \in First(w) .. g : h \in Has}

\* The window to prefetch after serving w: what follows it, unless the play
\* head has not moved since the last one.
PlanReadahead(w) ==
    IF anchor = Last(w) THEN {} ELSE Last(w) + 1 .. GroupCount

CompletionBatch(needed) ==
    {g \in needed : Cardinality({h \in needed : h < g}) < BatchMax}

-----------------------------------------------------------------------------
Init ==
    /\ rec = NoRec
    /\ sparse = Gone
    /\ obao = FALSE
    /\ xfile = [p \in Paths |-> Gone]
    /\ unlinking = FALSE
    /\ writers = {}
    /\ landing = {}
    /\ stale = {}
    /\ claims = {}
    /\ fresh = FALSE
    /\ held = {}
    /\ task = [t \in Tasks |-> Idle]
    /\ gates = {}
    /\ queued = {}
    /\ anchor = 0
    /\ warmed = FALSE
    /\ media \in BOOLEAN
    /\ answer = "none"
    /\ torn = FALSE
    /\ faults = 0

TypeOK ==
    /\ rec \in [kind : {"none", "sparse", "extern"}, bits : SUBSET Groups,
                path : Paths \cup {""}]
    /\ sparse \in {Gone} \cup SUBSET Groups
    /\ obao \in BOOLEAN
    /\ xfile \in [Paths -> {Gone} \cup SUBSET Groups]
    /\ unlinking \in BOOLEAN
    /\ writers \subseteq Tasks \cup {"salvage"}
    /\ landing \subseteq Groups
    /\ stale \subseteq writers
    /\ claims \subseteq Fetchers
    /\ fresh \in BOOLEAN
    /\ held \subseteq Tasks
    /\ task \in [Tasks -> [at : Places, win : SUBSET Groups, want : SUBSET Groups,
                           path : Paths \cup {""}, left : 0 .. HeadTries,
                           err : BOOLEAN]]
    /\ gates \subseteq Tasks
    /\ queued \subseteq Groups
    /\ anchor \in 0 .. GroupCount
    /\ warmed \in BOOLEAN
    /\ media \in BOOLEAN
    /\ answer \in {"none", "ok", "error"}
    /\ torn \in BOOLEAN
    /\ faults \in 0 .. MaxFaults

Busy == {t \in Tasks : task[t].at # "idle"}

Fault == faults < MaxFaults /\ faults' = faults + 1 /\ UNCHANGED media

To(t, at) == task' = [task EXCEPT ![t].at = at]
End(t) == task' = [task EXCEPT ![t] = Idle]

Fail(t, at) == task' = [task EXCEPT ![t].at = at, ![t].err = TRUE]

\* The fetch begins: a download asks for all it lacks now, the other tasks for
\* what they planned.
Begin(t) ==
    task' = [task EXCEPT ![t].at = "fetch",
        ![t].want = IF t \in {"batch", "file"} THEN MissingGroups(Groups) ELSE @]

\* The fetch is over.  A single-file download keeps its claim while it moves
\* the object, the others drop it.
Over(t) == IF t = "file" THEN "landed" ELSE "drop"

\* A revalidation is spawned; one that is running already stands for both.
Recheck(tk) ==
    IF tk["check"].at = "idle" THEN [tk EXCEPT !["check"].at = "check"] ELSE tk

-----------------------------------------------------------------------------
(***************************************************************************)
(* Filling the object: what every fetching task does between planning its  *)
(* groups ("plan") and dropping its claim ("after").                       *)
(***************************************************************************)

\* The groups of a task's window it still lacks.  The completion waits until
\* no Range read is fetching, and takes one batch of all that is missing.
Needed(t) ==
    IF t = "complete" THEN CompletionBatch(MissingGroups(Groups))
                      ELSE MissingGroups(task[t].win)

Plan(t) ==
    /\ task[t].at = "plan"
    /\ t = "complete" => task["read"].at = "idle"
    /\ task' = [task EXCEPT ![t].want = Needed(t),
                            ![t].win = IF t = "complete" THEN Needed(t) ELSE @,
                            ![t].left = IF t = "complete" THEN 0 ELSE @,
                            ![t].at = IF Needed(t) = {} THEN "after" ELSE "peers"]
    /\ UNCHANGED <<disk, store, claims, fresh, hints, answer, torn, faults, media>>

\* peers_for: the cached session, refreshed, or a new one.
PeersFor(t) ==
    /\ task[t].at = "peers"
    /\ \/ To(t, "claim") /\ UNCHANGED <<faults, media>>
       \/ Fail(t, "after") /\ Fault
    /\ UNCHANGED <<disk, store, claims, fresh, hints, answer, torn>>

\* claim_object up to its unlock: whether the record exists is read under the
\* claims lock; the record is made after it.
ClaimObject(t) ==
    /\ task[t].at = "claim"
    /\ claims' = claims \cup {t}
    /\ fresh' = (rec.kind = "none" \/ (fresh /\ claims # {}))
    /\ To(t, "ensure")
    /\ UNCHANGED <<disk, store, hints, answer, torn, faults, media>>

\* ensure_sparse, no lock held: the files first, never truncated ...
EnsureSparse(t) ==
    /\ task[t].at = "ensure"
    /\ IF rec.kind # "none"
       THEN Begin(t) /\ UNCHANGED disk
       ELSE /\ sparse' = IF sparse = Gone THEN {} ELSE sparse
            /\ obao' = TRUE
            /\ To(t, "insert")
            /\ UNCHANGED <<rec, xfile>>
    /\ UNCHANGED <<store, claims, fresh, hints, answer, torn, faults, media>>

\* ... then the record, if there still is none.
InsertRecord(t) ==
    /\ task[t].at = "insert"
    /\ rec' = IF rec.kind = "none" THEN [NoRec EXCEPT !.kind = "sparse"]
                                   ELSE rec
    /\ Begin(t)
    /\ UNCHANGED <<sparse, obao, xfile, store, claims, fresh, hints, answer, torn,
                   faults, media>>

\* A slice has arrived.  write_slice_partial registers its decode, reads the
\* record and opens the pair; a failure is a store error that ends the fetch.
WriteStart(t) ==
    /\ task[t].at = "fetch"
    /\ ~unlinking
    /\ task[t].want # {}
    /\ IF rec.kind = "sparse" /\ sparse # Gone /\ obao
       THEN writers' = writers \cup {t} /\ To(t, "write")
       ELSE UNCHANGED writers /\ Fail(t, "drop")
    /\ UNCHANGED <<disk, unlinking, landing, stale, held, claims, fresh, hints,
                   answer, torn, faults, media>>

\* The decode of the groups got ends: its bytes are in the file it opened, and
\* the groups are added to whatever record the object has by now.
Land(w, got) ==
    /\ sparse' = IF w \in stale THEN sparse ELSE sparse \cup got
    /\ rec' = IF rec.kind = "sparse" THEN [rec EXCEPT !.bits = @ \cup got]
                                     ELSE rec
    /\ writers' = writers \ {w}
    /\ stale' = stale \ {w}
    /\ UNCHANGED <<obao, xfile, unlinking, held>>

WriteEnd(t) ==
    /\ task[t].at = "write"
    /\ \E got \in SUBSET task[t].want \ {{}} :
          /\ Land(t, got)
          /\ task' = [task EXCEPT ![t].want = @ \ got,
                                  ![t].at = IF rec.kind = "none" THEN "drop" ELSE "fetch",
                                  ![t].err = rec.kind = "none"]
    /\ UNCHANGED <<landing, claims, fresh, hints, answer, torn, faults, media>>

\* A request is abandoned for a faster peer; the decode of what had arrived
\* goes on, detached.
Abandon(t) ==
    /\ task[t].at = "write"
    /\ "salvage" \notin writers
    /\ Fault
    /\ writers' = (writers \ {t}) \cup {"salvage"}
    /\ stale' = {IF w = t THEN "salvage" ELSE w : w \in stale}
    /\ landing' = task[t].want
    /\ To(t, "fetch")
    /\ UNCHANGED <<disk, unlinking, held, claims, fresh, hints, answer, torn>>

Salvage ==
    /\ "salvage" \in writers
    /\ \E got \in SUBSET landing \ {{}} : Land("salvage", got)
    /\ landing' = {}
    /\ UNCHANGED <<claims, fresh, task, hints, answer, torn, faults, media>>

\* The swarm returns: it has everything, or its peers ran out of strikes.
FetchReturns(t) ==
    /\ task[t].at = "fetch"
    /\ IF task[t].want = {} THEN UNCHANGED <<faults, media>> ELSE Fault
    /\ To(t, Over(t))
    /\ UNCHANGED <<disk, store, claims, fresh, hints, answer, torn>>

\* Store::remove: skipped while a decode is in flight.
RemoveObject ==
    IF writers = {} /\ rec.kind # "none"
    THEN /\ ~unlinking
         /\ rec' = NoRec
         /\ sparse' = IF rec.kind = "sparse" THEN Gone ELSE sparse
         /\ obao' = FALSE
         /\ UNCHANGED xfile
    ELSE UNCHANGED disk

\* A completion batch of which nothing landed is widened to all that is
\* missing, once, before the claim is given back.
Widens(t) ==
    /\ t = "complete"
    /\ ~task[t].err
    /\ task[t].want = task[t].win
    /\ task[t].left = 0
    /\ MissingGroups(Groups) \ task[t].win # {}

Widen ==
    /\ task["complete"].at = "drop"
    /\ Widens("complete")
    /\ task' = [task EXCEPT !["complete"].at = "fetch",
                            !["complete"].win = MissingGroups(Groups),
                            !["complete"].want = MissingGroups(Groups),
                            !["complete"].left = 1]
    /\ UNCHANGED <<disk, store, claims, fresh, hints, answer, torn, faults, media>>

\* Mutant: the departing claim forgets to give its count back.
DropClaimLeaky(t) ==
    /\ task[t].at = "drop"
    /\ UNCHANGED <<claims, fresh, disk>>
    /\ To(t, "after")
    /\ UNCHANGED <<store, hints, answer, torn, faults, media>>

\* ObjClaim::drop, all of it under the claims lock: the last claim removes an
\* object that is still empty and that some claim created.
DropClaim(t) ==
    /\ task[t].at = "drop"
    /\ ~Widens(t)
    /\ claims' = claims \ {t}
    /\ IF claims = {t} /\ fresh /\ Has = {} THEN RemoveObject ELSE UNCHANGED disk
    /\ fresh' = (fresh /\ claims # {t})
    /\ To(t, "after")
    /\ UNCHANGED <<store, hints, answer, torn, faults, media>>

-----------------------------------------------------------------------------
(***************************************************************************)
(* Moving a complete object into the xite's tree (Store::materialize).     *)
(***************************************************************************)

\* retire_extern: the record goes, whoever is decoding; the tree follows.
Retire(t) ==
    /\ rec' = NoRec
    /\ torn' = (torn \/ writers # {})
    /\ To(t, "unlink")
    /\ UNCHANGED <<sparse, obao, xfile>>

\* An object that is extern already: at its own path it must be there, for
\* another path it is copied.
MaterializeFromExtern(t) ==
    LET p == task[t].path IN
    IF rec.path = p /\ xfile[p] # Gone
    THEN To(t, "moved") /\ UNCHANGED <<disk, torn>>
    ELSE IF rec.path # p /\ xfile[rec.path] = Groups /\ obao
         THEN /\ xfile' = [xfile EXCEPT ![p] = xfile[rec.path]]
              /\ To(t, "moved")
              /\ UNCHANGED <<rec, sparse, obao, torn>>
         ELSE Retire(t)

\* Materialize reads the record first ...
Materialize(t) ==
    /\ task[t].at = "mat"
    /\ \/ rec.kind = "extern" /\ MaterializeFromExtern(t)
       \/ rec.kind = "sparse" /\ Complete /\ To(t, "guard") /\ UNCHANGED <<disk, torn>>
       \/ ~Complete /\ To(t, "unmoved") /\ UNCHANGED <<disk, torn>>
    /\ UNCHANGED <<store, claims, fresh, hints, answer, faults, media>>

\* ... and keeps the delete paths away from then on.
GuardMove(t) ==
    /\ task[t].at = "guard"
    /\ ~unlinking
    /\ writers' = writers \cup {t}
    /\ To(t, "rename")
    /\ UNCHANGED <<disk, unlinking, landing, stale, held, claims, fresh, hints,
                   answer, torn, faults, media>>

\* The rename; a decode still at work now writes into the moved file.
Rename(t) ==
    /\ task[t].at = "rename"
    /\ IF sparse # Gone
       THEN /\ xfile' = [xfile EXCEPT ![task[t].path] = sparse]
            /\ sparse' = Gone
            /\ stale' = {w \in writers : w = "salvage" \/ task[w].at = "write"}
            /\ To(t, "commit")
            /\ UNCHANGED writers
       ELSE /\ writers' = writers \ {t}
            /\ To(t, "unmoved")
            /\ UNCHANGED <<sparse, xfile, stale>>
    /\ UNCHANGED <<rec, obao, unlinking, landing, held, claims, fresh, hints,
                   answer, torn, faults, media>>

CommitExtern(t) ==
    /\ task[t].at = "commit"
    /\ rec' = [kind |-> "extern", bits |-> {}, path |-> task[t].path]
    /\ writers' = writers \ {t}
    /\ To(t, "moved")
    /\ UNCHANGED <<sparse, obao, xfile, unlinking, landing, stale, held, claims,
                   fresh, hints, answer, torn, faults, media>>

\* The second half of retire_extern.
UnlinkOutboard(t) ==
    /\ task[t].at = "unlink"
    /\ obao' = FALSE
    /\ To(t, "unmoved")
    /\ UNCHANGED <<rec, sparse, xfile, store, claims, fresh, hints, answer, torn,
                   faults, media>>

-----------------------------------------------------------------------------
(***************************************************************************)
(* The player: fetch_range and the work it sets off.                       *)
(***************************************************************************)

Spawn(tk, t, p, w) == [tk EXCEPT ![t] = [Idle EXCEPT !.at = "plan", !.path = p, !.win = w]]

\* read_range: the groups are marked present and their file opens.
Readable(w) ==
    /\ rec.kind # "none" /\ w \subseteq Has
    /\ IF rec.kind = "extern" THEN xfile[rec.path] # Gone ELSE sparse # Gone

\* maybe_materialize_complete: one move per object at a time.
Moves == Complete /\ rec.kind # "extern" /\ "move" \notin gates

\* What a served window sets off: the move of a complete object and, unless
\* the play head stood still, the read-ahead behind it.  A window that finds a
\* read-ahead running replaces the one that waits.
AfterServe(tk, gs, p, w) ==
    LET ahead  == PlanReadahead(w)
        starts == ahead # {} /\ "ahead" \notin gs
        moving == IF Moves
                  THEN [tk EXCEPT !["move"] = [Idle EXCEPT !.at = "mat", !.path = p]]
                  ELSE tk IN
    /\ anchor' = IF ahead = {} THEN anchor ELSE Last(w)
    /\ queued' = IF ahead # {} /\ ~starts THEN ahead ELSE queued
    /\ gates' = gs \cup (IF Moves THEN {"move"} ELSE {})
                   \cup (IF starts THEN {"ahead"} ELSE {})
    /\ task' = IF starts THEN Spawn(moving, "ahead", p, ahead) ELSE moving

\* maybe_warm_moov: the first read of a media file warms its tail, then its
\* head.
WarmMoov(tk, p) ==
    IF warmed \/ ~media THEN tk
    ELSE [Spawn(tk, "warm", p, {GroupCount}) EXCEPT !["warm"].left = 1]

\* maybe_complete_file: one completion per object at a time.
Completes == media /\ ~Complete /\ "complete" \notin gates

\* A Range request (fetch_range) up to its first wait.
Read(p, w) ==
    LET warm == WarmMoov(task, p)
        tk   == IF Completes THEN Spawn(warm, "complete", p, {}) ELSE warm
        gs   == IF Completes THEN gates \cup {"complete"} ELSE gates IN
    /\ task["read"].at = "idle"
    /\ Cardinality(Busy) < LetIn[media]["read"]
    /\ warmed' = media
    /\ IF Readable(w)
       THEN answer' = "ok" /\ AfterServe(tk, gs, p, w)
       ELSE /\ answer' = "none"
            /\ task' = [tk EXCEPT !["read"] =
                 [Idle EXCEPT !.at = IF MissingGroups(w) = {} THEN "after" ELSE "peers",
                              !.want = MissingGroups(w), !.win = w, !.path = p,
                              !.left = HeadTries]]
            /\ gates' = gs
            /\ UNCHANGED <<queued, anchor>>
    /\ UNCHANGED <<disk, store, claims, fresh, torn, faults, media>>

\* What was asked for has been tried.  A prefix is read back; an empty one is
\* tried for again, its first group alone (retry_prefix_head), and then
\* answered as not available.
AfterRead ==
    LET r == task["read"] IN
    /\ r.at = "after"
    /\ IF PresentPrefix(r.win) # {}
       THEN To("read", "back") /\ UNCHANGED answer
       ELSE IF r.left > 0
            THEN /\ task' = [task EXCEPT !["read"].at = "peers",
                       !["read"].want = {First(MissingGroups(r.win))},
                       !["read"].left = @ - 1]
                 /\ UNCHANGED answer
            ELSE task' = [task EXCEPT !["read"] = Idle] /\ answer' = "error"
    /\ UNCHANGED <<disk, store, claims, fresh, hints, torn, faults, media>>

\* Mutant: a read error is answered and nothing more.
ReadBackTrusting ==
    LET r   == task["read"]
        got == PresentPrefix(r.win) IN
    /\ r.at = "back"
    /\ IF got # {} /\ Readable(got)
       THEN /\ answer' = "ok"
            /\ AfterServe([task EXCEPT !["read"] = Idle], gates, r.path, r.win)
       ELSE /\ answer' = "error"
            /\ task' = [task EXCEPT !["read"] = Idle]
            /\ UNCHANGED <<gates, queued, anchor>>
    /\ UNCHANGED <<disk, store, claims, fresh, warmed, torn, faults, media>>

\* The bytes are read and served.  A record that cannot be read is checked.
ReadBack ==
    LET r   == task["read"]
        got == PresentPrefix(r.win) IN
    /\ r.at = "back"
    /\ IF got # {} /\ Readable(got)
       THEN /\ answer' = "ok"
            /\ AfterServe([task EXCEPT !["read"] = Idle], gates, r.path, r.win)
       ELSE /\ answer' = "error"
            /\ task' = Recheck([task EXCEPT !["read"] = Idle])
            /\ UNCHANGED <<gates, queued, anchor>>
    /\ UNCHANGED <<disk, store, claims, fresh, warmed, torn, faults, media>>

\* The read-ahead driver takes the window that waits, or lets its gate go.
AfterAhead ==
    /\ task["ahead"].at = "after"
    /\ queued' = {}
    /\ IF queued # {}
       THEN task' = Spawn(task, "ahead", task["ahead"].path, queued) /\ UNCHANGED gates
       ELSE task' = [task EXCEPT !["ahead"] = Idle] /\ gates' = gates \ {"ahead"}
    /\ UNCHANGED <<disk, store, claims, fresh, anchor, warmed, answer, torn, faults, media>>

AfterWarm ==
    /\ task["warm"].at = "after"
    /\ task' = IF task["warm"].left = 0 THEN [task EXCEPT !["warm"] = Idle]
               ELSE Spawn(task, "warm", task["warm"].path, {1})
    /\ UNCHANGED <<disk, store, claims, fresh, hints, answer, torn, faults, media>>

\* run_completion goes round while batches land something, and moves what it
\* completed.
AfterComplete ==
    LET c    == task["complete"]
        idle == [task EXCEPT !["complete"] = Idle] IN
    /\ c.at = "after"
    /\ IF ~c.err /\ c.win = {}
       THEN /\ task' = IF Moves
                       THEN [idle EXCEPT !["move"] = [Idle EXCEPT !.at = "mat", !.path = c.path]]
                       ELSE idle
            /\ gates' = (gates \ {"complete"}) \cup (IF Moves THEN {"move"} ELSE {})
       ELSE IF ~c.err /\ c.want # c.win
            THEN task' = Spawn(task, "complete", c.path, {}) /\ UNCHANGED gates
            ELSE task' = idle /\ gates' = gates \ {"complete"}
    /\ UNCHANGED <<disk, store, claims, fresh, queued, anchor, warmed, answer, torn,
                   faults, media>>

-----------------------------------------------------------------------------
(***************************************************************************)
(* Downloads: one file (fetch_file_at) and the files of a manifest         *)
(* (fetch_files), here one path of the batch after the other.              *)
(***************************************************************************)

StartFile(p) ==
    /\ task["file"].at = "idle"
    /\ Cardinality(Busy) < LetIn[media]["file"]
    /\ task' = [task EXCEPT !["file"] =
         [Idle EXCEPT !.at = IF Complete THEN "landed" ELSE "peers", !.path = p]]
    /\ UNCHANGED <<disk, store, claims, fresh, hints, answer, torn, faults, media>>

\* Hold the object against eviction, then move it if it is complete.
FileLanded ==
    /\ task["file"].at = "landed"
    /\ ~unlinking
    /\ held' = held \cup {"file"}
    /\ To("file", IF Complete THEN "mat" ELSE "drop")
    /\ UNCHANGED <<disk, unlinking, writers, landing, stale, claims, fresh, hints,
                   answer, torn, faults, media>>

FileMoved ==
    /\ task["file"].at \in {"moved", "unmoved"}
    /\ To("file", IF "file" \in claims THEN "drop" ELSE "after")
    /\ UNCHANGED <<disk, store, claims, fresh, hints, answer, torn, faults, media>>

AfterFile ==
    /\ task["file"].at = "after"
    /\ held' = held \ {"file"}
    /\ task' = [task EXCEPT !["file"] = Idle]
    /\ UNCHANGED <<disk, unlinking, writers, landing, stale, claims, fresh, hints,
                   answer, torn, faults, media>>

\* drain_locally_complete moves what the store has, before any session; what
\* it could not move is fetched with the rest.
StartBatch(p) ==
    /\ task["batch"].at = "idle"
    /\ Cardinality(Busy) < LetIn[media]["batch"]
    /\ task' = [task EXCEPT !["batch"] =
         [Idle EXCEPT !.at = IF Complete THEN "mat" ELSE "peers", !.path = p,
                      !.left = IF Complete THEN 1 ELSE 0]]
    /\ UNCHANGED <<disk, store, claims, fresh, hints, answer, torn, faults, media>>

\* fetch_one_over_session says whether the object is complete now.
AfterBatch ==
    /\ task["batch"].at = "after"
    /\ task' = IF Complete THEN [task EXCEPT !["batch"].at = "mat"]
                           ELSE [task EXCEPT !["batch"] = Idle]
    /\ UNCHANGED <<disk, store, claims, fresh, hints, answer, torn, faults, media>>

\* materialize_into_batch: a path is done once its file is there; one that
\* could not be moved is checked, and fetched or missed.
BatchMoved ==
    LET b == task["batch"] IN
    /\ b.at \in {"moved", "unmoved"}
    /\ task' = IF b.at = "moved" THEN [task EXCEPT !["batch"] = Idle]
               ELSE Recheck([task EXCEPT !["batch"] =
                      IF b.left = 1 THEN [Idle EXCEPT !.at = "peers", !.path = b.path]
                                    ELSE Idle])
    /\ UNCHANGED <<disk, store, claims, fresh, hints, answer, torn, faults, media>>

\* The spawned move of a streamed file.
MoveEnds ==
    /\ task["move"].at \in {"moved", "unmoved"}
    /\ task' = [task EXCEPT !["move"] = Idle]
    /\ gates' = gates \ {"move"}
    /\ UNCHANGED <<disk, store, claims, fresh, queued, anchor, warmed, answer, torn,
                   faults, media>>

-----------------------------------------------------------------------------
(***************************************************************************)
(* Revalidation, and what happens to the object from outside.              *)
(***************************************************************************)

Revalidate ==
    /\ task["check"].at = "check"
    /\ \/ /\ rec.kind = "extern"
          /\ IF xfile[rec.path] = Groups /\ obao
             THEN End("check") /\ UNCHANGED <<disk, torn>>
             ELSE Retire("check")
       \/ /\ rec.kind # "extern"
          /\ IF Has # {} /\ (sparse = Gone \/ ~obao)
             THEN RemoveObject /\ End("check")
             ELSE /\ UNCHANGED disk
                  /\ task' = [task EXCEPT !["check"].at = "shrink",
                                          !["check"].want = Has \ sparse]
          /\ UNCHANGED torn
    /\ UNCHANGED <<store, claims, fresh, hints, answer, faults, media>>

\* The groups that failed are taken off whatever is marked by now.
Shrink ==
    /\ task["check"].at = "shrink"
    /\ rec' = [rec EXCEPT !.bits = @ \ task["check"].want]
    /\ End("check")
    /\ UNCHANGED <<sparse, obao, xfile, store, claims, fresh, hints, answer, torn,
                   faults, media>>

CheckEnds ==
    /\ task["check"].at = "unmoved"
    /\ End("check")
    /\ UNCHANGED <<disk, store, claims, fresh, hints, answer, torn, faults, media>>

\* Mutant: the eviction does not look for decodes in flight.
EvictCareless ==
    /\ rec.kind = "sparse"
    /\ held = {}
    /\ ~unlinking
    /\ Fault
    /\ rec' = NoRec
    /\ unlinking' = TRUE
    /\ UNCHANGED <<sparse, obao, xfile, writers, landing, stale, held, claims, fresh,
                   task, hints, answer, torn>>

\* delete_if_unreferenced, from any enforce_quota: the record goes first ...
Evict ==
    /\ rec.kind = "sparse"
    /\ writers = {}
    /\ held = {}
    /\ ~unlinking
    /\ Fault
    /\ rec' = NoRec
    /\ unlinking' = TRUE
    /\ UNCHANGED <<sparse, obao, xfile, writers, landing, stale, held, claims, fresh,
                   task, hints, answer, torn>>

\* ... and the files after it, with sparse_writers still locked.
EvictUnlink ==
    /\ unlinking
    /\ unlinking' = FALSE
    /\ sparse' = Gone
    /\ obao' = FALSE
    /\ stale' = writers
    /\ UNCHANGED <<rec, xfile, writers, landing, held, claims, fresh, task, hints,
                   answer, torn, faults, media>>

\* The user deletes the file.
UserDeletes(p) ==
    /\ xfile[p] # Gone
    /\ Fault
    /\ xfile' = [xfile EXCEPT ![p] = Gone]
    /\ UNCHANGED <<rec, sparse, obao, store, claims, fresh, task, hints, answer, torn>>

\* A restart: all that is in memory is gone, the disk is as it was.
Crash ==
    /\ Fault
    /\ unlinking' = FALSE
    /\ writers' = {}
    /\ landing' = {}
    /\ stale' = {}
    /\ claims' = {}
    /\ fresh' = FALSE
    /\ held' = {}
    /\ task' = [t \in Tasks |-> Idle]
    /\ gates' = {}
    /\ queued' = {}
    /\ anchor' = 0
    /\ warmed' = FALSE
    /\ answer' = "none"
    /\ UNCHANGED <<disk, torn>>

-----------------------------------------------------------------------------
FetchStep(t) ==
    \/ Plan(t) \/ PeersFor(t) \/ ClaimObject(t) \/ EnsureSparse(t)
    \/ InsertRecord(t) \/ WriteStart(t) \/ WriteEnd(t) \/ Abandon(t)
    \/ FetchReturns(t) \/ DropClaim(t)

MoveStep(t) ==
    \/ Materialize(t) \/ GuardMove(t) \/ Rename(t) \/ CommitExtern(t)
    \/ UnlinkOutboard(t)

Work ==
    \/ \E t \in Fetchers : FetchStep(t)
    \/ \E t \in {"batch", "file", "move", "check"} : MoveStep(t)
    \/ Widen \/ Salvage
    \/ AfterRead \/ ReadBack \/ AfterAhead \/ AfterWarm \/ AfterComplete
    \/ FileLanded \/ FileMoved \/ AfterFile
    \/ AfterBatch \/ BatchMoved \/ MoveEnds
    \/ Revalidate \/ Shrink \/ CheckEnds
    \/ EvictUnlink

Ask ==
    \/ \E p \in Asks["read"], w \in Windows : Read(p, w)
    \/ \E p \in Asks["batch"] : StartBatch(p)
    \/ \E p \in Asks["file"] : StartFile(p)

Next == Work \/ Ask \/ Evict \/ Crash \/ \E p \in Paths : UserDeletes(p)

Spec == Init /\ [][Next]_vars

\* Every task runs on when it can: the runtime's scheduler is fair.  A player
\* or a download that asks is not, and faults are bounded.
ReadWork == FetchStep("read") \/ AfterRead \/ ReadBack

MoveWork == \E t \in {"batch", "file", "move"} : MoveStep(t)

CheckWork == MoveStep("check") \/ Revalidate \/ Shrink \/ CheckEnds

FairSpec ==
    /\ Spec
    /\ WF_vars(Work)
    /\ WF_vars(ReadWork)
    /\ WF_vars(MoveWork)
    /\ WF_vars(CheckWork)

-----------------------------------------------------------------------------
(***************************************************************************)
(* Properties.                                                             *)
(***************************************************************************)

\* A group marked present is in the sparse file, so no decode marks groups on a
\* record recreated over files it did not write (the promise of
\* sparse_writers), whatever evictions, salvages and moves run beside it.  The
\* one way around it is retire_extern, which does not look at sparse_writers.
BitsBacked ==
    rec.kind = "sparse" /\ sparse # Gone /\ ~torn => rec.bits \subseteq sparse

\* A sparse record that cannot be filled: its files were unlinked under the
\* ensure_sparse that made it.
Wedged ==
    /\ rec.kind = "sparse" /\ rec.bits # Groups
    /\ sparse = Gone \/ ~obao

\* Once failures and downloads beside it end, a player that keeps asking is
\* served again and again: a record a crash left without its file is found out
\* by the read that fails on it.  A wedged record is the exception.
Delivered ==
    /\ <>[](task["file"].at = "idle" /\ task["batch"].at = "idle")
    /\ []<>(task["read"].at # "idle")
    => []<>(answer = "ok") \/ <>[]Wedged

\* When the requests end, every task ends and gives back what it took: claims,
\* write guards, eviction holds, and the gates of the completion, the
\* read-ahead and the move.
Settles ==
    <>[][~Ask]_vars =>
        <>[](Busy = {} /\ claims = {} /\ writers = {} /\ held = {} /\ gates = {})
=============================================================================
