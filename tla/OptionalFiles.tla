--------------------------- MODULE OptionalFiles ----------------------------
(***************************************************************************)
(* The optional files of one xite (crates/epix-ui/src/state.rs): what the  *)
(* user's switches promise, the passes that keep the promise, and the cap  *)
(* that deletes files again.                                               *)
(*                                                                         *)
(* Three kinds of task fetch: the bulk pass (download_optional_files, one  *)
(* per xite at a time), the retention pass (run_retention_pass) and a page *)
(* that opens a file.  One retry loop starts passes for what is missing.   *)
(* The user may move a switch at any moment, and a task only looks at the  *)
(* switches between two files.                                             *)
(*                                                                         *)
(* A retry's back-off, its parking and the marks that shorten it (1 to 10  *)
(* minutes) only delay the next tick; a tick may come at any time here.    *)
(* The counters of the dashboard are left out.                             *)
(***************************************************************************)
EXTENDS Naturals, FiniteSets

CONSTANTS
    Files,        \* the optional files the xite declares
    Dirs,         \* directories a page asks to help with (optionalHelp)
    Under,        \* Under[d]: the files in d
    Unit,         \* the author's retention:complete unit
    OptsOut,      \* the author opts out of prefetching
    Size,         \* the size of a file
    Limits,       \* caps of optional_limit; 0: none
    Rounds,       \* ROUNDS of a bulk pass
    MaxMoves      \* bound: what the user and the seeders do

All == "all"                      \* the scope of a whole-xite pass
Off == "off"                      \* see due
Scopes == {All} \cup Dirs

ASSUME OptionalAssumption ==
    /\ All \notin Dirs /\ Off \notin Dirs
    /\ DOMAIN Under = Dirs /\ \A d \in Dirs : Under[d] \subseteq Files
    /\ Unit \subseteq Files
    /\ OptsOut \in BOOLEAN
    /\ Size \in Nat \ {0} /\ Limits \subseteq Nat
    /\ Rounds \in Nat \ {0} /\ MaxMoves \in Nat

VARIABLES
    serving,   \* settings.serving: not paused
    auto,      \* settings.autodownloadoptional ("help distribute")
    demand,    \* settings.download_optional (fetch what a page opens)
    help,      \* settings.optional_help
    full,      \* the node's full_retention setting
    consent,   \* retention_consents holds the xite
    asked,     \* optional_prompts holds the xite
    dialog,    \* the prompt of prompt_retention_completion
    have,      \* the files on disk
    pinned,    \* the files the user pinned
    due,       \* what moved switches do once they are saved: the scopes to start
               \* a pass for and, for the on-demand switch, Off
    pass,      \* the bulk pass that holds optional_downloads_in_flight
    left,      \* the directories a retry task goes on with, its last pass over
    keep,      \* the retention pass
    sweep,     \* an enforce_optional_limit in progress
    seeds,     \* the files a reachable peer can serve
    limit,     \* optional_limit
    over,      \* the missing bytes exceed the xite's size limit
    moves

switches == <<serving, auto, demand, help, full>>
prompt == <<consent, asked, dialog>>
disk == <<have, pinned>>
later == <<due, left>>
tasks == <<pass, later, keep, sweep>>
setting == <<limit, over>>
vars == <<switches, prompt, disk, tasks, seeds, setting, moves>>

NoPass == [at |-> "idle", scope |-> All, queue |-> {}, rest |-> {}, round |-> 0]
NoKeep == [at |-> "idle", todo |-> {}, reader |-> FALSE, asked |-> FALSE]
NoSweep == [at |-> "idle", cand |-> {}, used |-> 0]

TypeOK ==
    /\ {serving, auto, demand, full, consent, asked, over} \subseteq BOOLEAN
    /\ help \subseteq Dirs
    /\ dialog \in {"none", "open", "granting", "file"}
    /\ have \subseteq Files /\ pinned \subseteq Files /\ seeds \subseteq Files
    /\ due \subseteq Scopes \cup {Off} /\ left \subseteq Dirs
    /\ pass \in [at : {"idle", "bulk", "chunk", "round", "fetch"}, scope : Scopes,
                 queue : SUBSET Files, rest : SUBSET Dirs, round : 0 .. Rounds]
    /\ keep \in [at : {"idle", "fetch"}, todo : SUBSET Files,
                 reader : BOOLEAN, asked : BOOLEAN]
    /\ sweep \in [at : {"idle", "delete"}, cand : SUBSET Files,
                  used : 0 .. Size * Cardinality(Files)]

Init ==
    /\ serving = TRUE /\ help \in {{}, Dirs}
    /\ auto \in BOOLEAN /\ demand \in BOOLEAN /\ full \in BOOLEAN
    /\ consent = FALSE /\ asked = FALSE /\ dialog = "none"
    /\ have = {} /\ pinned = {}
    /\ due = {} /\ left = {}
    /\ pass = NoPass /\ keep = NoKeep /\ sweep = NoSweep
    /\ seeds \in {{}, Files}
    /\ limit \in Limits /\ over \in BOOLEAN
    /\ moves = 0

-----------------------------------------------------------------------------
(***************************************************************************)
(* What a scope holds and what a task may still do.                        *)
(***************************************************************************)

InScope(sc) == IF sc = All THEN Files ELSE Under[sc]

\* missing_optional_files
Missing(sc) == InScope(sc) \ have

\* optional_pass_should_continue: both switches for a whole xite, so that
\* either of them is an off switch.
Mandate(sc) == serving /\ IF sc = All THEN auto /\ demand ELSE sc \in help

\* optional_retry_flagged: the scopes the retry loop watches.
Flagged ==
    IF ~serving THEN {}
    ELSE IF auto /\ demand THEN {All}
    ELSE help

\* Mutant: leaves out xites with directories of their own.
WatchedUnhelped == full /\ serving /\ ~(demand \/ auto) /\ help = {}

\* full_retention_watch: whether the loop drives the node-wide promise here.
Watched == full /\ serving /\ ~(demand \/ auto)

\* retention_completion_plan_as: everything for the reader's own setting, the
\* author's unit otherwise.
Plan(reader) == (IF reader THEN Files ELSE Unit) \ have

\* retention_fetch_allowed: the on-demand switch is no consent by itself.
FetchAllowedWith(yes) == auto \/ (demand /\ yes)
FetchAllowed == FetchAllowedWith(consent)

\* retention_author_veto_holds
Veto(reader) == ~reader /\ ~auto /\ OptsOut

\* retention_pass_should_continue
KeepMandate ==
    /\ serving
    /\ keep.reader => full
    /\ keep.asked => FetchAllowed

-----------------------------------------------------------------------------
(***************************************************************************)
(* The bulk pass: download_optional_files.                                 *)
(***************************************************************************)

\* The pass that a task asking for scopes S starts if none is in flight; one
\* with nothing to fetch is over at once.
Started(S) ==
    LET todo == {sc \in S : Missing(sc) # {}} IN
    IF todo = {} THEN {NoPass}
    ELSE {[at |-> "bulk", scope |-> sc, queue |-> Missing(sc),
           rest |-> S \ {sc, All}, round |-> 1] : sc \in todo}

\* retry_optional_candidate, spawn_retry_pass
RetryTick ==
    /\ pass.at = "idle"
    /\ \E sc \in Flagged : Missing(sc) # {}
    /\ pass' \in Started(Flagged)
    /\ UNCHANGED <<switches, prompt, disk, later, keep, sweep, seeds, setting, moves>>

\* spawn_retry_pass, between two directories: nothing is in flight, and the next
\* one is taken...
RetryNext ==
    /\ left # {} /\ pass.at = "idle"
    /\ pass' \in Started(left)
    /\ left' = {}
    /\ UNCHANGED <<switches, prompt, disk, due, keep, sweep, seeds, setting, moves>>

\* ...but one for which another task's pass is in flight returns at once.
RetrySkip(d) ==
    /\ d \in left /\ pass.at # "idle"
    /\ left' = left \ {d}
    /\ UNCHANGED <<switches, prompt, disk, pass, due, keep, sweep, seeds, setting,
                   moves>>

\* edx_bulk_optional_pass looks at the mandate before it asks for a chunk, and
\* takes what the chunk brings (32 files: one chunk here).
BulkStart ==
    /\ pass.at = "bulk"
    /\ pass' = [pass EXCEPT !.at = IF Mandate(pass.scope) THEN "chunk" ELSE "round"]
    /\ UNCHANGED <<switches, prompt, disk, later, keep, sweep, seeds, setting, moves>>

BulkEnd ==
    /\ pass.at = "chunk"
    /\ pass' = [pass EXCEPT !.at = "round"]
    /\ UNCHANGED <<switches, prompt, disk, later, keep, sweep, seeds, setting, moves>>

\* A file that a peer serves arrives, whatever the switches say by now.
PassFetch(f) ==
    /\ pass.at \in {"chunk", "fetch"}
    /\ f \in pass.queue \cap seeds
    /\ have' = have \cup {f}
    /\ pass' = [pass EXCEPT !.queue = @ \ {f}]
    /\ UNCHANGED <<switches, prompt, pinned, later, keep, sweep, seeds, setting, moves>>

\* The pass is over; the directories of a retry task are left to it, and to the
\* one task that two of them are here.
After == pass' = NoPass /\ left' = left \cup pass.rest

\* run_optional_round looks at the mandate before it hands out its files.
RoundStart ==
    /\ pass.at = "round"
    /\ IF pass.queue # {} /\ Mandate(pass.scope)
       THEN pass' = [pass EXCEPT !.at = "fetch"] /\ UNCHANGED left
       ELSE After
    /\ UNCHANGED <<switches, prompt, disk, due, keep, sweep, seeds, setting, moves>>

\* Mutant: the round does not poll its mandate, and waits for a seeder.
RoundEndDeaf ==
    /\ pass.at = "fetch"
    /\ pass.queue = {} /\ After
    /\ UNCHANGED <<switches, prompt, disk, due, keep, sweep, seeds, setting, moves>>

\* Every 5 seconds the round polls its mandate and drops its fetches without.
\* A file that nobody serves fails and is left to the next round; without any
\* peer after an announce there is none.
RoundEnd ==
    /\ pass.at = "fetch"
    /\ \/ ~Mandate(pass.scope) /\ After
       \/ /\ pass.queue \cap seeds = {}
          /\ IF pass.queue # {} /\ pass.round < Rounds /\ seeds # {}
             THEN /\ pass' = [pass EXCEPT !.at = "round", !.round = @ + 1]
                  /\ UNCHANGED left
             ELSE After
    /\ UNCHANGED <<switches, prompt, disk, due, keep, sweep, seeds, setting, moves>>

-----------------------------------------------------------------------------
(***************************************************************************)
(* The retention pass: spawn_retention_completion.                         *)
(***************************************************************************)

\* What the task would do: nothing while another one is at work (file_need joins
\* their fetches), by the author's veto or without a file to fetch.
Idles == keep.at # "idle" \/ Veto(full) \/ Plan(full) = {}

\* Over the budget and without consent it asks, once, and stops.
Asks(yes) ==
    /\ ~Idles /\ over /\ ~FetchAllowedWith(yes) /\ ~asked
    /\ asked' = TRUE /\ dialog' = "open"
    /\ UNCHANGED keep

Fetches(yes) ==
    /\ ~Idles /\ (over => FetchAllowedWith(yes))
    /\ keep' = [at |-> "fetch", todo |-> Plan(full), reader |-> full,
                asked |-> over]
    /\ UNCHANGED asked

Complete ==
    \/ dialog = "none" /\ Asks(consent)
    \/ Fetches(consent) /\ UNCHANGED dialog

\* The clone of the xite has its core files.
CloneCompletes ==
    /\ moves < MaxMoves /\ moves' = moves + 1
    /\ Complete
    /\ UNCHANGED <<switches, consent, disk, pass, later, sweep, seeds, setting>>

\* retry_retention_candidate
RetentionTick ==
    /\ Watched
    /\ Complete
    /\ UNCHANGED <<switches, consent, disk, pass, later, sweep, seeds, setting, moves>>

\* run_retention_pass: each path is tried once.
KeepFetch(f) ==
    /\ keep.at = "fetch" /\ KeepMandate
    /\ f \in keep.todo
    /\ have' = IF f \in seeds THEN have \cup {f} ELSE have
    /\ keep' = [keep EXCEPT !.todo = @ \ {f}]
    /\ UNCHANGED <<switches, prompt, pinned, pass, later, sweep, seeds, setting, moves>>

KeepEnd ==
    /\ keep.at = "fetch"
    /\ keep.todo = {} \/ ~KeepMandate
    /\ keep' = NoKeep
    /\ UNCHANGED <<switches, prompt, disk, pass, later, sweep, seeds, setting, moves>>

\* The user says yes: set_download_optional...
Accept ==
    /\ dialog = "open"
    /\ dialog' = "granting"
    /\ demand' = TRUE
    /\ UNCHANGED <<serving, auto, help, full, consent, asked, disk, tasks, seeds,
                   setting, moves>>

\* ...and, that being saved, the consent is recorded and the pass starts.
Grant ==
    /\ dialog = "granting"
    /\ consent' = TRUE
    /\ \/ Asks(TRUE)
       \/ Fetches(TRUE) /\ dialog' = "none"
       \/ /\ Idles \/ (over /\ ~FetchAllowedWith(TRUE) /\ asked)
          /\ dialog' = "none"
          /\ UNCHANGED <<keep, asked>>
    /\ UNCHANGED <<switches, disk, pass, later, sweep, seeds, setting, moves>>

Decline ==
    /\ dialog \in {"open", "file"}
    /\ dialog' = "none"
    /\ UNCHANGED <<switches, consent, asked, disk, tasks, seeds, setting, moves>>

-----------------------------------------------------------------------------
(***************************************************************************)
(* The cap: enforce_optional_limit.                                        *)
(***************************************************************************)

\* One look at what is cache: not a xite that is distributed whole, and not a
\* unit that retention keeps.  Pinned files count, but are no candidates.
Scan ==
    LET cache == IF auto THEN {} ELSE have \ (IF full THEN Files ELSE Unit) IN
    /\ sweep.at = "idle" /\ limit # 0
    /\ Size * Cardinality(cache) > limit
    /\ sweep' = [at |-> "delete", cand |-> cache \ pinned,
                 used |-> Size * Cardinality(cache)]
    /\ UNCHANGED <<switches, prompt, disk, pass, later, keep, seeds, setting, moves>>

\* optional_file_delete, for the candidates of that look, until under the cap.
Evict(f) ==
    /\ sweep.at = "delete" /\ sweep.used > limit
    /\ f \in sweep.cand
    /\ have' = have \ {f} /\ pinned' = pinned \ {f}
    /\ sweep' = [sweep EXCEPT !.cand = @ \ {f}, !.used = @ - Size]
    /\ UNCHANGED <<switches, prompt, pass, later, keep, seeds, setting, moves>>

SweepEnd ==
    /\ sweep.at = "delete"
    /\ sweep.used <= limit \/ sweep.cand = {}
    /\ sweep' = NoSweep
    /\ UNCHANGED <<switches, prompt, disk, pass, later, keep, seeds, setting, moves>>

-----------------------------------------------------------------------------
(***************************************************************************)
(* The user and the seeders.                                               *)
(***************************************************************************)

Move == moves < MaxMoves /\ moves' = moves + 1

\* set_autodownloadoptional
SetAuto ==
    /\ Move /\ auto' = ~auto
    /\ due' = IF auto' THEN due \cup {All} ELSE due
    /\ UNCHANGED <<serving, demand, help, full, prompt, disk, pass, left, keep, sweep,
                   seeds, setting>>

\* set_download_optional
SetDemand ==
    /\ Move /\ demand' = ~demand
    /\ due' = due \cup {IF demand' THEN All ELSE Off}
    /\ UNCHANGED <<serving, auto, help, full, prompt, disk, pass, left, keep, sweep,
                   seeds, setting>>

\* optional_help_add, optional_help_remove
SetHelp(d) ==
    /\ Move
    /\ \/ d \notin help /\ help' = help \cup {d} /\ due' = due \cup {d}
       \/ d \in help /\ help' = help \ {d} /\ UNCHANGED due
    /\ UNCHANGED <<serving, auto, demand, full, prompt, disk, pass, left, keep, sweep,
                   seeds, setting>>

\* The settings are saved.  A switch that was turned on spawns its pass
\* (spawn_optional_download), which returns at once if one is in flight; the
\* on-demand switch turned off re-arms the prompt and revokes the consent.
Saved(x) ==
    /\ x \in due
    /\ due' = due \ {x}
    /\ pass' \in IF x # Off /\ pass.at = "idle" THEN Started({x}) ELSE {pass}
    /\ asked' = (asked /\ x # Off) /\ consent' = (consent /\ x # Off)
    /\ UNCHANGED <<switches, dialog, disk, left, keep, sweep, seeds, setting, moves>>

\* set_serving; the full_retention setting
Pause ==
    /\ Move /\ serving' = ~serving
    /\ UNCHANGED <<auto, demand, help, full, prompt, disk, tasks, seeds, setting>>

SetFull ==
    /\ Move /\ full' = ~full
    /\ UNCHANGED <<serving, auto, demand, help, prompt, disk, tasks, seeds, setting>>

\* A page opens a file, with an on-demand switch on.
OpenFile(f) ==
    /\ Move /\ (demand \/ auto)
    /\ f \in seeds \ have
    /\ have' = have \cup {f}
    /\ UNCHANGED <<switches, prompt, pinned, tasks, seeds, setting>>

\* prompt_optional_download: with both switches off the page's file needs a
\* yes, asked once for the xite...
AskFile ==
    /\ Move /\ ~demand /\ ~auto
    /\ ~asked /\ dialog = "none"
    /\ asked' = TRUE /\ dialog' = "file"
    /\ UNCHANGED <<switches, consent, disk, tasks, seeds, setting>>

\* ...which turns the on-demand switch on and fetches the file.
AcceptFile ==
    /\ dialog = "file"
    /\ dialog' = "none" /\ demand' = TRUE
    /\ have' \in {have \cup {f} : f \in seeds} \cup {have}
    /\ UNCHANGED <<serving, auto, help, full, consent, asked, pinned, tasks, seeds,
                   setting, moves>>

Pin(f) ==
    /\ Move /\ f \in have \ pinned
    /\ pinned' = pinned \cup {f}
    /\ UNCHANGED <<switches, prompt, have, tasks, seeds, setting>>

DeleteFile(f) ==
    /\ Move /\ f \in have
    /\ have' = have \ {f} /\ pinned' = pinned \ {f}
    /\ UNCHANGED <<switches, prompt, tasks, seeds, setting>>

Seeding(f) ==
    /\ Move
    /\ seeds' = IF f \in seeds THEN seeds \ {f} ELSE seeds \cup {f}
    /\ UNCHANGED <<switches, prompt, disk, tasks, setting>>

-----------------------------------------------------------------------------
PassStep == BulkStart \/ BulkEnd \/ RoundStart \/ RoundEnd \/ \E f \in Files : PassFetch(f)
KeepStep == KeepEnd \/ \E f \in Files : KeepFetch(f)
SweepStep == Scan \/ SweepEnd \/ \E f \in Files : Evict(f)

Next ==
    \/ PassStep \/ KeepStep \/ SweepStep \/ RetryTick \/ RetentionTick
    \/ RetryNext \/ \E d \in Dirs : RetrySkip(d)
    \/ \E x \in Scopes \cup {Off} : Saved(x)
    \/ CloneCompletes \/ Accept \/ Grant \/ Decline \/ AskFile \/ AcceptFile
    \/ SetAuto \/ SetDemand \/ Pause \/ SetFull
    \/ \E d \in Dirs : SetHelp(d)
    \/ \E f \in Files : OpenFile(f) \/ Pin(f) \/ DeleteFile(f) \/ Seeding(f)

Spec == Init /\ [][Next]_vars

\* The tasks run and the loop ticks for ever; the cap is enforced every few
\* minutes.  Nobody answers a prompt or moves a switch unless he wants to.  A
\* retry that goes straight on to its next directory gets there before another
\* task's pass does, if not every time (strong fairness).
FairSpec ==
    /\ Spec
    /\ WF_vars(PassStep) /\ WF_vars(KeepStep) /\ WF_vars(SweepStep)
    /\ WF_vars(RetryTick) /\ WF_vars(RetentionTick) /\ WF_vars(Grant)
    /\ SF_vars(RetryNext) /\ WF_vars(\E d \in Dirs : RetrySkip(d))
    /\ WF_vars(\E x \in Scopes \cup {Off} : Saved(x))

-----------------------------------------------------------------------------
(***************************************************************************)
(* Properties.                                                             *)
(***************************************************************************)

\* The files the cap leaves alone as things stand.  A directory that the user
\* helps with is not among what enforce_optional_limit spares.
Spared ==
    IF limit = 0 \/ auto \/ full THEN Files ELSE Unit \cup pinned

\* The files that some loop answers for and the cap does not take: a whole-xite
\* promise; the node-wide setting, within the budget; of a directory, the files
\* that are spared.
Promised ==
    IF ~serving THEN {}
    ELSE IF auto /\ demand THEN Files
    ELSE IF full /\ ~demand /\ ~auto /\ ~over THEN Files
    ELSE UNION {Under[d] : d \in help} \cap Spared

\* spawn_optional_retry_loop: "KEEP fetching them: until they are all here".  A
\* file that stays promised and that a peer goes on serving ends up on disk and
\* stays there: no pass that lost a race with a switch, no directory behind
\* another's pass and no run of the cap loses it for good.
PromiseKept ==
    \A f \in Files :
        <>[](f \in Promised /\ f \in seeds) => <>[](f \in have)

\* The same for every directory the user helps with: "as long as a xite's
\* optional promise stands - either sidebar toggle, or an `optionalHelp`
\* directory commitment - ... KEEP fetching them: until they are all here", and
\* the cap is not to fight "in a loop (complete, evict, complete)" with it.
\* It fails under a cap (OptionalHelp.cfg).
HelpKept ==
    \A d \in Dirs : \A f \in Under[d] :
        <>[](serving /\ d \in help /\ f \in seeds) => <>[](f \in have)

\* "toggling off / pausing / deleting a xite ACTUALLY stops an in-flight
\* multi-GB download": a pass without its mandate ends, unless the mandate
\* comes back first (optional_pass_should_continue).
PassStops ==
    (pass.at # "idle" /\ ~Mandate(pass.scope))
        ~> (pass.at = "idle" \/ Mandate(pass.scope))
=============================================================================
