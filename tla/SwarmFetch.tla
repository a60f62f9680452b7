----------------------------- MODULE SwarmFetch -----------------------------
(***************************************************************************)
(* The swarm scheduler of EDX (crates/epix-edx/src/sched.rs): one call of  *)
(* Swarm::fetch_growable, which stripes the missing 16 KiB groups of one   *)
(* object over a growing roster of peers through a sliding window.         *)
(*                                                                         *)
(* The fetch loop is one async task.  Its program counter `pc' names where *)
(* the loop is: cutting a slice of the order ("cut"), handing its batches  *)
(* out ("assign"), the idle decision ("idle"), the idle sleep              *)
(* ("idle_wait"), and the select! over batches in flight ("wait").  The    *)
(* environment runs on other threads and may interleave with every step:   *)
(* the clock, store commits, other swarms on the same links, the dialer.   *)
(*                                                                         *)
(* Durations are abstracted to nondeterminism: a timer may fire whenever   *)
(* it is armed.  Latency estimates are abstracted too: every choice they   *)
(* drive (ties between peers, the classes a duplicate may go to) is open.  *)
(***************************************************************************)
EXTENDS Integers, Sequences, FiniteSets, FiniteSetsExt

CONSTANTS
    NGroups,        \* groups the caller needs: 0 .. NGroups-1
    NEntry,         \* peers in the roster when the fetch starts
    MaxJoins,       \* bound: handles the dialer sends on the join channel
    Classes,        \* transport classes
    Class,          \* Class[p]: the class of roster slot p
    Label,          \* Label[p]: the peer behind slot p (two lanes share one)
    ReqSize,        \* ReqSize[c]: groups_per_request
    Depth,          \* Depth[c]: pipeline_depth
    DefaultReqSize, \* GROUPS_PER_REQUEST, the cut size of an empty roster
    BitsChoices,    \* the availability maps an instance starts from
    MaxDuplicates, PeerFailLimit, BusyLimit, LinkLimit,
    SatPatience, JoinPatience,
    MaxExt          \* bound: requests other swarms hold on one link

Groups == 0 .. NGroups - 1
Peers  == 1 .. NEntry + MaxJoins

ASSUME ConstantsAssumption ==
    /\ NGroups \in Nat /\ NEntry \in Nat /\ MaxJoins \in Nat
    /\ MaxDuplicates \in Nat
    /\ PeerFailLimit \in Nat \ {0} /\ BusyLimit \in Nat \ {0}
    /\ LinkLimit \in Nat \ {0} /\ MaxExt \in Nat
    /\ SatPatience \in Nat /\ JoinPatience \in Nat
    /\ DefaultReqSize \in Nat \ {0}

ASSUME PeersAssumption ==
    /\ Class \in [Peers -> Classes]
    /\ ReqSize \in [Classes -> Nat \ {0}]
    /\ Depth \in [Classes -> Nat \ {0}]
    /\ BitsChoices \subseteq [Peers -> SUBSET Groups]

VARIABLES
    \* --- fixed for the call ---
    streaming,  \* Deadline::is_streaming
    bits,       \* PeerHandle.bits, by roster slot
    \* --- the join channel and its sender ---
    open,       \* some sender is alive
    queue,      \* handles waiting in the channel
    sent,       \* handles sent so far (bounded by MaxJoins)
    \* --- the other users of the links, and the store ---
    ext,        \* requests other swarms hold on each link
    present,    \* groups whose verified bytes are in the store
    \* --- the fetch loop ---
    pc, roster, joining, order, cursor, cut, remaining, fetched,
    satWaits, joinWaits,
    tick,       \* the idle sleep is bounded by a tick, not only a cooldown
    \* --- refill's slice of the order ---
    pend,       \* positions of `order' in the slice, not yet batched
    sub,        \* rest of the batch assign_split is working through
    assigned,
    \* --- Window ---
    load, fails, busy, cooling, probed, inflight, futs

envVars    == <<open, queue, sent, ext, present>>
chanVars   == <<open, queue, sent>>
sliceVars  == <<pend, sub, assigned>>
healthVars == <<fails, busy, cooling, probed>>
bookVars   == <<load, inflight, futs>>
loopVars   == <<roster, joining, order, cursor, cut, remaining, fetched>>
idleVars   == <<satWaits, joinWaits, tick>>
fixedVars  == <<streaming, bits>>
vars == <<fixedVars, envVars, pc, loopVars, idleVars, sliceVars, bookVars,
          healthVars>>

Running == pc \notin {"done", "aborted"}
Roster  == 1 .. roster

-----------------------------------------------------------------------------
(* Scheduling order.                                                       *)

HeldBy(ps)  == UNION {bits[p] : p \in ps}
Holders(g, ps) == {p \in ps : g \in bits[p]}

\* The sequences that list the set S in the strict order `before'.
Listings(S, before(_, _)) ==
    {s \in [1 .. Cardinality(S) -> S] :
        /\ \A g \in S : \E i \in DOMAIN s : s[i] = g
        /\ \A i, j \in DOMAIN s : i < j => before(s[i], s[j])}

RarestFirst(g, h) ==
    LET cg == Cardinality(Holders(g, 1 .. NEntry))
        ch == Cardinality(Holders(h, 1 .. NEntry))
    IN  cg < ch \/ (cg = ch /\ g < h)

PlayOrder(g, h) == g < h

InitialOrder ==
    LET held == Groups \cap HeldBy(1 .. NEntry)
    IN  IF streaming THEN Listings(held, PlayOrder)
                     ELSE Listings(held, RarestFirst)

\* batch_groups_for: the largest request size of the entry set.
BatchGroupsFor ==
    LET sizes == {ReqSize[Class[p]] : p \in 1 .. NEntry}
    IN  IF NEntry = 0 THEN {DefaultReqSize}
        ELSE {n \in sizes : \A m \in sizes : m <= n}

-----------------------------------------------------------------------------
(* Peer health and links.                                                  *)

Exhausted(p)   == fails[p] >= PeerFailLimit
Schedulable(p) == ~Exhausted(p) /\ ~cooling[p]

\* Conn::queued_fetch_requests: a charge lives in every batch future.
QueuedRequests(p) == Cardinality({b \in futs : b.primary = p}) + ext[p]
LinkFull(p) == QueuedRequests(p) >= LinkLimit

PipelineRoom(p) == load[p] < Depth[Class[p]]

FreeSlots ==
    MapThenSumSet(LAMBDA p : IF PipelineRoom(p) THEN Depth[Class[p]] - load[p]
                                                ELSE 0,
                  {p \in Roster : Schedulable(p)})

AwaitingLinkRoom ==
    \E p \in Roster : Schedulable(p) /\ PipelineRoom(p) /\ LinkFull(p)

\* next_retry: some peer is merely cooling.
SomeoneCooling == \E p \in Roster : ~Exhausted(p) /\ cooling[p]

Eligible(gs) ==
    {p \in Roster : /\ Schedulable(p)
                    /\ PipelineRoom(p)
                    /\ streaming \/ ~LinkFull(p)
                    /\ gs \subseteq bits[p]}

\* The peers pick_peer may return.  Bulk work goes by (fails, load) and then
\* the class latency; within a class the first slot wins.  Streaming goes by
\* fails and then measured speed.
PickPeer(gs) ==
    LET E == Eligible(gs)
        BulkLess(p, q) == \/ fails[p] < fails[q]
                          \/ fails[p] = fails[q] /\ load[p] < load[q]
        SameRank(p, q) == /\ fails[p] = fails[q] /\ load[p] = load[q]
                          /\ Class[p] = Class[q]
    IN  {p \in E : \A q \in E :
            IF streaming THEN fails[p] <= fails[q]
            ELSE ~BulkLess(q, p) /\ (SameRank(p, q) => p <= q)}

-----------------------------------------------------------------------------
(* The join channel.                                                       *)

SortedSeqs(S) == Listings(S, PlayOrder)

\* Mutation: a bare push, without the groups only the joiner holds.
AdmitWithoutOrder ==
    LET p == roster + 1 IN
    /\ cut' = IF ReqSize[Class[p]] > cut THEN ReqSize[Class[p]] ELSE cut
    /\ roster' = p
    /\ UNCHANGED <<order, load, healthVars>>

\* admit_joiner: the handle takes the next roster slot.
AdmitJoiner ==
    LET p == roster + 1 IN
    /\ \E new \in SortedSeqs((remaining \cap bits[p]) \ HeldBy(Roster)) :
          order' = order \o new
    /\ cut' = IF ReqSize[Class[p]] > cut THEN ReqSize[Class[p]] ELSE cut
    /\ roster' = p
    /\ load' = [load EXCEPT ![p] = 0]
    /\ fails' = [fails EXCEPT ![p] = 0]
    /\ busy' = [busy EXCEPT ![p] = 0]
    /\ cooling' = [cooling EXCEPT ![p] = FALSE]
    /\ probed' = [probed EXCEPT ![p] = FALSE]

\* A handle whose link died while it was queued is dropped.
IgnoreJoiner ==
    UNCHANGED <<order, cut, roster, load, healthVars>>

RecvHandle ==
    /\ joining /\ queue > 0
    /\ queue' = queue - 1
    /\ AdmitJoiner \/ IgnoreJoiner
    /\ UNCHANGED <<open, sent, joining>>

RecvClosed ==
    /\ joining /\ queue = 0 /\ ~open
    /\ joining' = FALSE
    /\ UNCHANGED <<chanVars, order, cut, roster, load, healthVars>>

-----------------------------------------------------------------------------
(* Refill: cut a slice of the order, hand its batches out, repeat.         *)

\* Leave refill for the select! when something is in flight, else go idle.
LeaveRefill ==
    /\ IF futs = {} THEN /\ pc' = "idle"
                         /\ UNCHANGED <<satWaits, joinWaits>>
                    ELSE /\ pc' = "wait"
                         /\ satWaits' = 0
                         /\ joinWaits' = 0
    /\ UNCHANGED tick

\* next_unassigned's cursor: past the prefix that is no longer needed.
Advanced(c) ==
    /\ \A i \in cursor .. c - 1 : order[i] \notin remaining
    /\ c <= Len(order) => order[c] \in remaining

\* Mutation: forget that a batch in flight already covers a group.
SliceIgnoringInflight(c, window) ==
    LET loose == {i \in c .. Len(order) : order[i] \in remaining}
    IN  {i \in loose : Cardinality({j \in loose : j <= i}) <= window}

\* The first `window' positions from c on whose group is needed and not
\* already covered by a batch in flight.
Slice(c, window) ==
    LET loose == {i \in c .. Len(order) : order[i] \in remaining \ inflight}
    IN  {i \in loose : Cardinality({j \in loose : j <= i}) <= window}

CutSlice ==
    /\ pc = "cut"
    /\ IF FreeSlots = 0
       THEN LeaveRefill /\ UNCHANGED <<cursor, sliceVars>>
       ELSE \E c \in cursor .. Len(order) + 1 :
              /\ Advanced(c)
              /\ cursor' = c
              /\ IF Slice(c, FreeSlots * cut) = {}
                 THEN LeaveRefill /\ UNCHANGED sliceVars
                 ELSE /\ pend' = Slice(c, FreeSlots * cut)
                      /\ assigned' = FALSE
                      /\ pc' = "assign"
                      /\ UNCHANGED <<sub, idleVars>>
    /\ UNCHANGED <<fixedVars, envVars, roster, joining, order, cut, remaining,
                   fetched, bookVars, healthVars>>

\* Window::schedule: trim the run to the picked peer's request size, book it.
Schedule(p, run) ==
    \E first \in run :
        LET trimmed == {g \in run : g < first + ReqSize[Class[p]]} IN
        /\ \A g \in run : first <= g
        /\ load' = [load EXCEPT ![p] = @ + 1]
        /\ inflight' = inflight \cup trimmed
        /\ futs' = futs \cup {[groups |-> trimmed, primary |-> p,
                               racers |-> {p}, raced |-> FALSE,
                               refused |-> FALSE]}
        /\ assigned' = TRUE

\* batch_into_ranges: the positions of the slice up to `last' are its first
\* maximal run of consecutive groups, at most `cut' long.
RunUpTo(last) == {i \in pend : i <= last}
Consecutive(R) ==
    /\ Cardinality(R) <= cut
    /\ \A i, j \in R : order[j] - order[i]
            = Cardinality({k \in R : k < j}) - Cardinality({k \in R : k < i})
IsFirstRun(last) ==
    /\ Consecutive(RunUpTo(last))
    /\ \A later \in pend : later > last => ~Consecutive(RunUpTo(later))

\* Window::assign of the slice's next batch.
AssignBatch ==
    /\ pc = "assign" /\ sub = {} /\ pend # {}
    /\ \E last \in pend :
          LET run == {order[i] : i \in RunUpTo(last)} IN
          /\ IsFirstRun(last)
          /\ pend' = pend \ RunUpTo(last)
          /\ \/ \E p \in PickPeer(run) : Schedule(p, run) /\ sub' = {}
             \/ /\ PickPeer(run) = {}
                /\ sub' = run
                /\ UNCHANGED <<bookVars, assigned>>
    /\ UNCHANGED <<fixedVars, envVars, pc, loopVars, idleVars, healthVars>>

\* split_by_holder: a prefix of `sub' that one roster peer spans, as long as
\* it can be.  Every group of the order has a holder, so there is one.
SpanUpTo(last) == {g \in sub : g <= last}
Spanned(gs) == Cardinality(gs) <= cut /\ \E p \in Roster : gs \subseteq bits[p]
IsFirstSpan(last) ==
    /\ Spanned(SpanUpTo(last))
    /\ \A later \in sub : later > last => ~Spanned(SpanUpTo(later))

\* One iteration of assign_split's loop.
SplitBatch ==
    /\ pc = "assign" /\ sub # {}
    /\ \E last \in sub :
          /\ IsFirstSpan(last)
          /\ sub' = sub \ SpanUpTo(last)
          /\ \/ \E p \in PickPeer(SpanUpTo(last)) :
                    Schedule(p, SpanUpTo(last))
             \/ /\ PickPeer(SpanUpTo(last)) = {}
                /\ UNCHANGED <<bookVars, assigned>>
    /\ UNCHANGED <<fixedVars, envVars, pc, loopVars, idleVars, pend, healthVars>>

\* The slice is used up: go round again when it placed something.
EndSlice ==
    /\ pc = "assign" /\ sub = {} /\ pend = {}
    /\ IF assigned THEN pc' = "cut" /\ UNCHANGED idleVars ELSE LeaveRefill
    /\ assigned' = FALSE
    /\ UNCHANGED <<fixedVars, envVars, loopVars, pend, sub, bookVars,
                   healthVars>>

-----------------------------------------------------------------------------
(* race_batch and apply_outcome, polled inside the select!.                *)

\* Mutation: a refusing peer is alive, so forget its strikes.
BusyClearsStrikes(p) ==
    /\ busy' = [busy EXCEPT ![p] = @ + 1]
    /\ fails' = [fails EXCEPT ![p] = 0]
    /\ cooling' = [cooling EXCEPT ![p] = TRUE]
    /\ UNCHANGED probed

NoteBusy(p) ==
    /\ busy' = [busy EXCEPT ![p] = @ + 1]
    /\ IF busy[p] + 1 >= BusyLimit
       THEN fails' = [fails EXCEPT ![p] = PeerFailLimit] /\ UNCHANGED cooling
       ELSE cooling' = [cooling EXCEPT ![p] = TRUE] /\ UNCHANGED fails
    /\ UNCHANGED probed

\* The last peer that is not exhausted gets one probe after a breather.
LastPeerProbe(p) ==
    /\ fails[p] + 1 >= PeerFailLimit
    /\ ~probed[p]
    /\ \A q \in Roster \ {p} : Exhausted(q)

NoteFailed(p) ==
    /\ IF LastPeerProbe(p)
       THEN /\ probed' = [probed EXCEPT ![p] = TRUE]
            /\ fails' = [fails EXCEPT ![p] = PeerFailLimit - 1]
            /\ cooling' = [cooling EXCEPT ![p] = TRUE]
       ELSE /\ fails' = [fails EXCEPT ![p] = @ + 1]
            /\ UNCHANGED <<probed, cooling>>
    /\ UNCHANGED busy

\* Mutation: take one refusal back instead of resetting the count.
DeliveredForgivesOne(w) ==
    /\ fails' = [fails EXCEPT ![w] = 0]
    /\ busy' = [busy EXCEPT ![w] = @ - 1]
    /\ cooling' = [cooling EXCEPT ![w] = FALSE]
    /\ UNCHANGED probed

NoteDelivered(w) ==
    /\ fails' = [fails EXCEPT ![w] = 0]
    /\ busy' = [busy EXCEPT ![w] = 0]
    /\ cooling' = [cooling EXCEPT ![w] = FALSE]
    /\ UNCHANGED probed

\* A rescue: the primary is refused or struck, then the winner is cleared.
NoteRescued(p, w, refused) ==
    LET dropped == busy[p] + 1 >= BusyLimit
        cools   == IF refused THEN ~dropped ELSE LastPeerProbe(p)
        strikes == IF refused THEN IF dropped THEN PeerFailLimit ELSE fails[p]
                   ELSE IF LastPeerProbe(p) THEN PeerFailLimit - 1
                   ELSE fails[p] + 1
    IN  /\ fails' = [fails EXCEPT ![p] = strikes, ![w] = 0]
        /\ busy' = [busy EXCEPT ![p] = IF refused THEN @ + 1 ELSE @, ![w] = 0]
        /\ cooling' = [cooling EXCEPT ![p] = @ \/ cools, ![w] = FALSE]
        /\ probed' = [probed EXCEPT ![p] = @ \/ (~refused /\ LastPeerProbe(p))]

\* Window::release, then the rest of apply_outcome.  The charge on the link
\* is refunded with the future.
Release(b) ==
    /\ futs' = futs \ {b}
    /\ load' = [load EXCEPT ![b.primary] = @ - 1]
    /\ inflight' = inflight \ b.groups

\* Mutation: done when the window has drained, not when nothing remains.
DoneWhenDrained(gs) ==
    /\ remaining' = remaining \ gs
    /\ fetched' = fetched + Cardinality(gs)
    /\ pc' = IF inflight' = {} THEN "done" ELSE "cut"

Landed(gs) ==
    /\ remaining' = remaining \ gs
    /\ fetched' = fetched + Cardinality(gs)
    /\ pc' = IF remaining \ gs = {} THEN "done" ELSE "cut"

OutcomeFrame ==
    UNCHANGED <<fixedVars, chanVars, ext, roster, joining, order, cursor, cut,
                idleVars, sliceVars>>

\* BatchOutcome::won: the whole range verified into the store.
Won(b, w) ==
    /\ Release(b)
    /\ present' = present \cup b.groups
    /\ Landed(b.groups)
    /\ IF w = b.primary THEN NoteDelivered(w)
                        ELSE NoteRescued(b.primary, w, b.refused)
    /\ OutcomeFrame

\* Mutation: a failed batch reports all its groups as landed.
LostButCounted(b, refused) ==
    /\ Release(b)
    /\ Landed(b.groups)
    /\ IF refused THEN NoteBusy(b.primary) ELSE NoteFailed(b.primary)
    /\ OutcomeFrame /\ UNCHANGED present

\* batch_failed / batch_busy: what the store already has counts as landed.
Lost(b, refused) ==
    /\ Release(b)
    /\ Landed(b.groups \cap present)
    /\ IF refused THEN NoteBusy(b.primary) ELSE NoteFailed(b.primary)
    /\ OutcomeFrame /\ UNCHANGED present

\* The primary answers with the whole range.
PrimaryOk(b) ==
    /\ ~b.raced
    /\ Won(b, b.primary)

\* The absolute cap fires with the primary mid-flight.
PrimaryCap(b) ==
    /\ ~b.raced
    /\ Lost(b, FALSE)

\* Mutation: duplicate onto any other peer, whatever it holds.
AnyTargets(b, okClasses) ==
    LET fit == {p \in Roster : /\ Label[p] # Label[b.primary]
                               /\ Class[p] \in okClasses}
    IN  {p \in fit : Cardinality({q \in fit : q <= p}) <= MaxDuplicates}

\* Duplicate targets, given the classes now measured no slower than the
\* primary's: the first MaxDuplicates roster slots of another peer that hold
\* the whole batch.
Targets(b, okClasses) ==
    LET fit == {p \in Roster : /\ p # b.primary
                               /\ Label[p] # Label[b.primary]
                               /\ Class[p] \in okClasses
                               /\ b.groups \subseteq bits[p]}
    IN  {p \in fit : Cardinality({q \in fit : q <= p}) <= MaxDuplicates}

StartRace(b, racers, refused) ==
    /\ futs' = (futs \ {b}) \cup
               {[b EXCEPT !.racers = racers, !.raced = TRUE,
                          !.refused = refused]}
    /\ UNCHANGED <<fixedVars, envVars, pc, loopVars, idleVars, sliceVars, load,
                   inflight, healthVars>>

\* The primary stalls, errors or refuses.  A stalled one stays in the race.
\* With no target, or nothing left of the cap, the batch fails here.
PrimaryGivesOut(b, how) ==
    /\ ~b.raced
    /\ \/ Lost(b, how = "busy")
       \/ \E faster \in SUBSET Classes :
             LET targets == Targets(b, faster \cup {Class[b.primary]})
             IN  /\ targets # {}
                 /\ StartRace(b, targets \cup (IF how = "stall"
                                               THEN {b.primary} ELSE {}),
                              how = "busy")

RaceWon(b, w) ==
    /\ b.raced /\ w \in b.racers
    /\ Won(b, w)

\* select_first_ok drops a racer that errors; the last one ends the race.
RacerErrs(b, r) ==
    /\ b.raced /\ r \in b.racers
    /\ IF b.racers = {r} THEN Lost(b, b.refused)
       ELSE StartRace(b, b.racers \ {r}, b.refused)

\* Nobody moves bytes for a stall window, or the cap runs out.
RaceDry(b) ==
    /\ b.raced
    /\ Lost(b, b.refused)

BatchStep ==
    /\ pc = "wait"
    /\ \E b \in futs :
          \/ PrimaryOk(b)
          \/ PrimaryCap(b)
          \/ \E how \in {"stall", "error", "busy"} : PrimaryGivesOut(b, how)
          \/ \E w \in b.racers : RaceWon(b, w)
          \/ \E r \in b.racers : RacerErrs(b, r)
          \/ RaceDry(b)

\* The join arm of the select!.
WaitJoin ==
    /\ pc = "wait"
    /\ RecvHandle \/ RecvClosed
    /\ pc' = "cut"
    /\ UNCHANGED <<fixedVars, ext, present, cursor, remaining, fetched,
                   idleVars, sliceVars, inflight, futs>>

-----------------------------------------------------------------------------
(* idle_step: nothing in flight, nothing schedulable.                      *)

Saturated == satWaits < SatPatience /\ AwaitingLinkRoom

IdleAbort ==
    /\ pc = "idle"
    /\ \/ streaming
       \/ /\ ~Saturated /\ ~SomeoneCooling
          /\ ~joining \/ joinWaits >= JoinPatience
    /\ pc' = "aborted"
    /\ UNCHANGED <<fixedVars, envVars, loopVars, idleVars, sliceVars, bookVars,
                   healthVars>>

\* Mutation: wait for the dialer's close, however long it takes.
WaitForClose ==
    /\ pc = "idle" /\ ~streaming
    /\ LET joinTick == ~Saturated /\ ~SomeoneCooling IN
       /\ joinTick => joining
       /\ satWaits' = IF Saturated THEN satWaits + 1 ELSE satWaits
       /\ tick' = (Saturated \/ joinTick)
    /\ pc' = "idle_wait"
    /\ UNCHANGED <<fixedVars, envVars, loopVars, joinWaits, sliceVars,
                   bookVars, healthVars>>

IdleWait ==
    /\ pc = "idle" /\ ~streaming
    /\ LET joinTick == ~Saturated /\ ~SomeoneCooling IN
       /\ joinTick => joining /\ joinWaits < JoinPatience
       /\ satWaits' = IF Saturated THEN satWaits + 1 ELSE satWaits
       /\ joinWaits' = IF joinTick THEN joinWaits + 1 ELSE joinWaits
       /\ tick' = (Saturated \/ joinTick)
    /\ pc' = "idle_wait"
    /\ UNCHANGED <<fixedVars, envVars, loopVars, sliceVars, bookVars,
                   healthVars>>

\* The sleep ends: its tick, or the earliest cooldown, is over.
IdleTimer ==
    /\ pc = "idle_wait"
    /\ \/ tick /\ UNCHANGED cooling
       \/ \E p \in Roster : /\ ~Exhausted(p) /\ cooling[p]
                            /\ cooling' = [cooling EXCEPT ![p] = FALSE]
    /\ tick' = FALSE
    /\ pc' = "cut"
    /\ UNCHANGED <<fixedVars, envVars, loopVars, satWaits, joinWaits,
                   sliceVars, bookVars, fails, busy, probed>>

\* The join channel speaks first.  Any handle resets the joiner patience.
IdleJoin ==
    /\ pc = "idle_wait"
    /\ \/ RecvHandle /\ joinWaits' = 0
       \/ RecvClosed /\ UNCHANGED joinWaits
    /\ tick' = FALSE
    /\ pc' = "cut"
    /\ UNCHANGED <<fixedVars, ext, present, cursor, remaining, fetched,
                   satWaits, sliceVars, inflight, futs>>

-----------------------------------------------------------------------------
(* The environment.                                                        *)

\* A cooldown runs out.  While the loop sleeps IdleTimer does this.
CooldownEnds ==
    /\ Running /\ pc # "idle_wait"
    /\ \E p \in Roster : /\ cooling[p]
                         /\ cooling' = [cooling EXCEPT ![p] = FALSE]
    /\ UNCHANGED <<fixedVars, envVars, pc, loopVars, idleVars, sliceVars,
                   bookVars, fails, busy, probed>>

\* A verified slice reaches the store outside an outcome: the streamed prefix
\* of a batch, the salvage of an abandoned stream, another fetch of the object.
\* The loop reads the store only when a batch ends, so a commit that lands
\* anywhere else is the same as one in the next select!.
StoreCommit ==
    /\ pc = "wait"
    /\ \E g \in Groups \ present : present' = present \cup {g}
    /\ UNCHANGED <<fixedVars, chanVars, ext, pc, loopVars, idleVars, sliceVars,
                   bookVars, healthVars>>

\* Another swarm books a request on a shared link, or is refunded one.
LinkTraffic ==
    /\ Running
    /\ \E p \in Roster :
          \/ ext[p] < MaxExt /\ ext' = [ext EXCEPT ![p] = @ + 1]
          \/ ext[p] > 0 /\ ext' = [ext EXCEPT ![p] = @ - 1]
    /\ UNCHANGED <<fixedVars, chanVars, present, pc, loopVars, idleVars,
                   sliceVars, bookVars, healthVars>>

\* The session's dialer delivers a link, or settles and drops its sender.
\* What it sends to a fetch that no longer listens is never seen.
Dialer ==
    /\ Running /\ open /\ joining
    /\ \/ sent < MaxJoins /\ sent' = sent + 1 /\ queue' = queue + 1
          /\ UNCHANGED open
       \/ open' = FALSE /\ UNCHANGED <<queue, sent>>
    /\ UNCHANGED <<fixedVars, ext, present, pc, loopVars, idleVars, sliceVars,
                   bookVars, healthVars>>

\* The call has returned.
Returned == ~Running /\ UNCHANGED vars

-----------------------------------------------------------------------------
Init ==
    /\ streaming \in BOOLEAN
    /\ bits \in BitsChoices
    /\ joining \in BOOLEAN   \* FALSE: a frozen session
    /\ open = joining /\ queue = 0 /\ sent = 0
    /\ ext = [p \in Peers |-> 0]
    /\ present = {}
    /\ pc = IF Groups = {} THEN "done" ELSE "cut"
    /\ roster = NEntry
    /\ order \in InitialOrder
    /\ cursor = 1
    /\ cut \in BatchGroupsFor
    /\ remaining = Groups
    /\ fetched = 0
    /\ satWaits = 0 /\ joinWaits = 0 /\ tick = FALSE
    /\ pend = {} /\ sub = {} /\ assigned = FALSE
    /\ load = [p \in Peers |-> 0]
    /\ fails = [p \in Peers |-> 0]
    /\ busy = [p \in Peers |-> 0]
    /\ cooling = [p \in Peers |-> FALSE]
    /\ probed = [p \in Peers |-> FALSE]
    /\ inflight = {} /\ futs = {}

Loop == CutSlice \/ AssignBatch \/ SplitBatch \/ EndSlice
        \/ IdleAbort \/ IdleWait \/ IdleTimer

Next == \/ Loop \/ BatchStep \/ WaitJoin \/ IdleJoin
        \/ CooldownEnds \/ StoreCommit \/ LinkTraffic \/ Dialer
        \/ Returned

Spec == Init /\ [][Next]_vars

\* The task is polled while it can run, an armed timer fires, and a batch in
\* flight answers, stalls or hits its cap.  Nothing is assumed of the dialer,
\* of the other swarms or of the store.
FairSpec == Spec /\ WF_vars(Loop) /\ WF_vars(BatchStep)

-----------------------------------------------------------------------------
Batches == [groups : SUBSET Groups, primary : Peers, racers : SUBSET Peers,
            raced : BOOLEAN, refused : BOOLEAN]

\* Every variable stays in its range; slots of the roster are real peers.
TypeOK ==
    /\ streaming \in BOOLEAN
    /\ bits \in [Peers -> SUBSET Groups]
    /\ open \in BOOLEAN /\ queue \in Nat /\ sent \in Nat
    /\ ext \in [Peers -> Nat]
    /\ present \subseteq Groups
    /\ pc \in {"cut", "assign", "idle", "idle_wait", "wait", "done", "aborted"}
    /\ roster \in Nat /\ Roster \subseteq Peers
    /\ joining \in BOOLEAN
    /\ order \in Seq(Groups)
    /\ cursor \in Nat \ {0}
    /\ cut \in Nat \ {0}
    /\ remaining \subseteq Groups
    /\ fetched \in Nat
    /\ satWaits \in Nat /\ joinWaits \in Nat /\ tick \in BOOLEAN
    /\ pend \subseteq Nat \ {0} /\ sub \subseteq Groups
    /\ assigned \in BOOLEAN
    /\ load \in [Peers -> Nat] /\ fails \in [Peers -> Nat]
    /\ busy \in [Peers -> Nat]
    /\ cooling \in [Peers -> BOOLEAN] /\ probed \in [Peers -> BOOLEAN]
    /\ inflight \subseteq Groups
    /\ futs \subseteq Batches

\* Window's ledgers agree with the futures: a peer's load is the number of
\* batches booked on it and never passes its pipeline depth, `inflight' is
\* exactly what those batches cover, no group is covered twice, and nothing
\* already fetched is being fetched.
LedgerExact ==
    /\ \A p \in Peers :
          /\ load[p] = Cardinality({b \in futs : b.primary = p})
          /\ load[p] <= Depth[Class[p]]
    /\ inflight = UNION {b.groups : b \in futs}
    /\ \A a, b \in futs : a # b => a.groups \cap b.groups = {}
    /\ inflight \subseteq remaining

\* No needed group that some roster peer holds is ever missing from the part
\* of the order still to be walked, whatever joined or failed meanwhile.
NoStrandedGroup ==
    \A g \in remaining \cap HeldBy(Roster) :
        \E i \in cursor .. Len(order) : order[i] = g

\* The report counts every group that left `remaining' exactly once, and each
\* of them is in the store.
ReportExact ==
    /\ fetched = Cardinality(Groups \ remaining)
    /\ Groups \ remaining \subseteq present

\* Every peer racing for a batch holds all of it, a batch is no larger than
\* its primary's class asks for, and a race adds at most MaxDuplicates peers.
RacersHoldBatch ==
    \A b \in futs :
        /\ b.groups # {}
        /\ b.primary \in Roster /\ b.racers \subseteq Roster /\ b.racers # {}
        /\ \A r \in b.racers \cup {b.primary} : b.groups \subseteq bits[r]
        /\ Cardinality(b.groups) <= ReqSize[Class[b.primary]]
        /\ Cardinality(b.racers \ {b.primary}) <= MaxDuplicates

\* An exhausted peer comes back only by delivering needed groups or through
\* the one last-peer probe it has: what makes the fetch terminate.
RevivalEarned ==
    [][\A p \in Roster :
          Exhausted(p) /\ fails'[p] < PeerFailLimit
          => \/ remaining' # remaining /\ remaining' \subseteq remaining
             \/ ~probed[p] /\ probed'[p]]_vars

\* Every fetch returns, even when the dialer never drops its sender, no peer
\* ever answers and the links stay full.
FetchReturns == <>(~Running)

\* The fetch as its caller sees it.
Contract == INSTANCE FetchContract WITH
    Wanted <- Groups, missing <- remaining, stored <- present,
    status <- IF pc = "done" THEN "complete"
              ELSE IF pc = "aborted" THEN "gaveup" ELSE "running"

\* The scheduler implements the contract of Swarm::fetch: it accounts only for
\* stored groups, completes exactly when none is missing, and stops for good.
ImplementsContract == Contract!Spec
=============================================================================
