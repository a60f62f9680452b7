---------------------------- MODULE UploadServer ----------------------------
(***************************************************************************)
(* The serving side of EDX (crates/epix-edx/src/server.rs) over the upload *)
(* governor of choke.rs: the accept slots and their serve loops, the       *)
(* request handlers with their three nested permits, the governor behind   *)
(* its mutex, and the process-wide foreground flag of                      *)
(* crates/epix-runtime/src/edx.rs that the governor yields to.             *)
(*                                                                         *)
(* A handler reads the clock and takes the governor's lock in two steps,   *)
(* so a decision can be taken with a clock value that is already old:      *)
(* MaxLag bounds how old.                                                  *)
(***************************************************************************)
EXTENDS Choker

CONSTANTS
    Conns,          \* accept slots
    PeerOf,         \* PeerOf[k]: the node key behind slot k
    ReachOf,        \* ReachOf[k]: overlay links have no handshake hash
    Reqs,           \* the requests peers send, each once
    Shapes,         \* what a request can ask for: [kind, size, items]
    MaxServes,      \* MAX_CONCURRENT_SERVES
    MaxQueue,       \* MAX_ENCODE_QUEUE
    MaxEncode,      \* MAX_ENCODE_THREADS
    Players,        \* foreground fetches of this node's own user
    MaxTime,        \* bound: the last second of the run
    MaxLag,         \* bound: age of a clock reading when the lock is taken
    MaxCredit,      \* bound: bytes a peer serves us
    MaxPauses       \* bound: times the mobile gate pauses uploads

Kinds == {"page", "bulk", "many", "control"}

ASSUME ServerAssumption ==
    /\ PeerOf \in [Conns -> Peers] /\ ReachOf \in [Conns -> Reaches]
    /\ IsFiniteSet(Conns) /\ IsFiniteSet(Reqs) /\ IsFiniteSet(Players)
    /\ Conns # {} /\ Shapes # {}
    /\ Shapes \subseteq [kind : Kinds, size : Nat, items : Nat]
    /\ MaxServes \in Nat \ {0} /\ MaxQueue \in Nat \ {0}
    /\ MaxEncode \in Nat \ {0}
    /\ MaxTime \in Nat /\ MaxLag \in Nat /\ MaxCredit \in Nat
    /\ MaxPauses \in Nat

NoReq    == "none"
AnyConn  == CHOOSE k \in Conns : TRUE
AnyShape == CHOOSE s \in Shapes : TRUE
ASSUME NoReqAssumption == NoReq \notin Reqs

VARIABLES
    now,        \* unix seconds
    choker,     \* the governor
    lock,       \* the GetMany handler that holds the governor's mutex
    link,       \* link[k]: "down", "up", "cut" or "drain"
    held,       \* held[k]: the request the loop holds while it waits for a permit
    serves,     \* serves[k]: serve permits taken
    queued,     \* encode-queue permits taken
    encoding,   \* encode permits taken
    conn,       \* conn[r]: the slot request r came in on
    shape,      \* shape[r]: what it asks for
    st,         \* st[r]: where its handler is
    at,         \* at[r]: the clock value the handler read
    saw,        \* saw[r]: the foreground flag it read
    left,       \* left[r]: GetMany items not yet decided
    admitted,   \* admitted[r]: GetMany items admitted
    paint,      \* history: first-paint bytes admitted, by the second read,
                \* while a reading of that second can still be pending
    late,       \* history: the seconds a ruling went back over, its reading
                \* older than the one the bucket was last rolled to
    flag,       \* the foreground flag the handlers read
    fetches,    \* FOREGROUND_FETCHES
    player,     \* player[f]: "out", "raise", "in" or "lower"
    pauses

linkVars == <<link, held>>
permits  == <<serves, queued, encoding>>
reqVars  == <<conn, shape, st, at, saw, left, admitted>>
fgVars   == <<flag, fetches, player>>
history  == <<paint, late>>
vars == <<now, choker, lock, linkVars, permits, reqVars, history, fgVars, pauses>>

\* A handler is running: it holds one of its connection's serve permits.
Handling == {"gate", "sized", "locked", "queue", "encode", "run"}
Handlers(k) == {r \in Reqs : st[r] \in Handling /\ conn[r] = k}
InQueue     == {r \in Reqs : st[r] \in {"encode", "run"}}
Encoding    == {r \in Reqs : st[r] = "run"}
\* The loop is running: its Connected guard is alive.
Served(k) == link[k] \in {"up", "cut"}
LockFree  == lock = NoReq

-----------------------------------------------------------------------------
(* Connections.                                                            *)

\* A connection whose Hello passes hello_gate.  One that fails it, or says
\* nothing for HELLO_TIMEOUT, is dropped before it touches any state here.
HelloOk(k) ==
    /\ link[k] = "down" /\ LockFree
    /\ link' = [link EXCEPT ![k] = "up"]
    /\ choker' \in NoteConnected(choker, PeerOf[k], ReachOf[k], now)
    /\ UNCHANGED <<now, lock, held, permits, reqVars, history, fgVars, pauses>>

\* The socket dies or is torn down: the incoming channel closes.
LinkCut(k) ==
    /\ link[k] = "up"
    /\ link' = [link EXCEPT ![k] = "cut"]
    /\ UNCHANGED <<now, choker, lock, held, permits, reqVars, history, fgVars,
                   pauses>>

\* The slot is free again once the last handler has let go of the link.
AfterLoop(k) == IF Handlers(k) = {} THEN "down" ELSE "drain"

\* The serve task is dropped at any await: its guard still runs.
Abort(k) ==
    /\ Served(k) /\ LockFree
    /\ choker' \in NoteDisconnected(choker, PeerOf[k], now)
    /\ link' = [link EXCEPT ![k] = AfterLoop(k)]
    /\ held' = [held EXCEPT ![k] = NoReq]
    /\ st' = [r \in Reqs |-> IF held[k] = r THEN "gone" ELSE st[r]]
    /\ UNCHANGED <<now, lock, permits, conn, shape, at, saw, left, admitted,
                   history, fgVars, pauses>>

\* The loop ends by itself: its channel closed, or nothing asked for
\* IDLE_TIMEOUT.  Handlers it spawned run on.
LoopEnds(k) ==
    /\ Served(k) /\ held[k] = NoReq /\ LockFree
    /\ choker' \in NoteDisconnected(choker, PeerOf[k], now)
    /\ link' = [link EXCEPT ![k] = AfterLoop(k)]
    /\ UNCHANGED <<now, lock, held, permits, reqVars, history, fgVars, pauses>>

\* The loop takes the next request.
Receive(k, r, s) ==
    /\ link[k] = "up" /\ held[k] = NoReq /\ st[r] = "unsent"
    /\ held' = [held EXCEPT ![k] = r]
    /\ conn' = [conn EXCEPT ![r] = k]
    /\ shape' = [shape EXCEPT ![r] = s]
    /\ left' = [left EXCEPT ![r] = s.items]
    /\ st' = [st EXCEPT ![r] = "held"]
    /\ UNCHANGED <<now, choker, lock, link, permits, at, saw, admitted, history,
                   fgVars, pauses>>

\* Behind a loop that ended the reader drops what it reads.
Ignore(k, r) ==
    /\ link[k] = "drain" /\ st[r] = "unsent"
    /\ st' = [st EXCEPT ![r] = "gone"]
    /\ UNCHANGED <<now, choker, lock, linkVars, permits, conn, shape, at, saw,
                   left, admitted, history, fgVars, pauses>>

\* A serve permit: the handler is spawned and the loop goes on.
TakePermit(k) ==
    /\ Served(k) /\ held[k] # NoReq /\ serves[k] < MaxServes
    /\ serves' = [serves EXCEPT ![k] = @ + 1]
    /\ st' = [st EXCEPT ![held[k]] = "gate"]
    /\ held' = [held EXCEPT ![k] = NoReq]
    /\ UNCHANGED <<now, choker, lock, link, queued, encoding, conn, shape, at,
                   saw, left, admitted, history, fgVars, pauses>>

\* No permit for IDLE_TIMEOUT: answer BUSY and go on.
PermitTimeout(k) ==
    /\ Served(k) /\ held[k] # NoReq /\ serves[k] >= MaxServes
    /\ st' = [st EXCEPT ![held[k]] = "replied"]
    /\ held' = [held EXCEPT ![k] = NoReq]
    /\ UNCHANGED <<now, choker, lock, link, permits, conn, shape, at, saw,
                   left, admitted, history, fgVars, pauses>>

-----------------------------------------------------------------------------
(* Handlers: the control plane, serve_range and serve_many.                *)

\* The handler's locals go out of scope.
Forget(r) ==
    /\ conn' = [conn EXCEPT ![r] = AnyConn]
    /\ shape' = [shape EXCEPT ![r] = AnyShape]
    /\ at' = [at EXCEPT ![r] = 0]
    /\ saw' = [saw EXCEPT ![r] = FALSE]
    /\ left' = [left EXCEPT ![r] = 0]
    /\ admitted' = [admitted EXCEPT ![r] = 0]

\* The handler of r ends in state s, letting go of its serve permit and of
\* the link: the last one to do so behind an ended loop frees the slot.
EndHandler(r, s) ==
    LET k == conn[r] IN
    /\ st' = [st EXCEPT ![r] = s]
    /\ Forget(r)
    /\ serves' = [serves EXCEPT ![k] = @ - 1]
    /\ link' = IF link[k] = "drain" /\ Handlers(k) = {r}
               THEN [link EXCEPT ![k] = "down"] ELSE link
    /\ UNCHANGED held

\* A request the governor does not see: the control plane, a bitfield or signed
\* record, a range over the caps, and notifications (which get no reply).
ServeControl(r) ==
    /\ st[r] = "gate" /\ shape[r].kind = "control"
    /\ \E s \in {"replied", "gone"} : EndHandler(r, s)
    /\ UNCHANGED <<now, choker, lock, queued, encoding, history, fgVars, pauses>>

\* The flag and the clock are read: before the lock by serve_range, before the
\* sizing pass (which awaits store IO) by serve_many.
ReadClock(r) ==
    /\ st[r] = "gate" /\ shape[r].kind # "control"
    /\ at' = [at EXCEPT ![r] = now]
    /\ saw' = [saw EXCEPT ![r] = flag]
    /\ st' = [st EXCEPT ![r] = "sized"]
    /\ UNCHANGED <<now, choker, lock, linkVars, permits, conn, shape, left,
                   admitted, history, fgVars, pauses>>

\* What a verdict on first-paint bytes adds to the second it was decided for.
Painted(r, verdict) ==
    IF verdict = "paint" \/ (verdict = "serve" /\ shape[r].kind # "bulk")
    THEN [paint EXCEPT ![at[r]] = @ + shape[r].size] ELSE paint

\* A ruling with an older reading than the last takes the bucket back to its
\* second, empty: what was admitted since is forgotten.
Overtaken(r) ==
    IF choker.paused THEN late
    ELSE late \cup {s \in 0 .. MaxTime : at[r] <= s /\ s <= choker.ts
                                        /\ at[r] < choker.ts}

\* serve_range: one decision, then the encode queue or a BUSY reply.
DecideRange(r) ==
    /\ st[r] = "sized" /\ shape[r].kind # "many" /\ LockFree
    /\ \E d \in Decide(choker, PeerOf[conn[r]], shape[r].size,
                       shape[r].kind = "page", saw[r], at[r]) :
          /\ choker' = d.choker
          /\ paint' = Painted(r, d.verdict)
          /\ late' = Overtaken(r)
          /\ IF d.verdict \in {"serve", "paint"}
             THEN /\ st' = [st EXCEPT ![r] = "queue"]
                  /\ UNCHANGED <<serves, linkVars, conn, shape, at, saw, left,
                                 admitted>>
             ELSE EndHandler(r, IF d.verdict = "choked" THEN "choked"
                                                        ELSE "replied")
    /\ UNCHANGED <<now, lock, queued, encoding, fgVars, pauses>>

\* The sizing pass itself fails: an error reply.
SizingFails(r) ==
    /\ st[r] = "sized" /\ shape[r].kind = "many"
    /\ EndHandler(r, "replied")
    /\ UNCHANGED <<now, choker, lock, queued, encoding, history, fgVars, pauses>>

\* admit_many reads the flag and takes the lock for the whole batch.
LockMany(r) ==
    /\ st[r] = "sized" /\ shape[r].kind = "many" /\ LockFree
    /\ lock' = r
    /\ st' = [st EXCEPT ![r] = "locked"]
    /\ saw' = [saw EXCEPT ![r] = flag]
    /\ UNCHANGED <<now, choker, linkVars, permits, conn, shape, at, left,
                   admitted, history, fgVars, pauses>>

\* One item of the batch.  The first refusal cuts it.
DecideItem(r) ==
    /\ st[r] = "locked" /\ left[r] > 0
    /\ \E d \in Decide(choker, PeerOf[conn[r]], shape[r].size, TRUE, saw[r],
                       at[r]) :
          /\ choker' = d.choker
          /\ paint' = Painted(r, d.verdict)
          /\ late' = Overtaken(r)
          /\ IF d.verdict \in {"serve", "paint"}
             THEN /\ left' = [left EXCEPT ![r] = @ - 1]
                  /\ admitted' = [admitted EXCEPT ![r] = @ + 1]
             ELSE left' = [left EXCEPT ![r] = 0] /\ UNCHANGED admitted
    /\ UNCHANGED <<now, lock, linkVars, permits, conn, shape, st, at, saw,
                   fgVars, pauses>>

\* The lock is let go.  Nothing admitted of something asked is a BUSY.
UnlockMany(r) ==
    /\ st[r] = "locked" /\ left[r] = 0
    /\ lock' = NoReq
    /\ IF admitted[r] = 0 /\ shape[r].items > 0
       THEN EndHandler(r, "replied")
       ELSE /\ st' = [st EXCEPT ![r] = "queue"]
            /\ UNCHANGED <<serves, linkVars, conn, shape, at, saw, left,
                           admitted>>
    /\ UNCHANGED <<now, choker, queued, encoding, history, fgVars, pauses>>

EnterQueue(r) ==
    /\ st[r] = "queue" /\ queued < MaxQueue
    /\ queued' = queued + 1
    /\ st' = [st EXCEPT ![r] = "encode"]
    /\ UNCHANGED <<now, choker, lock, linkVars, serves, encoding, conn, shape,
                   at, saw, left, admitted, history, fgVars, pauses>>

\* ENCODE_QUEUE_WAIT runs out.
QueueTimeout(r) ==
    /\ st[r] = "queue" /\ queued >= MaxQueue
    /\ EndHandler(r, "replied")
    /\ UNCHANGED <<now, choker, lock, queued, encoding, history, fgVars, pauses>>

TakeEncoder(r) ==
    /\ st[r] = "encode" /\ encoding < MaxEncode
    /\ encoding' = encoding + 1
    /\ st' = [st EXCEPT ![r] = "run"]
    /\ UNCHANGED <<now, choker, lock, linkVars, serves, queued, conn, shape,
                   at, saw, left, admitted, history, fgVars, pauses>>

\* Mutation: the queue permit is held for the connection's life.
FinishKeepsQueue(r) ==
    /\ st[r] = "run"
    /\ EndHandler(r, "replied")
    /\ encoding' = encoding - 1
    /\ UNCHANGED <<now, choker, lock, queued, history, fgVars, pauses>>

\* Mutation: an error path forgets the encode permit.
FinishKeepsEncoder(r) ==
    /\ st[r] = "run"
    /\ EndHandler(r, "replied")
    /\ queued' = queued - 1
    /\ UNCHANGED <<now, choker, lock, encoding, history, fgVars, pauses>>

\* The encode thread ends: everything sent, an error reply, or nobody left to
\* answer (cancelled by the peer, the lane closed).  The permits go with it.
Finish(r) ==
    /\ st[r] = "run"
    /\ \E s \in {"replied", "gone"} : EndHandler(r, s)
    /\ encoding' = encoding - 1
    /\ queued' = queued - 1
    /\ UNCHANGED <<now, choker, lock, history, fgVars, pauses>>

\* The peer stopped draining its lane: the link is shut down.
SendStalled(r) ==
    LET k == conn[r] IN
    /\ st[r] = "run"
    /\ st' = [st EXCEPT ![r] = "gone"]
    /\ Forget(r)
    /\ serves' = [serves EXCEPT ![k] = @ - 1]
    /\ link' = IF link[k] = "up" THEN [link EXCEPT ![k] = "cut"]
               ELSE IF link[k] = "drain" /\ Handlers(k) = {r}
               THEN [link EXCEPT ![k] = "down"] ELSE link
    /\ encoding' = encoding - 1
    /\ queued' = queued - 1
    /\ UNCHANGED <<now, choker, lock, held, history, fgVars, pauses>>

-----------------------------------------------------------------------------
(* The foreground flag, the other callers of the governor, and the clock.  *)

\* note_foreground_fetch: count first, then raise the flag on 0 -> 1.
StartPlaying(f) ==
    /\ player[f] = "out"
    /\ fetches' = fetches + 1
    /\ player' = [player EXCEPT ![f] = IF fetches = 0 THEN "raise" ELSE "in"]
    /\ UNCHANGED <<now, choker, lock, linkVars, permits, reqVars, history, flag,
                   pauses>>

Raise(f) ==
    /\ player[f] = "raise"
    /\ flag' = TRUE
    /\ player' = [player EXCEPT ![f] = "in"]
    /\ UNCHANGED <<now, choker, lock, linkVars, permits, reqVars, history,
                   fetches, pauses>>

\* The guard's drop: count first, then lower the flag on 1 -> 0.
StopPlaying(f) ==
    /\ player[f] = "in"
    /\ fetches' = fetches - 1
    /\ player' = [player EXCEPT ![f] = IF fetches = 1 THEN "lower" ELSE "out"]
    /\ UNCHANGED <<now, choker, lock, linkVars, permits, reqVars, history, flag,
                   pauses>>

Lower(f) ==
    /\ player[f] = "lower"
    /\ flag' = FALSE
    /\ player' = [player EXCEPT ![f] = "out"]
    /\ UNCHANGED <<now, choker, lock, linkVars, permits, reqVars, history,
                   fetches, pauses>>

\* RuntimeEdxFetcher::credit: a peer served us, over any link.
Credit(p) ==
    /\ LockFree /\ choker.acct[p].credit < MaxCredit
    /\ choker' \in CreditPeer(choker, p, 1, now)
    /\ UNCHANGED <<now, lock, linkVars, permits, reqVars, history, fgVars,
                   pauses>>

\* The mobile gate.
Pause ==
    /\ LockFree /\ (choker.paused \/ pauses < MaxPauses)
    /\ choker' = SetPaused(choker, ~choker.paused)
    /\ pauses' = IF choker.paused THEN pauses ELSE pauses + 1
    /\ UNCHANGED <<now, lock, linkVars, permits, reqVars, history, fgVars>>

\* A second passes.  No pending reading grows older than MaxLag.
Tick ==
    /\ now < MaxTime
    /\ \A r \in Reqs : st[r] \in {"sized", "locked"} => now - at[r] < MaxLag
    /\ now' = now + 1
    /\ paint' = [s \in 0 .. MaxTime |-> IF s + MaxLag <= now THEN 0 ELSE paint[s]]
    /\ UNCHANGED <<late, choker, lock, linkVars, permits, reqVars, fgVars, pauses>>

-----------------------------------------------------------------------------
Init ==
    /\ now = 0
    /\ choker = NewChoker
    /\ lock = NoReq
    /\ link = [k \in Conns |-> "down"]
    /\ held = [k \in Conns |-> NoReq]
    /\ serves = [k \in Conns |-> 0]
    /\ queued = 0 /\ encoding = 0
    /\ conn = [r \in Reqs |-> AnyConn]
    /\ shape = [r \in Reqs |-> AnyShape]
    /\ st = [r \in Reqs |-> "unsent"]
    /\ at = [r \in Reqs |-> 0] /\ saw = [r \in Reqs |-> FALSE]
    /\ left = [r \in Reqs |-> 0]
    /\ admitted = [r \in Reqs |-> 0]
    /\ paint = [s \in 0 .. MaxTime |-> 0] /\ late = {}
    /\ flag = FALSE /\ fetches = 0
    /\ player = [f \in Players |-> "out"]
    /\ pauses = 0

\* What the handler of r does by itself.
HandlerStep(r) ==
    \/ ServeControl(r) \/ ReadClock(r) \/ DecideRange(r)
    \/ SizingFails(r) \/ LockMany(r) \/ DecideItem(r) \/ UnlockMany(r)
    \/ EnterQueue(r) \/ QueueTimeout(r) \/ TakeEncoder(r)
    \/ Finish(r) \/ SendStalled(r)

LoopStep(k) == TakePermit(k) \/ PermitTimeout(k)

Next ==
    \/ \E k \in Conns :
          \/ HelloOk(k) \/ LinkCut(k) \/ Abort(k) \/ LoopEnds(k)
          \/ LoopStep(k)
          \/ \E r \in Reqs : Ignore(k, r) \/ \E s \in Shapes : Receive(k, r, s)
    \/ \E r \in Reqs : HandlerStep(r)
    \/ \E f \in Players :
          StartPlaying(f) \/ Raise(f) \/ StopPlaying(f) \/ Lower(f)
    \/ \E p \in Peers : Credit(p)
    \/ Pause
    \/ Tick

Spec == Init /\ [][Next]_vars

\* The runtime polls every task that can run: a loop holding a request gets a
\* permit or times out, a handler goes on, an encode ends (the send stall
\* deadline bounds it).  Nothing is assumed of the peers.
FairSpec ==
    /\ Spec
    /\ \A k \in Conns : WF_vars(LoopStep(k))
    /\ \A r \in Reqs : WF_vars(HandlerStep(r))

-----------------------------------------------------------------------------
Ended  == {"replied", "choked", "gone"}
States == {"unsent", "held"} \cup Handling \cup Ended

\* Every variable stays in its range: no permit count goes below zero.
TypeOK ==
    /\ now \in 0 .. MaxTime
    /\ choker \in Chokers
    /\ lock \in Reqs \cup {NoReq}
    /\ link \in [Conns -> {"down", "up", "cut", "drain"}]
    /\ held \in [Conns -> Reqs \cup {NoReq}]
    /\ serves \in [Conns -> Nat] /\ queued \in Nat /\ encoding \in Nat
    /\ conn \in [Reqs -> Conns] /\ shape \in [Reqs -> Shapes]
    /\ st \in [Reqs -> States]
    /\ at \in [Reqs -> 0 .. MaxTime] /\ saw \in [Reqs -> BOOLEAN]
    /\ left \in [Reqs -> Nat] /\ admitted \in [Reqs -> Nat]
    /\ paint \in [0 .. MaxTime -> Nat] /\ late \subseteq 0 .. MaxTime
    /\ flag \in BOOLEAN /\ fetches \in Nat
    /\ player \in [Players -> {"out", "raise", "in", "lower"}]
    /\ pauses \in Nat

\* A peer's account counts exactly its running serve loops, so no account
\* outlives its connections in the ranking and none is evicted under one.
ConnsPaired ==
    \A p \in Peers :
        choker.acct[p].conns = Cardinality({k \in Conns : PeerOf[k] = p
                                                          /\ Served(k)})

\* A clean cache never unchokes a peer that is not connected, and it never
\* holds more than the slots and the one optimistic peer.
CacheSound ==
    ~choker.dirty => /\ choker.unchoked \subseteq Connected(choker)
                     /\ Cardinality(choker.unchoked) <= UnchokeSlots + 1

\* The permit counters are what the handlers hold, and none passes its limit.
PermitsExact ==
    /\ \A k \in Conns : /\ serves[k] = Cardinality(Handlers(k))
                        /\ serves[k] <= MaxServes
    /\ queued = Cardinality(InQueue) /\ queued <= MaxQueue
    /\ encoding = Cardinality(Encoding) /\ encoding <= MaxEncode

\* "first-paint bytes bypass only the reciprocity choke, never the global cap":
\* what is admitted for one second fits the cap.  It fails (UploadCap.cfg).
CapHeld == \A s \in 0 .. MaxTime : paint[s] <= Cap

\* As far as the code keeps it: what decide admits for a second fits the cap
\* unless a ruling with an older clock reading went back over that second.
CapHeldInOrder == \A s \in (0 .. MaxTime) \ late : paint[s] <= Cap

\* Request r of a connected peer is refused for want of reciprocity.
ChokesConnected(r) ==
    /\ st[r] # "choked" /\ st'[r] = "choked"
    /\ choker.acct[PeerOf[conn[r]]].conns > 0

\* decide chokes a connected peer only when every general slot is given to
\* another one, unless a ruling with an older reading went back over a second
\* of the epoch the cached set is of.
ChokedOnlyUnderContention ==
    [][\A r \in Reqs :
          ChokesConnected(r) /\ (\A s \in late' : s \div Rotate # choker'.epoch)
          => Cardinality(choker'.unchoked) >= UnchokeSlots - OverlaySlots]_vars

\* "With fewer competing peers than slots, nobody is ever choked": a connected
\* peer is choked only when more connected peers were active, as of the clock
\* reading of the ruling, than there are general slots.  It fails
\* (UploadChoke.cfg).
ChokedOnlyIfOutnumbered ==
    [][\A r \in Reqs : ChokesConnected(r) =>
          Cardinality({p \in Connected(choker') :
                          RecentlyActive(choker'.acct[p], at[r])})
             > UnchokeSlots - OverlaySlots]_vars

\* A request the loop took is answered, or its connection is gone.
Answered ==
    \A r \in Reqs :
        st[r] = "held" ~> st[r] \in Ended
=============================================================================
