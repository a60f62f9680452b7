------------------------------- MODULE Choker -------------------------------
(***************************************************************************)
(* The upload governor (crates/epix-edx/src/choke.rs): who is sent bulk    *)
(* data.  The Choker is one struct behind one mutex, so its state is one   *)
(* record and each method is an operator from that record, its arguments   *)
(* and the clock value the caller read to the record it leaves.            *)
(* Eviction breaks ties by hash order: an operator that may evict returns  *)
(* the set of records it can leave.                                        *)
(***************************************************************************)
EXTENDS Integers, FiniteSets

CONSTANTS
    Peers,          \* node keys, as naturals (the ranking's last tie-break)
    Cap,            \* global_cap_bps
    FreeBytes,      \* FIRST_PAINT_FREE_BYTES
    FreeWindow,     \* FIRST_PAINT_WINDOW_SECS
    MaxTracked,     \* MAX_TRACKED_PEERS
    IdleEvict,      \* PEER_IDLE_EVICT_SECS
    UnchokeSlots,   \* UNCHOKE_SLOTS
    OverlaySlots,   \* OVERLAY_RESERVED_SLOTS
    Rotate,         \* OPTIMISTIC_ROTATE_SECS
    ActiveWindow    \* ACTIVE_WINDOW_SECS

ASSUME ChokerAssumption ==
    /\ Peers \subseteq Nat /\ IsFiniteSet(Peers)
    /\ Cap \in Nat /\ FreeBytes \in Nat /\ FreeWindow \in Nat
    /\ MaxTracked \in Nat \ {0} /\ IdleEvict \in Nat
    /\ UnchokeSlots \in Nat /\ OverlaySlots \in 0 .. UnchokeSlots
    /\ Rotate \in Nat \ {0} /\ ActiveWindow \in Nat

Never == -1     \* last_activity: None

Reaches  == {"clearnet", "overlay"}
Accounts == [credit : Nat,          \* served_to_us
             served : Nat,          \* served_by_us
             free : Nat, freeStart : Nat,
             seen : Nat, reach : Reaches, conns : Nat,
             active : Nat \cup {Never}]

Blank == [credit |-> 0, served |-> 0, free |-> 0, freeStart |-> 0, seen |-> 0,
          reach |-> "clearnet", conns |-> 0, active |-> Never]

Chokers == [tracked : SUBSET Peers, acct : [Peers -> Accounts],
            bytes : Nat, ts : Nat,              \* the per-second bucket
            paused : BOOLEAN,
            unchoked : SUBSET Peers, epoch : Nat, dirty : BOOLEAN]

NewChoker == [tracked |-> {}, acct |-> [p \in Peers |-> Blank],
              bytes |-> 0, ts |-> 0, paused |-> FALSE,
              unchoked |-> {}, epoch |-> 0, dirty |-> TRUE]

\* saturating_sub of two clock readings.
Since(now, t) == IF now >= t THEN now - t ELSE 0

Connected(c) == {p \in c.tracked : c.acct[p].conns > 0}

RecentlyActive(a, now) == a.active # Never /\ Since(now, a.active) <= ActiveWindow

-----------------------------------------------------------------------------
(* The account table.                                                      *)

\* Mutation: evict by value alone, connected or not.
KeptByValue(c, now) ==
    IF Cardinality(c.tracked) < MaxTracked THEN {c.tracked}
    ELSE {c.tracked \ {q} : q \in {q \in c.tracked : \A r \in c.tracked :
                                      c.acct[q].credit <= c.acct[r].credit}}

\* evict: what is left of the table once room is made.  Long-idle accounts go
\* first, then the least valuable ones, never a connected one.
Kept(c, now) ==
    IF Cardinality(c.tracked) < MaxTracked THEN {c.tracked}
    ELSE LET warm  == {q \in c.tracked : \/ c.acct[q].conns > 0
                                         \/ Since(now, c.acct[q].seen) < IdleEvict}
             spare == {q \in warm : c.acct[q].conns = 0}
             Worse(q, r) ==
                 \/ c.acct[q].credit < c.acct[r].credit
                 \/ /\ c.acct[q].credit = c.acct[r].credit
                    /\ c.acct[q].seen <= c.acct[r].seen
             Evictable(out) ==
                 /\ \A q \in out, r \in spare \ out : Worse(q, r)
                 /\ \/ Cardinality(warm \ out) = MaxTracked - 1
                    \/ out = {} /\ Cardinality(warm) < MaxTracked
                    \/ out = spare /\ Cardinality(warm \ out) >= MaxTracked
         IN  {warm \ out : out \in {o \in SUBSET spare : Evictable(o)}}

\* touch: get or create the account, stamp it seen.
Touched(c, p, now) ==
    IF p \in c.tracked
    THEN {[c EXCEPT !.acct[p].seen = now]}
    ELSE {[c EXCEPT !.tracked = kept \cup {p},
                    !.acct = [q \in Peers |->
                        IF q = p THEN [Blank EXCEPT !.freeStart = now,
                                                    !.seen = now]
                        ELSE IF q \in kept THEN c.acct[q] ELSE Blank],
                    !.dirty = TRUE] : kept \in Kept(c, now)}

NoteConnected(c, p, reach, now) ==
    {[t EXCEPT !.acct[p].reach = reach, !.acct[p].conns = @ + 1,
               !.dirty = TRUE] : t \in Touched(c, p, now)}

\* Mutation: leave the cached set alone, the slot will rotate anyway.
DisconnectKeepsCache(c, p, now) ==
    {[t EXCEPT !.acct[p].conns = IF @ = 0 THEN 0 ELSE @ - 1] :
        t \in Touched(c, p, now)}

NoteDisconnected(c, p, now) ==
    {[t EXCEPT !.acct[p].conns = IF @ = 0 THEN 0 ELSE @ - 1,
               !.dirty = TRUE] : t \in Touched(c, p, now)}

CreditPeer(c, p, bytes, now) ==
    {[t EXCEPT !.acct[p].credit = @ + bytes, !.acct[p].active = now,
               !.dirty = TRUE] : t \in Touched(c, p, now)}

SetPaused(c, on) == [c EXCEPT !.paused = on]

-----------------------------------------------------------------------------
(* The unchoke set.                                                        *)

\* The best n members of S in the strict order `before'.
Best(S, n, before(_, _)) ==
    {p \in S : Cardinality({q \in S : before(q, p)}) < n}

\* rebuild_unchoked: reserved overlay slots, general slots by rank, and one
\* optimistic slot that rotates over every connected peer.
RebuildUnchoked(c, epoch, now) ==
    LET ranked == {p \in Connected(c) : RecentlyActive(c.acct[p], now)}
        Before(p, q) ==
            LET a == c.acct[p]  b == c.acct[q] IN
            \/ a.credit > b.credit
            \/ a.credit = b.credit /\ a.served < b.served
            \/ a.credit = b.credit /\ a.served = b.served /\ p < q
        ByKey(p, q) == p < q
        overlay == Best({p \in ranked : c.acct[p].reach = "overlay"},
                        OverlaySlots, Before)
        general == Best(ranked \ overlay, UnchokeSlots - OverlaySlots, Before)
        n       == Cardinality(Connected(c))
        optimistic ==
            {p \in Connected(c) :
                Cardinality({q \in Connected(c) : ByKey(q, p)}) = epoch % n}
    IN  [c EXCEPT !.unchoked = overlay \cup general \cup optimistic,
                  !.epoch = epoch, !.dirty = FALSE]

\* is_unchoked: the cached set, rebuilt when it is dirty or of another epoch.
Refreshed(c, now) ==
    IF c.dirty \/ now \div Rotate # c.epoch
    THEN RebuildUnchoked(c, now \div Rotate, now) ELSE c

-----------------------------------------------------------------------------
(* decide.                                                                 *)

\* foreground_yield_num is 64/256ths.
EffectiveCap(foreground) == IF foreground THEN (Cap * 64) \div 256 ELSE Cap

\* Mutation: stamp the activity and leave the cached set as it is.
StampQuietly(c, p, now) ==
    [c EXCEPT !.acct[p].active = now]

\* Every request is activity.  The ranking changes only when it wakes a peer.
StampActive(c, p, now) ==
    [c EXCEPT !.dirty = @ \/ ~RecentlyActive(c.acct[p], now),
              !.acct[p].active = now]

RollBucket(c, now) ==
    IF now # c.ts THEN [c EXCEPT !.ts = now, !.bytes = 0] ELSE c

RollWindow(c, p, now) ==
    IF Since(now, c.acct[p].freeStart) >= FreeWindow
    THEN [c EXCEPT !.acct[p].freeStart = now, !.acct[p].free = 0]
    ELSE c

\* The first-paint exemption: within the peer's free budget.
FirstPaint(c, p, bytes) ==
    [c EXCEPT !.bytes = @ + bytes, !.acct[p].free = @ + bytes]

Serve(c, p, bytes, firstPaint, now) ==
    [c EXCEPT !.bytes = IF firstPaint THEN @ + bytes ELSE @,
              !.acct[p].served = @ + bytes, !.acct[p].seen = now]

ByReciprocity(c, p, bytes, firstPaint, now) ==
    LET r == Refreshed(c, now) IN
    IF p \in r.unchoked
    THEN [verdict |-> "serve", choker |-> Serve(r, p, bytes, firstPaint, now)]
    ELSE [verdict |-> "choked", choker |-> r]

\* Mutation: the free budget is spent without the global bucket.
DecideWithoutBucket(c, p, bytes, firstPaint, foreground, now) ==
    {LET s == RollBucket(StampActive(t, p, now), now)
         w == RollWindow(s, p, now)
     IN  IF firstPaint /\ w.acct[p].free + bytes <= FreeBytes
         THEN [verdict |-> "paint", choker |-> FirstPaint(w, p, bytes)]
         ELSE ByReciprocity(s, p, bytes, firstPaint, now)
     : t \in Touched(c, p, now)}

Decide(c, p, bytes, firstPaint, foreground, now) ==
    IF c.paused THEN {[verdict |-> "throttled", choker |-> c]}
    ELSE {LET s == RollBucket(StampActive(t, p, now), now)
              w == RollWindow(s, p, now)
          IN  IF ~firstPaint THEN ByReciprocity(s, p, bytes, firstPaint, now)
              ELSE IF s.bytes + bytes > EffectiveCap(foreground)
              THEN [verdict |-> "throttled", choker |-> s]
              ELSE IF w.acct[p].free + bytes <= FreeBytes
              THEN [verdict |-> "paint", choker |-> FirstPaint(w, p, bytes)]
              ELSE ByReciprocity(w, p, bytes, firstPaint, now)
          : t \in Touched(c, p, now)}
=============================================================================
