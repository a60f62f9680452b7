----------------------------- MODULE SlabStore ------------------------------
(***************************************************************************)
(* The slab half of the object store (crates/epix-blob/src/store.rs):      *)
(* complete small objects packed into append-only slab files, an index of  *)
(* records and slab metadata in transactions, eviction, compaction, and    *)
(* the reconciliation of both after a crash.                               *)
(*                                                                         *)
(* A write transaction is one step.  Everything else a method does is a    *)
(* step of its own, of one of several threads: what a method read earlier  *)
(* may be stale when it acts on it.  Sizes are in objects: a slab file is  *)
(* the sequence of the objects appended to it, an offset an index into it. *)
(* LRU stamps only choose the victims of an eviction, so that choice is    *)
(* open.  The sparse half appears as far as it changes records: an         *)
(* incomplete object ("part") and one that is a file of a xite ("extern"). *)
(***************************************************************************)
EXTENDS Integers, Sequences

CONSTANTS
    Objs,       \* object ids (content hashes)
    Junk,       \* what a torn append leaves; also "no object"
    Threads,    \* threads inside the store
    NoThread,
    SealLen,    \* slab_seal_bytes
    DeadNum,    \* compact_dead_num, in 256ths
    MaxSlab,    \* bound: the last slab id
    MaxCalls,   \* bound: method calls
    MaxCrashes, \* bound: crashes
    MaxLosses   \* bound: crashes that lose synced bytes

Slabs == 0 .. MaxSlab

ASSUME SlabAssumption ==
    /\ Junk \notin Objs /\ NoThread \notin Threads
    /\ SealLen \in Nat \ {0} /\ DeadNum \in Nat
    /\ MaxSlab \in Nat /\ MaxCalls \in Nat
    /\ MaxCrashes \in Nat /\ MaxLosses \in Nat

VARIABLES
    \* --- on disk ---
    rec,        \* the OBJECTS table
    meta,       \* the SLABS table
    file,       \* file[s]: contents of slab file s, <<>> when there is none
    \* --- in memory ---
    up,         \* "down", "opening" (inside open_with) or "up"
    open,       \* open_slab: the slab appended to and its tracked length
    lock,       \* the thread holding the open_slab mutex
    held,       \* evict_holds
    th,         \* th[t]: the method thread t is in, and its locals
    \* --- history and bounds ---
    pinned,     \* objects whose owner pinned them and has not let go
    calls, crashes, losses

disk   == <<rec, meta, file>>
mem    == <<open, lock, held>>
bounds == <<calls, crashes, losses>>
vars   == <<disk, up, mem, th, pinned, bounds>>

Kinds   == {"none", "part", "extern", "slab"}
Records == [kind : Kinds, slab : Slabs, off : Nat, ref : Nat]
NoRec   == [kind |-> "none", slab |-> 0, off |-> 0, ref |-> 0]
Part    == [NoRec EXCEPT !.kind = "part"]
Extern(n)       == [kind |-> "extern", slab |-> 0, off |-> 0, ref |-> n]
InSlab(s, i, n) == [kind |-> "slab", slab |-> s, off |-> i, ref |-> n]

Metas   == [there : BOOLEAN, len : Nat, dead : Nat, sealed : BOOLEAN]
NoMeta  == [there |-> FALSE, len |-> 0, dead |-> 0, sealed |-> FALSE]
NewMeta == [NoMeta EXCEPT !.there = TRUE]

PCs  == {"idle", "append", "insert_commit", "remove", "delete", "recheck",
         "evict", "scan", "collect", "pick", "move", "move_commit", "unlink",
         "read", "check", "retire"}
\* An object of the slab a compaction works on, and its offset there.
Entries == [obj : Objs \cup {Junk}, off : Nat]
NoEntry == [obj |-> Junk, off |-> 0]
Idle == [pc |-> "idle", obj |-> Junk, ins |-> FALSE, at |-> NoRec,
         todo |-> {}, slab |-> 0, live |-> {}, was |-> NoEntry,
         cell |-> Junk, cand |-> {}]
Locals == [pc : PCs, obj : Objs \cup {Junk}, ins : BOOLEAN, at : Records,
           todo : SUBSET Slabs, slab : Slabs, live : SUBSET Entries,
           was : Entries, cell : Objs \cup {Junk}, cand : SUBSET Objs]

\* A caller enters the store.
Call == up = "up" /\ calls < MaxCalls /\ calls' = calls + 1
         /\ UNCHANGED <<crashes, losses>>

Running(t, p) == up = "up" /\ th[t].pc = p
Goto(t, p)    == th' = [th EXCEPT ![t] = [@ EXCEPT !.pc = p]]
Return(t)     == th' = [th EXCEPT ![t] = Idle]

\* read_slab succeeds: the file is there and long enough.
Readable(s, i) == i < Len(file[s])

\* The bytes of a record that goes away are booked dead in their slab.
BookDead(r) ==
    meta' = IF r.kind = "slab" /\ meta[r.slab].there
            THEN [meta EXCEPT ![r.slab].dead = @ + 1] ELSE meta

-----------------------------------------------------------------------------
(* Appending: insert_bytes and the moves of a compaction.                  *)

\* insert_bytes: a complete object is left alone.
InsertCheck(t, o) ==
    /\ Call /\ Running(t, "idle")
    /\ rec[o].kind \in {"none", "part"}
    /\ th' = [th EXCEPT ![t] =
                [@ EXCEPT !.obj = o, !.ins = TRUE,
                          !.pc = IF rec[o].kind = "none" THEN "append"
                                                         ELSE "remove"]]
    /\ UNCHANGED <<disk, up, mem, pinned>>

\* After the incomplete record was retired: give way if there is one again.
InsertRecheck(t) ==
    /\ Running(t, "recheck")
    /\ IF rec[th[t].obj].kind = "none" THEN Goto(t, "append") ELSE Return(t)
    /\ UNCHANGED <<disk, up, mem, pinned, bounds>>

\* Mutation: a failed append leaves what it wrote behind the tracked end.
AppendLeavingTail(t, bytes, commit) ==
    /\ lock = NoThread
    /\ open.slab < MaxSlab \/ open.len + 1 < SealLen
    /\ \/ /\ lock' = t
          /\ file' = [file EXCEPT ![open.slab] = Append(@, bytes)]
          /\ Goto(t, commit)
       \/ /\ Return(t)
          /\ file' = [file EXCEPT ![open.slab] = Append(@, Junk)]
          /\ UNCHANGED lock
    /\ UNCHANGED <<rec, meta, up, open, held, pinned, bounds>>

\* Under the slab lock: append and sync.  A failed append is shrunk back.
Append1(t, bytes, commit) ==
    /\ lock = NoThread
    /\ open.slab < MaxSlab \/ open.len + 1 < SealLen
    /\ \/ /\ lock' = t
          /\ file' = [file EXCEPT ![open.slab] = Append(@, bytes)]
          /\ Goto(t, commit)
       \/ /\ Return(t)
          /\ UNCHANGED <<lock, file>>
    /\ UNCHANGED <<rec, meta, up, open, held, pinned, bounds>>

InsertAppend(t) == Running(t, "append") /\ Append1(t, th[t].obj, "insert_commit")
MoveAppend(t)   == Running(t, "move") /\ Append1(t, th[t].cell, "move_commit")

\* The slab's part of a commit: its length grows over the appended bytes, and
\* at the limit it is sealed and the next one opened.
GrowSlab(wasted) ==
    LET s == open.slab
        m == [meta[s] EXCEPT !.len = open.len + 1,
                             !.dead = IF wasted THEN @ + 1 ELSE @]
    IN  IF m.len >= SealLen
        THEN /\ meta' = [meta EXCEPT ![s] = [m EXCEPT !.sealed = TRUE],
                                     ![s + 1] = NewMeta]
             /\ open' = [slab |-> s + 1, len |-> 0]
        ELSE /\ meta' = [meta EXCEPT ![s] = m]
             /\ open' = [slab |-> s, len |-> m.len]

InsertCommit(t) ==
    /\ Running(t, "insert_commit")
    /\ rec' = [rec EXCEPT ![th[t].obj] = InSlab(open.slab, open.len, 0)]
    /\ GrowSlab(FALSE)
    /\ lock' = NoThread
    /\ Return(t)
    /\ UNCHANGED <<file, up, held, pinned, bounds>>

-----------------------------------------------------------------------------
(* Deleting: remove, delete_object, delete_if_unreferenced.                *)

\* remove by a caller: it lets go of the object.
RemoveStart(t, o) ==
    /\ Call /\ Running(t, "idle") /\ rec[o].kind # "none"
    /\ th' = [th EXCEPT ![t] = [@ EXCEPT !.pc = "delete", !.obj = o,
                                         !.at = rec[o]]]
    /\ pinned' = pinned \ {o}
    /\ UNCHANGED <<disk, up, mem>>

\* remove inside insert_bytes and revalidate.
RemoveRead(t) ==
    /\ Running(t, "remove")
    /\ IF rec[th[t].obj].kind = "none"
       THEN IF th[t].ins THEN Goto(t, "recheck") ELSE Return(t)
       ELSE th' = [th EXCEPT ![t] = [@ EXCEPT !.pc = "delete",
                                              !.at = rec[th[t].obj]]]
    /\ UNCHANGED <<disk, up, mem, pinned, bounds>>

\* delete_object, with the record as it was read.  A sparse decode in flight
\* makes it skip the object.
Delete(t) ==
    /\ Running(t, "delete")
    /\ \/ /\ rec' = [rec EXCEPT ![th[t].obj] = NoRec]
          /\ BookDead(th[t].at)
       \/ /\ rec[th[t].obj].kind = "part"
          /\ UNCHANGED <<rec, meta>>
    /\ Goto(t, "scan")
    /\ UNCHANGED <<file, up, mem, pinned, bounds>>

\* evict_lru lists its candidates.
EvictScan(t) ==
    /\ Call /\ Running(t, "idle")
    /\ th' = [th EXCEPT ![t] =
                [@ EXCEPT !.pc = "evict",
                          !.cand = {o \in Objs : /\ rec[o].kind \in {"part", "slab"}
                                                 /\ rec[o].ref = 0}]]
    /\ UNCHANGED <<disk, up, mem, pinned>>

\* Mutation: the scan already looked at the reference count and the holds.
EvictTrustingScan(t, o) ==
    /\ Running(t, "evict") /\ o \in th[t].cand
    /\ th' = [th EXCEPT ![t] = [@ EXCEPT !.cand = th[t].cand \ {o}]]
    /\ rec' = [rec EXCEPT ![o] = NoRec]
    /\ BookDead(rec[o])
    /\ UNCHANGED <<file, up, mem, pinned, bounds>>

\* delete_if_unreferenced decides and deletes in one transaction.
EvictOne(t, o) ==
    /\ Running(t, "evict") /\ o \in th[t].cand
    /\ th' = [th EXCEPT ![t] = [@ EXCEPT !.cand = th[t].cand \ {o}]]
    /\ \/ /\ rec[o].kind \in {"part", "slab"} /\ rec[o].ref = 0
          /\ o \notin held
          /\ rec' = [rec EXCEPT ![o] = NoRec]
          /\ BookDead(rec[o])
       \/ /\ \/ rec[o].kind \in {"none", "extern", "part"}
             \/ rec[o].ref > 0 \/ o \in held
          /\ UNCHANGED <<rec, meta>>
    /\ UNCHANGED <<file, up, mem, pinned, bounds>>

\* Enough is freed, or nothing is left to try.
EvictDone(t) ==
    /\ Running(t, "evict")
    /\ th' = [th EXCEPT ![t] = [@ EXCEPT !.pc = "scan", !.cand = {}]]
    /\ UNCHANGED <<disk, up, mem, pinned, bounds>>

-----------------------------------------------------------------------------
(* Compaction.                                                             *)

\* The method the compaction ran at the end of goes on.
Compacted(t) ==
    IF th[t].ins
    THEN th' = [th EXCEPT ![t] = [Idle EXCEPT !.pc = "recheck", !.ins = TRUE,
                                              !.obj = th[t].obj]]
    ELSE Return(t)

\* compact_if_worthwhile: the sealed slabs that are dead enough.
Worthwhile ==
    {s \in Slabs : /\ meta[s].there /\ meta[s].sealed /\ meta[s].len > 0
                   /\ meta[s].dead * 256 >= meta[s].len * DeadNum}

CompactScan(t) ==
    /\ Running(t, "scan")
    /\ IF Worthwhile = {} THEN Compacted(t)
       ELSE th' = [th EXCEPT ![t] = [@ EXCEPT !.pc = "collect",
                                              !.todo = Worthwhile]]
    /\ UNCHANGED <<disk, up, mem, pinned, bounds>>

\* The objects of slab s, as the index has them now.
LiveIn(s) == {[obj |-> o, off |-> rec[o].off] :
                 o \in {p \in Objs : rec[p].kind = "slab" /\ rec[p].slab = s}}

CompactCollect(t, s) ==
    /\ Running(t, "collect")
    /\ s \in th[t].todo /\ \A v \in th[t].todo : s <= v
    /\ th' = [th EXCEPT ![t] = [@ EXCEPT !.pc = "pick", !.slab = s,
                                         !.todo = th[t].todo \ {s},
                                         !.live = LiveIn(s), !.at = NoRec]]
    /\ UNCHANGED <<disk, up, mem, pinned, bounds>>

\* Read the next object where the listing found it.  A failed read ends the
\* method with an error.
MoveRead(t, e) ==
    /\ Running(t, "pick") /\ e \in th[t].live
    /\ IF Readable(th[t].slab, e.off)
       THEN th' = [th EXCEPT ![t] =
                     [@ EXCEPT !.pc = "move", !.live = th[t].live \ {e},
                               !.was = e,
                               !.cell = file[th[t].slab][e.off + 1]]]
       ELSE Return(t)
    /\ UNCHANGED <<disk, up, mem, pinned, bounds>>

\* The object is still where the listing found it.
Unmoved(t) ==
    LET r == rec[th[t].was.obj] IN
    r.kind = "slab" /\ r.slab = th[t].slab /\ r.off = th[t].was.off

\* Mutation: the listed record is written back with its new place.
MoveCommitBlind(t) ==
    /\ Running(t, "move_commit")
    /\ rec' = [rec EXCEPT ![th[t].was.obj] = InSlab(open.slab, open.len, 0)]
    /\ GrowSlab(FALSE)
    /\ lock' = NoThread
    /\ th' = [th EXCEPT ![t] = [@ EXCEPT !.pc = "pick", !.was = NoEntry,
                                         !.cell = Junk]]
    /\ UNCHANGED <<file, up, held, pinned, bounds>>

\* Only the place of the record changes, and only if the object has not been
\* moved, replaced or removed since: else the copy is dead bytes.
MoveCommit(t) ==
    /\ Running(t, "move_commit")
    /\ rec' = IF Unmoved(t)
              THEN [rec EXCEPT ![th[t].was.obj] =
                      [@ EXCEPT !.slab = open.slab, !.off = open.len]]
              ELSE rec
    /\ GrowSlab(~Unmoved(t))
    /\ lock' = NoThread
    /\ th' = [th EXCEPT ![t] = [@ EXCEPT !.pc = "pick", !.was = NoEntry,
                                         !.cell = Junk]]
    /\ UNCHANGED <<file, up, held, pinned, bounds>>

\* Every live object moved: the slab leaves the index, then the disk.
DropSlab(t) ==
    /\ Running(t, "pick") /\ th[t].live = {}
    /\ meta' = [meta EXCEPT ![th[t].slab] = NoMeta]
    /\ Goto(t, "unlink")
    /\ UNCHANGED <<rec, file, up, mem, pinned, bounds>>

UnlinkSlab(t) ==
    /\ Running(t, "unlink")
    /\ file' = [file EXCEPT ![th[t].slab] = <<>>]
    /\ IF th[t].todo = {} THEN Compacted(t) ELSE Goto(t, "collect")
    /\ UNCHANGED <<rec, meta, up, mem, pinned, bounds>>

-----------------------------------------------------------------------------
(* Reading: read_bytes, read_range and encode_slice, and revalidate.       *)

ReadStart(t, o, how) ==
    /\ Call /\ Running(t, "idle")
    /\ rec[o].kind = "slab" \/ (how = "check" /\ rec[o].kind # "none")
    /\ th' = [th EXCEPT ![t] = [@ EXCEPT !.pc = how, !.obj = o,
                                         !.at = rec[o]]]
    /\ UNCHANGED <<disk, up, mem, pinned>>

\* The slab file is opened only now.
ReadSlab(t) ==
    /\ Running(t, "read")
    /\ Return(t)
    /\ UNCHANGED <<disk, up, mem, pinned, bounds>>

\* revalidate: slab bytes that are gone or wrong retire the record, and so may
\* the state of the files an incomplete or an external object has elsewhere.
Revalidate(t) ==
    /\ Running(t, "check")
    /\ LET r == th[t].at IN
       \/ /\ r.kind = "slab"
          /\ IF Readable(r.slab, r.off) /\ file[r.slab][r.off + 1] = th[t].obj
             THEN Return(t)
             ELSE Goto(t, "remove")
       \/ r.kind = "part" /\ (Return(t) \/ Goto(t, "remove"))
       \/ r.kind = "extern" /\ (Return(t) \/ Goto(t, "retire"))
    /\ UNCHANGED <<disk, up, mem, pinned, bounds>>

\* retire_extern deletes whatever record the object has by now.
RetireExtern(t) ==
    /\ Running(t, "retire")
    /\ rec' = [rec EXCEPT ![th[t].obj] = NoRec]
    /\ Return(t)
    /\ UNCHANGED <<meta, file, up, mem, pinned, bounds>>

-----------------------------------------------------------------------------
(* One-transaction methods.                                                *)

\* pin: at least one reference.
Pin(o) ==
    /\ Call /\ rec[o].kind # "none"
    /\ rec' = [rec EXCEPT ![o].ref = IF @ = 0 THEN 1 ELSE @]
    /\ pinned' = pinned \cup {o}
    /\ UNCHANGED <<meta, file, up, mem, th>>

\* Mutation: the reference is dropped without a floor.
UnpinUnchecked(o) ==
    /\ Call /\ rec[o].kind # "none"
    /\ rec' = [rec EXCEPT ![o].ref = @ - 1]
    /\ pinned' = pinned \ {o}
    /\ UNCHANGED <<meta, file, up, mem, th>>

\* ref_delta(-1), the only delta its callers use.
Unpin(o) ==
    /\ Call /\ rec[o].kind # "none"
    /\ rec' = [rec EXCEPT ![o].ref = IF @ = 0 THEN 0 ELSE @ - 1]
    /\ pinned' = pinned \ {o}
    /\ UNCHANGED <<meta, file, up, mem, th>>

Hold(o) ==
    /\ Call /\ o \notin held
    /\ held' = held \cup {o}
    /\ UNCHANGED <<disk, up, open, lock, th, pinned>>

DropHold(o) ==
    /\ o \in held
    /\ held' = held \ {o}
    /\ UNCHANGED <<disk, up, open, lock, th, pinned, bounds>>

\* The insert-if-absent of ensure_sparse.
EnsureSparse(o) ==
    /\ Call /\ rec[o].kind = "none"
    /\ rec' = [rec EXCEPT ![o] = Part]
    /\ UNCHANGED <<meta, file, up, mem, th, pinned>>

\* commit_extern keeps the references and books a slab copy dead.
CommitExtern(o) ==
    /\ Call /\ rec[o].kind # "extern"
    /\ rec' = [rec EXCEPT ![o] = Extern(rec[o].ref)]
    /\ BookDead(rec[o])
    /\ UNCHANGED <<file, up, mem, th, pinned>>

-----------------------------------------------------------------------------
(* Crashes, and open_with.                                                 *)

\* What the open slab may hold after a crash: an append under way is there, is
\* torn, or is not there at all.
Crashed(f) ==
    \/ f = file
    \/ /\ lock # NoThread
       /\ \E tail \in {<<>>, <<Junk>>} :
             f = [file EXCEPT ![open.slab] =
                     SubSeq(@, 1, Len(@) - 1) \o tail]

Crash ==
    /\ up # "down" /\ crashes < MaxCrashes
    /\ crashes' = crashes + 1
    /\ up' = "down" /\ lock' = NoThread /\ held' = {}
    /\ th' = [t \in Threads |-> Idle]
    /\ \/ Crashed(file') /\ UNCHANGED losses
       \/ /\ losses < MaxLosses /\ losses' = losses + 1
          /\ \E s \in Slabs : \E n \in 0 .. Len(file[s]) :
                file' = [file EXCEPT ![s] = SubSeq(@, 1, n)]
    /\ UNCHANGED <<rec, meta, open, pinned, calls>>

\* One more than the last slab of the index.
IsNext(n) == \/ n = 0 /\ \A s \in Slabs : ~meta[s].there
             \/ n > 0 /\ meta[n - 1].there
                      /\ \A s \in Slabs : s >= n => ~meta[s].there

Unsealed == {s \in Slabs : meta[s].there /\ ~meta[s].sealed}

\* The first transaction: the newest unsealed slab, or a new one.
OpenIndex ==
    /\ up = "down"
    /\ up' = "opening"
    /\ \/ \E s \in Unsealed :
             /\ \A v \in Unsealed : v <= s
             /\ open' = [slab |-> s, len |-> meta[s].len]
             /\ UNCHANGED meta
       \/ /\ Unsealed = {}
          /\ \E n \in Slabs : /\ IsNext(n)
                              /\ meta' = [meta EXCEPT ![n] = NewMeta]
                              /\ open' = [slab |-> n, len |-> 0]
    /\ UNCHANGED <<rec, file, lock, held, th, pinned, bounds>>

\* Slab files longer than their indexed length are cut back to it.
Truncated ==
    [s \in Slabs |-> IF meta[s].there /\ Len(file[s]) > meta[s].len
                     THEN SubSeq(file[s], 1, meta[s].len) ELSE file[s]]

\* Mutation: trust the files, the index is what is synced last.
ReconcileNothing ==
    /\ up = "opening"
    /\ up' = "up"
    /\ UNCHANGED <<disk, mem, th, pinned, bounds>>

\* Mutation: a short open slab is left to fail its reads like any other.
ReconcileUnsealed ==
    /\ up = "opening"
    /\ up' = "up"
    /\ file' = Truncated
    /\ UNCHANGED <<rec, meta, mem, th, pinned, bounds>>

\* An open slab that lost committed bytes is sealed and a fresh one opened.
Reconcile ==
    /\ up = "opening"
    /\ up' = "up"
    /\ file' = Truncated
    /\ IF Len(file[open.slab]) >= open.len THEN UNCHANGED <<meta, open>>
       ELSE \E n \in Slabs :
              /\ IsNext(n)
              /\ meta' = [meta EXCEPT ![open.slab] = [@ EXCEPT !.sealed = TRUE],
                                      ![n] = NewMeta]
              /\ open' = [slab |-> n, len |-> 0]
    /\ UNCHANGED <<rec, lock, held, th, pinned, bounds>>

-----------------------------------------------------------------------------
\* A store that has never been opened.
Init ==
    /\ rec = [o \in Objs |-> NoRec]
    /\ meta = [s \in Slabs |-> NoMeta]
    /\ file = [s \in Slabs |-> <<>>]
    /\ up = "down" /\ open = [slab |-> 0, len |-> 0]
    /\ lock = NoThread /\ held = {}
    /\ th = [t \in Threads |-> Idle]
    /\ pinned = {} /\ calls = 0 /\ crashes = 0 /\ losses = 0

ThreadStep(t) ==
    \/ \E o \in Objs :
          \/ InsertCheck(t, o) \/ RemoveStart(t, o) \/ EvictOne(t, o)
          \/ \E how \in {"read", "check"} : ReadStart(t, o, how)
    \/ InsertRecheck(t) \/ InsertAppend(t) \/ InsertCommit(t)
    \/ RemoveRead(t) \/ Delete(t)
    \/ EvictScan(t) \/ EvictDone(t)
    \/ CompactScan(t) \/ \E s \in Slabs : CompactCollect(t, s)
    \/ \E e \in th[t].live : MoveRead(t, e)
    \/ MoveAppend(t) \/ MoveCommit(t) \/ DropSlab(t) \/ UnlinkSlab(t)
    \/ ReadSlab(t) \/ Revalidate(t) \/ RetireExtern(t)

Txn(o) ==
    \/ Pin(o) \/ Unpin(o)
    \/ Hold(o) \/ DropHold(o) \/ EnsureSparse(o) \/ CommitExtern(o)

Next ==
    \/ \E t \in Threads : ThreadStep(t)
    \/ \E o \in Objs : Txn(o)
    \/ Crash \/ OpenIndex \/ Reconcile

Spec == Init /\ [][Next]_vars

-----------------------------------------------------------------------------
\* Every variable stays in its range: no reference count or dead count wraps.
TypeOK ==
    /\ rec \in [Objs -> Records]
    /\ meta \in [Slabs -> Metas]
    /\ file \in [Slabs -> Seq(Objs \cup {Junk})]
    /\ up \in {"down", "opening", "up"}
    /\ open \in [slab : Slabs, len : Nat]
    /\ lock \in Threads \cup {NoThread}
    /\ held \subseteq Objs
    /\ th \in [Threads -> Locals]
    /\ pinned \subseteq Objs
    /\ calls \in Nat /\ crashes \in Nat /\ losses \in Nat

\* Whenever nobody is appending, the open slab file ends exactly where the
\* index says and the next insert will record: also after a torn append and
\* after every crash.
OpenAligned ==
    up = "up" /\ lock = NoThread =>
        /\ Len(file[open.slab]) = open.len
        /\ meta[open.slab].there /\ ~meta[open.slab].sealed
        /\ meta[open.slab].len = open.len

\* A record of a slab object addresses its own bytes, or the end of a file
\* that lost synced bytes: never those of another object.
SlabAddressed ==
    \A o \in Objs :
        rec[o].kind = "slab" =>
            /\ Readable(rec[o].slab, rec[o].off) =>
                   file[rec[o].slab][rec[o].off + 1] = o
            /\ losses = 0 => Readable(rec[o].slab, rec[o].off)

\* What a reader finds at the place it looked up earlier is the object it asked
\* for, or nothing, however many compactions ran in between.
ReadsHonest ==
    \A t \in Threads :
        LET r == th[t].at IN
        th[t].pc \in {"read", "check"} /\ r.kind = "slab" /\ Readable(r.slab, r.off)
        => file[r.slab][r.off + 1] = th[t].obj

\* "Object ids and refcounts are preserved": the commit of a move brings no
\* object back, drops none and changes no reference count.
CompactionInvisible ==
    [][\A t \in Threads :
          th[t].pc = "move_commit" /\ th'[t].pc = "pick"
          => \A o \in Objs : /\ rec'[o].kind = rec[o].kind
                             /\ rec'[o].ref = rec[o].ref]_vars

\* "eviction never touches refcounted objects", nor a held one, nor a file of
\* the user's, whatever happened since it listed its candidates.
EvictionSpares ==
    [][\A t \in Threads, o \in Objs :
          /\ th[t].pc = "evict" /\ th'[t].pc = "evict" /\ th'[t] # th[t]
          /\ rec[o].ref > 0 \/ o \in held \/ rec[o].kind = "extern"
          => rec'[o] = rec[o]]_vars
=============================================================================
